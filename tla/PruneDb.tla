------------------------------ MODULE PruneDb ------------------------------
(***************************************************************************)
(* The prune_db command.  It takes down the ids of the old checkouts,      *)
(* builds and tests and of their children in temporary tables, one         *)
(* statement per table, and then deletes them batch by batch, the tests    *)
(* first.  Every statement commits on its own, beside the ingester and     *)
(* beside other runs of the command.                                       *)
(***************************************************************************)
EXTENDS Naturals, FiniteSets

CONSTANTS
    PruneCheckouts, PruneBuilds, PruneTests,
    Parent,          \* [PruneBuilds \union PruneTests -> checkouts and builds]
    OriginOf,        \* [rows -> origins]
    Runs,            \* the runs of the command that may overlap
    TableChoices,    \* values of --tables
    PruneBatch,      \* --batch-size
    MaxRuns,         \* bound on the runs started
    MaxNews          \* bound on the rows and incidents ingested meanwhile

PruneRows == PruneCheckouts \union PruneBuilds \union PruneTests

ASSUME PruneAssumption ==
    /\ PruneCheckouts \intersect PruneBuilds = {}
    /\ PruneTests \intersect (PruneCheckouts \union PruneBuilds) = {}
    /\ Parent \in [PruneBuilds \union PruneTests -> PruneRows]
    /\ \A b \in PruneBuilds : Parent[b] \in PruneCheckouts
    /\ \A t \in PruneTests : Parent[t] \in PruneBuilds
    /\ PruneRows = DOMAIN OriginOf
    /\ TableChoices \subseteq (SUBSET {"checkouts", "builds", "tests"}) \ {{}}
    /\ PruneBatch \in Nat \ {0} /\ MaxRuns \in Nat /\ MaxNews \in Nat

VARIABLES
    age,         \* row -> "old", "recent" or "gone"
    incidents,   \* the builds and tests an incident refers to
    run,         \* run -> its options, its program point and its temporary tables
    started, news,
    atStart      \* history of the last run: its tables, the rows it found and
                 \* still are those, the protected ones, and whether no news
                 \* came while it took down the ids

pruneVars == <<age, incidents, run, started, news, atStart>>

-----------------------------------------------------------------------------
PRUNABLE_TABLES == {"checkouts", "builds", "tests"}
RowsOf(table) == CASE table = "checkouts" -> PruneCheckouts
                   [] table = "builds" -> PruneBuilds
                   [] table = "tests" -> PruneTests
Present == {x \in PruneRows : age[x] # "gone"}
Origins == {OriginOf[x] : x \in PruneRows}

NotRunning == [at |-> "idle", tables |-> {}, origins |-> {}, protect |-> TRUE, doomed |-> {}]

PruneInit ==
    /\ age \in [PruneRows -> {"old", "recent"}]
    /\ incidents \in SUBSET (PruneBuilds \union PruneTests)
    /\ run = [r \in Runs |-> NotRunning]
    /\ started = 0
    /\ news = 0
    /\ atStart = [tables |-> {}, rows |-> {}, kept |-> {}, quiet |-> TRUE]

(* A row an incident refers to, or above one. *)
ChildrenOf(x) == {y \in (PruneBuilds \union PruneTests) \intersect Present : Parent[y] = x}
WithIncident(x) ==
    \/ x \in incidents
    \/ \E y \in ChildrenOf(x) : y \in incidents \/ ChildrenOf(y) \intersect incidents # {}

TakingIds == \E r \in Runs : run[r].at \in PRUNABLE_TABLES

(* The ingester adds a row, or updates one: its _timestamp is recent.      *)
RowArrives(x) ==
    /\ news < MaxNews
    /\ news' = news + 1
    /\ age[x] # "recent"
    /\ age' = [age EXCEPT ![x] = "recent"]
    /\ atStart' = [atStart EXCEPT !.rows = IF age[x] = "gone" THEN @ \ {x} ELSE @,
                                  !.quiet = @ /\ ~TakingIds]
    /\ UNCHANGED <<incidents, run, started>>

IncidentArrives(x) ==
    /\ news < MaxNews
    /\ news' = news + 1
    /\ x \in (PruneBuilds \union PruneTests) \ incidents
    /\ incidents' = incidents \union {x}
    /\ atStart' = [atStart EXCEPT !.quiet = @ /\ ~TakingIds]
    /\ UNCHANGED <<age, run, started>>

-----------------------------------------------------------------------------
(* _build_where_clauses.  A row is doomed by its age (and origin) or with  *)
(* its parent, unless it or a descendant has an incident.                  *)
IncidentBuilds == {b \in PruneBuilds : \/ b \in incidents
                                       \/ \E t \in PruneTests \intersect Present :
                                            Parent[t] = b /\ t \in incidents}
IncidentCheckouts == {Parent[b] : b \in IncidentBuilds \intersect Present}

KeptWithoutAncestors == incidents
Kept == IncidentBuilds \union IncidentCheckouts \union (PruneTests \intersect incidents)
AgedOut(o) == {x \in Present : age[x] = "old" /\ (o.origins = {} \/ OriginOf[x] \in o.origins)}

(* "cascade" is what comes with a doomed row of the parent table, which is *)
(* only considered if that table is selected.                              *)
Doomed(o, table, cascade) ==
    {x \in RowsOf(table) \intersect Present :
        /\ x \in AgedOut(o) \/ x \in cascade
        /\ o.protect => x \notin Kept}

ChildrenIgnored(o, table, doomed) == {}
Children(o, table, doomed) ==
    IF table \in o.tables
    THEN {x \in PruneBuilds \union PruneTests : Parent[x] \in doomed} ELSE {}

DoomedIn(o, table) ==
    LET checkouts == Doomed(o, "checkouts", {})
        builds == Doomed(o, "builds", Children(o, "checkouts", checkouts))
        tests == Doomed(o, "tests", Children(o, "builds", builds))
    IN  CASE table = "checkouts" -> checkouts
          [] table = "builds" -> builds
          [] table = "tests" -> tests

(* Parent before child to take the ids, child before parent to delete.     *)
Down(table) == CASE table = "checkouts" -> "builds" [] table = "builds" -> "tests"
                 [] table = "tests" -> "ask"
Up(table) == CASE table = "delete tests" -> "delete builds"
               [] table = "delete builds" -> "delete checkouts"
               [] table = "delete checkouts" -> "idle"

Becomes(r, new) == run' = [run EXCEPT ![r] = IF new.at = "idle" THEN NotRunning ELSE new]

PruneStarts(r) ==
    /\ run[r].at = "idle"
    /\ started < MaxRuns
    /\ started' = started + 1
    /\ \E tables \in TableChoices,
          origins \in {{}} \union {{o} : o \in Origins}, protect \in BOOLEAN :
         Becomes(r, [at |-> "checkouts", tables |-> tables, origins |-> origins,
                     protect |-> protect, doomed |-> {}])
    /\ atStart' = [tables |-> run'[r].tables, rows |-> Present, 
                   kept |-> {x \in Present : WithIncident(x)}, quiet |-> TRUE]
    /\ UNCHANGED <<age, incidents, news>>

Materialize(r) ==
    /\ run[r].at \in PRUNABLE_TABLES
    /\ LET o == run[r]
       IN  Becomes(r, [o EXCEPT !.at = Down(o.at),
                                !.doomed = IF o.at \in o.tables
                                           THEN @ \union DoomedIn(o, o.at) ELSE @])
    /\ UNCHANGED <<age, incidents, started, news, atStart>>

(* Nothing to prune, or the prompt is not answered with yes.               *)
Answer(r) ==
    /\ run[r].at = "ask"
    /\ \E yes \in BOOLEAN :
         Becomes(r, [run[r] EXCEPT !.at = IF yes /\ run[r].doomed # {}
                                          THEN "delete tests" ELSE "idle"])
    /\ UNCHANGED <<age, incidents, started, news, atStart>>

Batches(S) == {B \in SUBSET S : Cardinality(B) = PruneBatch} \union
              (IF Cardinality(S) < PruneBatch THEN {S} ELSE {})

TableAt(at) == CASE at = "delete tests" -> "tests" [] at = "delete builds" -> "builds"
                 [] at = "delete checkouts" -> "checkouts"

(* _batch_delete: a batch leaves the temporary table and, if it is still   *)
(* there, the real one.  A batch that deletes nothing ends the table.      *)
DeleteBatch(r) ==
    /\ run[r].at \in {"delete tests", "delete builds", "delete checkouts"}
    /\ LET o == run[r]
       IN  \E batch \in Batches(o.doomed \intersect RowsOf(TableAt(o.at))) :
             /\ age' = [x \in PruneRows |-> IF x \in batch THEN "gone" ELSE age[x]]
             /\ Becomes(r, [o EXCEPT !.doomed = @ \ batch,
                                     !.at = IF batch \intersect Present = {}
                                            THEN Up(o.at) ELSE o.at])
    /\ UNCHANGED <<incidents, started, news, atStart>>

(* Killed, or an error: what was deleted stays deleted.                    *)
PruneStops(r) ==
    /\ run[r].at # "idle"
    /\ Becomes(r, NotRunning)
    /\ UNCHANGED <<age, incidents, started, news, atStart>>

PruneNext ==
    \/ \E x \in PruneRows : RowArrives(x) \/ IncidentArrives(x)
    \/ \E r \in Runs : \/ PruneStarts(r) \/ Materialize(r) \/ Answer(r)
                       \/ DeleteBatch(r) \/ PruneStops(r)

PruneSpec == PruneInit /\ [][PruneNext]_pruneVars

-----------------------------------------------------------------------------
(* Properties.                                                             *)

(* Every variable holds a value of its type; what a run has still to       *)
(* delete is of the tables it was given, and of those it has not finished. *)
PruneTypeOK ==
    /\ age \in [PruneRows -> {"old", "recent", "gone"}]
    /\ incidents \subseteq PruneBuilds \union PruneTests
    /\ \A r \in Runs :
         /\ run[r].at \in PRUNABLE_TABLES \union {"idle", "ask", "delete tests",
                                                 "delete builds", "delete checkouts"}
         /\ run[r].tables \subseteq PRUNABLE_TABLES
         /\ run[r].protect \in BOOLEAN
         /\ run[r].doomed \subseteq UNION {RowsOf(table) : table \in run[r].tables}
    /\ started \in 0..MaxRuns
    /\ news \in 0..MaxNews
    /\ atStart.rows \subseteq PruneRows

(* A build or test that an incident referred to when a run began, and the  *)
(* build and checkout above it, are there as long as the run lasts, unless *)
(* it was told otherwise (--skip-issue-protection).                        *)
ProtectedStay ==
    \A r \in Runs : run[r].at # "idle" /\ run[r].protect => atStart.kept \subseteq Present

(* Nothing is orphaned: when a run selects the tables below each one it    *)
(* selects, a row it found keeps its parent as long as it is there itself, *)
(* at every point where the run may be killed, and after it.  The ids must *)
(* have been taken down in peace: the three statements that take them see  *)
(* three states of the database.                                           *)
Cascading == \A table \in atStart.tables \ {"tests"} : Down(table) \in atStart.tables
NoOrphans ==
    Cascading /\ atStart.quiet =>
        \A x \in (PruneBuilds \union PruneTests) \intersect atStart.rows \intersect Present :
            Parent[x] \in atStart.rows => Parent[x] \in Present
=============================================================================
