-------------------------- MODULE MaintenanceProofs --------------------------
(***************************************************************************)
(* Theorems about the maintenance commands: the copy of a database         *)
(* (UpdateDb) and the pruning (PruneDb), then all four side by side, with  *)
(* what TestsRollupProofs and ListingCleanupProofs say of the other two.   *)
(***************************************************************************)
EXTENDS Maintenance, TestsRollupProofs, ListingCleanupProofs

-----------------------------------------------------------------------------
(* The copy of a database.                                                 *)

(* The first tables of a restore.                                          *)
First(n) == {RestoreOrder[m] : m \in 1..n}

(* After the command has restored up to n tables, once or several times,   *)
(* the database holds what it had and what the archive has of them.        *)
RestoredTo(n) ==
    \A x \in UpdRows : Has(x) <=> x \in TargetHas \/ (x \in Archived /\ TableOfRow[x] \in First(n))

Furthest == \E n \in 0..9 : restored <= n /\ RestoredTo(n)

TargetUnchanged == \A x \in TargetHas : database[x] = AsStored(x)

UpdInvariant ==
    /\ UpdTypeOK
    /\ doing = "snapshot" => restored = 0 /\ RestoredTo(0)
    /\ doing = "done" => restored = 9
    /\ Furthest
    /\ TargetUnchanged

-----------------------------------------------------------------------------
LEMMA Nine == Len(SnapshotOrder) = 9 /\ Len(RestoreOrder) = 9
BY DEF SnapshotOrder, RestoreOrder

LEMMA AllRestored == First(9) = Tables /\ First(0) = {}
<1>1. First(9) = Tables
  <2>1. 1..9 = {1, 2, 3, 4, 5, 6, 7, 8, 9}
    OBVIOUS
  <2> QED BY <2>1 DEF First, Tables, RestoreOrder
<1>2. First(0) = {}
  BY DEF First
<1> QED
  BY <1>1, <1>2

(* The restore does the tables a row refers to before the row's own.       *)
LEMMA ParentsFirst ==
    ASSUME NEW n \in 0..9, NEW table \in First(n), NEW parent \in References[table]
    PROVE  parent \in First(n)
<1>1. PICK m \in 1..n : table = RestoreOrder[m]
  BY DEF First
<1>2. m \in {1, 2, 3, 4, 5, 6, 7, 8, 9}
  OBVIOUS
<1>3. \E l \in 1..m : parent = RestoreOrder[l]
  BY <1>1, <1>2 DEF RestoreOrder, References, Tables
<1> QED
  BY <1>3 DEF First

LEMMA Forms == \A x : AsStored(x) \in {"null text", "other null"}
                      /\ ThroughCsv(AsStored(x)) \in {"empty text", "other null"}
BY DEF AsStored, ThroughCsv

-----------------------------------------------------------------------------
LEMMA InitUpdInvariant == UpdInit => UpdInvariant
<1> SUFFICES ASSUME UpdInit PROVE UpdInvariant
  OBVIOUS
<1>1. UpdTypeOK
  <2>1. database \in [UpdRows -> {"none", "null text", "empty text", "other null"}]
    BY Forms DEF UpdInit
  <2>2. live \subseteq UpdRows /\ options \in EveryOption /\ DOMAIN archive = {}
    BY UpdateAssumption DEF UpdInit
  <2>3. taken \in 0..9 /\ restored \in 0..9 /\ arrivals \in 0..MaxArrivals
        /\ crashes \in 0..MaxCrashes /\ doing = "snapshot"
    BY UpdateAssumption DEF UpdInit
  <2> QED BY <2>1, <2>2, <2>3, Nine DEF UpdTypeOK
<1>2. RestoredTo(0) /\ TargetUnchanged
  BY UpdateAssumption, AllRestored, Forms DEF UpdInit, RestoredTo, Has, TargetUnchanged
<1> QED
  BY <1>1, <1>2 DEF UpdInit, UpdInvariant, Furthest

(* What has been restored is a matter of the two databases only.           *)
LEMMA RestoredSame ==
    ASSUME UNCHANGED <<archive, database>>, restored' \in {0, restored}, UpdTypeOK
    PROVE  /\ TargetUnchanged => TargetUnchanged'
           /\ RestoredTo(0) => RestoredTo(0)'
           /\ Furthest => Furthest'
<1>1. Archived' = Archived /\ \A x \in UpdRows : Has(x)' = Has(x)
  BY DEF Archived, Has
<1>2. ASSUME NEW n, RestoredTo(n) PROVE RestoredTo(n)'
  BY <1>1, <1>2 DEF RestoredTo
<1>3. \A n \in 0..9 : restored <= n => restored' <= n
  <2>1. restored \in 0..9
    BY Nine DEF UpdTypeOK
  <2> QED BY <2>1
<1>4. TargetUnchanged => TargetUnchanged'
  BY DEF TargetUnchanged
<1> QED
  BY <1>2, <1>3, <1>4 DEF Furthest

(* The source and its snapshot leave the database alone.                   *)
LEMMA SelectedRows ==
    ASSUME UpdTypeOK, NEW table \in Tables
    PROVE  Selected(table) \subseteq RowsOfTable(live, table)
BY DEF Selected, SelectIssues, SelectCheckouts, SelectBuilds, SelectTests, SelectIncidents,
       SelectLatestCheckout, SelectHardwareStatus, SelectTreeListing, SelectTreeTestsRollup,
       Timely, Started, Wanted, RowsOfTable, Tables

LEMMA SnapshotStep ==
    ASSUME UpdInvariant, (\E x \in UpdRows : RowIngested(x)) \/ SnapshotTable \/ SnapshotCloses
    PROVE  UpdInvariant'
<1>1. CASE \E x \in UpdRows : RowIngested(x)
  <2>1. PICK x \in UpdRows : RowIngested(x)
    BY <1>1
  <2>2. /\ live' = live \union {x} /\ arrivals' = arrivals + 1 /\ arrivals < MaxArrivals
        /\ UNCHANGED <<options, taken, archive, database, restored, doing, crashes>>
    BY <2>1 DEF RowIngested
  <2>3. MaxArrivals \in Nat
    BY UpdateAssumption
  <2>4. arrivals' \in 0..MaxArrivals /\ live' \subseteq UpdRows
    <3>1. arrivals \in 0..MaxArrivals /\ live \subseteq UpdRows
      BY DEF UpdInvariant, UpdTypeOK
    <3> QED BY <2>2, <2>3, <3>1
  <2>5. \A table \in DOMAIN archive : archive[table] \subseteq RowsOfTable(live', table)
    BY <2>2 DEF UpdInvariant, UpdTypeOK, RowsOfTable
  <2>6. UpdTypeOK'
    BY <2>2, <2>4, <2>5 DEF UpdInvariant, UpdTypeOK
  <2> QED BY <2>2, <2>6, RestoredSame DEF UpdInvariant
<1>2. CASE SnapshotTable
  <2> DEFINE new == {SnapshotOrder[taken']} \intersect
                      (IF options.table = "all" THEN Tables ELSE {options.table})
  <2>1. /\ doing = "snapshot" /\ taken < 9 /\ taken' = taken + 1
        /\ archive' = [table \in DOMAIN archive \union new |->
                         IF table \in DOMAIN archive THEN archive[table] ELSE Selected(table)]
        /\ UNCHANGED <<live, options, database, restored, doing, arrivals, crashes>>
    BY <1>2, Nine DEF SnapshotTable
  <2>2. new \subseteq Tables
    BY DEF UpdInvariant, UpdTypeOK, EveryOption, Tables
  <2> HIDE DEF new
  <2>3. UpdTypeOK'
    <3>1. /\ DOMAIN archive' \subseteq Tables
          /\ \A table \in DOMAIN archive' : archive'[table] \subseteq RowsOfTable(live', table)
      BY <2>1, <2>2, SelectedRows DEF UpdInvariant, UpdTypeOK
    <3>2. taken \in 0..9
      BY Nine DEF UpdInvariant, UpdTypeOK
    <3>3. taken' \in 0..Len(SnapshotOrder)
      BY <2>1, <3>2, Nine
    <3> QED BY <2>1, <3>1, <3>3 DEF UpdInvariant, UpdTypeOK
  <2>4. restored = 0 /\ RestoredTo(0)'
    BY <2>1, AllRestored DEF UpdInvariant, RestoredTo, Has
  <2> QED BY <2>1, <2>3, <2>4 DEF UpdInvariant, Furthest, TargetUnchanged
<1>3. CASE SnapshotCloses
  <2>1. UpdTypeOK' /\ doing' = "archived" /\ UNCHANGED <<archive, database, restored>>
    BY <1>3 DEF SnapshotCloses, UpdInvariant, UpdTypeOK
  <2> QED BY <2>1, RestoredSame DEF UpdInvariant
<1> QED
  BY <1>1, <1>2, <1>3

LEMMA RestartStep ==
    ASSUME UpdInvariant, RestoreStarts \/ RestoreCrashes
    PROVE  UpdInvariant'
<1>1. UpdTypeOK'
  <2>1. 0 \in 0..Len(RestoreOrder)
    BY Nine
  <2>2. CASE RestoreStarts
    BY <2>1, <2>2 DEF RestoreStarts, UpdInvariant, UpdTypeOK
  <2>3. CASE RestoreCrashes
    <3>1. MaxCrashes \in Nat
      BY UpdateAssumption
    <3>2. crashes' \in 0..MaxCrashes
      <4>1. crashes \in 0..MaxCrashes
        BY DEF UpdInvariant, UpdTypeOK
      <4>2. crashes < MaxCrashes /\ crashes' = crashes + 1
        BY <2>3 DEF RestoreCrashes
      <4> QED BY <3>1, <4>1, <4>2
    <3> QED BY <2>3, <3>2 DEF RestoreCrashes, UpdInvariant, UpdTypeOK
  <2> QED BY <2>2, <2>3
<1>2. /\ doing' \in {"restore", "crashed"} /\ restored' \in {0, restored}
      /\ UNCHANGED <<archive, database>>
  BY DEF RestoreStarts, RestoreCrashes
<1> QED
  BY <1>1, <1>2, RestoredSame DEF UpdInvariant

(* A table more, or one of those that were done before.                    *)
LEMMA TableStep ==
    ASSUME UpdInvariant, RestoreTable
    PROVE  UpdInvariant'
<1> DEFINE table == RestoreOrder[restored + 1]
<1>1. /\ doing = "restore" /\ restored < 9 /\ restored \in 0..9
      /\ UNCHANGED <<live, options, taken, archive, arrivals, crashes>>
  BY Nine DEF RestoreTable, UpdInvariant, UpdTypeOK
<1>2. CASE table \notin DOMAIN archive
  <2>1. doing' = "failed" /\ UNCHANGED <<database, restored>>
    BY <1>2 DEF RestoreTable
  <2>2. UpdTypeOK'
    BY <1>1, <2>1 DEF UpdInvariant, UpdTypeOK
  <2>3. Furthest' /\ TargetUnchanged'
    BY <1>1, <2>1, RestoredSame DEF UpdInvariant
  <2> QED BY <2>1, <2>2, <2>3 DEF UpdInvariant
<1>3. CASE table \in DOMAIN archive
  <2>1. /\ database' = [x \in UpdRows |-> IF x \in archive[table] THEN Insert(x, database[x])
                                                                  ELSE database[x]]
        /\ restored' = restored + 1
        /\ doing' = IF restored' = 9 THEN "done" ELSE "restore"
    BY <1>3, Nine DEF RestoreTable
  <2>2. /\ database \in [UpdRows -> {"none", "null text", "empty text", "other null"}]
        /\ archive[table] \subseteq RowsOfTable(live, table) /\ live \subseteq UpdRows
    BY <1>3 DEF UpdInvariant, UpdTypeOK
  <2>3. \A x \in UpdRows : Has(x)' <=> Has(x) \/ x \in archive[table]
    BY <2>1, <2>2, Forms DEF Has, Insert
  <2>4. \A x \in UpdRows : x \in archive[table] <=> x \in Archived /\ TableOfRow[x] = table
    <3>1. \A other \in DOMAIN archive : \A x \in archive[other] : TableOfRow[x] = other
      BY DEF UpdInvariant, UpdTypeOK, RowsOfTable
    <3> QED BY <1>3, <3>1 DEF Archived
  <2>5. Furthest'
    <3>1. PICK n \in 0..9 : restored <= n /\ RestoredTo(n)
      BY DEF UpdInvariant, Furthest
    <3>2. \E far \in 0..9 : restored' <= far /\ First(far) = First(n) \union {table}
      <4>1. CASE n > restored
        <5>1. table \in First(n) /\ restored' <= n
          BY <1>1, <2>1, <4>1 DEF First
        <5> QED BY <5>1
      <4>2. CASE n = restored
        <5>1. 1..(restored + 1) = (1..restored) \union {restored + 1}
          BY <1>1
        <5>2. First(restored + 1) = First(n) \union {table}
          BY <4>2, <5>1 DEF First
        <5> QED BY <1>1, <2>1, <5>2
      <4> QED BY <1>1, <3>1, <4>1, <4>2
    <3>3. PICK far \in 0..9 : restored' <= far /\ First(far) = First(n) \union {table}
      BY <3>2
    <3> HIDE DEF table
    <3>4. Archived' = Archived
      BY <1>1 DEF Archived
    <3>5. RestoredTo(far)'
      BY <2>3, <2>4, <3>1, <3>3, <3>4 DEF RestoredTo
    <3> QED BY <3>3, <3>5 DEF Furthest
  <2>6. TargetUnchanged'
    BY <2>1, UpdateAssumption, Forms DEF UpdInvariant, TargetUnchanged, Insert
  <2>7. UpdTypeOK'
    <3>1. database' \in [UpdRows -> {"none", "null text", "empty text", "other null"}]
      BY <2>1, <2>2, Forms DEF Insert
    <3> HIDE DEF table
    <3>2. restored' \in 0..Len(RestoreOrder) /\ doing' \in {"restore", "done"}
      BY <1>1, <2>1, Nine
    <3> QED BY <1>1, <3>1, <3>2 DEF UpdInvariant, UpdTypeOK
  <2> QED BY <2>1, <2>5, <2>6, <2>7 DEF UpdInvariant
<1> QED
  BY <1>2, <1>3

LEMMA NextUpdInvariant == UpdInvariant /\ [UpdNext]_updVars => UpdInvariant'
<1> SUFFICES ASSUME UpdInvariant, [UpdNext]_updVars
             PROVE  UpdInvariant'
  OBVIOUS
<1>1. CASE UNCHANGED updVars
  <2>1. UNCHANGED <<archive, database, restored, doing>> /\ UpdTypeOK'
    BY <1>1 DEF updVars, UpdInvariant, UpdTypeOK
  <2> QED BY <2>1, RestoredSame DEF UpdInvariant
<1>2. CASE UpdNext
  BY <1>2, SnapshotStep, RestartStep, TableStep DEF UpdNext
<1> QED
  BY <1>1, <1>2

(* Killed and run again anywhere, a restore has put in the first tables of *)
(* the archive, in order, and nothing else (update_db restore).            *)
THEOREM UpdInvariantAlways == UpdSpec => []UpdInvariant
BY InitUpdInvariant, NextUpdInvariant, PTL DEF UpdSpec

LEMMA ReferencesAreKept == UpdInvariant => ReferencesKept
<1> SUFFICES ASSUME UpdInvariant, Closed(Archived \union TargetHas), Closed(TargetHas),
                    NEW x \in UpdRows, Has(x), NEW y \in Refers[x]
             PROVE  y \in UpdRows /\ Has(y)
  BY DEF ReferencesKept, Closed
<1>1. y \in UpdRows /\ TableOfRow[y] \in References[TableOfRow[x]]
  BY UpdateAssumption
<1>2. PICK n \in 0..9 : RestoredTo(n)
  BY DEF UpdInvariant, Furthest
<1>3. CASE x \in TargetHas
  BY <1>1, <1>2, <1>3 DEF Closed, RestoredTo
<1>4. CASE x \in Archived /\ TableOfRow[x] \in First(n)
  <2>1. TableOfRow[y] \in First(n)
    BY <1>1, <1>4, ParentsFirst
  <2>2. y \in Archived \/ y \in TargetHas
    BY <1>4 DEF Closed
  <2> QED BY <1>1, <1>2, <2>1, <2>2 DEF RestoredTo
<1> QED BY <1>2, <1>3, <1>4 DEF RestoredTo

(* A restore never leaves a row without the rows it refers to, whatever it *)
(* was given and wherever it stops, as long as they are there to restore.  *)
THEOREM ReferencesKeptAlways == UpdSpec => []ReferencesKept
BY ReferencesAreKept, UpdInvariantAlways, PTL

LEMMA RestoreOnlyAdds == UpdInvariant => RestoreAddsOnly
<1> SUFFICES ASSUME UpdInvariant, doing = "done", NEW x \in Archived
             PROVE  Has(x)
  BY DEF RestoreAddsOnly, UpdInvariant, TargetUnchanged
<1>1. x \in UpdRows /\ TableOfRow[x] \in Tables
  <2>1. TableOfRow \in [UpdRows -> Tables]
    BY UpdateAssumption
  <2>2. x \in UpdRows
    <3>1. PICK table \in DOMAIN archive : x \in archive[table]
      BY DEF Archived
    <3>2. live \subseteq UpdRows /\ archive[table] \subseteq RowsOfTable(live, table)
      BY DEF UpdInvariant, UpdTypeOK
    <3> QED BY <3>1, <3>2 DEF RowsOfTable
  <2> QED BY <2>1, <2>2
<1>2. PICK n \in 0..9 : 9 <= n /\ RestoredTo(n)
  BY DEF UpdInvariant, Furthest
<1>3. TableOfRow[x] \in First(n)
  BY <1>1, <1>2, AllRestored
<1> QED BY <1>1, <1>2, <1>3 DEF RestoredTo

(* What a restore that ends has put there, and what it has left alone.     *)
THEOREM RestoreAddsOnlyAlways == UpdSpec => []RestoreAddsOnly
BY RestoreOnlyAdds, UpdInvariantAlways, PTL

-----------------------------------------------------------------------------
(* The pruning.                                                            *)

Deleting == {"delete tests", "delete builds", "delete checkouts"}
RunState == [at : PRUNABLE_TABLES \union Deleting \union {"idle", "ask"},
             tables : SUBSET PRUNABLE_TABLES, origins : SUBSET Origins,
             protect : BOOLEAN, doomed : SUBSET PruneRows]
StartRecord == [tables : SUBSET PRUNABLE_TABLES, rows : SUBSET PruneRows,
                kept : SUBSET PruneRows, quiet : BOOLEAN]

PruneTypes ==
    /\ age \in [PruneRows -> {"old", "recent", "gone"}]
    /\ incidents \subseteq PruneBuilds \union PruneTests
    /\ run \in [Runs -> RunState]
    /\ atStart \in StartRecord

(* What is protected stays so by itself: the row below, down to the one    *)
(* with the incident, is protected with it.                                *)
Above(S, x) == {y \in S \intersect (PruneBuilds \union PruneTests) : Parent[y] = x}
Anchored(S) ==
    \A x \in S : \/ x \in incidents
                 \/ \E y \in Above(S, x) : y \in incidents \/ \E z \in Above(S, y) : z \in incidents

(* A run that protects has no protected row on its list, and none is gone. *)
Protected ==
    \A r \in Runs : run[r].at # "idle" /\ run[r].protect =>
        /\ atStart.kept \subseteq Present
        /\ Anchored(atStart.kept)
        /\ \A x \in atStart.kept : x \notin run[r].doomed

PruneInvariant == PruneTypes /\ Protected

-----------------------------------------------------------------------------
(* The rows that are taken out of a list are those with an incident on or  *)
(* below them (_build_where_clauses).                                      *)
LEMMA AnchoredAreKept ==
    ASSUME PruneTypes, NEW S \in SUBSET Present, Anchored(S), NEW x \in S
    PROVE  x \in Kept
<1>1. /\ PruneCheckouts \intersect PruneBuilds = {}
      /\ PruneTests \intersect (PruneCheckouts \union PruneBuilds) = {}
      /\ \A b \in PruneBuilds : Parent[b] \in PruneCheckouts
      /\ \A t \in PruneTests : Parent[t] \in PruneBuilds
  BY PruneAssumption
<1>2. Present \subseteq PruneRows /\ incidents \subseteq PruneBuilds \union PruneTests
  BY DEF Present, PruneTypes
<1>3. \A b \in PruneBuilds, t \in PruneTests :
        t \in Present /\ t \in incidents /\ Parent[t] = b => b \in IncidentBuilds
  BY DEF IncidentBuilds
<1>4. \A b \in PruneBuilds : b \in incidents => b \in IncidentBuilds
  BY DEF IncidentBuilds
<1>5. \A b \in IncidentBuilds : b \in Present => Parent[b] \in IncidentCheckouts
  BY DEF IncidentCheckouts
<1>6. CASE x \in PruneTests
  <2>1. Above(S, x) = {}
    BY <1>1, <1>6 DEF Above
  <2> QED BY <1>6, <2>1 DEF Anchored, Kept
<1>7. CASE x \in PruneBuilds
  <2>1. \A y \in Above(S, x) : y \in PruneTests /\ y \in Present /\ Parent[y] = x
    BY <1>1, <1>7 DEF Above
  <2>2. \A y \in Above(S, x) : Above(S, y) = {}
    BY <1>1, <2>1 DEF Above
  <2>3. x \in IncidentBuilds
    BY <1>3, <1>4, <1>7, <2>1, <2>2 DEF Anchored
  <2> QED BY <2>3 DEF Kept
<1>8. CASE x \in PruneCheckouts
  <2>1. x \notin incidents
    BY <1>1, <1>2, <1>8
  <2>2. PICK y \in Above(S, x) : y \in incidents \/ \E z \in Above(S, y) : z \in incidents
    BY <2>1 DEF Anchored
  <2>3. y \in PruneBuilds /\ y \in Present /\ Parent[y] = x
    BY <1>1, <1>8, <2>2 DEF Above
  <2>4. \A z \in Above(S, y) : z \in PruneTests /\ z \in Present /\ Parent[z] = y
    BY <1>1, <2>3 DEF Above
  <2>5. y \in IncidentBuilds
    BY <1>3, <1>4, <2>2, <2>3, <2>4
  <2> QED BY <1>5, <2>3, <2>5 DEF Kept
<1> QED
  BY <1>2, <1>6, <1>7, <1>8 DEF PruneRows

LEMMA DoomedFacts ==
    ASSUME NEW o, NEW table \in PRUNABLE_TABLES
    PROVE  /\ DoomedIn(o, table) \subseteq PruneRows
           /\ o.protect => \A x \in DoomedIn(o, table) : x \notin Kept
<1>1. \A S, cascade : /\ Doomed(o, S, cascade) \subseteq PruneRows
                      /\ o.protect => \A x \in Doomed(o, S, cascade) : x \notin Kept
  BY DEF Doomed, Present
<1>2. table \in {"checkouts", "builds", "tests"}
  BY DEF PRUNABLE_TABLES
<1>3. \E S, cascade : DoomedIn(o, table) = Doomed(o, S, cascade)
  BY <1>2 DEF DoomedIn
<1> QED
  BY <1>1, <1>3

LEMMA StatesFacts ==
    /\ NotRunning \in RunState /\ NotRunning.at = "idle"
    /\ \A at \in PRUNABLE_TABLES : Down(at) \in {"builds", "tests", "ask"}
    /\ \A at \in Deleting : Up(at) \in Deleting \union {"idle"}
BY DEF NotRunning, RunState, PRUNABLE_TABLES, Deleting, Down, Up

-----------------------------------------------------------------------------
LEMMA InitPruneInvariant == PruneInit => PruneInvariant
<1> SUFFICES ASSUME PruneInit PROVE PruneInvariant
  OBVIOUS
<1>1. PruneTypes
  BY StatesFacts DEF PruneInit, PruneTypes, StartRecord
<1>2. \A r \in Runs : run[r].at = "idle"
  BY StatesFacts DEF PruneInit
<1> QED
  BY <1>1, <1>2 DEF PruneInvariant, Protected

(* What arrives adds to what is present and to what has an incident.       *)
LEMMA ArrivalStep ==
    ASSUME PruneInvariant, NEW x \in PruneRows, RowArrives(x) \/ IncidentArrives(x)
    PROVE  PruneInvariant'
<1>1. /\ PruneTypes'
      /\ run' = run /\ atStart'.kept = atStart.kept /\ incidents \subseteq incidents'
  <2>1. CASE RowArrives(x)
    BY <2>1 DEF RowArrives, PruneInvariant, PruneTypes, StartRecord
  <2>2. CASE IncidentArrives(x)
    BY <2>2 DEF IncidentArrives, PruneInvariant, PruneTypes, StartRecord
  <2> QED BY <2>1, <2>2
<1>2. Present \subseteq Present'
  BY DEF RowArrives, IncidentArrives, Present, PruneInvariant, PruneTypes
<1>3. Anchored(atStart.kept) => Anchored(atStart.kept)'
  BY <1>1 DEF Anchored, Above
<1> QED
  BY <1>1, <1>2, <1>3 DEF PruneInvariant, Protected

(* The command.  There is one run: another that does not protect would     *)
(* delete what this one keeps.                                             *)
LEMMA BecomesFacts ==
    ASSUME PruneTypes, NEW r \in Runs, \A s \in Runs : s = r, NEW new, Becomes(r, new),
           new.at = "idle" \/ new \in RunState
    PROVE  /\ run' \in [Runs -> RunState]
           /\ \A s \in Runs : run'[s].at # "idle" => run'[s] = new
BY StatesFacts DEF Becomes, PruneTypes

LEMMA StartsStep ==
    ASSUME PruneInvariant, NEW r \in Runs, \A s \in Runs : s = r, PruneStarts(r)
    PROVE  PruneInvariant'
<1>1. PICK tables \in TableChoices, origins \in {{}} \union {{o} : o \in Origins},
           protect \in BOOLEAN :
        Becomes(r, [at |-> "checkouts", tables |-> tables, origins |-> origins,
                    protect |-> protect, doomed |-> {}])
  BY DEF PruneStarts
<1> DEFINE new == [at |-> "checkouts", tables |-> tables, origins |-> origins,
                   protect |-> protect, doomed |-> {}]
           kept == {x \in Present : WithIncident(x)}
<1>2. tables \subseteq PRUNABLE_TABLES
  BY PruneAssumption DEF PRUNABLE_TABLES
<1>3. new \in RunState /\ new.doomed = {} /\ new.tables = tables
  BY <1>2 DEF RunState, PRUNABLE_TABLES
<1>4. PruneTypes /\ Becomes(r, new)
  BY <1>1 DEF PruneInvariant
<1> HIDE DEF new
<1>5. /\ run' \in [Runs -> RunState]
      /\ \A s \in Runs : run'[s].at # "idle" => run'[s] = new
  BY <1>3, <1>4, BecomesFacts
<1>6. /\ atStart' = [tables |-> run'[r].tables, rows |-> Present, kept |-> kept, quiet |-> TRUE]
      /\ UNCHANGED <<age, incidents>>
  BY DEF PruneStarts
<1>7. run'[r].tables \subseteq PRUNABLE_TABLES
  BY <1>5 DEF RunState
<1>8. PruneTypes'
  BY <1>4, <1>5, <1>6, <1>7 DEF PruneTypes, StartRecord, Present
<1>9. Anchored(kept)
  <2> SUFFICES ASSUME NEW x \in kept, x \notin incidents
               PROVE  \E y \in Above(kept, x) :
                        y \in incidents \/ \E z \in Above(kept, y) : z \in incidents
    BY DEF Anchored
  <2>1. PICK y \in ChildrenOf(x) : y \in incidents \/ ChildrenOf(y) \intersect incidents # {}
    BY DEF WithIncident
  <2>2. y \in Above(kept, x)
    BY <2>1 DEF Above, ChildrenOf, WithIncident
  <2>3. ASSUME NEW z \in ChildrenOf(y), z \in incidents
        PROVE  z \in Above(kept, y)
    BY <2>3 DEF Above, ChildrenOf, WithIncident
  <2> QED BY <2>1, <2>2, <2>3
<1>10. Present' = Present
  BY <1>6 DEF Present
<1> HIDE DEF kept
<1>11. atStart'.kept = kept /\ Anchored(atStart.kept)'
  BY <1>6, <1>9 DEF Anchored, Above
<1>12. kept \subseteq Present
  BY DEF kept
<1>13. Protected'
  BY <1>3, <1>5, <1>10, <1>11, <1>12 DEF Protected
<1> QED
  BY <1>8, <1>13 DEF PruneInvariant

(* A step of the run that does not add a protected row to its list, nor    *)
(* delete what is not on it.                                               *)
LEMMA RunStep ==
    ASSUME PruneInvariant, NEW r \in Runs, \A s \in Runs : s = r,
           NEW new, Becomes(r, new), new.at = "idle" \/ new \in RunState,
           run[r].at # "idle", UNCHANGED <<incidents, atStart>>,
           new.at # "idle" => /\ new.protect = run[r].protect
                              /\ new.protect /\ Protected =>
                                   \A x \in atStart.kept : x \notin new.doomed,
           age' \in [PruneRows -> {"old", "recent", "gone"}],
           \A x \in Present : x \notin run[r].doomed => x \in Present'
    PROVE  PruneInvariant'
<1>1. /\ run' \in [Runs -> RunState]
      /\ \A s \in Runs : run'[s].at # "idle" => run'[s] = new
  BY BecomesFacts DEF PruneInvariant
<1>2. PruneTypes'
  BY <1>1 DEF PruneInvariant, PruneTypes
<1>3. Anchored(atStart.kept) => Anchored(atStart.kept)'
  BY DEF Anchored, Above
<1>4. Protected'
  <2> SUFFICES ASSUME NEW s \in Runs, run'[s].at # "idle", run'[s].protect
               PROVE  /\ atStart.kept \subseteq Present'
                      /\ Anchored(atStart.kept)'
                      /\ \A x \in atStart.kept : x \notin run'[s].doomed
    BY DEF Protected
  <2>1. run'[s] = new /\ s = r
    BY <1>1
  <2>2. /\ atStart.kept \subseteq Present
        /\ Anchored(atStart.kept)
        /\ \A x \in atStart.kept : x \notin run[r].doomed
    BY <2>1 DEF PruneInvariant, Protected
  <2> QED BY <1>3, <2>1, <2>2 DEF PruneInvariant
<1> QED
  BY <1>2, <1>4 DEF PruneInvariant

LEMMA MaterializeStep ==
    ASSUME PruneInvariant, NEW r \in Runs, \A s \in Runs : s = r, Materialize(r)
    PROVE  PruneInvariant'
<1> DEFINE o == run[r]
           add == IF o.at \in o.tables THEN DoomedIn(o, o.at) ELSE {}
           new == [o EXCEPT !.at = Down(o.at), !.doomed = @ \union add]
<1>1. o \in RunState /\ o.at \in PRUNABLE_TABLES /\ o.at # "idle"
  BY DEF Materialize, PruneInvariant, PruneTypes, PRUNABLE_TABLES
<1>2. [o EXCEPT !.at = Down(o.at),
                !.doomed = IF o.at \in o.tables THEN @ \union DoomedIn(o, o.at) ELSE @] = new
  BY <1>1 DEF RunState
<1>3. Becomes(r, new)
  BY <1>2 DEF Materialize
<1>4. add \subseteq PruneRows /\ (o.protect => \A x \in add : x \notin Kept)
  BY <1>1, DoomedFacts
<1> HIDE DEF add, o
<1>5. new \in RunState /\ new.protect = o.protect /\ new.doomed = o.doomed \union add
  BY <1>1, <1>4, StatesFacts DEF RunState, PRUNABLE_TABLES
<1>6. ASSUME o.protect, Protected, NEW x \in atStart.kept
      PROVE  x \notin new.doomed
  <2>1. atStart.kept \subseteq Present /\ Anchored(atStart.kept) /\ x \notin o.doomed
    BY <1>1, <1>6 DEF Protected, o
  <2>2. x \in Kept
    BY <2>1, AnchoredAreKept DEF PruneInvariant
  <2> QED BY <1>4, <1>5, <1>6, <2>1, <2>2
<1>7. UNCHANGED <<age, incidents, atStart>> /\ Present' = Present
  BY DEF Materialize, Present
<1> HIDE DEF new
<1> QED
  BY <1>1, <1>3, <1>5, <1>6, <1>7, RunStep DEF o, PruneInvariant, PruneTypes

LEMMA AnswerStep ==
    ASSUME PruneInvariant, NEW r \in Runs, \A s \in Runs : s = r, Answer(r)
    PROVE  PruneInvariant'
<1>1. PICK yes \in BOOLEAN :
        Becomes(r, [run[r] EXCEPT !.at = IF yes /\ run[r].doomed # {}
                                         THEN "delete tests" ELSE "idle"])
  BY DEF Answer
<1> DEFINE next == IF yes /\ run[r].doomed # {} THEN "delete tests" ELSE "idle"
           new == [run[r] EXCEPT !.at = next]
<1>2. run[r] \in RunState /\ run[r].at # "idle"
  BY DEF Answer, PruneInvariant, PruneTypes
<1>3. next \in Deleting \union {"idle"}
  BY DEF Deleting
<1>4. Becomes(r, new)
  BY <1>1
<1> HIDE DEF next
<1>5. new \in RunState /\ new.protect = run[r].protect /\ new.doomed = run[r].doomed
  BY <1>2, <1>3 DEF RunState
<1>6. UNCHANGED <<age, incidents, atStart>> /\ Present' = Present
  BY DEF Answer, Present
<1>7. new.protect /\ Protected => \A x \in atStart.kept : x \notin new.doomed
  BY <1>2, <1>5 DEF Protected
<1> HIDE DEF new
<1> QED
  BY <1>2, <1>4, <1>5, <1>6, <1>7, RunStep DEF PruneInvariant, PruneTypes

LEMMA DeleteStep ==
    ASSUME PruneInvariant, NEW r \in Runs, \A s \in Runs : s = r, DeleteBatch(r)
    PROVE  PruneInvariant'
<1> DEFINE o == run[r]
<1>1. o \in RunState /\ o.at \in Deleting /\ o.at # "idle"
  BY DEF DeleteBatch, PruneInvariant, PruneTypes, Deleting
<1>2. PICK batch \in Batches(o.doomed \intersect RowsOf(TableAt(o.at))) :
        /\ age' = [x \in PruneRows |-> IF x \in batch THEN "gone" ELSE age[x]]
        /\ Becomes(r, [o EXCEPT !.doomed = @ \ batch,
                                !.at = IF batch \intersect Present = {} THEN Up(o.at) ELSE o.at])
  BY DEF DeleteBatch
<1> DEFINE next == IF batch \intersect Present = {} THEN Up(o.at) ELSE o.at
           new == [o EXCEPT !.doomed = @ \ batch, !.at = next]
<1>3. next \in Deleting \union {"idle"}
  BY <1>1, StatesFacts
<1>4. Becomes(r, new)
  BY <1>2
<1>5. batch \subseteq o.doomed
  BY DEF Batches
<1> HIDE DEF next
<1>6. new \in RunState /\ new.protect = o.protect /\ new.doomed = o.doomed \ batch
  BY <1>1, <1>3 DEF RunState
<1> HIDE DEF new
<1>7. age' \in [PruneRows -> {"old", "recent", "gone"}] /\ UNCHANGED <<incidents, atStart>>
  BY <1>2 DEF DeleteBatch, PruneInvariant, PruneTypes
<1>8. \A x \in Present : x \notin o.doomed => x \in Present'
  BY <1>2, <1>5 DEF Present
<1>9. new.protect /\ Protected => \A x \in atStart.kept : x \notin new.doomed
  BY <1>1, <1>6 DEF Protected
<1> QED
  BY <1>1, <1>4, <1>6, <1>7, <1>8, <1>9, RunStep

LEMMA StopsStep ==
    ASSUME PruneInvariant, NEW r \in Runs, \A s \in Runs : s = r, PruneStops(r)
    PROVE  PruneInvariant'
<1>1. Becomes(r, NotRunning) /\ run[r].at # "idle" /\ UNCHANGED <<age, incidents, atStart>>
  BY DEF PruneStops
<1>2. Present' = Present
  BY <1>1 DEF Present
<1> QED
  BY <1>1, <1>2, StatesFacts, RunStep DEF PruneInvariant, PruneTypes

LEMMA NextPruneInvariant ==
    ASSUME \A r, s \in Runs : r = s
    PROVE  PruneInvariant /\ [PruneNext]_pruneVars => PruneInvariant'
<1> SUFFICES ASSUME PruneInvariant, [PruneNext]_pruneVars
             PROVE  PruneInvariant'
  OBVIOUS
<1>1. CASE UNCHANGED pruneVars
  BY <1>1 DEF pruneVars, PruneInvariant, PruneTypes, Protected, Present, Anchored, Above
<1>2. CASE PruneNext
  BY <1>2, ArrivalStep, StartsStep, MaterializeStep, AnswerStep, DeleteStep, StopsStep
     DEF PruneNext
<1> QED
  BY <1>1, <1>2

(* One run of the command never deletes a row that an incident protected   *)
(* when it began, whatever is ingested meanwhile and wherever it stops.    *)
THEOREM ProtectedStayAlways ==
    ASSUME \A r, s \in Runs : r = s
    PROVE  PruneSpec => []ProtectedStay
<1>1. PruneInvariant => ProtectedStay
  BY DEF PruneInvariant, Protected, ProtectedStay
<1>2. PruneInvariant /\ [PruneNext]_pruneVars => PruneInvariant'
  BY NextPruneInvariant
<1> QED
  BY <1>1, <1>2, InitPruneInvariant, PTL DEF PruneSpec

-----------------------------------------------------------------------------
(* Why nothing is orphaned.  While the ids are taken down in peace the     *)
(* list is what the statements so far have put on it; once it is complete  *)
(* it holds, with a row, each row below it that the run found, and the     *)
(* tables are emptied from below.                                          *)
Listed(o, table) == IF table \in o.tables THEN DoomedIn(o, table) ELSE {}
TakenDown(o) ==
    (IF o.at \in {"builds", "tests"} THEN Listed(o, "checkouts") ELSE {}) \union
    (IF o.at = "tests" THEN Listed(o, "builds") ELSE {})

ClosedBelow(S) ==
    \A x \in (PruneBuilds \union PruneTests) \intersect atStart.rows \intersect Present :
        Parent[x] \in S => x \in S

Orderly(o) ==
    /\ o.tables = atStart.tables
    /\ o.doomed \subseteq Present
    /\ o.at = "delete builds" => o.doomed \intersect PruneTests = {}
    /\ o.at = "delete checkouts" => o.doomed \intersect (PruneTests \union PruneBuilds) = {}
    /\ Cascading /\ atStart.quiet =>
         /\ o.at \in PRUNABLE_TABLES => atStart.rows = Present /\ o.doomed = TakenDown(o)
         /\ o.at \notin PRUNABLE_TABLES => ClosedBelow(o.doomed)

OrphanInvariant ==
    /\ \A r \in Runs : run[r].at # "idle" => Orderly(run[r])
    /\ NoOrphans

LEMMA TableFacts ==
    /\ RowsOf("checkouts") = PruneCheckouts /\ RowsOf("builds") = PruneBuilds
    /\ RowsOf("tests") = PruneTests
    /\ TableAt("delete tests") = "tests" /\ TableAt("delete builds") = "builds"
    /\ TableAt("delete checkouts") = "checkouts"
    /\ Down("checkouts") = "builds" /\ Down("builds") = "tests" /\ Down("tests") = "ask"
    /\ Up("delete tests") = "delete builds" /\ Up("delete builds") = "delete checkouts"
    /\ Up("delete checkouts") = "idle"
BY DEF RowsOf, TableAt, Down, Up

(* What the statement of each table takes down.                            *)
LEMMA ListedFacts ==
    ASSUME NEW o
    PROVE  /\ \A table \in PRUNABLE_TABLES :
                Listed(o, table) \subseteq RowsOf(table) \intersect Present
           /\ \A table \in PRUNABLE_TABLES : \A x \in Listed(o, table) :
                o.protect => x \notin Kept
           /\ \A x \in PruneBuilds \intersect Present :
                /\ "builds" \in o.tables /\ Parent[x] \in Listed(o, "checkouts")
                /\ o.protect => x \notin Kept
                => x \in Listed(o, "builds")
           /\ \A x \in PruneTests \intersect Present :
                /\ "tests" \in o.tables /\ Parent[x] \in Listed(o, "builds")
                /\ o.protect => x \notin Kept
                => x \in Listed(o, "tests")
<1> DEFINE checkouts == Doomed(o, "checkouts", {})
           builds == Doomed(o, "builds", Children(o, "checkouts", checkouts))
           leaves == Doomed(o, "tests", Children(o, "builds", builds))
<1>1. /\ DoomedIn(o, "checkouts") = checkouts
      /\ DoomedIn(o, "builds") = builds
      /\ DoomedIn(o, "tests") = leaves
  BY DEF DoomedIn
<1>2. \A table, cascade :
        /\ Doomed(o, table, cascade) \subseteq RowsOf(table) \intersect Present
        /\ \A x \in Doomed(o, table, cascade) : o.protect => x \notin Kept
        /\ \A x \in RowsOf(table) \intersect Present :
             x \in cascade /\ (o.protect => x \notin Kept) => x \in Doomed(o, table, cascade)
  BY DEF Doomed
<1>3. \A x \in PruneBuilds : "checkouts" \in o.tables /\ Parent[x] \in checkouts
                             => x \in Children(o, "checkouts", checkouts)
  BY DEF Children
<1>4. \A x \in PruneTests : "builds" \in o.tables /\ Parent[x] \in builds
                            => x \in Children(o, "builds", builds)
  BY DEF Children
<1> HIDE DEF checkouts
<1>5. builds = Doomed(o, "builds", Children(o, "checkouts", checkouts))
  OBVIOUS
<1> HIDE DEF builds
<1>6. leaves = Doomed(o, "tests", Children(o, "builds", builds))
  OBVIOUS
<1>7. checkouts = Doomed(o, "checkouts", {})
  BY DEF checkouts
<1> HIDE DEF leaves
<1>8. \A table \in PRUNABLE_TABLES : /\ DoomedIn(o, table) \subseteq RowsOf(table) \intersect Present
                                     /\ \A x \in DoomedIn(o, table) : o.protect => x \notin Kept
  BY <1>1, <1>2, <1>5, <1>6, <1>7 DEF PRUNABLE_TABLES
<1>9. \A x \in PruneBuilds \intersect Present :
        /\ "builds" \in o.tables /\ Parent[x] \in Listed(o, "checkouts")
        /\ o.protect => x \notin Kept
        => x \in Listed(o, "builds")
  <2> SUFFICES ASSUME NEW x \in PruneBuilds \intersect Present, "builds" \in o.tables,
                      Parent[x] \in Listed(o, "checkouts"), o.protect => x \notin Kept
               PROVE  x \in builds
    BY <1>1 DEF Listed
  <2>1. "checkouts" \in o.tables /\ Parent[x] \in checkouts
    BY <1>1 DEF Listed
  <2>2. x \in Children(o, "checkouts", checkouts)
    BY <1>3, <2>1
  <2>3. x \in RowsOf("builds") \intersect Present
    BY TableFacts
  <2>4. x \in Doomed(o, "builds", Children(o, "checkouts", checkouts))
    BY <1>2, <2>2, <2>3
  <2> QED BY <1>5, <2>4
<1>10. \A x \in PruneTests \intersect Present :
        /\ "tests" \in o.tables /\ Parent[x] \in Listed(o, "builds")
        /\ o.protect => x \notin Kept
        => x \in Listed(o, "tests")
  <2> SUFFICES ASSUME NEW x \in PruneTests \intersect Present, "tests" \in o.tables,
                      Parent[x] \in Listed(o, "builds"), o.protect => x \notin Kept
               PROVE  x \in leaves
    BY <1>1 DEF Listed
  <2>1. "builds" \in o.tables /\ Parent[x] \in builds
    BY <1>1 DEF Listed
  <2>2. x \in Children(o, "builds", builds)
    BY <1>4, <2>1
  <2>3. x \in RowsOf("tests") \intersect Present
    BY TableFacts
  <2>4. x \in Doomed(o, "tests", Children(o, "builds", builds))
    BY <1>2, <2>2, <2>3
  <2> QED BY <1>6, <2>4
<1> QED
  BY <1>8, <1>9, <1>10 DEF Listed

(* A row whose parent is taken down is taken down: the incident that would *)
(* keep it would keep its parent too.                                      *)
LEMMA ListIsClosed ==
    ASSUME PruneTypes, NEW o, Cascading, o.tables = atStart.tables,
           NEW x \in (PruneBuilds \union PruneTests) \intersect Present,
           Parent[x] \in UNION {Listed(o, table) : table \in PRUNABLE_TABLES}
    PROVE  x \in UNION {Listed(o, table) : table \in PRUNABLE_TABLES}
<1>1. /\ PruneCheckouts \intersect PruneBuilds = {}
      /\ PruneTests \intersect (PruneCheckouts \union PruneBuilds) = {}
      /\ \A b \in PruneBuilds : Parent[b] \in PruneCheckouts
      /\ \A t \in PruneTests : Parent[t] \in PruneBuilds
  BY PruneAssumption
<1>2. PICK table \in PRUNABLE_TABLES : Parent[x] \in Listed(o, table)
  OBVIOUS
<1>3. /\ table \in o.tables /\ Parent[x] \in RowsOf(table) /\ Parent[x] \in Present
      /\ o.protect => Parent[x] \notin Kept
  <2>1. table \in o.tables
    BY <1>2 DEF Listed
  <2> QED BY <1>2, <2>1, ListedFacts
<1>4. table # "tests" => Down(table) \in o.tables
  BY <1>3 DEF Cascading
<1>5. CASE x \in PruneBuilds
  <2>1. table = "checkouts" /\ "builds" \in o.tables
    BY <1>1, <1>3, <1>4, <1>5, TableFacts DEF PRUNABLE_TABLES
  <2>2. x \in Kept => Parent[x] \in Kept
    <3>1. x \in Kept => x \in IncidentBuilds
      BY <1>1, <1>5 DEF Kept, IncidentCheckouts, IncidentBuilds
    <3>2. x \in IncidentBuilds => Parent[x] \in IncidentCheckouts
      BY DEF IncidentCheckouts
    <3> QED BY <3>1, <3>2 DEF Kept
  <2>3. x \in Listed(o, "builds")
    BY <1>2, <1>3, <1>5, <2>1, <2>2, ListedFacts
  <2> QED BY <2>3 DEF PRUNABLE_TABLES
<1>6. CASE x \in PruneTests
  <2>1. table = "builds" /\ "tests" \in o.tables
    BY <1>1, <1>3, <1>4, <1>6, TableFacts DEF PRUNABLE_TABLES
  <2>2. x \in Kept => Parent[x] \in Kept
    <3>1. x \in Kept => x \in incidents
      BY <1>1, <1>6 DEF Kept, IncidentCheckouts, IncidentBuilds
    <3>2. x \in incidents => Parent[x] \in IncidentBuilds
      BY <1>1, <1>6 DEF IncidentBuilds
    <3> QED BY <3>1, <3>2 DEF Kept
  <2>3. x \in Listed(o, "tests")
    BY <1>2, <1>3, <1>6, <2>1, <2>2, ListedFacts
  <2> QED BY <2>3 DEF PRUNABLE_TABLES
<1> QED
  BY <1>5, <1>6

(* As long as nothing arrives a statement would take down the same rows.   *)
LEMMA ListedSame ==
    ASSUME NEW r \in Runs, UNCHANGED <<age, incidents>>,
           run'[r].tables = run[r].tables, run'[r].origins = run[r].origins,
           run'[r].protect = run[r].protect
    PROVE  \A table \in PRUNABLE_TABLES : Listed(run[r], table)' = Listed(run[r], table)
<1>1. Present' = Present
  BY DEF Present
<1>2. Kept' = Kept
  BY <1>1 DEF Kept, IncidentCheckouts, IncidentBuilds
<1>3. AgedOut(run[r])' = AgedOut(run[r])
  BY <1>1 DEF AgedOut
<1>4. DoomedIn(run[r], "checkouts")' = DoomedIn(run[r], "checkouts")
  BY <1>1, <1>2, <1>3 DEF DoomedIn, Doomed
<1>5. DoomedIn(run[r], "builds")' = DoomedIn(run[r], "builds")
  BY <1>1, <1>2, <1>3 DEF DoomedIn, Doomed, Children
<1>6. DoomedIn(run[r], "tests")' = DoomedIn(run[r], "tests")
  BY <1>1, <1>2, <1>3 DEF DoomedIn, Doomed, Children
<1> QED
  BY <1>4, <1>5, <1>6 DEF Listed, PRUNABLE_TABLES

(* What arrives is not a row that the run found, or it is still there.     *)
LEMMA ArrivalOrphans ==
    ASSUME PruneTypes, OrphanInvariant, NEW x \in PruneRows, RowArrives(x) \/ IncidentArrives(x)
    PROVE  OrphanInvariant'
<1>1. /\ run' = run /\ atStart'.tables = atStart.tables
      /\ atStart'.rows \subseteq atStart.rows
      /\ Present \subseteq Present'
      /\ \A y \in atStart'.rows : y \in Present' => y \in Present
      /\ atStart'.quiet => atStart.quiet /\ ~TakingIds
  <2>1. CASE RowArrives(x)
    BY <2>1 DEF RowArrives, PruneTypes, StartRecord, Present
  <2>2. CASE IncidentArrives(x)
    BY <2>2 DEF IncidentArrives, PruneTypes, StartRecord, Present
  <2> QED BY <2>1, <2>2
<1>2. Cascading' => Cascading
  BY <1>1 DEF Cascading
<1>3. NoOrphans'
  BY <1>1, <1>2 DEF NoOrphans, OrphanInvariant
<1>4. ASSUME NEW r \in Runs, run[r].at # "idle"
      PROVE  Orderly(run[r])'
  <2>1. Orderly(run[r])
    BY <1>4 DEF OrphanInvariant
  <2>2. atStart'.quiet => run[r].at \notin PRUNABLE_TABLES
    BY <1>1 DEF TakingIds
  <2>3. ClosedBelow(run[r].doomed) => ClosedBelow(run[r].doomed)'
    BY <1>1 DEF ClosedBelow
  <2> QED BY <1>1, <1>2, <2>1, <2>2, <2>3 DEF Orderly
<1> QED
  BY <1>1, <1>3, <1>4 DEF OrphanInvariant

LEMMA StartsOrphans ==
    ASSUME PruneTypes, NEW r \in Runs, \A s \in Runs : s = r, PruneStarts(r)
    PROVE  OrphanInvariant'
<1>1. PICK tables \in TableChoices, origins \in {{}} \union {{o} : o \in Origins},
           protect \in BOOLEAN :
        Becomes(r, [at |-> "checkouts", tables |-> tables, origins |-> origins,
                    protect |-> protect, doomed |-> {}])
  BY DEF PruneStarts
<1>2. run'[r].at = "checkouts" /\ run'[r].doomed = {}
  BY <1>1 DEF Becomes, PruneTypes
<1>3. atStart'.tables = run'[r].tables /\ atStart'.rows = Present /\ age' = age
  BY DEF PruneStarts
<1>4. atStart'.rows = Present'
  BY <1>3 DEF Present
<1>5. NoOrphans'
  BY <1>4 DEF NoOrphans
<1>6. TakenDown(run[r])' = {}
  BY <1>2 DEF TakenDown
<1>7. Orderly(run[r])'
  BY <1>2, <1>3, <1>4, <1>6 DEF Orderly, PRUNABLE_TABLES
<1> QED
  BY <1>5, <1>7 DEF OrphanInvariant

LEMMA MaterializeOrphans ==
    ASSUME PruneTypes, OrphanInvariant, NEW r \in Runs, \A s \in Runs : s = r, Materialize(r)
    PROVE  OrphanInvariant'
<1>1. /\ run[r] \in RunState /\ run[r].at \in PRUNABLE_TABLES
      /\ UNCHANGED <<age, incidents, atStart>>
  BY DEF Materialize, PruneTypes
<1>2. Down(run[r].at) # "idle"
  BY <1>1, TableFacts DEF PRUNABLE_TABLES
<1>3. /\ run'[r].at = Down(run[r].at) /\ run'[r].tables = run[r].tables
      /\ run'[r].origins = run[r].origins /\ run'[r].protect = run[r].protect
      /\ run'[r].doomed = run[r].doomed \union Listed(run[r], run[r].at)
  BY <1>1, <1>2 DEF Materialize, Becomes, PruneTypes, RunState, Listed
<1>4. \A table \in PRUNABLE_TABLES : Listed(run[r], table)' = Listed(run[r], table)
  BY <1>1, <1>3, ListedSame
<1>5. Present' = Present /\ (Cascading' <=> Cascading)
  BY <1>1 DEF Present, Cascading
<1>6. Orderly(run[r])
  BY <1>1 DEF OrphanInvariant, PRUNABLE_TABLES
<1>7. Listed(run[r], run[r].at) \subseteq Present
  BY <1>1, ListedFacts
<1>8. ASSUME Cascading, atStart.quiet
      PROVE  /\ run'[r].at \in PRUNABLE_TABLES =>
                   atStart.rows = Present /\ run'[r].doomed = TakenDown(run[r])'
             /\ run'[r].at \notin PRUNABLE_TABLES => ClosedBelow(run'[r].doomed)
  <2>1. atStart.rows = Present /\ run[r].doomed = TakenDown(run[r])
    BY <1>1, <1>6, <1>8 DEF Orderly
  <2>2. CASE run[r].at = "checkouts"
    <3>1. run'[r].at = "builds" /\ run'[r].doomed = Listed(run[r], "checkouts")
      BY <1>3, <2>1, <2>2, TableFacts DEF TakenDown
    <3> QED BY <1>4, <2>1, <3>1 DEF TakenDown, PRUNABLE_TABLES
  <2>3. CASE run[r].at = "builds"
    <3>1. /\ run'[r].at = "tests"
          /\ run'[r].doomed = Listed(run[r], "checkouts") \union Listed(run[r], "builds")
      BY <1>3, <2>1, <2>3, TableFacts DEF TakenDown
    <3> QED BY <1>4, <2>1, <3>1 DEF TakenDown, PRUNABLE_TABLES
  <2>4. CASE run[r].at = "tests"
    <3>1. /\ run'[r].at = "ask"
          /\ run'[r].doomed = UNION {Listed(run[r], table) : table \in PRUNABLE_TABLES}
      BY <1>3, <2>1, <2>4, TableFacts DEF TakenDown, PRUNABLE_TABLES
    <3>2. run[r].tables = atStart.tables
      BY <1>6 DEF Orderly
    <3>3. ClosedBelow(run'[r].doomed)
      BY <1>8, <3>1, <3>2, ListIsClosed DEF ClosedBelow
    <3> QED BY <3>1, <3>3 DEF PRUNABLE_TABLES
  <2> QED BY <1>1, <2>2, <2>3, <2>4 DEF PRUNABLE_TABLES
<1>9. run'[r].at \notin Deleting
  BY <1>1, <1>3, TableFacts DEF PRUNABLE_TABLES, Deleting
<1>10. ClosedBelow(run'[r].doomed) => ClosedBelow(run[r].doomed)'
  BY <1>1, <1>5 DEF ClosedBelow
<1>11. Orderly(run[r])'
  BY <1>1, <1>3, <1>5, <1>6, <1>7, <1>8, <1>9, <1>10 DEF Orderly, Deleting
<1>12. NoOrphans'
  BY <1>1, <1>5 DEF NoOrphans, OrphanInvariant
<1> QED
  BY <1>11, <1>12 DEF OrphanInvariant

LEMMA AnswerOrphans ==
    ASSUME PruneTypes, OrphanInvariant, NEW r \in Runs, \A s \in Runs : s = r, Answer(r)
    PROVE  OrphanInvariant'
<1>1. run[r] \in RunState /\ run[r].at = "ask" /\ UNCHANGED <<age, incidents, atStart>>
  BY DEF Answer, PruneTypes
<1>2. \/ run'[r].at = "idle"
      \/ /\ run'[r].at = "delete tests" /\ run'[r].tables = run[r].tables
         /\ run'[r].doomed = run[r].doomed
  <2>1. PICK yes \in BOOLEAN :
          Becomes(r, [run[r] EXCEPT !.at = IF yes /\ run[r].doomed # {}
                                           THEN "delete tests" ELSE "idle"])
    BY DEF Answer
  <2>2. CASE yes /\ run[r].doomed # {}
    BY <1>1, <2>1, <2>2 DEF Becomes, PruneTypes, RunState
  <2>3. CASE ~(yes /\ run[r].doomed # {})
    BY <1>1, <2>1, <2>3, StatesFacts DEF Becomes, PruneTypes, RunState
  <2> QED BY <2>2, <2>3
<1>3. Present' = Present /\ (Cascading' <=> Cascading)
  BY <1>1 DEF Present, Cascading
<1>4. NoOrphans'
  BY <1>1, <1>3 DEF NoOrphans, OrphanInvariant
<1>5. Orderly(run[r])
  BY <1>1 DEF OrphanInvariant
<1>6. ASSUME run'[r].at = "delete tests", run'[r].tables = run[r].tables,
             run'[r].doomed = run[r].doomed
      PROVE  Orderly(run[r])'
  <2>1. Cascading /\ atStart.quiet => ClosedBelow(run[r].doomed)
    BY <1>1, <1>5 DEF Orderly, PRUNABLE_TABLES
  <2>2. ClosedBelow(run[r].doomed) => ClosedBelow(run[r].doomed)'
    BY <1>1, <1>3, <1>6 DEF ClosedBelow
  <2> QED BY <1>1, <1>3, <1>5, <1>6, <2>1, <2>2 DEF Orderly, PRUNABLE_TABLES
<1> QED
  BY <1>2, <1>4, <1>6 DEF OrphanInvariant

(* A batch that finds nothing of its rows is empty: what is on the list of *)
(* the only run is there until that run deletes it.                        *)
LEMMA BatchFacts ==
    ASSUME NEW S, NEW batch \in Batches(S)
    PROVE  batch \subseteq S /\ (batch = {} => S = {})
<1>1. batch \subseteq S
  BY DEF Batches
<1>2. ASSUME batch = {} PROVE S = {}
  <2>1. Cardinality(batch) = 0
    BY <1>2, FS_EmptySet
  <2>2. PruneBatch # 0
    BY PruneAssumption
  <2> QED BY <1>2, <2>1, <2>2 DEF Batches
<1> QED
  BY <1>1, <1>2

LEMMA DeleteOrphans ==
    ASSUME PruneTypes, OrphanInvariant, NEW r \in Runs, \A s \in Runs : s = r, DeleteBatch(r)
    PROVE  OrphanInvariant'
<1>1. /\ run[r] \in RunState /\ run[r].at \in Deleting
      /\ UNCHANGED <<incidents, atStart>>
  BY DEF DeleteBatch, PruneTypes, Deleting
<1>2. PICK batch \in Batches(run[r].doomed \intersect RowsOf(TableAt(run[r].at))) :
        /\ age' = [x \in PruneRows |-> IF x \in batch THEN "gone" ELSE age[x]]
        /\ Becomes(r, [run[r] EXCEPT !.doomed = @ \ batch,
                                     !.at = IF batch \intersect Present = {}
                                            THEN Up(run[r].at) ELSE run[r].at])
  BY DEF DeleteBatch
<1>3. /\ batch \subseteq run[r].doomed /\ batch \subseteq RowsOf(TableAt(run[r].at))
      /\ batch = {} => run[r].doomed \intersect RowsOf(TableAt(run[r].at)) = {}
  BY BatchFacts
<1>4. Orderly(run[r])
  BY <1>1 DEF OrphanInvariant, Deleting
<1>5. Present' = Present \ batch
  BY <1>2 DEF Present
<1>6. Cascading' <=> Cascading
  BY <1>1 DEF Cascading
<1>7. \/ run'[r].at = "idle"
      \/ /\ run'[r].tables = run[r].tables /\ run'[r].doomed = run[r].doomed \ batch
         /\ run'[r].at = IF batch \intersect Present = {} THEN Up(run[r].at) ELSE run[r].at
  <2> DEFINE next == IF batch \intersect Present = {} THEN Up(run[r].at) ELSE run[r].at
  <2>1. Becomes(r, [run[r] EXCEPT !.doomed = @ \ batch, !.at = next])
    BY <1>2
  <2> HIDE DEF next
  <2>2. CASE next = "idle"
    BY <1>1, <2>1, <2>2, StatesFacts DEF Becomes, PruneTypes, RunState
  <2>3. CASE next # "idle"
    <3>1. /\ run'[r].tables = run[r].tables /\ run'[r].doomed = run[r].doomed \ batch
          /\ run'[r].at = next
      BY <1>1, <2>1, <2>3 DEF Becomes, PruneTypes, RunState
    <3> QED BY <3>1 DEF next
  <2> QED BY <2>2, <2>3
<1>8. Cascading /\ atStart.quiet => ClosedBelow(run[r].doomed)
  BY <1>1, <1>4 DEF Orderly, PRUNABLE_TABLES, Deleting
<1>9. /\ PruneCheckouts \intersect PruneBuilds = {}
      /\ PruneTests \intersect (PruneCheckouts \union PruneBuilds) = {}
      /\ \A b \in PruneBuilds : Parent[b] \in PruneCheckouts
      /\ \A t \in PruneTests : Parent[t] \in PruneBuilds
  BY PruneAssumption
<1>10. NoOrphans'
  <2> SUFFICES ASSUME Cascading, atStart.quiet,
                      NEW x \in (PruneBuilds \union PruneTests) \intersect atStart.rows,
                      x \in Present', Parent[x] \in atStart.rows
               PROVE  Parent[x] \in Present'
    BY <1>1, <1>6 DEF NoOrphans
  <2>1. x \in Present /\ x \notin batch /\ Parent[x] \in Present
    BY <1>5 DEF OrphanInvariant, NoOrphans
  <2>2. ASSUME Parent[x] \in batch PROVE FALSE
    <3>1. x \in run[r].doomed
      BY <1>3, <1>8, <2>1, <2>2 DEF ClosedBelow
    <3>2. CASE run[r].at = "delete tests"
      BY <1>3, <1>9, <2>2, <3>2, TableFacts
    <3>3. CASE run[r].at = "delete builds"
      BY <1>3, <1>4, <1>9, <2>2, <3>1, <3>3, TableFacts DEF Orderly
    <3>4. CASE run[r].at = "delete checkouts"
      BY <1>3, <1>4, <1>9, <2>2, <3>1, <3>4, TableFacts DEF Orderly
    <3> QED BY <1>1, <3>2, <3>3, <3>4 DEF Deleting
  <2> QED BY <1>5, <2>1, <2>2
<1>11. ASSUME run'[r].at # "idle"
       PROVE  Orderly(run[r])'
  <2>1. /\ run'[r].tables = run[r].tables /\ run'[r].doomed = run[r].doomed \ batch
        /\ run'[r].at = IF batch \intersect Present = {} THEN Up(run[r].at) ELSE run[r].at
    BY <1>7, <1>11
  <2>2. run'[r].doomed \subseteq Present'
    BY <1>4, <1>5, <2>1 DEF Orderly
  <2>3. Cascading /\ atStart.quiet => ClosedBelow(run[r].doomed)'
    BY <1>1, <1>5, <1>8, <2>1 DEF ClosedBelow
  <2>4. batch \intersect Present = {} => batch = {}
    BY <1>3, <1>4 DEF Orderly
  <2>5. run'[r].at = run[r].at \/ run'[r].at = Up(run[r].at)
    BY <2>1
  <2>6. run'[r].at \in Deleting
    BY <1>1, <1>11, <2>5, TableFacts DEF Deleting
  <2>7. ASSUME run'[r].at = run[r].at
        PROVE  /\ run'[r].at = "delete builds" => run'[r].doomed \intersect PruneTests = {}
               /\ run'[r].at = "delete checkouts" =>
                    run'[r].doomed \intersect (PruneTests \union PruneBuilds) = {}
    BY <1>4, <2>1, <2>7 DEF Orderly
  <2>8. ASSUME run'[r].at # run[r].at
        PROVE  /\ run'[r].at = "delete builds" => run'[r].doomed \intersect PruneTests = {}
               /\ run'[r].at = "delete checkouts" =>
                    run'[r].doomed \intersect (PruneTests \union PruneBuilds) = {}
    <3>1. run'[r].at = Up(run[r].at) /\ run'[r].doomed = run[r].doomed
      BY <2>1, <2>4, <2>8
    <3>2. run[r].doomed \intersect RowsOf(TableAt(run[r].at)) = {}
      BY <1>3, <2>1, <2>4, <2>8
    <3>3. CASE run[r].at = "delete tests"
      BY <3>1, <3>2, <3>3, TableFacts
    <3>4. CASE run[r].at = "delete builds"
      BY <1>4, <3>1, <3>2, <3>4, TableFacts DEF Orderly
    <3>5. run[r].at # "delete checkouts"
      BY <1>11, <3>1, TableFacts
    <3> QED BY <1>1, <3>3, <3>4, <3>5 DEF Deleting
  <2> QED
    BY <1>1, <1>4, <1>6, <2>1, <2>2, <2>3, <2>6, <2>7, <2>8
       DEF Orderly, Deleting, PRUNABLE_TABLES
<1> QED
  BY <1>10, <1>11 DEF OrphanInvariant

(* A run that is killed has deleted children only.                         *)
LEMMA StopsOrphans ==
    ASSUME PruneTypes, OrphanInvariant, NEW r \in Runs, \A s \in Runs : s = r, PruneStops(r)
    PROVE  OrphanInvariant'
<1>1. run'[r].at = "idle" /\ UNCHANGED <<age, atStart>>
  BY StatesFacts DEF PruneStops, Becomes, PruneTypes
<1>2. Present' = Present /\ (Cascading' <=> Cascading)
  BY <1>1 DEF Present, Cascading
<1>3. NoOrphans'
  BY <1>1, <1>2 DEF NoOrphans, OrphanInvariant
<1> QED
  BY <1>1, <1>3 DEF OrphanInvariant

LEMMA NextOrphanInvariant ==
    ASSUME \A r, s \in Runs : r = s
    PROVE  PruneTypes /\ OrphanInvariant /\ [PruneNext]_pruneVars => OrphanInvariant'
<1> SUFFICES ASSUME PruneTypes, OrphanInvariant, [PruneNext]_pruneVars
             PROVE  OrphanInvariant'
  OBVIOUS
<1>1. CASE UNCHANGED pruneVars
  <2>1. /\ UNCHANGED <<age, incidents, run, atStart>> /\ Present' = Present
        /\ Cascading' <=> Cascading
    BY <1>1 DEF pruneVars, Present, Cascading
  <2>2. \A r \in Runs : \A table \in PRUNABLE_TABLES :
          Listed(run[r], table)' = Listed(run[r], table)
    BY <2>1, ListedSame
  <2>3. \A r \in Runs : TakenDown(run[r])' = TakenDown(run[r])
    BY <2>1, <2>2 DEF TakenDown, PRUNABLE_TABLES
  <2>4. \A r \in Runs : ClosedBelow(run[r].doomed)' = ClosedBelow(run[r].doomed)
    BY <2>1 DEF ClosedBelow
  <2>5. \A r \in Runs : Orderly(run[r]) => Orderly(run[r])'
    BY <2>1, <2>3, <2>4 DEF Orderly
  <2>6. NoOrphans'
    BY <2>1 DEF NoOrphans, OrphanInvariant
  <2> QED BY <2>1, <2>5, <2>6 DEF OrphanInvariant
<1>2. CASE PruneNext
  BY <1>2, ArrivalOrphans, StartsOrphans, MaterializeOrphans, AnswerOrphans, DeleteOrphans,
     StopsOrphans DEF PruneNext
<1> QED
  BY <1>1, <1>2

LEMMA InitOrphanInvariant == PruneInit => OrphanInvariant
<1>1. PruneInit => \A r \in Runs : run[r].at = "idle"
  BY StatesFacts DEF PruneInit
<1>2. PruneInit => NoOrphans
  BY DEF PruneInit, NoOrphans
<1> QED BY <1>1, <1>2 DEF OrphanInvariant

(* One run that selects the tables below each one it selects, and took     *)
(* down its ids in peace, orphans none of the rows it found: neither at    *)
(* its end nor at any point where it is killed, whatever is ingested after *)
(* it took them down.                                                      *)
THEOREM NoOrphansAlways ==
    ASSUME \A r, s \in Runs : r = s
    PROVE  PruneSpec => []NoOrphans
<1>1. PruneInit => OrphanInvariant
  BY InitOrphanInvariant
<1>2. PruneInvariant /\ OrphanInvariant /\ [PruneNext]_pruneVars =>
        PruneInvariant' /\ OrphanInvariant'
  BY NextPruneInvariant, NextOrphanInvariant DEF PruneInvariant
<1>3. OrphanInvariant => NoOrphans
  BY DEF OrphanInvariant
<1> QED
  BY <1>1, <1>2, <1>3, InitPruneInvariant, PTL DEF PruneSpec
-----------------------------------------------------------------------------
(* The type invariant, of any number of runs: what a run has to delete is  *)
(* of the tables it was given.                                             *)
OfItsTables(o) == o.doomed \subseteq UNION {RowsOf(table) : table \in o.tables}
PruneTyped ==
    /\ PruneTypes
    /\ \A r \in Runs : OfItsTables(run[r])
    /\ started \in 0..MaxRuns
    /\ news \in 0..MaxNews

LEMMA BecomesTyped ==
    ASSUME PruneTyped, NEW r \in Runs, NEW new, Becomes(r, new),
           new.at = "idle" \/ (new \in RunState /\ OfItsTables(new))
    PROVE  run' \in [Runs -> RunState] /\ \A s \in Runs : OfItsTables(run[s])'
<1>1. OfItsTables(NotRunning)
  BY DEF OfItsTables, NotRunning
<1>2. run' = [run EXCEPT ![r] = IF new.at = "idle" THEN NotRunning ELSE new]
  BY DEF Becomes
<1>3. run' \in [Runs -> RunState]
  BY <1>2, StatesFacts DEF PruneTyped, PruneTypes
<1>4. \A s \in Runs : run'[s] = run[s] \/ run'[s] = NotRunning
                      \/ (run'[s] = new /\ OfItsTables(new))
  BY <1>2 DEF PruneTyped, PruneTypes
<1>5. \A s \in Runs : OfItsTables(run'[s])
  BY <1>1, <1>4 DEF PruneTyped
<1> QED BY <1>3, <1>5 DEF OfItsTables

LEMMA InitPruneTyped == PruneInit => PruneTyped
<1> SUFFICES ASSUME PruneInit PROVE PruneTyped
  OBVIOUS
<1>1. PruneTypes
  BY StatesFacts DEF PruneInit, PruneTypes, StartRecord
<1>2. \A r \in Runs : OfItsTables(run[r])
  BY DEF PruneInit, NotRunning, OfItsTables
<1>3. started \in 0..MaxRuns /\ news \in 0..MaxNews
  BY PruneAssumption DEF PruneInit
<1> QED BY <1>1, <1>2, <1>3 DEF PruneTyped

LEMMA NextPruneTyped == PruneTyped /\ [PruneNext]_pruneVars => PruneTyped'
<1> SUFFICES ASSUME PruneTyped, [PruneNext]_pruneVars PROVE PruneTyped'
  OBVIOUS
<1> USE PruneAssumption
<1>1. ASSUME NEW x \in PruneRows, RowArrives(x) \/ IncidentArrives(x)
      PROVE  PruneTyped'
  <2>1. run' = run /\ started' = started /\ news' = news + 1 /\ news < MaxNews
    BY <1>1 DEF RowArrives, IncidentArrives
  <2>2. PruneTypes'
    <3>1. CASE RowArrives(x)
      BY <3>1 DEF RowArrives, PruneTyped, PruneTypes, StartRecord
    <3>2. CASE IncidentArrives(x)
      BY <3>2 DEF IncidentArrives, PruneTyped, PruneTypes, StartRecord
    <3> QED BY <1>1, <3>1, <3>2
  <2> QED BY <2>1, <2>2 DEF PruneTyped, OfItsTables
<1>2. ASSUME NEW r \in Runs, NEW new, Becomes(r, new),
             new.at = "idle" \/ (new \in RunState /\ OfItsTables(new)),
             age' \in [PruneRows -> {"old", "recent", "gone"}], incidents' = incidents,
             atStart' = atStart \/ atStart' \in StartRecord,
             started' \in 0..MaxRuns, news' = news
      PROVE  PruneTyped'
  <2>1. run' \in [Runs -> RunState] /\ \A s \in Runs : OfItsTables(run[s])'
    BY <1>2, BecomesTyped
  <2>2. PruneTypes'
    BY <1>2, <2>1 DEF PruneTyped, PruneTypes
  <2> QED BY <1>2, <2>1, <2>2 DEF PruneTyped
<1>3. ASSUME NEW r \in Runs, PruneStarts(r) PROVE PruneTyped'
  <2>1. PICK tables \in TableChoices, origins \in {{}} \union {{o} : o \in Origins},
             protect \in BOOLEAN :
          Becomes(r, [at |-> "checkouts", tables |-> tables, origins |-> origins,
                      protect |-> protect, doomed |-> {}])
    BY <1>3 DEF PruneStarts
  <2> DEFINE new == [at |-> "checkouts", tables |-> tables, origins |-> origins,
                     protect |-> protect, doomed |-> {}]
  <2>2. new \in RunState /\ OfItsTables(new)
    BY DEF RunState, PRUNABLE_TABLES, OfItsTables
  <2>3. /\ started' \in 0..MaxRuns /\ UNCHANGED <<age, incidents, news>>
        /\ age' \in [PruneRows -> {"old", "recent", "gone"}]
    BY <1>3 DEF PruneStarts, PruneTyped, PruneTypes
  <2>4. atStart' = [tables |-> run'[r].tables, rows |-> Present,
                    kept |-> {x \in Present : WithIncident(x)}, quiet |-> TRUE]
    BY <1>3 DEF PruneStarts
  <2> HIDE DEF new
  <2>5. run' \in [Runs -> RunState]
    BY <2>1, <2>2, BecomesTyped DEF new
  <2>6. atStart' \in StartRecord
    BY <2>4, <2>5 DEF StartRecord, RunState, Present
  <2> QED BY <1>2, <2>1, <2>2, <2>3, <2>6 DEF new
<1>4. \A r \in Runs : run[r] \in RunState /\ OfItsTables(run[r])
  BY DEF PruneTyped, PruneTypes
<1>5. ASSUME NEW r \in Runs, Materialize(r) PROVE PruneTyped'
  <2> DEFINE o == run[r]
             add == IF o.at \in o.tables THEN DoomedIn(o, o.at) ELSE {}
             new == [o EXCEPT !.at = Down(o.at), !.doomed = @ \union add]
  <2>1. o \in RunState /\ o.at \in PRUNABLE_TABLES /\ OfItsTables(o)
    BY <1>4, <1>5 DEF Materialize
  <2>2. Becomes(r, new)
    <3>1. [o EXCEPT !.at = Down(o.at),
                    !.doomed = IF o.at \in o.tables THEN @ \union DoomedIn(o, o.at) ELSE @] = new
      <4>1. (IF o.at \in o.tables THEN o.doomed \union DoomedIn(o, o.at) ELSE o.doomed)
              = o.doomed \union add
        OBVIOUS
      <4> QED BY <4>1, Zenon
    <3> QED BY <1>5, <3>1 DEF Materialize
  <2>3. add \subseteq PruneRows /\ add \subseteq UNION {RowsOf(table) : table \in o.tables}
    <3>1. \A cascade : Doomed(o, o.at, cascade) \subseteq RowsOf(o.at)
      BY DEF Doomed
    <3>2. DoomedIn(o, o.at) \subseteq RowsOf(o.at)
      <4>1. o.at \in {"checkouts", "builds", "tests"}
        BY <2>1 DEF PRUNABLE_TABLES
      <4>2. \E cascade : DoomedIn(o, o.at) = Doomed(o, o.at, cascade)
        <5> HIDE DEF o
        <5> QED BY <4>1 DEF DoomedIn
      <4> QED BY <3>1, <4>2
    <3> QED BY <2>1, <3>2, DoomedFacts
  <2> HIDE DEF add, o
  <2>4. new \in RunState /\ new.doomed = o.doomed \union add /\ new.tables = o.tables
    BY <2>1, <2>3, StatesFacts DEF RunState, PRUNABLE_TABLES
  <2>5. OfItsTables(new)
    BY <2>1, <2>3, <2>4 DEF OfItsTables
  <2>6. UNCHANGED <<age, incidents, started, news, atStart>>
    BY <1>5 DEF Materialize
  <2> HIDE DEF new
  <2> QED BY <1>2, <2>2, <2>4, <2>5, <2>6 DEF PruneTyped, PruneTypes
<1>6. ASSUME NEW r \in Runs, Answer(r) PROVE PruneTyped'
  <2>1. PICK next \in {"delete tests", "idle"} : Becomes(r, [run[r] EXCEPT !.at = next])
    BY <1>6 DEF Answer
  <2> DEFINE new == [run[r] EXCEPT !.at = next]
  <2>2. new \in RunState /\ OfItsTables(new)
    <3>1. run[r] \in RunState
      BY <1>4
    <3>2. /\ new \in RunState
          /\ new.doomed = run[r].doomed /\ new.tables = run[r].tables
      BY <3>1 DEF RunState, Deleting
    <3> HIDE DEF new
    <3> QED BY <1>4, <3>2 DEF OfItsTables
  <2>3. UNCHANGED <<age, incidents, started, news, atStart>>
    BY <1>6 DEF Answer
  <2>4. Becomes(r, new)
    BY <2>1
  <2> HIDE DEF new
  <2> QED BY <1>2, <2>2, <2>3, <2>4 DEF PruneTyped, PruneTypes
<1>7. ASSUME NEW r \in Runs, DeleteBatch(r) PROVE PruneTyped'
  <2> DEFINE o == run[r]
  <2>1. o \in RunState /\ o.at \in Deleting /\ OfItsTables(o)
    BY <1>4, <1>7 DEF DeleteBatch, Deleting
  <2>2. PICK batch \in Batches(o.doomed \intersect RowsOf(TableAt(o.at))) :
          /\ age' = [x \in PruneRows |-> IF x \in batch THEN "gone" ELSE age[x]]
          /\ Becomes(r, [o EXCEPT !.doomed = @ \ batch,
                                  !.at = IF batch \intersect Present = {} THEN Up(o.at) ELSE o.at])
    BY <1>7 DEF DeleteBatch
  <2> DEFINE next == IF batch \intersect Present = {} THEN Up(o.at) ELSE o.at
             new == [o EXCEPT !.doomed = @ \ batch, !.at = next]
  <2>3. next \in Deleting \union {"idle"}
    BY <2>1, StatesFacts
  <2>4. Becomes(r, new)
    BY <2>2
  <2>5. /\ age' \in [PruneRows -> {"old", "recent", "gone"}]
        /\ UNCHANGED <<incidents, started, news, atStart>>
    BY <1>7, <2>2 DEF DeleteBatch, PruneTyped, PruneTypes
  <2> HIDE DEF next, o
  <2>6. new \in RunState /\ new.doomed = o.doomed \ batch /\ new.tables = o.tables
    BY <2>1, <2>3 DEF RunState
  <2>7. OfItsTables(new)
    BY <2>1, <2>6 DEF OfItsTables
  <2> HIDE DEF new
  <2> QED BY <1>2, <2>4, <2>5, <2>6, <2>7 DEF PruneTyped, PruneTypes
<1>8. ASSUME NEW r \in Runs, PruneStops(r) PROVE PruneTyped'
  <2>1. Becomes(r, NotRunning) /\ UNCHANGED <<age, incidents, started, news, atStart>>
    BY <1>8 DEF PruneStops
  <2> QED BY <1>2, <2>1, StatesFacts DEF PruneTyped, PruneTypes
<1>9. CASE UNCHANGED pruneVars
  BY <1>9 DEF pruneVars, PruneTyped, PruneTypes, OfItsTables
<1> QED
  BY <1>1, <1>3, <1>5, <1>6, <1>7, <1>8, <1>9 DEF PruneNext

LEMMA TypedIsTypeOK == PruneTyped => PruneTypeOK
BY DEF PruneTyped, PruneTypes, PruneTypeOK, RunState, StartRecord, Deleting, OfItsTables

-----------------------------------------------------------------------------
(* A behaviour of the whole follows one command: each of the four models   *)
(* takes its own steps, or none.                                           *)
LEMMA EachTakesItsSteps ==
    [MaintenanceNext]_maintenanceVars =>
        /\ [RollupNext]_rollupVars /\ [CleanNext]_cleanVars
        /\ [PruneNext]_pruneVars /\ [UpdNext]_updVars
<1> SUFFICES ASSUME [MaintenanceNext]_maintenanceVars
             PROVE  /\ [RollupNext]_rollupVars /\ [CleanNext]_cleanVars
                    /\ [PruneNext]_pruneVars /\ [UpdNext]_updVars
  OBVIOUS
<1>1. CASE MaintenanceNext
  BY <1>1 DEF MaintenanceNext, Rollup, Clean, Prune, Update
<1>2. CASE UNCHANGED maintenanceVars
  BY <1>2 DEF maintenanceVars
<1> QED BY <1>1, <1>2

(* Every variable of the four commands holds a value of its table or of    *)
(* its program point, for any number of rows, runs and batches.            *)
THEOREM MaintenanceTypeOKAlways == MaintenanceSpec => []MaintenanceTypeOK
<1> DEFINE Inv == RollupInvariant /\ CleanInvariant /\ PruneTyped /\ UpdInvariant
<1>1. MaintenanceInit => Inv
  BY InitRollupInvariant, InitCleanInvariant, InitPruneTyped, InitUpdInvariant
     DEF MaintenanceInit
<1>2. Inv /\ [MaintenanceNext]_maintenanceVars => Inv'
  BY EachTakesItsSteps, NextRollupInvariant, NextCleanInvariant, NextPruneTyped, NextUpdInvariant
<1>3. Inv => MaintenanceTypeOK
  BY TypedIsTypeOK
     DEF RollupInvariant, RollupState, CleanInvariant, UpdInvariant, MaintenanceTypeOK
<1> HIDE DEF Inv
<1> QED BY <1>1, <1>2, <1>3, PTL DEF MaintenanceSpec

(* The commands side by side keep what each one promises: the sums of the  *)
(* rollup, the record of what hardware_status counts, the rows an incident *)
(* protects and those others refer to, if no two prunings overlap.         *)
THEOREM CommandsKeepTheirPromises ==
    ASSUME \A r, s \in Runs : r = s
    PROVE  MaintenanceSpec =>
             [](/\ CommitSumsExact /\ RecordedIsSummed /\ RowsMatchItems
                /\ ProtectedStay /\ NoOrphans /\ ReferencesKept /\ RestoreAddsOnly)
<1> DEFINE Inv == /\ RollupInvariant /\ CleanInvariant /\ PruneInvariant /\ OrphanInvariant
                  /\ UpdInvariant
           Promises == /\ CommitSumsExact /\ RecordedIsSummed /\ RowsMatchItems
                       /\ ProtectedStay /\ NoOrphans /\ ReferencesKept /\ RestoreAddsOnly
<1>1. MaintenanceInit => Inv
  BY InitRollupInvariant, InitCleanInvariant, InitPruneInvariant, InitOrphanInvariant,
     InitUpdInvariant DEF MaintenanceInit
<1>2. Inv /\ [MaintenanceNext]_maintenanceVars => Inv'
  BY EachTakesItsSteps, NextRollupInvariant, NextCleanInvariant, NextPruneInvariant,
     NextOrphanInvariant, NextUpdInvariant DEF PruneInvariant
<1>3. Inv => Promises
  BY SeenAreSummed, ReferencesAreKept, RestoreOnlyAdds
     DEF RollupInvariant, CleanInvariant, PruneInvariant, Protected, ProtectedStay,
         OrphanInvariant
<1> HIDE DEF Inv, Promises
<1>4. MaintenanceSpec => []Promises
  BY <1>1, <1>2, <1>3, PTL DEF MaintenanceSpec
<1> QED BY <1>4 DEF Promises
=============================================================================
