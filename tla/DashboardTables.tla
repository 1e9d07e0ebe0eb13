-------------------------- MODULE DashboardTables --------------------------
(***************************************************************************)
(* The rows the endpoints read.  The ingester adds them a batch at a time, *)
(* in one transaction, after the rows and issues they refer to: no endpoint*)
(* shows anything of a row whose checkout is missing, so a child that      *)
(* arrives first adds no case.  The aggregator rolls a test up once it is  *)
(* stored, with the issue its earliest incident has by then, if any.       *)
(*                                                                         *)
(* A tree is a pair: its name with its branch and its url with its branch, *)
(* which is what the two forms of an endpoint match.                       *)
(***************************************************************************)
EXTENDS Filters, Sequences

CONSTANTS
  TableOf,  \* per identifier of a row, its table
  Batches   \* per batch, what it may hold: its rows, by identifier, and issues

Statuses == {"PASS", "FAIL", "ERROR", "MISS", "SKIP", "DONE", Null}

Durations == Nat \cup {NoDuration}

(* The columns the endpoints compare, and the table each reference is into.*)
(* The platform of a test is a field of its environment_misc; misc tells   *)
(* that this column is not NULL.                                           *)
RowType(r, table) ==
  CASE table = "checkouts" ->
         r \in [tree : STRING \X STRING, origin : STRING, hash : STRING, tag : STRING,
                start : Nat, stamp : Nat]
    [] table = "builds" ->
         /\ r \in [checkout : STRING, status : Statuses, origin : STRING, duration : Durations,
                   config : STRING, lab : STRING, platform : STRING, dummy : BOOLEAN, start : Nat]
         /\ TableOf[r.checkout] = "checkouts"
    [] table = "tests" ->
         /\ r \in [build : STRING, status : Statuses, origin : STRING, duration : Durations,
                   path : STRING, lab : STRING, compatible : Seq(STRING), platform : STRING,
                   misc : BOOLEAN, start : Nat]
         /\ TableOf[r.build] = "builds"
         /\ r.misc \/ r.platform = Unknown
    [] table = "incidents" ->
         /\ r \in [issue : STRING \X Nat, test : STRING, build : STRING]
         /\ r.test = None \/ TableOf[r.test] = "tests"
         /\ r.build = None \/ TableOf[r.build] = "builds"
         /\ KnownIssue(r.issue)

ASSUME BatchesAssumption ==
  /\ None \notin DOMAIN TableOf
  /\ \A batch \in DOMAIN Batches : \A content \in Batches[batch] :
       /\ IsFiniteSet(DOMAIN content.rows) /\ DOMAIN content.rows \subseteq DOMAIN TableOf
       /\ \A x \in DOMAIN content.rows : RowType(content.rows[x], TableOf[x])

VARIABLES
  row,      \* the rows of checkouts, builds, tests and incidents: identifier to record
  issues,   \* the rows of issues: identifier and version
  rolled    \* the tests the aggregator counted, each with the issue it saw

tablesVars == <<row, issues, rolled>>

In(table) == {x \in DOMAIN row : TableOf[x] = table}
BuildsOf(checkout) == {b \in In("builds") : row[b].checkout = checkout}
TestsOf(build) == {t \in In("tests") : row[t].build = build}

IsBoot(path) == path \in {"boot", "boot.nfs"}
KindOf(test) == IF IsBoot(row[test].path) THEN "boot" ELSE "test"
Status(x) == row[x].status

(* The incidents of a test, and those of a build: an incident names either. *)
OfTest(test) == {i \in In("incidents") : row[i].test = test /\ test # None}
OfBuild(build) == {i \in In("incidents") : row[i].build = build /\ build # None}

(* LEFT JOIN: a row without a partner is kept beside NULLs.                *)
LeftJoin(S) == IF S = {} THEN {None} ELSE S

BuildPlatform(build) == IF build = None THEN Unknown ELSE row[build].platform

(* What the columns of a joined row hold when there is no incident. *)
IssueOfIncident(incident) == IF incident = None THEN NoIssue ELSE row[incident].issue
TestOfIncident(incident) == IF incident = None THEN None ELSE row[incident].test

-----------------------------------------------------------------------------
TablesInit == row = <<>> /\ issues = {} /\ rolled = <<>>

Refers(r, table) ==
  CASE table = "checkouts" -> {}
    [] table = "builds" -> {r.checkout}
    [] table = "tests" -> {r.build}
    [] table = "incidents" -> {r.test, r.build} \ {None}

Flush(batch) ==
  \E content \in Batches[batch] :
    LET there == DOMAIN row \cup DOMAIN content.rows
    IN  /\ DOMAIN row \cap DOMAIN content.rows = {}
        /\ \A x \in DOMAIN content.rows : Refers(content.rows[x], TableOf[x]) \subseteq there
        /\ \A x \in DOMAIN content.rows :
             TableOf[x] = "incidents" => content.rows[x].issue \in issues \cup content.issues
        /\ row' = [x \in there |-> IF x \in DOMAIN row THEN row[x] ELSE content.rows[x]]
        /\ issues' = issues \cup content.issues
        /\ UNCHANGED rolled

(* fetch_test_issues takes the earliest incident of the test. *)
Aggregate(test) ==
  /\ test \notin DOMAIN rolled
  /\ \E issue \in IF OfTest(test) = {} THEN {NoIssue}
                  ELSE {row[i].issue : i \in OfTest(test)} :
       rolled' = [t \in DOMAIN rolled \cup {test} |-> IF t = test THEN issue ELSE rolled[t]]
  /\ UNCHANGED <<row, issues>>

TablesNext ==
  \/ \E batch \in DOMAIN Batches : Flush(batch)
  \/ \E test \in In("tests") : Aggregate(test)

TablesSpec == TablesInit /\ [][TablesNext]_tablesVars
=============================================================================
