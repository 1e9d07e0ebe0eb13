------------------------------ MODULE UpdateDb ------------------------------
(***************************************************************************)
(* The update_db command: "snapshot" writes what the tables hold about an  *)
(* interval of time to an archive of CSV files, one per table, and         *)
(* "restore" inserts an archive in another database.  Neither is a         *)
(* transaction: the tables are read one after another while the ingester   *)
(* goes on, and a restore that dies leaves the tables it had done.         *)
(*                                                                         *)
(* A row is known by its key.  Of what it says, only the nullable columns  *)
(* matter, and of them whether they are text.                              *)
(***************************************************************************)
EXTENDS Naturals, FiniteSets, Sequences

CONSTANTS
    UpdRows,       \* the keys
    TableOfRow,    \* [UpdRows -> tables]
    Refers,        \* [UpdRows -> SUBSET UpdRows]: the rows its columns name
    InInterval,    \* the rows whose _timestamp lies in the interval
    StartsIn,      \* those whose start_time does
    FromOrigins,   \* the rows of the origins --origins names
    NullText,      \* the rows with a null text column; others have another null
    Before,        \* the rows the source may hold when the command starts
    TargetHas,     \* those the target database holds
    MaxArrivals, MaxCrashes

SnapshotOrder == <<"issues", "checkouts", "builds", "tests", "incidents", "latest_checkout",
                   "hardware_status", "tree_listing", "tree_tests_rollup">>
RestoreIncidentsFirst == <<"issues", "incidents", "checkouts", "builds", "tests",
                            "latest_checkout", "hardware_status", "tree_listing", "tree_tests_rollup">>
RestoreOrder == <<"checkouts", "builds", "issues", "tests", "incidents", "latest_checkout",
                  "hardware_status", "tree_listing", "tree_tests_rollup">>
Tables == {"issues", "checkouts", "builds", "tests", "incidents", "latest_checkout",
           "hardware_status", "tree_listing", "tree_tests_rollup"}

(* The tables a row refers to, by a foreign key or by the checkout it is   *)
(* about.                                                                  *)
References == [table \in Tables |->
    CASE table \in {"issues", "checkouts"} -> {}
      [] table = "tests" -> {"builds"}
      [] table = "incidents" -> {"issues", "builds", "tests"}
      [] OTHER -> {"checkouts"}]

ASSUME UpdateAssumption ==
    /\ TableOfRow \in [UpdRows -> Tables]
    /\ Refers \in [UpdRows -> SUBSET UpdRows]
    /\ \A x \in UpdRows : \A y \in Refers[x] : TableOfRow[y] \in References[TableOfRow[x]]
    /\ InInterval \union StartsIn \union FromOrigins \union NullText \union TargetHas \subseteq UpdRows
    /\ Before \subseteq SUBSET UpdRows
    /\ MaxArrivals \in Nat /\ MaxCrashes \in Nat

VARIABLES
    live,        \* the rows of the source database
    options,     \* of the snapshot: [related, origins, table]
    taken,       \* how many tables it has read
    archive,     \* table -> the rows of its file; no file, no table
    database,    \* row -> what the target database holds: a form, or "none"
    restored,    \* how many tables the restore has done
    doing,       \* "snapshot", "archived", "restore", "failed" or "done"
    arrivals, crashes

updVars == <<live, options, taken, archive, database, restored, doing, arrivals, crashes>>

-----------------------------------------------------------------------------
(* A row whose null column is a text column, one with another null column. *)
AsStored(x) == IF x \in NullText THEN "null text" ELSE "other null"

(* A CSV file has one way to write a null and an empty text, and the       *)
(* inserts read it back as a null for dates, numbers, JSON and arrays, but *)
(* as an empty text for the text columns, the status of a test and the     *)
(* build_id and test_id of an incident among them.                         *)
ThroughCsv(form) == IF form = "null text" THEN "empty text" ELSE form

RowsOfTable(S, table) == {x \in S : TableOfRow[x] = table}
EveryOption == [related : BOOLEAN, origins : BOOLEAN, table : Tables \union {"all"}]

UpdInit ==
    /\ live \in Before
    /\ options \in EveryOption
    /\ taken = 0
    /\ archive = [table \in {} |-> {}]
    /\ database = [x \in UpdRows |-> IF x \in TargetHas THEN AsStored(x) ELSE "none"]
    /\ restored = 0
    /\ doing = "snapshot"
    /\ arrivals = 0
    /\ crashes = 0

RowIngested(x) ==
    /\ arrivals < MaxArrivals
    /\ arrivals' = arrivals + 1
    /\ x \notin live
    /\ x \in InInterval \union StartsIn
    /\ live' = live \union {x}
    /\ UNCHANGED <<options, taken, archive, database, restored, doing, crashes>>

-----------------------------------------------------------------------------
(* snapshot: the SELECT of each table.                                     *)
Wanted(table) == {x \in RowsOfTable(live, table) : options.origins => x \in FromOrigins}
Timely(table) == Wanted(table) \intersect InInterval
Started(table) == Wanted(table) \intersect StartsIn

(* get_related_data: the ids of the parent table, in the interval or, for  *)
(* issues, of any time; of whatever origin.                                *)
GetRelated(table, byTime) ==
    {y \in RowsOfTable(live, table) : byTime => y \in InInterval}
Related(x, table, byTime) ==
    options.related => Refers[x] \intersect GetRelated(table, byTime) # {}

SelectIssues == Timely("issues")
SelectCheckouts == Timely("checkouts")
SelectBuilds == {x \in Timely("builds") : Related(x, "checkouts", TRUE)}
SelectTests == {x \in Timely("tests") : Related(x, "builds", TRUE)}
SelectIncidents == {x \in Timely("incidents") : Related(x, "issues", FALSE)}
SelectLatestCheckout == Started("latest_checkout")
SelectHardwareStatusTwice == Started("latest_checkout")
SelectHardwareStatus == Started("hardware_status")
SelectTreeListing == Started("tree_listing")

(* A rollup row has no time: one of its checkouts must be in the interval. *)
SelectTreeTestsRollup ==
    {x \in Wanted("tree_tests_rollup") :
        Refers[x] \intersect RowsOfTable(live, "checkouts") \intersect StartsIn # {}}

Selected(table) ==
    CASE table = "issues" -> SelectIssues
      [] table = "checkouts" -> SelectCheckouts
      [] table = "builds" -> SelectBuilds
      [] table = "tests" -> SelectTests
      [] table = "incidents" -> SelectIncidents
      [] table = "latest_checkout" -> SelectLatestCheckout
      [] table = "hardware_status" -> SelectHardwareStatus
      [] table = "tree_listing" -> SelectTreeListing
      [] table = "tree_tests_rollup" -> SelectTreeTestsRollup

SnapshotTable ==
    /\ doing = "snapshot"
    /\ taken < Len(SnapshotOrder)
    /\ taken' = taken + 1
    /\ archive' = [table \in DOMAIN archive \union
                             ({SnapshotOrder[taken']} \intersect
                              (IF options.table = "all" THEN Tables ELSE {options.table})) |->
                     IF table \in DOMAIN archive THEN archive[table] ELSE Selected(table)]
    /\ UNCHANGED <<live, options, database, restored, doing, arrivals, crashes>>

(* The archive is closed, after the last table or after an error.          *)
SnapshotCloses ==
    /\ doing = "snapshot"
    /\ doing' = "archived"
    /\ UNCHANGED <<live, options, taken, archive, database, restored, arrivals, crashes>>

-----------------------------------------------------------------------------
(* restore: every table in turn; a file the archive does not have is an    *)
(* error.  Rows that are there already are left alone (ignore_conflicts).  *)
RestoreStarts ==
    /\ doing \in {"archived", "crashed"}
    /\ doing' = "restore"
    /\ restored' = 0
    /\ UNCHANGED <<live, options, taken, archive, database, arrivals, crashes>>

InsertOver(x, old) == ThroughCsv(AsStored(x))
Insert(x, old) == IF old = "none" THEN ThroughCsv(AsStored(x)) ELSE old

RestoreTable ==
    /\ doing = "restore"
    /\ restored < Len(RestoreOrder)
    /\ LET table == RestoreOrder[restored + 1]
       IN  IF table \in DOMAIN archive
           THEN /\ database' = [x \in UpdRows |-> IF x \in archive[table]
                                                  THEN Insert(x, database[x])
                                                  ELSE database[x]]
                /\ restored' = restored + 1
                /\ doing' = IF restored' = Len(RestoreOrder) THEN "done" ELSE "restore"
           ELSE /\ doing' = "failed"
                /\ UNCHANGED <<database, restored>>
    /\ UNCHANGED <<live, options, taken, archive, arrivals, crashes>>

RestoreCrashes ==
    /\ doing = "restore"
    /\ crashes < MaxCrashes
    /\ crashes' = crashes + 1
    /\ doing' = "crashed"
    /\ UNCHANGED <<live, options, taken, archive, database, restored, arrivals>>

UpdNext ==
    \/ \E x \in UpdRows : RowIngested(x)
    \/ SnapshotTable
    \/ SnapshotCloses
    \/ RestoreStarts
    \/ RestoreTable
    \/ RestoreCrashes

UpdSpec == UpdInit /\ [][UpdNext]_updVars

-----------------------------------------------------------------------------
(* Properties.                                                             *)

(* Every variable holds a value of its type; the files of the archive hold *)
(* rows of their table.                                                    *)
UpdTypeOK ==
    /\ live \subseteq UpdRows
    /\ options \in EveryOption
    /\ taken \in 0..Len(SnapshotOrder)
    /\ DOMAIN archive \subseteq Tables
    /\ \A table \in DOMAIN archive : archive[table] \subseteq RowsOfTable(live, table)
    /\ database \in [UpdRows -> {"none", "null text", "empty text", "other null"}]
    /\ restored \in 0..Len(RestoreOrder)
    /\ doing \in {"snapshot", "archived", "restore", "crashed", "failed", "done"}
    /\ arrivals \in 0..MaxArrivals
    /\ crashes \in 0..MaxCrashes

Archived == UNION {archive[table] : table \in DOMAIN archive}
Has(x) == database[x] # "none"
Closed(S) == \A x \in S : Refers[x] \subseteq S

(* A restore goes parents first: if the archive and the target hold the    *)
(* rows theirs refer to, so does the target wherever a restore dies, and   *)
(* when it is run again.                                                   *)
ReferencesKept ==
    doing \notin {"snapshot"} /\ Closed(Archived \union TargetHas) /\ Closed(TargetHas) =>
        Closed({x \in UpdRows : Has(x)})

(* Whatever dies and is run again, a restore that ends has put every row   *)
(* of the archive in the database, and none of those that were there has   *)
(* changed.                                                                *)
RestoreAddsOnly ==
    /\ doing = "done" => \A x \in Archived : Has(x)
    /\ \A x \in TargetHas : database[x] = AsStored(x)

(* docs/update_db command.md: --related-data-only limits the data to that  *)
(* where the foreign key constraint is not broken.                         *)
RelatedDataOnly ==
    taken = Len(SnapshotOrder) /\ options.related /\ options.table = "all" => Closed(Archived)
=============================================================================
