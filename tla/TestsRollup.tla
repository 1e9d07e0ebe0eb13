---------------------------- MODULE TestsRollup ----------------------------
(***************************************************************************)
(* tree_tests_rollup, the table of test counts the tree pages read, and    *)
(* the three programs that write it or the records it depends on: the      *)
(* aggregator's rollup batches, populate_tree_tests_rollup, which          *)
(* recomputes a checkout from the source tables, and                       *)
(* delete_unused_hardware_status, which forgets what was counted for old   *)
(* checkouts.                                                              *)
(*                                                                         *)
(* A row of the rollup is one combination of commit, place and issue.  The *)
(* place of a test stands for all that its key takes from columns a later  *)
(* report may complete (hardware, path group, config, lab..): it can       *)
(* become known after the test has been counted, and so can the issue.     *)
(***************************************************************************)
EXTENDS ListingStatus, Functions

CONSTANTS
    RollupTests,
    RollupCheckouts,
    RollupCommits,    \* what identifies a checkout in the rollup's key
    RollupCheckoutOf, \* [RollupTests -> RollupCheckouts]
    RollupCommitOf,   \* [RollupCheckouts -> RollupCommits]
    RollupStale,      \* the checkouts that are not the latest of their tree
    Places,           \* values of the hardware key
    NoPlace,          \* UNKNOWN_STRING
    RollupIssues,
    Given,            \* the statuses the submissions bring
    MaxInputs         \* bound on the tests ingested and the cleanups run

FullStatus == {"PASS", "FAIL", "SKIP", "ERROR", "MISS", "DONE"}

ASSUME RollupAssumption ==
    /\ IsFiniteSet(RollupTests)
    /\ RollupCheckoutOf \in [RollupTests -> RollupCheckouts]
    /\ RollupCommitOf \in [RollupCheckouts -> RollupCommits]
    /\ RollupStale \subseteq RollupCheckouts
    /\ NoPlace \notin Places
    /\ {"none", "uncategorized"} \intersect RollupIssues = {}
    /\ Given \subseteq FullStatus \union {Null}
    /\ MaxInputs \in Nat

VARIABLES
    tests,        \* test -> what tests says of it: its status and its place
    queue,        \* test -> the same in pending_test; status NoRow: no row
    firstIssue,   \* test -> issue of its first incident, or "none"
    counted,      \* test -> processed_listing_items under its rollup key
    rows,         \* tree_tests_rollup: key of a row -> column -> count
    step,         \* where the aggregator is
    chosen,       \* tests of its batch -> what it read of their rows
    existing,     \* what it read of processed_listing_items
    populating,   \* the checkout populate_tree_tests_rollup is at, or "no"
    snapshot,     \* the tests it read
    fresh,        \* the rows it computed, once it has
    populated,    \* the checkouts it has written
    inputs

rollupTables == <<tests, queue, firstIssue, counted, rows>>
rollupBatch == <<step, chosen, existing>>
populate == <<populating, snapshot, fresh, populated>>
rollupVars == <<rollupTables, rollupBatch, populate, inputs>>

-----------------------------------------------------------------------------
(* simplify_status *)
Simplified(s) == IF s \in {"PASS", "FAIL", Null} THEN s ELSE "INC"

(* ROLLUP_STATUS_FIELDS.get(status, "null_tests") *)
Columns == FullStatus \union {Null, "total"}
Column(s) == IF s \in FullStatus THEN s ELSE Null

IssueColumn == RollupIssues \union {"none", "uncategorized"}
RowKeys == RollupCommits \X (Places \union {NoPlace}) \X IssueColumn

(* A failure without an issue is uncategorized; anything else is not.      *)
IssueOf(seen, issue) ==
    IF issue = "none" /\ seen.status = "FAIL" THEN "uncategorized" ELSE issue

RowKey(t, seen, issue) ==
    <<RollupCommitOf[RollupCheckoutOf[t]], seen.place, IssueOf(seen, issue)>>

RowsFor(seen, issues) == {RowKey(t, seen[t], issues[t]) : t \in DOMAIN seen}
NoRows == [k \in {} |-> [c \in Columns |-> 0]]

Cell(table, k, c) == IF k \in DOMAIN table THEN table[k][c] ELSE 0

(* A slip: the correction of a null adds to the total once more.           *)
AccumulateAnew(seen, issues, again) ==
    [k \in RowsFor(seen, issues) |->
       LET here == {t \in DOMAIN seen : RowKey(t, seen[t], issues[t]) = k}
       IN  [c \in Columns |->
              Cardinality({t \in here : c \in {"total", Column(seen[t].status)}})]]

(* accumulate_rollup_entry over a set of tests: each is counted once, in   *)
(* the row its data put it in now; one that had been counted with no       *)
(* status moves from null_tests to its column instead, in that same row.   *)
Accumulate(seen, issues, again) ==
    [k \in RowsFor(seen, issues) |->
       LET here == {t \in DOMAIN seen : RowKey(t, seen[t], issues[t]) = k}
       IN  [c \in Columns |->
              IF c = "total" THEN Cardinality(here \ again)
              ELSE Cardinality({t \in here : Column(seen[t].status) = c})
                   - IF c = Null THEN Cardinality(here \intersect again) ELSE 0]]

-----------------------------------------------------------------------------
NoTest == [status |-> NoRow, place |-> NoPlace]
NoSnapshot == [t \in {} |-> NoTest]

RollupInit ==
    /\ tests = [t \in RollupTests |-> NoTest]
    /\ queue = [t \in RollupTests |-> NoTest]
    /\ firstIssue = [t \in RollupTests |-> "none"]
    /\ counted = [t \in RollupTests |-> NoRow]
    /\ rows = NoRows
    /\ step = "idle"
    /\ chosen = NoSnapshot
    /\ existing = [t \in RollupTests |-> NoRow]
    /\ populating = "no"
    /\ snapshot = NoSnapshot
    /\ fresh = NoRows
    /\ populated = {}
    /\ inputs = 0

(* COALESCE, column by column: what is known stays.                        *)
Merge(old, new) ==
    [status |-> IF old.status \in {NoRow, Null} THEN new.status ELSE old.status,
     place |-> IF old.place = NoPlace THEN new.place ELSE old.place]

(* aggregate_tests locks out the aggregator's batch only until it has been *)
(* counted.                                                                *)
IngestTest(t) ==
    /\ inputs < MaxInputs
    /\ inputs' = inputs + 1
    /\ step = "read" => t \notin DOMAIN chosen
    /\ \E new \in [status : Given, place : Places \union {NoPlace}] :
         /\ tests' = [tests EXCEPT ![t] = Merge(@, new)]
         /\ queue' = [queue EXCEPT ![t] = Merge(@, new)]
    /\ UNCHANGED <<firstIssue, counted, rows, rollupBatch, populate>>

(* An incident arrives; whether it is now the first depends on its         *)
(* timestamp, not on when it arrives.                                      *)
IngestIncident(t) ==
    /\ \E issue \in RollupIssues : firstIssue' = [firstIssue EXCEPT ![t] = issue]
    /\ UNCHANGED <<tests, queue, counted, rows, rollupBatch, populate, inputs>>

-----------------------------------------------------------------------------
(* The aggregator.  _get_ready_tests locks a page of pending_test, and     *)
(* _get_existing_processed reads what has been counted of it.              *)
ReadRollupBatch ==
    /\ step = "idle"
    /\ populating = "no"
    /\ \E batch \in (SUBSET {t \in RollupTests : queue[t].status # NoRow}) \ {{}} :
         chosen' = [t \in batch |-> queue[t]]
    /\ existing' = [t \in RollupTests |-> IF t \in DOMAIN chosen' THEN counted[t] ELSE NoRow]
    /\ step' = "read"
    /\ UNCHANGED <<rollupTables, populate, inputs>>

(* _process_tests_rollup_batch: a test is skipped if it was counted with a *)
(* status, or without one and still has none.                              *)
ToProcess(known) ==
    {t \in DOMAIN chosen : NeedsCount(known[t], Simplified(chosen[t].status))}

CountRollupBatch ==
    /\ step = "read"
    /\ LET new == ToProcess(existing)
           again == {t \in new : existing[t] = Null}
           add == Accumulate([t \in new |-> chosen[t]], firstIssue, again)
       IN  /\ rows' = [k \in DOMAIN rows \union DOMAIN add |->
                         [c \in Columns |-> Cell(rows, k, c) + Cell(add, k, c)]]
           /\ counted' = [t \in RollupTests |->
                            IF t \in new THEN Simplified(chosen[t].status)
                                         ELSE counted[t]]
    /\ step' = "counted"
    /\ UNCHANGED <<tests, queue, firstIssue, chosen, existing, populate, inputs>>

(* Transaction 3 deletes the pending rows.                                 *)
DeleteRollupBatch ==
    /\ step = "counted"
    /\ queue' = [t \in RollupTests |-> IF t \in DOMAIN chosen THEN NoTest ELSE queue[t]]
    /\ step' = "idle"
    /\ chosen' = NoSnapshot
    /\ existing' = [t \in RollupTests |-> NoRow]
    /\ UNCHANGED <<tests, firstIssue, counted, rows, populate, inputs>>

(* It dies, or is stopped for the runbook of populate_tree_tests_rollup.   *)
StopAggregator ==
    /\ step # "idle"
    /\ step' = "idle"
    /\ chosen' = NoSnapshot
    /\ existing' = [t \in RollupTests |-> NoRow]
    /\ UNCHANGED <<rollupTables, populate, inputs>>

-----------------------------------------------------------------------------
(* populate_tree_tests_rollup, with the aggregator stopped as its help     *)
(* asks.  It reads a checkout's tests, then their issues, and writes both  *)
(* tables in one transaction.                                              *)
ReadSource(c) ==
    /\ populating = "no"
    /\ step = "idle"
    /\ LET ofCheckout == {t \in RollupTests : /\ RollupCheckoutOf[t] = c
                                              /\ tests[t].status # NoRow}
       IN  /\ ofCheckout # {}
           /\ snapshot' = [t \in ofCheckout |-> tests[t]]
    /\ populating' = c
    /\ UNCHANGED <<rollupTables, rollupBatch, fresh, populated, inputs>>

ReadIssues ==
    /\ populating # "no"
    /\ fresh = NoRows
    /\ fresh' = Accumulate(snapshot, firstIssue, {})
    /\ UNCHANGED <<rollupTables, rollupBatch, populating, snapshot, populated, inputs>>

(* _upsert_rollup_replace replaces the rows it computed, those some test   *)
(* is in, and leaves the others.                                           *)
ReplacedIfThere == DOMAIN fresh \intersect DOMAIN rows
Replaced == DOMAIN fresh

PopulateWrites ==
    /\ populating # "no"
    /\ fresh # NoRows
    /\ rows' = [k \in DOMAIN rows \union Replaced |->
                  IF k \in Replaced THEN fresh[k] ELSE rows[k]]
    /\ counted' = [t \in RollupTests |->
                     IF t \in DOMAIN snapshot THEN Simplified(snapshot[t].status)
                                              ELSE counted[t]]
    /\ populated' = populated \union {populating}
    /\ populating' = "no"
    /\ snapshot' = NoSnapshot
    /\ fresh' = NoRows
    /\ UNCHANGED <<tests, queue, firstIssue, rollupBatch, inputs>>

(* An exception on a checkout is counted as failed, and nothing of it was  *)
(* written; so is nothing by --dry-run.                                    *)
PopulateFails ==
    /\ populating # "no"
    /\ populating' = "no"
    /\ snapshot' = NoSnapshot
    /\ fresh' = NoRows
    /\ UNCHANGED <<rollupTables, rollupBatch, populated, inputs>>

(* delete_unused_hardware_status deletes every processed_listing_items row *)
(* of a checkout that is not the latest of its tree.                       *)
ForgetStale ==
    /\ inputs < MaxInputs
    /\ inputs' = inputs + 1
    /\ counted' = [t \in RollupTests |->
                     IF RollupCheckoutOf[t] \in RollupStale THEN NoRow ELSE counted[t]]
    /\ counted' # counted
    /\ UNCHANGED <<tests, queue, firstIssue, rows, rollupBatch, populate>>

RollupNext ==
    \/ \E t \in RollupTests : IngestTest(t) \/ IngestIncident(t)
    \/ ReadRollupBatch
    \/ CountRollupBatch
    \/ DeleteRollupBatch
    \/ StopAggregator
    \/ \E c \in RollupCheckouts : ReadSource(c)
    \/ ReadIssues
    \/ PopulateWrites
    \/ PopulateFails
    \/ ForgetStale

RollupSpec == RollupInit /\ [][RollupNext]_rollupVars

-----------------------------------------------------------------------------
(* Properties.                                                             *)

TestRow == [status : FullStatus \union {Null, NoRow}, place : Places \union {NoPlace}]
Counts(table) ==
    /\ DOMAIN table \subseteq RowKeys
    /\ \A k \in DOMAIN table : table[k] \in [Columns -> Int]

(* Every variable holds a value of its table or of its program point; the  *)
(* counters are integers, and nothing keeps them from being negative.      *)
RollupTypeOK ==
    /\ tests \in [RollupTests -> TestRow]
    /\ queue \in [RollupTests -> TestRow]
    /\ firstIssue \in [RollupTests -> RollupIssues \union {"none"}]
    /\ counted \in [RollupTests -> Row]
    /\ Counts(rows)
    /\ step \in {"idle", "read", "counted"}
    /\ DOMAIN chosen \subseteq RollupTests
    /\ \A t \in DOMAIN chosen : chosen[t] \in TestRow
    /\ existing \in [RollupTests -> Row]
    /\ populating \in RollupCheckouts \union {"no"}
    /\ DOMAIN snapshot \subseteq RollupTests
    /\ \A t \in DOMAIN snapshot : snapshot[t] \in TestRow
    /\ Counts(fresh)
    /\ populated \subseteq RollupCheckouts
    /\ inputs \in 0..MaxInputs

(* What a commit's page shows: a column summed over the commit's rows; and *)
(* how many of its tests are recorded with a status.                       *)
CommitSum(m, c) == SumFunction([k \in {key \in DOMAIN rows : key[1] = m} |-> rows[k][c]])
KnownSum(m, s) ==
    IF s = "INC" THEN CommitSum(m, "SKIP") + CommitSum(m, "ERROR")
                        + CommitSum(m, "MISS") + CommitSum(m, "DONE")
                 ELSE CommitSum(m, s)
TestsOf(m) == {t \in RollupTests : RollupCommitOf[RollupCheckoutOf[t]] = m}
Recorded(m, s) == Cardinality({t \in TestsOf(m) : counted[t] = s})
RecordedAtAll(m) == Cardinality({t \in TestsOf(m) : counted[t] # NoRow})
CheckoutsOf(m) == {c \in RollupCheckouts : RollupCommitOf[c] = m}

(* A correction may take its null from another row than the one the test   *)
(* was counted in, but the sums over a commit do not show it: as long as   *)
(* only the aggregator has written it, each one is exactly the number of   *)
(* tests recorded (_process_tests_rollup_batch).                           *)
CommitSumsExact ==
    \A m \in RollupCommits :
        CheckoutsOf(m) \intersect (populated \union RollupStale) = {} =>
            /\ CommitSum(m, "total") = RecordedAtAll(m)
            /\ \A s \in Status : KnownSum(m, s) = Recorded(m, s)

(* Whatever is recomputed or forgotten, at any moment, a test that is      *)
(* recorded is in the sums of its commit (populate_tree_tests_rollup,      *)
(* delete_unused_hardware_status), if the commit has one checkout only.    *)
RecordedIsSummed ==
    \A m \in RollupCommits :
        (\A c, d \in CheckoutsOf(m) : c = d) =>
            /\ CommitSum(m, "total") >= RecordedAtAll(m)
            /\ \A s \in Known : KnownSum(m, s) >= Recorded(m, s)

(* The help of populate_tree_tests_rollup: it recomputes the table from    *)
(* the source data.  So with the aggregator stopped, the tests of the      *)
(* checkouts it has written are all in the sums.                           *)
PopulateRecomputes ==
    \A m \in RollupCommits :
        CheckoutsOf(m) \subseteq populated => CommitSum(m, "total") >= RecordedAtAll(m)

(* The rows are counts of tests (TreeTestsRollup): none is negative.       *)
CountsNotNegative == \A k \in DOMAIN rows, c \in Columns : rows[k][c] >= 0
=============================================================================
