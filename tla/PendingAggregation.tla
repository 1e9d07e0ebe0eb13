------------------------- MODULE PendingAggregation -------------------------
(***************************************************************************)
(* The two programs that keep the listings up to date, and the tables they *)
(* share.  The ingester's workers write submissions to the source tables   *)
(* and to pending_test / pending_builds in one transaction each            *)
(* (flush_buffers).  The aggregator (process_pending_aggregations) takes   *)
(* the pending rows page by page and, in three transactions, counts them   *)
(* in hardware_status, then in tree_listing, and then deletes them.        *)
(* processed_listing_items records what has been counted, so that a page   *)
(* taken again after a crash is not counted twice.                         *)
(*                                                                         *)
(* A flush is one ingestion of one submission file.  Transactions take     *)
(* effect at their commit; the row locks they hold until then are modelled *)
(* where the other program can meet them, in the pending tables.           *)
(***************************************************************************)
EXTENDS ListingStatus

CONSTANTS
    Tests, Builds,  \* ids; their order is the order of the primary keys
    Checkouts, TreeRows,
    Platforms, NoPlatform,
    BuildOf,        \* [Tests -> Builds]
    CheckoutOf,     \* [Builds -> Checkouts]
    TreeRowOf,      \* [Checkouts -> TreeRows]: its tree_listing row
    DummyBuilds,    \* the builds with the maestro dummy prefix
    Flushes,
    CheckoutsIn,    \* [Flushes -> SUBSET Checkouts]
    Reported,       \* [Flushes -> [Tests \union Builds -> Row]]
    DetailIn,       \* [Flushes -> [Tests -> Detail]]: what a file says of a test besides
    BatchSize,      \* --batch-size
    MaxRetries,     \* PROCESS_PENDING_MAX_RETRIES
    MaxFaults,      \* bound on the aggregator's crashes and deadlocks
    MaxReplays      \* bound on the files ingested again

Items == Tests \union Builds

(* The columns of pending_test that decide where a test is counted: whether*)
(* the path of the file that inserted the row is a boot, and the platform. *)
Detail == [boot : BOOLEAN, platform : Platforms \union {NoPlatform}]
NoDetail == [boot |-> FALSE, platform |-> NoPlatform]

ASSUME IdsAssumption ==
    /\ Tests \subseteq Nat \ {0} /\ IsFiniteSet(Tests)
    /\ Builds \subseteq Nat \ {0} /\ IsFiniteSet(Builds)
    /\ Tests \intersect Builds = {}
ASSUME RelationsAssumption ==
    /\ BuildOf \in [Tests -> Builds]
    /\ CheckoutOf \in [Builds -> Checkouts]
    /\ TreeRowOf \in [Checkouts -> TreeRows]
    /\ IsFiniteSet(Platforms) /\ NoPlatform \notin Platforms
    /\ DummyBuilds \subseteq Builds
ASSUME FlushesAssumption ==
    /\ CheckoutsIn \in [Flushes -> SUBSET Checkouts]
    /\ Reported \in [Flushes -> [Items -> Row]]
    /\ DetailIn \in [Flushes -> [Tests -> Detail]]
ASSUME BoundsAssumption ==
    /\ BatchSize \in Nat \ {0}
    /\ MaxRetries \in Nat \ {0}
    /\ MaxFaults \in Nat
    /\ MaxReplays \in Nat

VARIABLES
    (* the database *)
    checkouts,      \* the checkouts stored
    source,         \* item -> status of its row in tests / builds
    pending,        \* item -> status of its row in pending_test / pending_builds
    details,        \* test -> the detail in its pending row
    treeDone,       \* item -> processed_listing_items, under the tree listing key
    treeCount,      \* cell -> counter of tree_listing
    hwTest,         \* test on a platform -> processed_listing_items, hardware key
    hwTestCount,    \* cell -> test and boot counters of hardware_status
    hwBuild,        \* build on a platform -> processed_listing_items
    hwBuildCount,   \* cell -> build counters of hardware_status
    (* the ingester's workers *)
    progress,       \* flush -> where its file or its transaction is
    upserted,       \* flush -> pending rows its open transaction has locked
    replays,
    (* the aggregator process *)
    pc, page, lastTest, lastBuild,
    batch,          \* item -> status of the pending row it has read
    taken,          \* test -> detail of the pending row it has read
    buildSnap, attempt,
    faults

database == <<checkouts, source, pending, details>>
listings == <<treeDone, treeCount, hwTest, hwTestCount, hwBuild, hwBuildCount>>
ingester == <<progress, upserted, replays>>
aggregator == <<pc, page, lastTest, lastBuild, batch, taken, buildSnap, attempt>>
vars == <<database, listings, ingester, aggregator, faults>>

-----------------------------------------------------------------------------
(* The counters.  A cell is one counter column of one listing row.  The    *)
(* column of a test is that of the row in the batch, whatever it was when  *)
(* the test was counted before.                                            *)

KindOf(i) == IF i \in Builds THEN "build" ELSE IF taken[i].boot THEN "boot" ELSE "test"
Kinds == {"build", "boot", "test"}
ItemCheckout(i) == IF i \in Builds THEN CheckoutOf[i] ELSE CheckoutOf[BuildOf[i]]

TreeCells == TreeRows \X Kinds \X Known
TreeCellOf == [x \in Items \X Known |->
                 <<TreeRowOf[ItemCheckout(x[1])], KindOf(x[1]), x[2]>>]

(* A hardware_status row is keyed by platform and checkout (and origin,    *)
(* which is one here), a processed item by platform, checkout and test: on *)
(* another platform a test is another item.                                *)
HwItems == Tests \X Platforms
HwTestCells == Platforms \X Checkouts \X {"boot", "test"} \X Known
HwTestCellOf == [x \in HwItems \X Known |->
                   <<x[1][2], ItemCheckout(x[1][1]), KindOf(x[1][1]), x[2]>>]

BuildKey(x) == <<BuildOf[x[1]], x[2]>>
BuildKeys == (Builds \ DummyBuilds) \X Platforms
HwBuildCells == Platforms \X Checkouts \X Known
HwBuildCellOf == [x \in BuildKeys \X Known |-> <<x[1][2], CheckoutOf[x[1][1]], x[2]>>]

-----------------------------------------------------------------------------
NoBatch == [i \in Items |-> NoRow]
NoDetails == [t \in Tests |-> NoDetail]
NoBuilds == [b \in Builds |-> NoRow]

Init ==
    /\ checkouts = {}
    /\ source = [i \in Items |-> NoRow]
    /\ pending = [i \in Items |-> NoRow]
    /\ details = NoDetails
    /\ treeDone = [i \in Items |-> NoRow]
    /\ treeCount = [c \in TreeCells |-> 0]
    /\ hwTest = [x \in HwItems |-> NoRow]
    /\ hwTestCount = [c \in HwTestCells |-> 0]
    /\ hwBuild = [k \in BuildKeys |-> NoRow]
    /\ hwBuildCount = [c \in HwBuildCells |-> 0]
    /\ progress = [f \in Flushes |-> "spool"]
    /\ upserted = [f \in Flushes |-> {}]
    /\ replays = 0
    /\ pc = "idle"
    /\ page = {}
    /\ lastTest = 0
    /\ lastBuild = 0
    /\ batch = NoBatch
    /\ taken = NoDetails
    /\ buildSnap = NoBuilds
    /\ attempt = 0
    /\ faults = 0

-----------------------------------------------------------------------------
(* The ingester: one flush_buffers transaction per file, several at a time.*)

Mentions(f) == {i \in Items : Reported[f][i] # NoRow}
Open == {f \in Flushes : progress[f] = "open"}
HeldByFlushes == UNION {upserted[f] : f \in Open}

(* SELECT ... FOR UPDATE keeps the page locked until transaction 1 ends.   *)
HeldByAggregator ==
    IF pc \in {"read_builds", "lock_builds", "read_checkouts"} THEN page ELSE {}

(* The rows of the source tables are upserted, in key order; a second      *)
(* transaction on one of the same rows waits for the first.                *)
FlushBegin(f) ==
    /\ progress[f] = "spool"
    /\ \A g \in Open : /\ Mentions(g) \intersect Mentions(f) = {}
                       /\ CheckoutsIn[g] \intersect CheckoutsIn[f] = {}
    /\ progress' = [progress EXCEPT ![f] = "open"]
    /\ UNCHANGED <<database, listings, upserted, replays, aggregator, faults>>

(* The pending rows follow: the tests in key order, then the builds.       *)
Precedes(i, j) == \/ i \in Tests /\ j \in Builds
                  \/ (i \in Tests <=> j \in Tests) /\ i < j

FlushUpsert(f) ==
    /\ progress[f] = "open"
    /\ \E i \in Mentions(f) \ upserted[f] :
         /\ \A j \in Mentions(f) \ upserted[f] : j = i \/ Precedes(i, j)
         /\ i \notin HeldByAggregator
         /\ upserted' = [upserted EXCEPT ![f] = @ \union {i}]
    /\ UNCHANGED <<database, listings, progress, replays, aggregator, faults>>

(* The file leaves the spool, unless its rename fails or the worker dies:  *)
(* then it is ingested again later.                                        *)
FlushEnds(f, end) ==
    /\ progress' = [progress EXCEPT ![f] = end]
    /\ upserted' = [upserted EXCEPT ![f] = {}]
    /\ IF end = "spool" THEN replays < MaxReplays /\ replays' = replays + 1
                        ELSE replays' = replays
    /\ UNCHANGED <<listings, aggregator, faults>>

(* aggregate_tests: the upsert completes the platform of a row that has    *)
(* none, and leaves is_boot as it was inserted.                            *)
UpsertDetail(t, f) ==
    IF Reported[f][t] = NoRow THEN details[t]
    ELSE IF pending[t] = NoRow THEN DetailIn[f][t]
    ELSE [details[t] EXCEPT
            !.platform = IF @ = NoPlatform THEN DetailIn[f][t].platform ELSE @]

FlushCommit(f) ==
    /\ progress[f] = "open"
    /\ upserted[f] = Mentions(f)
    /\ checkouts' = checkouts \union CheckoutsIn[f]
    /\ source' = [i \in Items |-> Upsert(source[i], Reported[f][i])]
    /\ pending' = [i \in Items |-> Upsert(pending[i], Reported[f][i])]
    /\ details' = [t \in Tests |-> UpsertDetail(t, f)]
    /\ \E end \in {"archived", "spool"} : FlushEnds(f, end)

(* The transaction rolls back.                                             *)
FlushAbort(f) ==
    /\ progress[f] = "open"
    /\ \E end \in {"failed", "spool"} : FlushEnds(f, end)
    /\ UNCHANGED database

-----------------------------------------------------------------------------
(* The aggregator: process_pending_batch.                                  *)

(* The first BatchSize rows after the last one seen; SKIP LOCKED passes    *)
(* over those a flush holds.                                               *)
Page(ids, last) ==
    LET free == {i \in ids \ HeldByFlushes : pending[i] # NoRow /\ i > last}
    IN  {i \in free : Cardinality({j \in free : j < i}) < BatchSize}

LastSeen(seen, last) ==
    IF seen = {} THEN last ELSE CHOOSE i \in seen : \A j \in seen : j <= i

StartPass ==
    /\ pc = "idle"
    /\ pc' = "lock_tests"
    /\ UNCHANGED <<database, listings, ingester, page, lastTest, lastBuild,
                   batch, taken, buildSnap, attempt, faults>>

LockTests ==
    /\ pc = "lock_tests"
    /\ page' = Page(Tests, lastTest)
    /\ lastTest' = LastSeen(page', lastTest)
    /\ pc' = IF page' = {} THEN "lock_builds" ELSE "read_builds"
    /\ UNCHANGED <<database, listings, ingester, lastBuild, batch, taken,
                   buildSnap, attempt, faults>>

(* Builds.objects.select_related("checkout"): an inner join, so a build    *)
(* without its checkout is not found; a test is ready if its build is.     *)
ReadBuilds ==
    /\ pc = "read_builds"
    /\ buildSnap' = [b \in Builds |->
                       IF /\ \E t \in page : BuildOf[t] = b
                          /\ CheckoutOf[b] \in checkouts
                       THEN source[b] ELSE NoRow]
    /\ batch' = [i \in Items |->
                   IF i \in page /\ buildSnap'[BuildOf[i]] # NoRow
                   THEN pending[i] ELSE NoRow]
    /\ taken' = [t \in Tests |-> IF batch'[t] # NoRow THEN details[t] ELSE NoDetail]
    /\ pc' = "lock_builds"
    /\ UNCHANGED <<database, listings, ingester, page, lastTest, lastBuild,
                   attempt, faults>>

LockBuilds ==
    /\ pc = "lock_builds"
    /\ LET builds == Page(Builds, lastBuild)
       IN  /\ page' = page \union builds
           /\ lastBuild' = LastSeen(builds, lastBuild)
    /\ pc' = "read_checkouts"
    /\ UNCHANGED <<database, listings, ingester, lastTest, batch, taken,
                   buildSnap, attempt, faults>>

(* aggregate_hardware_status: the ready tests that have a platform and are *)
(* not yet counted on it, and with each of them its build there.           *)
HwBatch == [x \in HwItems |-> IF taken[x[1]].platform = x[2] THEN batch[x[1]] ELSE NoRow]
HwNewAnyTime == {x \in HwItems : HwBatch[x] # NoRow}
HwNew == {x \in HwItems : HwBatch[x] # NoRow /\ NeedsCount(hwTest[x], HwBatch[x])}
HwBuildNew ==
    {k \in BuildKeys : /\ \E x \in HwNew : BuildKey(x) = k
                       /\ NeedsCount(hwBuild[k], buildSnap[k[1]])}

HwBuildChangeWithoutDecrement(c) ==
    Cardinality({k \in HwBuildNew : HwBuildCellOf[<<k, Outcome(buildSnap[k[1]])>>] = c})

(* _check_item_was_processed takes 1 off build_inc whenever the recorded   *)
(* status is null and the new one is not, before it looks whether this     *)
(* very batch has counted the build already: once for every test.          *)
HwBuildChange(c) ==
    Cardinality({k \in HwBuildNew : HwBuildCellOf[<<k, Outcome(buildSnap[k[1]])>>] = c})
    - Cardinality({x \in HwNew : LET k == BuildKey(x)
                                 IN  /\ k \in HwBuildNew
                                     /\ hwBuild[k] = Null
                                     /\ HwBuildCellOf[<<k, "INC">>] = c})

CountHardware ==
    /\ hwTest' = [x \in HwItems |-> IF x \in HwNew THEN HwBatch[x] ELSE hwTest[x]]
    /\ hwTestCount' = [c \in HwTestCells |->
                         hwTestCount[c] + CountChange(hwTest, HwNew, HwBatch, HwTestCellOf, c)]
    /\ hwBuild' = [k \in BuildKeys |->
                     IF k \in HwBuildNew THEN buildSnap[k[1]] ELSE hwBuild[k]]
    /\ hwBuildCount' = [c \in HwBuildCells |-> hwBuildCount[c] + HwBuildChange(c)]

(* The rest of transaction 1: the builds of the page whose checkout is     *)
(* stored are ready, hardware_status is written, and the commit releases   *)
(* the page.                                                               *)
CommitHardware ==
    /\ pc = "read_checkouts"
    /\ CountHardware
    /\ batch' = [i \in Items |->
                   IF i \in page \intersect Builds /\ CheckoutOf[i] \in checkouts
                   THEN pending[i] ELSE batch[i]]
    /\ pc' = IF batch' = NoBatch THEN "delete" ELSE "tree"
    /\ attempt' = 0
    /\ UNCHANGED <<database, treeDone, treeCount, ingester, page, lastTest,
                   lastBuild, taken, buildSnap, faults>>

(* Transaction 2: tree_listing and its processed items.  Dummy builds are  *)
(* not counted.                                                            *)
TreeNewOnce == {i \in Items \ DummyBuilds : batch[i] # NoRow /\ treeDone[i] = NoRow}
TreeNew == {i \in Items \ DummyBuilds :
              batch[i] # NoRow /\ NeedsCount(treeDone[i], batch[i])}

CommitTree ==
    /\ pc = "tree"
    /\ treeDone' = [i \in Items |-> IF i \in TreeNew THEN batch[i] ELSE treeDone[i]]
    /\ treeCount' = [c \in TreeCells |->
                       treeCount[c] + CountChange(treeDone, TreeNew, batch, TreeCellOf, c)]
    /\ pc' = "delete"
    /\ UNCHANGED <<database, hwTest, hwTestCount, hwBuild, hwBuildCount, ingester,
                   page, lastTest, lastBuild, batch, taken, buildSnap, attempt, faults>>

(* A process that dies (a signal, an error, the last deadlock) keeps       *)
(* nothing; its container restarts it.                                     *)
Restart ==
    /\ faults < MaxFaults
    /\ faults' = faults + 1
    /\ pc' = "idle"
    /\ page' = {}
    /\ lastTest' = 0
    /\ lastBuild' = 0
    /\ batch' = NoBatch
    /\ taken' = NoDetails
    /\ buildSnap' = NoBuilds
    /\ attempt' = 0
    /\ UNCHANGED <<database, listings, ingester>>

Crash == pc # "idle" /\ Restart

(* Transaction 2 is chosen as the victim of a deadlock with a flush.       *)
MayRetryOnceMore == attempt < MaxRetries
MayRetry == attempt < MaxRetries - 1

TreeDeadlock ==
    /\ pc = "tree"
    /\ Open # {}
    /\ IF MayRetry
       THEN /\ attempt' = attempt + 1
            /\ faults < MaxFaults
            /\ faults' = faults + 1
            /\ UNCHANGED <<database, listings, ingester, pc, page, lastTest,
                           lastBuild, batch, taken, buildSnap>>
       ELSE Restart

(* Transaction 3: the rows are deleted by id, whatever they hold by now.   *)
(* It waits for the flushes that hold one of them.  The pass goes on until *)
(* a page of both kinds is empty; the next one starts from the beginning.  *)
DeletedWithPage == page
Deleted == {i \in Items : batch[i] # NoRow}

CursorKept(last) == last
Cursor(last) == IF page = {} THEN 0 ELSE last

DeletePending ==
    /\ pc = "delete"
    /\ HeldByFlushes \intersect Deleted = {}
    /\ pending' = [i \in Items |-> IF i \in Deleted THEN NoRow ELSE pending[i]]
    /\ details' = [t \in Tests |-> IF t \in Deleted THEN NoDetail ELSE details[t]]
    /\ batch' = NoBatch
    /\ taken' = NoDetails
    /\ buildSnap' = NoBuilds
    /\ page' = {}
    /\ attempt' = 0
    /\ lastTest' = Cursor(lastTest)
    /\ lastBuild' = Cursor(lastBuild)
    /\ pc' = IF page = {} THEN "idle" ELSE "lock_tests"
    /\ UNCHANGED <<checkouts, source, listings, ingester, faults>>

-----------------------------------------------------------------------------
FlushStep(f) == FlushBegin(f) \/ FlushUpsert(f) \/ FlushCommit(f) \/ FlushAbort(f)

AggregatorStep ==
    \/ StartPass
    \/ LockTests
    \/ ReadBuilds
    \/ LockBuilds
    \/ CommitHardware
    \/ CommitTree
    \/ DeletePending

Next == \/ \E f \in Flushes : FlushStep(f)
        \/ AggregatorStep
        \/ TreeDeadlock
        \/ Crash

Spec == Init /\ [][Next]_vars

(* The aggregator's loop runs for ever and its container restarts it; a    *)
(* worker's transaction ends, one way or the other.  Nothing says that a   *)
(* file ever arrives.                                                      *)
Fairness ==
    /\ WF_vars(AggregatorStep)
    /\ \A f \in Flushes : WF_vars(FlushCommit(f) \/ FlushAbort(f))

FairSpec == Spec /\ Fairness

-----------------------------------------------------------------------------
(* Properties.                                                             *)

(* Every variable holds a value of its table or of its program point; the  *)
(* rows a transaction holds and the batch are rows of the pending tables.  *)
TypeOK ==
    /\ checkouts \subseteq Checkouts
    /\ source \in [Items -> Row]
    /\ pending \in [Items -> Row]
    /\ details \in [Tests -> Detail]
    /\ treeDone \in [Items -> Row]
    /\ treeCount \in [TreeCells -> Int]
    /\ hwTest \in [HwItems -> Row]
    /\ hwTestCount \in [HwTestCells -> Int]
    /\ hwBuild \in [BuildKeys -> Row]
    /\ hwBuildCount \in [HwBuildCells -> Int]
    /\ progress \in [Flushes -> {"spool", "open", "archived", "failed"}]
    /\ upserted \in [Flushes -> SUBSET Items]
    /\ replays \in 0..MaxReplays
    /\ pc \in {"idle", "lock_tests", "read_builds", "lock_builds",
               "read_checkouts", "tree", "delete"}
    /\ page \subseteq Items
    /\ lastTest \in Nat
    /\ lastBuild \in Nat
    /\ batch \in [Items -> Row]
    /\ taken \in [Tests -> Detail]
    /\ buildSnap \in [Builds -> Row]
    /\ attempt \in 0..(MaxRetries - 1)
    /\ faults \in 0..MaxFaults

(* Builds have columns of their own; the columns of tests and of boots     *)
(* together are those of the runs of a row.  A test reported again as a    *)
(* boot, or the other way round, moves a count between the two of them,    *)
(* so it is the runs that are counted exactly.                             *)
TreeLedgerCells == TreeRows \X {"build", "run"} \X Known
TreeLedgerCellOf ==
    [x \in Items \X Known |-> <<TreeRowOf[ItemCheckout(x[1])],
                                IF x[1] \in Builds THEN "build" ELSE "run", x[2]>>]
TreeTotals ==
    [c \in TreeLedgerCells |->
       IF c[2] = "build" THEN treeCount[<<c[1], "build", c[3]>>]
       ELSE treeCount[<<c[1], "boot", c[3]>>] + treeCount[<<c[1], "test", c[3]>>]]

HwLedgerCells == Platforms \X Checkouts \X Known
HwLedgerCellOf ==
    [x \in HwItems \X Known |-> <<x[1][2], ItemCheckout(x[1][1]), x[2]>>]
HwTotals ==
    [c \in HwLedgerCells |-> hwTestCount[<<c[1], c[2], "boot", c[3]>>]
                             + hwTestCount[<<c[1], c[2], "test", c[3]>>]]

(* The tree listing keeps the promise of ListingLedger: through crashes,   *)
(* deadlock retries, pages taken twice, files ingested twice and tests     *)
(* that turn into boots, the builds and the runs of every tree_listing row *)
(* are counted under their outcomes as many times as items are recorded,   *)
(* and no item is recorded twice (process_pending_batch as a whole).       *)
TreeLedger == INSTANCE ListingLedger
    WITH Cells <- TreeLedgerCells, CellOf <- TreeLedgerCellOf,
         counted <- treeDone, totals <- TreeTotals
TreeKeepsLedger == TreeLedger!LedgerSpec

(* So do the runs of every hardware_status row, for each platform a test   *)
(* was reported on.                                                        *)
HwLedger == INSTANCE ListingLedger
    WITH Items <- HwItems, Cells <- HwLedgerCells, CellOf <- HwLedgerCellOf,
         counted <- hwTest, totals <- HwTotals
HardwareKeepsLedger == HwLedger!LedgerSpec

(* The pass and failed columns of the builds in hardware_status are exact, *)
(* and the inconclusive column never counts too many                       *)
(* (aggregate_hardware_status, _process_build_status).                     *)
HwBuildsNotOvercounted ==
    \A c \in HwBuildCells :
        IF c[3] = "INC" THEN hwBuildCount[c] <= Census(hwBuild, HwBuildCellOf, c)
                        ELSE hwBuildCount[c] = Census(hwBuild, HwBuildCellOf, c)

(* The tests that every file reports on the same platform.  Of the others  *)
(* hardware_status may never hear: a platform that completes a row the     *)
(* aggregator has read already is deleted with it.                         *)
Steady == {x \in HwItems : \A f \in Flushes :
             Reported[f][x[1]] # NoRow => DetailIn[f][x[1]].platform = x[2]}

(* Whatever the interleaving, a stored item is still to be counted or has  *)
(* been counted, in each of the listings it belongs to: pending rows are   *)
(* deleted only behind both of the transactions that count them.           *)
NothingForgotten ==
    /\ \A i \in Items \ DummyBuilds :
         source[i] # NoRow => pending[i] # NoRow \/ treeDone[i] # NoRow
    /\ \A x \in Steady :
         source[x[1]] # NoRow => pending[x[1]] # NoRow \/ hwTest[x] # NoRow

(* The two listings are written by different transactions, but they say    *)
(* different things of a test only while its row is pending, and then it   *)
(* is hardware_status that is ahead.                                       *)
ListingsAgree ==
    \A x \in Steady :
        /\ pending[x[1]] = NoRow => hwTest[x] = treeDone[x[1]]
        /\ treeDone[x[1]] # NoRow => hwTest[x] # NoRow

(* A pending item whose build and checkout are stored leaves the pending   *)
(* table: no page, cursor, locked row or crash makes the aggregator pass   *)
(* over it for ever.                                                       *)
BuildFor(i) == IF i \in Builds THEN i ELSE BuildOf[i]
Ready(i) == /\ i \in Tests => source[BuildFor(i)] # NoRow
            /\ CheckoutOf[BuildFor(i)] \in checkouts
PendingDrains == \A i \in Items : pending[i] # NoRow /\ Ready(i) ~> pending[i] = NoRow

(* What models.py says of processed_listing_items: when the previous       *)
(* status is null and the new one is not, the item is processed again.  So *)
(* once an item has left the pending table, a known status stored for it   *)
(* has been counted.  DeletePending breaks this: it deletes by id a row    *)
(* that was updated after it was read.                                     *)
CorrectionsCounted ==
    \A i \in Items \ DummyBuilds :
        pending[i] = NoRow /\ source[i] \in Known => treeDone[i] \in Known

(* What _check_item_was_processed says of its second decrement: each one   *)
(* takes back an earlier increment.  So build_inc is exact.                *)
HwBuildDecrementsMatched ==
    \A c \in HwBuildCells : hwBuildCount[c] = Census(hwBuild, HwBuildCellOf, c)

(* And of its first: when the recorded status is null and the new one is   *)
(* not, the count is updated as well, so what is taken off a column was    *)
(* in it.  The column is that of the row now pending, whose is_boot may    *)
(* not be the one the test was counted with.                               *)
CorrectionsMatchColumns == \A c \in TreeCells : treeCount[c] >= 0

(* The promise of models.py for a build in hardware_status: a build        *)
(* recorded with no status whose status is known has some row pending that *)
(* will have it processed again.                                           *)
HwBuildsCorrected ==
    \A k \in BuildKeys :
        hwBuild[k] = Null /\ source[k[1]] \in Known =>
            \/ pending[k[1]] # NoRow
            \/ \E t \in Tests : pending[t] # NoRow /\ <<BuildOf[t], details[t].platform>> = k

-----------------------------------------------------------------------------
(* Why they hold: the inductive invariants behind NothingForgotten,        *)
(* ListingsAgree and the two ledgers.                                      *)

TreeCensus == \A c \in TreeLedgerCells : TreeTotals[c] = Census(treeDone, TreeLedgerCellOf, c)
HwTestCensus == \A c \in HwLedgerCells : HwTotals[c] = Census(hwTest, HwLedgerCellOf, c)

(* The rows of a steady test name its platform.                            *)
SteadyRows ==
    \A x \in Steady :
        /\ pending[x[1]] # NoRow => details[x[1]].platform = x[2]
        /\ batch[x[1]] # NoRow => taken[x[1]].platform = x[2]

(* Nothing is deleted before it is counted: what is in the batch has been  *)
(* counted in each listing whose transaction is behind.                    *)
BatchIsCounted ==
    /\ pc \in {"tree", "delete"} =>
         \A x \in Steady : batch[x[1]] # NoRow => hwTest[x] # NoRow
    /\ pc = "delete" =>
         \A i \in Items \ DummyBuilds : batch[i] # NoRow => treeDone[i] # NoRow

(* The status read for a test is that of its pending row, or was null then.*)
BatchIsPending(t) ==
    batch[t] # NoRow => /\ pending[t] # NoRow
                        /\ batch[t] \in Known => pending[t] = batch[t]

(* Where the listings differ, hardware_status is ahead, by the status the  *)
(* pending row still has: the tree listing will be given the same one.     *)
HardwareAhead(x) ==
    hwTest[x] # treeDone[x[1]] =>
        /\ hwTest[x] # NoRow
        /\ treeDone[x[1]] \notin Known
        /\ pending[x[1]] # NoRow
        /\ hwTest[x] \in Known => /\ pending[x[1]] = hwTest[x]
                                  /\ batch[x[1]] \in {NoRow, hwTest[x]}

(* Behind transaction 1 hardware_status is up to date with the batch;      *)
(* behind transaction 2 both listings are.                                 *)
HardwareCaughtUp(x) ==
    batch[x[1]] # NoRow =>
        /\ pc \in {"tree", "delete"} => ~NeedsCount(hwTest[x], batch[x[1]])
        /\ pc = "delete" => hwTest[x] = treeDone[x[1]]

Agreement == \A x \in Steady :
                 BatchIsPending(x[1]) /\ HardwareAhead(x) /\ HardwareCaughtUp(x)
=============================================================================
