--------------------------- MODULE ListingCleanup ---------------------------
(***************************************************************************)
(* Two commands that run beside the aggregator and write the tables it     *)
(* works on: delete_unused_hardware_status, which removes from             *)
(* hardware_status and processed_listing_items what belongs to checkouts   *)
(* that are no longer the latest of their tree, and                        *)
(* backfill_hardware_aggregations, which rebuilds latest_checkout and      *)
(* pending_test.                                                           *)
(*                                                                         *)
(* The cleanup is one transaction under READ COMMITTED: each of its        *)
(* statements sees what the other programs have committed by then, what it *)
(* deletes stays locked until it commits, and the aggregator's upsert of   *)
(* such a row waits for that.  A hardware_status row stands for the rows   *)
(* of one checkout, on every platform, and a status column for that of     *)
(* tests and that of boots: a test reported on two platforms is two here,  *)
(* and one that turns into a boot stays in its column.                     *)
(***************************************************************************)
EXTENDS ListingStatus

CONSTANTS
    HwTests,
    HwCheckouts,
    HwTrees,
    HwCheckoutOf,   \* [HwTests -> HwCheckouts]
    HwTreeOf,       \* [HwCheckouts -> HwTrees]
    StartTime,      \* [HwCheckouts -> Nat]
    RecentTests,    \* the tests with a platform, younger than the backfill's --days
    RecentCheckouts,
    HwGiven,        \* the statuses the submissions bring
    CleanBatch,     \* --batch-size of the cleanup
    MaxCleanups,    \* bound on the cleanups and backfills run
    MaxStops        \* bound on the aggregator's crashes

NoCheckout == "none"

ASSUME CleanupAssumption ==
    /\ IsFiniteSet(HwTests) /\ IsFiniteSet(HwCheckouts)
    /\ HwCheckoutOf \in [HwTests -> HwCheckouts]
    /\ HwTreeOf \in [HwCheckouts -> HwTrees]
    /\ StartTime \in [HwCheckouts -> Nat]
    /\ NoCheckout \notin HwCheckouts
    /\ RecentTests \subseteq HwTests /\ RecentCheckouts \subseteq HwCheckouts
    /\ HwGiven \subseteq Status
    /\ CleanBatch \in Nat \ {0} /\ MaxCleanups \in Nat /\ MaxStops \in Nat

VARIABLES
    storedTests,    \* test -> status of its row in tests
    storedCheckouts,
    latest,         \* tree -> latest_checkout
    waiting,        \* test -> status of its row in pending_test
    hwItems,        \* test -> processed_listing_items under its hardware key
    hwRows,         \* the checkouts that have a row in hardware_status
    hwCounts,       \* checkout -> status -> its counter
    aggStep, aggBatch, aggSeen, aggStops,
    cleaning,       \* where the cleanup is
    valid,          \* valid_checkout_ids
    doomedRows,     \* hardware_batch_ids
    doomedItems,    \* processed_hardware_batch_ids
    goneRows,       \* what its transaction has deleted
    goneItems,
    backfill,       \* where the backfill is
    toBackfill,     \* the checkouts its cursor still has
    cleanups

listingTables == <<storedTests, storedCheckouts, latest, waiting, hwItems, hwRows, hwCounts>>
aggregation == <<aggStep, aggBatch, aggSeen, aggStops>>
cleanup == <<cleaning, valid, doomedRows, doomedItems, goneRows, goneItems>>
backfilling == <<backfill, toBackfill>>
cleanVars == <<listingTables, aggregation, cleanup, backfilling, cleanups>>

-----------------------------------------------------------------------------
CleanInit ==
    /\ storedTests = [t \in HwTests |-> NoRow]
    /\ storedCheckouts = {}
    /\ latest = [r \in HwTrees |-> NoCheckout]
    /\ waiting = [t \in HwTests |-> NoRow]
    /\ hwItems = [t \in HwTests |-> NoRow]
    /\ hwRows = {}
    /\ hwCounts = [c \in HwCheckouts |-> [s \in Known |-> 0]]
    /\ aggStep = "idle" /\ aggBatch = [t \in HwTests |-> NoRow]
    /\ aggSeen = [t \in HwTests |-> NoRow] /\ aggStops = 0
    /\ cleaning = "idle" /\ valid = {}
    /\ doomedRows = {} /\ doomedItems = {} /\ goneRows = {} /\ goneItems = {}
    /\ backfill = "idle" /\ toBackfill = {}
    /\ cleanups = 0

LatestCheckouts == {latest[r] : r \in HwTrees} \ {NoCheckout}

(* aggregate_checkouts: the row of the tree is replaced by a later one.    *)
Latest(now, c) ==
    LET r == HwTreeOf[c]
    IN  IF now[r] = NoCheckout \/ StartTime[now[r]] < StartTime[c]
        THEN [now EXCEPT ![r] = c] ELSE now

IngestCheckout(c) ==
    /\ c \notin storedCheckouts
    /\ storedCheckouts' = storedCheckouts \union {c}
    /\ latest' = Latest(latest, c)
    /\ UNCHANGED <<storedTests, waiting, hwItems, hwRows, hwCounts, aggregation,
                   cleanup, backfilling, cleanups>>

(* A submission with news of the test.  Its pending row is locked while    *)
(* the aggregator counts it.                                               *)
IngestResult(t) ==
    /\ aggStep = "read" => aggBatch[t] = NoRow
    /\ \E s \in HwGiven :
         /\ Upsert(storedTests[t], s) # storedTests[t]
         /\ storedTests' = [storedTests EXCEPT ![t] = Upsert(@, s)]
         /\ waiting' = [waiting EXCEPT ![t] = Upsert(@, s)]
    /\ UNCHANGED <<storedCheckouts, latest, hwItems, hwRows, hwCounts, aggregation,
                   cleanup, backfilling, cleanups>>

-----------------------------------------------------------------------------
(* The aggregator's three steps on a page of pending_test, as far as       *)
(* hardware_status goes.                                                   *)
NoResults == [t \in HwTests |-> NoRow]

AggregatorReads ==
    /\ aggStep = "idle"
    /\ aggBatch' = [t \in HwTests |-> IF HwCheckoutOf[t] \in storedCheckouts
                                      THEN waiting[t] ELSE NoRow]
    /\ aggBatch' # NoResults
    /\ aggSeen' = [t \in HwTests |-> IF aggBatch'[t] # NoRow THEN hwItems[t] ELSE NoRow]
    /\ aggStep' = "read"
    /\ UNCHANGED <<listingTables, aggStops, cleanup, backfilling, cleanups>>

AggNew == {t \in HwTests : aggBatch[t] # NoRow /\ NeedsCount(aggSeen[t], aggBatch[t])}

HwCell == [x \in HwTests \X Known |-> <<HwCheckoutOf[x[1]], x[2]>>]

(* The upserts wait for the rows the cleanup has deleted.                  *)
AggregatorWrites ==
    /\ aggStep = "read"
    /\ goneItems \intersect AggNew = {}
    /\ \A t \in AggNew : HwCheckoutOf[t] \notin goneRows
    /\ hwRows' = hwRows \union {HwCheckoutOf[t] : t \in AggNew}
    /\ hwCounts' = [c \in HwCheckouts |-> [s \in Known |->
                      hwCounts[c][s] + CountChange(aggSeen, AggNew, aggBatch, HwCell, <<c, s>>)]]
    /\ hwItems' = [t \in HwTests |-> IF t \in AggNew THEN aggBatch[t] ELSE hwItems[t]]
    /\ aggStep' = "written"
    /\ UNCHANGED <<storedTests, storedCheckouts, latest, waiting, aggBatch, aggSeen,
                   aggStops, cleanup, backfilling, cleanups>>

AggregatorEnds ==
    /\ aggStep' = "idle"
    /\ aggBatch' = NoResults
    /\ aggSeen' = NoResults

AggregatorDeletes ==
    /\ aggStep = "written"
    /\ waiting' = [t \in HwTests |-> IF aggBatch[t] # NoRow THEN NoRow ELSE waiting[t]]
    /\ AggregatorEnds
    /\ UNCHANGED <<storedTests, storedCheckouts, latest, hwItems, hwRows, hwCounts,
                   aggStops, cleanup, backfilling, cleanups>>

AggregatorStops ==
    /\ aggStep # "idle"
    /\ aggStops < MaxStops
    /\ aggStops' = aggStops + 1
    /\ AggregatorEnds
    /\ UNCHANGED <<listingTables, cleanup, backfilling, cleanups>>

-----------------------------------------------------------------------------
(* delete_unused_hardware_status.  What a statement of its transaction     *)
(* finds: the rows committed by now, less those it has deleted.            *)
OrphanRows(ids) == {c \in hwRows \ goneRows : c \notin ids}
OrphanItems(ids) == {t \in HwTests \ goneItems :
                       hwItems[t] # NoRow /\ HwCheckoutOf[t] \notin ids}

FirstOf(S) == {B \in SUBSET S : Cardinality(B) = CleanBatch} \union
              {B \in {S} : Cardinality(S) <= CleanBatch}

CleanupStarts ==
    /\ cleaning = "idle"
    /\ cleanups < MaxCleanups
    /\ cleanups' = cleanups + 1
    /\ valid' = LatestCheckouts
    /\ cleaning' = IF OrphanRows(valid') = {} /\ OrphanItems(valid') = {}
                   THEN "idle" ELSE "rows"
    /\ UNCHANGED <<listingTables, aggregation, doomedRows, doomedItems, goneRows,
                   goneItems, backfilling>>

ReadDoomedRows ==
    /\ cleaning = "rows"
    /\ doomedRows' \in FirstOf(OrphanRows(valid))
    /\ cleaning' = "items"
    /\ UNCHANGED <<listingTables, aggregation, valid, doomedItems, goneRows,
                   goneItems, backfilling, cleanups>>

EitherEmpty == doomedRows = {} \/ doomedItems' = {}
BothEmpty == doomedRows = {} /\ doomedItems' = {}

ReadDoomedItems ==
    /\ cleaning = "items"
    /\ doomedItems' \in FirstOf(OrphanItems(valid))
    /\ cleaning' = IF BothEmpty THEN "commit" ELSE "delete"
    /\ UNCHANGED <<listingTables, aggregation, valid, doomedRows, goneRows,
                   goneItems, backfilling, cleanups>>

DeleteDoomed ==
    /\ cleaning = "delete"
    /\ goneRows' = goneRows \union doomedRows
    /\ goneItems' = goneItems \union doomedItems
    /\ cleaning' = "rows"
    /\ UNCHANGED <<listingTables, aggregation, valid, doomedRows, doomedItems,
                   backfilling, cleanups>>

CleanupEnds ==
    /\ cleaning' = "idle"
    /\ valid' = {}
    /\ doomedRows' = {} /\ doomedItems' = {} /\ goneRows' = {} /\ goneItems' = {}
    /\ UNCHANGED <<storedTests, storedCheckouts, latest, waiting, aggregation,
                   backfilling, cleanups>>

CleanupCommits ==
    /\ cleaning = "commit"
    /\ hwRows' = hwRows \ goneRows
    /\ hwCounts' = [c \in HwCheckouts |-> IF c \in goneRows THEN [s \in Known |-> 0]
                                                            ELSE hwCounts[c]]
    /\ hwItems' = [t \in HwTests |-> IF t \in goneItems THEN NoRow ELSE hwItems[t]]
    /\ CleanupEnds

CleanupAborts ==
    /\ cleaning # "idle"
    /\ CleanupEnds
    /\ UNCHANGED <<hwItems, hwRows, hwCounts>>

-----------------------------------------------------------------------------
(* backfill_hardware_aggregations.  --truncate empties the two tables in   *)
(* two transactions; the checkouts follow, the latest first, and then the  *)
(* tests of the checkouts that are the latest then.  A batch that fails is *)
(* skipped.                                                                *)
BackfillStarts ==
    /\ backfill = "idle"
    /\ cleanups < MaxCleanups
    /\ cleanups' = cleanups + 1
    /\ \E truncate \in BOOLEAN :
         /\ backfill' = IF truncate THEN "truncate" ELSE "checkouts"
         /\ latest' = IF truncate THEN [r \in HwTrees |-> NoCheckout] ELSE latest
    /\ toBackfill' = storedCheckouts \intersect RecentCheckouts
    /\ UNCHANGED <<storedTests, storedCheckouts, waiting, hwItems, hwRows, hwCounts,
                   aggregation, cleanup>>

BackfillTruncates ==
    /\ backfill = "truncate"
    /\ aggStep # "read"
    /\ waiting' = NoResults
    /\ backfill' = "checkouts"
    /\ toBackfill' = storedCheckouts \intersect RecentCheckouts
    /\ UNCHANGED <<storedTests, storedCheckouts, latest, hwItems, hwRows, hwCounts,
                   aggregation, cleanup, cleanups>>

BackfillCheckout ==
    /\ backfill = "checkouts"
    /\ \E c \in toBackfill :
         /\ \A d \in toBackfill : StartTime[d] <= StartTime[c]
         /\ toBackfill' = toBackfill \ {c}
         /\ latest' \in {latest, Latest(latest, c)}
    /\ UNCHANGED <<storedTests, storedCheckouts, waiting, hwItems, hwRows, hwCounts,
                   aggregation, cleanup, backfill, cleanups>>

BackfillTests ==
    /\ backfill = "checkouts"
    /\ toBackfill = {}
    /\ aggStep # "read"
    /\ \E failed \in SUBSET HwTests :
         waiting' = [t \in HwTests |->
                       IF t \in RecentTests \ failed /\ HwCheckoutOf[t] \in LatestCheckouts
                       THEN Upsert(waiting[t], storedTests[t]) ELSE waiting[t]]
    /\ backfill' = "idle"
    /\ UNCHANGED <<storedTests, storedCheckouts, latest, hwItems, hwRows, hwCounts,
                   aggregation, cleanup, toBackfill, cleanups>>

(* Killed, or the last batch, which is outside of the try, fails.          *)
BackfillStops ==
    /\ backfill # "idle"
    /\ backfill' = "idle"
    /\ toBackfill' = {}
    /\ UNCHANGED <<listingTables, aggregation, cleanup, cleanups>>

CleanNext ==
    \/ \E c \in HwCheckouts : IngestCheckout(c)
    \/ \E t \in HwTests : IngestResult(t)
    \/ AggregatorReads \/ AggregatorWrites \/ AggregatorDeletes \/ AggregatorStops
    \/ CleanupStarts \/ ReadDoomedRows \/ ReadDoomedItems \/ DeleteDoomed
    \/ CleanupCommits \/ CleanupAborts
    \/ BackfillStarts \/ BackfillTruncates \/ BackfillCheckout \/ BackfillTests
    \/ BackfillStops

CleanSpec == CleanInit /\ [][CleanNext]_cleanVars

-----------------------------------------------------------------------------
(* Properties.                                                             *)

(* Every variable holds a value of its table or of its program point; the  *)
(* tree's latest checkout is one of its own.                               *)
CleanTypeOK ==
    /\ storedTests \in [HwTests -> Row]
    /\ storedCheckouts \subseteq HwCheckouts
    /\ latest \in [HwTrees -> HwCheckouts \union {NoCheckout}]
    /\ waiting \in [HwTests -> Row]
    /\ hwItems \in [HwTests -> Row]
    /\ hwRows \subseteq HwCheckouts
    /\ hwCounts \in [HwCheckouts -> [Known -> Int]]
    /\ aggStep \in {"idle", "read", "written"}
    /\ aggBatch \in [HwTests -> Row] /\ aggSeen \in [HwTests -> Row]
    /\ aggStops \in 0..MaxStops
    /\ cleaning \in {"idle", "rows", "items", "delete", "commit"}
    /\ valid \subseteq HwCheckouts
    /\ doomedRows \subseteq HwCheckouts /\ goneRows \subseteq HwCheckouts
    /\ doomedItems \subseteq HwTests /\ goneItems \subseteq HwTests
    /\ backfill \in {"idle", "truncate", "checkouts"}
    /\ toBackfill \subseteq HwCheckouts
    /\ cleanups \in 0..MaxCleanups

(* The rows of a checkout and the record of what they count come and go    *)
(* together, although the cleanup reads and deletes them batch by batch    *)
(* while the aggregator adds to both: the pass and failed columns are the  *)
(* number of tests recorded, and inconclusive never counts too many.  (It  *)
(* can count too few: a correction that read the record of a null status   *)
(* before it was deleted takes 1 off the row made anew.)                   *)
RowsMatchItems ==
    \A c \in HwCheckouts :
        /\ \A s \in {"PASS", "FAIL"} : hwCounts[c][s] = Census(hwItems, HwCell, <<c, s>>)
        /\ hwCounts[c]["INC"] <= Census(hwItems, HwCell, <<c, "INC">>)

(* The help of delete_unused_hardware_status: it deletes the entries with  *)
(* no corresponding checkout_id in latest_checkout, so never those of a    *)
(* checkout that is there.                                                 *)
LatestKept == [][\A c \in hwRows : c \in LatestCheckouts => c \in hwRows']_cleanVars
=============================================================================
