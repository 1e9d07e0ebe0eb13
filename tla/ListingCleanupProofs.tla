------------------------ MODULE ListingCleanupProofs ------------------------
(***************************************************************************)
(* Theorems about ListingCleanup, for every value of its constants.        *)
(***************************************************************************)
EXTENDS ListingCleanup, ListingStatusProofs

(* What the aggregator has read of a test is what is recorded, unless the  *)
(* cleanup has deleted the record since.                                   *)
SeenOrGone ==
    aggStep = "read" => \A t \in HwTests :
        aggBatch[t] # NoRow => hwItems[t] = aggSeen[t] \/ hwItems[t] = NoRow

ItemsHaveRows == \A t \in HwTests : hwItems[t] # NoRow => HwCheckoutOf[t] \in hwRows

(* What the cleanup has deleted, or is to delete, is of checkouts it does  *)
(* not hold valid, and is there until it commits.                          *)
DoomedIsThere ==
    /\ \A c \in goneRows \union doomedRows : c \notin valid
    /\ \A t \in goneItems \union doomedItems : hwItems[t] # NoRow /\ HwCheckoutOf[t] \notin valid
    /\ cleaning = "idle" => /\ goneRows = {} /\ doomedRows = {}
                            /\ goneItems = {} /\ doomedItems = {}

(* When a look at the rows has found none left, every deleted item has its *)
(* row deleted; when one at the items then has found none either, every    *)
(* deleted row has its items deleted.                                      *)
RowsFollow == \A t \in goneItems : HwCheckoutOf[t] \in goneRows
ItemsFollow == \A t \in HwTests :
                 hwItems[t] # NoRow /\ HwCheckoutOf[t] \in goneRows => t \in goneItems
GoneTogether ==
    /\ cleaning = "items" /\ doomedRows = {} => RowsFollow
    /\ cleaning = "commit" => RowsFollow /\ ItemsFollow

CleanInvariant ==
    CleanTypeOK /\ SeenOrGone /\ ItemsHaveRows /\ DoomedIsThere /\ GoneTogether /\ RowsMatchItems

(* The part of the state the rest of the invariant speaks of.              *)
counters == <<hwItems, hwRows, hwCounts>>

-----------------------------------------------------------------------------
LEMMA Batch ==
    ASSUME NEW S, NEW B \in FirstOf(S)
    PROVE  B \subseteq S /\ (B = {} => S = {})
<1>1. Cardinality({}) = 0 /\ CleanBatch # 0
  BY FS_EmptySet, CleanupAssumption
<1> QED
  BY <1>1 DEF FirstOf

LEMMA Counting ==
    ASSUME CleanTypeOK
    PROVE  /\ AggNew \subseteq HwTests /\ IsFiniteSet(AggNew)
           /\ \A t \in AggNew : /\ aggBatch[t] \in Status /\ aggBatch[t] # NoRow
                                /\ NeedsCount(aggSeen[t], aggBatch[t])
<1>1. AggNew \in SUBSET HwTests
  BY DEF AggNew
<1>2. IsFiniteSet(HwTests)
  BY CleanupAssumption
<1> QED
  BY <1>1, <1>2, FS_Subset DEF AggNew, CleanTypeOK, Row

LEMMA CellOfTest ==
    ASSUME NEW t \in HwTests, NEW s
    PROVE  HwCell[<<t, Outcome(s)>>] = <<HwCheckoutOf[t], Outcome(s)>>
<1>1. Outcome(s) \in Known
  BY DEF Outcome, Known
<1> QED
  BY <1>1 DEF HwCell

(* The counters of a batch move as the records do, or, where a null status *)
(* was read that is recorded no longer, one less.                          *)
LEMMA CountStep ==
    ASSUME CleanInvariant, aggStep = "read", NEW c \in HwCheckouts, NEW s \in Known
    PROVE  LET after == [t \in HwTests |-> IF t \in AggNew THEN aggBatch[t] ELSE hwItems[t]]
               change == CountChange(aggSeen, AggNew, aggBatch, HwCell, <<c, s>>)
           IN  /\ Census(hwItems, HwCell, <<c, s>>) \in Int /\ change \in Int
               /\ Census(after, HwCell, <<c, s>>) \in Int
               /\ Census(hwItems, HwCell, <<c, s>>) + change <= Census(after, HwCell, <<c, s>>)
               /\ s # "INC" => Census(hwItems, HwCell, <<c, s>>) + change
                                 = Census(after, HwCell, <<c, s>>)
<1> DEFINE after == [t \in HwTests |-> IF t \in AggNew THEN aggBatch[t] ELSE hwItems[t]]
           N == {t \in AggNew : HwCell[<<t, Outcome(aggBatch[t])>>] = <<c, s>>}
           Read == {t \in AggNew : aggSeen[t] = Null /\ HwCell[<<t, "INC">>] = <<c, s>>}
           Still == {t \in AggNew : hwItems[t] = Null /\ HwCell[<<t, "INC">>] = <<c, s>>}
           before == Census(hwItems, HwCell, <<c, s>>)
           then == Census(after, HwCell, <<c, s>>)
<1>1. AggNew \subseteq HwTests /\ IsFiniteSet(AggNew)
  BY Counting DEF CleanInvariant
<1>2. \A t \in AggNew : /\ aggBatch[t] \in Status /\ aggBatch[t] # NoRow
                        /\ NeedsCount(aggSeen[t], aggBatch[t])
  BY Counting DEF CleanInvariant
<1>3. \A t \in AggNew : hwItems[t] = aggSeen[t] \/ hwItems[t] = NoRow
  BY <1>1, <1>2 DEF CleanInvariant, SeenOrGone
<1>4. \A t \in AggNew : NeedsCount(hwItems[t], aggBatch[t])
  BY <1>2, <1>3 DEF NeedsCount
<1>5. hwItems \in [HwTests -> Row] /\ IsFiniteSet(HwTests)
  BY CleanupAssumption DEF CleanInvariant, CleanTypeOK
<1>6. then = before + CountChange(hwItems, AggNew, aggBatch, HwCell, <<c, s>>)
  BY <1>1, <1>2, <1>4, <1>5, CensusStep
<1>7. Still \subseteq Read
  BY <1>3 DEF Null, NoRow
<1>8. /\ IsFiniteSet(N) /\ IsFiniteSet(Read) /\ IsFiniteSet(Still)
  BY <1>1, FS_Subset
<1>9. /\ Cardinality(N) \in Nat /\ Cardinality(Read) \in Nat /\ Cardinality(Still) \in Nat
  BY <1>8, FS_CardinalityType
<1>10. Cardinality(Still) <= Cardinality(Read)
  BY <1>7, <1>8, FS_Subset
<1>11. s # "INC" => Read = {} /\ Still = {}
  <2>1. \A t \in AggNew : HwCell[<<t, "INC">>] = <<HwCheckoutOf[t], "INC">>
    BY <1>1 DEF HwCell, Known
  <2> QED BY <2>1
<1>12. s # "INC" => Cardinality(Read) = 0 /\ Cardinality(Still) = 0
  BY <1>11, FS_EmptySet, Zenon
<1>13. /\ CountChange(aggSeen, AggNew, aggBatch, HwCell, <<c, s>>)
            = Cardinality(N) - Cardinality(Read)
       /\ CountChange(hwItems, AggNew, aggBatch, HwCell, <<c, s>>)
            = Cardinality(N) - Cardinality(Still)
  BY DEF CountChange
<1>14. before \in Int
  <2> DEFINE S == {t \in DOMAIN hwItems : /\ hwItems[t] # NoRow
                                         /\ HwCell[<<t, Outcome(hwItems[t])>>] = <<c, s>>}
  <2>1. S \in SUBSET HwTests
    BY <1>5
  <2>2. IsFiniteSet(S)
    BY <1>5, <2>1, FS_Subset
  <2>3. Cardinality(S) \in Nat
    BY <2>2, FS_CardinalityType
  <2> QED BY <2>3 DEF Census
<1> HIDE DEF N, Read, Still, before, then, after
<1>15. /\ then \in Int
       /\ before + (Cardinality(N) - Cardinality(Read)) <= then
       /\ s # "INC" => before + (Cardinality(N) - Cardinality(Read)) = then
       /\ Cardinality(N) - Cardinality(Read) \in Int
  BY <1>6, <1>9, <1>10, <1>12, <1>13, <1>14
<1> QED
  BY <1>13, <1>14, <1>15 DEF before, then, after

-----------------------------------------------------------------------------
LEMMA InitCleanInvariant == CleanInit => CleanInvariant
<1> SUFFICES ASSUME CleanInit PROVE CleanInvariant
  OBVIOUS
<1>1. CleanTypeOK
  BY CleanupAssumption DEF CleanInit, CleanTypeOK, Row
<1>2. SeenOrGone /\ ItemsHaveRows /\ DoomedIsThere /\ GoneTogether
  BY DEF CleanInit, SeenOrGone, ItemsHaveRows, DoomedIsThere, GoneTogether
<1>3. ASSUME NEW c \in HwCheckouts, NEW s \in Known
      PROVE  hwCounts[c][s] = 0 /\ Census(hwItems, HwCell, <<c, s>>) = 0
  <2>1. {t \in DOMAIN hwItems : /\ hwItems[t] # NoRow
                                /\ HwCell[<<t, Outcome(hwItems[t])>>] = <<c, s>>} = {}
    BY DEF CleanInit
  <2>2. Census(hwItems, HwCell, <<c, s>>) = Cardinality({})
    BY <2>1, Zenon DEF Census
  <2>3. hwCounts[c][s] = 0
    BY DEF CleanInit
  <2> QED BY <2>2, <2>3, FS_EmptySet
<1>4. {"PASS", "FAIL"} \subseteq Known /\ "INC" \in Known
  BY DEF Known
<1>5. RowsMatchItems
  BY <1>3, <1>4 DEF RowsMatchItems
<1> QED
  BY <1>1, <1>2, <1>5 DEF CleanInvariant

(* A step that leaves the counters, their record, the batch and the        *)
(* cleanup alone.                                                          *)
LEMMA ElsewhereStep ==
    ASSUME CleanInvariant, CleanTypeOK', UNCHANGED <<counters, cleanup>>,
           \/ UNCHANGED <<aggStep, aggBatch, aggSeen>>
           \/ aggStep' # "read"
    PROVE  CleanInvariant'
<1>1. UNCHANGED <<hwItems, hwRows, hwCounts, cleaning, valid, doomedRows, doomedItems,
                  goneRows, goneItems>>
  BY DEF counters, cleanup
<1>2. SeenOrGone'
  BY <1>1 DEF CleanInvariant, SeenOrGone
<1>3. ItemsHaveRows' /\ DoomedIsThere' /\ GoneTogether'
  BY <1>1 DEF CleanInvariant, ItemsHaveRows, DoomedIsThere, GoneTogether, RowsFollow, ItemsFollow
<1>4. RowsMatchItems'
  BY <1>1 DEF CleanInvariant, RowsMatchItems
<1> QED
  BY <1>2, <1>3, <1>4 DEF CleanInvariant

LEMMA IngestStep ==
    ASSUME CleanInvariant,
           \/ \E c \in HwCheckouts : IngestCheckout(c)
           \/ \E t \in HwTests : IngestResult(t)
    PROVE  CleanInvariant'
<1>1. CASE \E c \in HwCheckouts : IngestCheckout(c)
  <2>1. PICK c \in HwCheckouts : IngestCheckout(c)
    BY <1>1
  <2>2. latest' \in [HwTrees -> HwCheckouts \union {NoCheckout}]
    BY <2>1 DEF IngestCheckout, Latest, CleanInvariant, CleanTypeOK
  <2>3. CleanTypeOK' /\ UNCHANGED <<counters, cleanup, aggStep, aggBatch, aggSeen>>
    BY <2>1, <2>2 DEF IngestCheckout, CleanInvariant, CleanTypeOK, aggregation, cleanup,
                      backfilling, counters
  <2> QED BY <2>3, ElsewhereStep
<1>2. CASE \E t \in HwTests : IngestResult(t)
  <2>1. PICK t \in HwTests, s \in HwGiven :
          /\ storedTests' = [storedTests EXCEPT ![t] = Upsert(@, s)]
          /\ waiting' = [waiting EXCEPT ![t] = Upsert(@, s)]
    BY <1>2 DEF IngestResult
  <2>2. s \in Row
    BY CleanupAssumption DEF Row
  <2>3. storedTests' \in [HwTests -> Row] /\ waiting' \in [HwTests -> Row]
    BY <2>1, <2>2, UpsertFacts DEF CleanInvariant, CleanTypeOK
  <2>4. UNCHANGED <<storedCheckouts, latest, hwItems, hwRows, hwCounts, aggregation,
                    cleanup, backfilling, cleanups>>
    BY <1>2 DEF IngestResult
  <2>5. CleanTypeOK' /\ UNCHANGED <<counters, cleanup, aggStep, aggBatch, aggSeen>>
    BY <2>3, <2>4 DEF CleanInvariant, CleanTypeOK, aggregation, cleanup, backfilling, counters
  <2> QED BY <2>5, ElsewhereStep
<1> QED
  BY <1>1, <1>2

-----------------------------------------------------------------------------
(* The aggregator.                                                         *)
LEMMA ReadsStep ==
    ASSUME CleanInvariant, AggregatorReads
    PROVE  CleanInvariant'
<1>1. UNCHANGED <<storedTests, storedCheckouts, latest, waiting, hwItems, hwRows, hwCounts,
                  aggStops, cleaning, valid, doomedRows, doomedItems, goneRows, goneItems,
                  backfill, toBackfill, cleanups>>
  BY DEF AggregatorReads, listingTables, cleanup, backfilling
<1>2. /\ aggBatch' \in [HwTests -> Row]
      /\ aggSeen' = [t \in HwTests |-> IF aggBatch'[t] # NoRow THEN hwItems[t] ELSE NoRow]
      /\ aggStep' = "read"
  BY DEF AggregatorReads, CleanInvariant, CleanTypeOK, Row
<1>3. aggSeen' \in [HwTests -> Row]
  BY <1>2 DEF CleanInvariant, CleanTypeOK, Row
<1>4. CleanTypeOK'
  BY <1>1, <1>2, <1>3 DEF CleanInvariant, CleanTypeOK
<1>5. SeenOrGone'
  BY <1>1, <1>2 DEF SeenOrGone
<1>6. ItemsHaveRows' /\ DoomedIsThere' /\ GoneTogether'
  BY <1>1 DEF CleanInvariant, ItemsHaveRows, DoomedIsThere, GoneTogether, RowsFollow, ItemsFollow
<1>7. RowsMatchItems'
  BY <1>1 DEF CleanInvariant, RowsMatchItems
<1> QED
  BY <1>4, <1>5, <1>6, <1>7 DEF CleanInvariant

LEMMA WritesStep ==
    ASSUME CleanInvariant, AggregatorWrites
    PROVE  CleanInvariant'
<1> DEFINE after == [t \in HwTests |-> IF t \in AggNew THEN aggBatch[t] ELSE hwItems[t]]
           change(c, s) == CountChange(aggSeen, AggNew, aggBatch, HwCell, <<c, s>>)
<1>1. /\ aggStep = "read" /\ aggStep' = "written"
      /\ goneItems \intersect AggNew = {}
      /\ \A t \in AggNew : HwCheckoutOf[t] \notin goneRows
      /\ hwRows' = hwRows \union {HwCheckoutOf[t] : t \in AggNew}
      /\ hwCounts' = [c \in HwCheckouts |-> [s \in Known |-> hwCounts[c][s] + change(c, s)]]
      /\ hwItems' = after
      /\ UNCHANGED <<storedTests, storedCheckouts, latest, waiting, aggBatch, aggSeen, aggStops,
                     cleaning, valid, doomedRows, doomedItems, goneRows, goneItems,
                     backfill, toBackfill, cleanups>>
  BY DEF AggregatorWrites, cleanup, backfilling
<1>2. /\ AggNew \subseteq HwTests /\ IsFiniteSet(AggNew)
      /\ \A t \in AggNew : aggBatch[t] \in Status /\ aggBatch[t] # NoRow
  BY Counting DEF CleanInvariant
<1>3. after \in [HwTests -> Row]
  BY <1>2 DEF CleanInvariant, CleanTypeOK, Row
<1>4. \A t \in HwTests : after[t] # NoRow <=> hwItems[t] # NoRow \/ t \in AggNew
  BY <1>2
<1> HIDE DEF after, change
<1>5. CleanTypeOK'
  <2>1. \A c \in HwCheckouts, s \in Known : change(c, s) \in Int
    BY <1>2, CountChangeType DEF change
  <2>2. hwCounts' \in [HwCheckouts -> [Known -> Int]]
    BY <1>1, <2>1 DEF CleanInvariant, CleanTypeOK
  <2>3. hwRows' \subseteq HwCheckouts
    <3>1. \A t \in HwTests : HwCheckoutOf[t] \in HwCheckouts
      BY CleanupAssumption
    <3> QED BY <1>1, <1>2, <3>1 DEF CleanInvariant, CleanTypeOK
  <2> QED BY <1>1, <1>3, <2>2, <2>3 DEF CleanInvariant, CleanTypeOK
<1>6. SeenOrGone' /\ ItemsHaveRows'
  BY <1>1, <1>2, <1>4 DEF CleanInvariant, SeenOrGone, ItemsHaveRows
<1>7. DoomedIsThere'
  <2>1. goneItems \union doomedItems \subseteq HwTests
    BY DEF CleanInvariant, CleanTypeOK
  <2> QED BY <1>1, <1>4, <2>1 DEF CleanInvariant, DoomedIsThere
<1>8. GoneTogether'
  BY <1>1, <1>4 DEF CleanInvariant, GoneTogether, RowsFollow, ItemsFollow
<1>9. ASSUME NEW c \in HwCheckouts, NEW s \in Known
      PROVE  /\ hwCounts'[c][s] = hwCounts[c][s] + change(c, s)
             /\ hwCounts[c][s] \in Int /\ change(c, s) \in Int
             /\ Census(hwItems, HwCell, <<c, s>>) \in Int
             /\ Census(after, HwCell, <<c, s>>) \in Int
             /\ Census(hwItems, HwCell, <<c, s>>) + change(c, s) <= Census(after, HwCell, <<c, s>>)
             /\ s # "INC" => Census(hwItems, HwCell, <<c, s>>) + change(c, s)
                               = Census(after, HwCell, <<c, s>>)
  <2>1. hwCounts'[c][s] = hwCounts[c][s] + change(c, s) /\ hwCounts[c][s] \in Int
    BY <1>1 DEF CleanInvariant, CleanTypeOK
  <2> QED BY <1>1, <2>1, CountStep DEF after, change
<1>10. RowsMatchItems'
  <2> SUFFICES ASSUME NEW c \in HwCheckouts
               PROVE  /\ \A s \in {"PASS", "FAIL"} :
                           hwCounts'[c][s] = Census(after, HwCell, <<c, s>>)
                      /\ hwCounts'[c]["INC"] <= Census(after, HwCell, <<c, "INC">>)
    BY <1>1 DEF RowsMatchItems, HwCell
  <2>1. /\ \A s \in {"PASS", "FAIL"} : hwCounts[c][s] = Census(hwItems, HwCell, <<c, s>>)
        /\ hwCounts[c]["INC"] <= Census(hwItems, HwCell, <<c, "INC">>)
    BY DEF CleanInvariant, RowsMatchItems
  <2>2. {"PASS", "FAIL"} \subseteq Known /\ "INC" \in Known /\ "INC" \notin {"PASS", "FAIL"}
    BY DEF Known
  <2>3. ASSUME NEW s \in {"PASS", "FAIL"}
        PROVE  hwCounts'[c][s] = Census(after, HwCell, <<c, s>>)
    BY <1>9, <2>1, <2>2
  <2>4. hwCounts'[c]["INC"] <= Census(after, HwCell, <<c, "INC">>)
    BY <1>9, <2>1, <2>2
  <2> QED BY <2>3, <2>4
<1> QED
  BY <1>5, <1>6, <1>7, <1>8, <1>10 DEF CleanInvariant

LEMMA AggregatorEndsStep ==
    ASSUME CleanInvariant, AggregatorDeletes \/ AggregatorStops
    PROVE  CleanInvariant'
<1>1. NoResults \in [HwTests -> Row] /\ MaxStops \in Nat
  BY CleanupAssumption DEF NoResults, Row
<1>2. aggStep' = "idle" /\ aggBatch' = NoResults /\ aggSeen' = NoResults
  BY DEF AggregatorDeletes, AggregatorStops, AggregatorEnds
<1>3. waiting' \in [HwTests -> Row]
  BY DEF AggregatorDeletes, AggregatorStops, listingTables, CleanInvariant, CleanTypeOK, Row
<1>4. aggStops' \in 0..MaxStops
  BY <1>1 DEF AggregatorDeletes, AggregatorStops, CleanInvariant, CleanTypeOK
<1>5. UNCHANGED <<storedTests, storedCheckouts, latest, hwItems, hwRows, hwCounts, cleaning,
                  valid, doomedRows, doomedItems, goneRows, goneItems, backfill, toBackfill,
                  cleanups>>
  BY DEF AggregatorDeletes, AggregatorStops, listingTables, cleanup, backfilling
<1>6. CleanTypeOK'
  BY <1>1, <1>2, <1>3, <1>4, <1>5 DEF CleanInvariant, CleanTypeOK
<1> QED
  BY <1>2, <1>5, <1>6, ElsewhereStep DEF counters, cleanup

-----------------------------------------------------------------------------
(* The cleanup.                                                            *)
LEMMA CleanupReadsStep ==
    ASSUME CleanInvariant, CleanupStarts \/ ReadDoomedRows \/ ReadDoomedItems \/ DeleteDoomed
    PROVE  CleanInvariant'
<1>1. /\ UNCHANGED <<storedTests, storedCheckouts, latest, waiting, hwItems, hwRows, hwCounts,
                     aggStep, aggBatch, aggSeen, aggStops, backfill, toBackfill>>
  BY DEF CleanupStarts, ReadDoomedRows, ReadDoomedItems, DeleteDoomed, listingTables,
         aggregation, backfilling
<1>2. SeenOrGone' /\ ItemsHaveRows' /\ RowsMatchItems'
  BY <1>1 DEF CleanInvariant, SeenOrGone, ItemsHaveRows, RowsMatchItems
<1>3. /\ goneRows \subseteq HwCheckouts /\ doomedRows \subseteq HwCheckouts
      /\ goneItems \subseteq HwTests /\ doomedItems \subseteq HwTests
      /\ valid \subseteq HwCheckouts /\ cleanups \in 0..MaxCleanups
      /\ hwRows \subseteq HwCheckouts
  BY DEF CleanInvariant, CleanTypeOK
<1>4. CASE CleanupStarts
  <2>1. /\ valid' = LatestCheckouts /\ cleaning' \in {"idle", "rows"}
        /\ goneRows = {} /\ doomedRows = {} /\ goneItems = {} /\ doomedItems = {}
        /\ UNCHANGED <<doomedRows, doomedItems, goneRows, goneItems>>
        /\ cleanups < MaxCleanups /\ cleanups' = cleanups + 1
    BY <1>4 DEF CleanupStarts, CleanInvariant, DoomedIsThere
  <2>2. valid' \subseteq HwCheckouts
    BY <2>1 DEF LatestCheckouts, CleanInvariant, CleanTypeOK
  <2>3. cleanups' \in 0..MaxCleanups
    BY <1>3, <2>1, CleanupAssumption
  <2>4. CleanTypeOK'
    BY <1>1, <2>1, <2>2, <2>3 DEF CleanInvariant, CleanTypeOK
  <2>5. DoomedIsThere' /\ GoneTogether'
    BY <2>1 DEF DoomedIsThere, GoneTogether
  <2> QED BY <1>2, <2>4, <2>5 DEF CleanInvariant
<1>5. CASE ReadDoomedRows
  <2>1. /\ doomedRows' \in FirstOf(OrphanRows(valid)) /\ cleaning' = "items"
        /\ UNCHANGED <<valid, doomedItems, goneRows, goneItems, cleanups>>
    BY <1>5 DEF ReadDoomedRows
  <2>2. /\ doomedRows' \subseteq OrphanRows(valid)
        /\ doomedRows' = {} => OrphanRows(valid) = {}
    BY <2>1, Batch
  <2>3. OrphanRows(valid) \subseteq HwCheckouts
    BY <1>3 DEF OrphanRows
  <2>4. CleanTypeOK'
    BY <1>1, <2>1, <2>2, <2>3 DEF CleanInvariant, CleanTypeOK
  <2>5. DoomedIsThere'
    BY <1>1, <2>1, <2>2 DEF CleanInvariant, DoomedIsThere, OrphanRows
  <2>6. doomedRows' = {} => RowsFollow'
    BY <1>3, <2>1, <2>2 DEF CleanInvariant, DoomedIsThere, ItemsHaveRows, OrphanRows, RowsFollow
  <2> QED BY <1>2, <2>1, <2>4, <2>5, <2>6 DEF CleanInvariant, GoneTogether
<1>6. CASE ReadDoomedItems
  <2>1. /\ doomedItems' \in FirstOf(OrphanItems(valid)) /\ cleaning = "items"
        /\ cleaning' = IF doomedRows = {} /\ doomedItems' = {} THEN "commit" ELSE "delete"
        /\ UNCHANGED <<valid, doomedRows, goneRows, goneItems, cleanups>>
    BY <1>6 DEF ReadDoomedItems, BothEmpty
  <2>2. /\ doomedItems' \subseteq OrphanItems(valid)
        /\ doomedItems' = {} => OrphanItems(valid) = {}
    BY <2>1, Batch
  <2>3. OrphanItems(valid) \subseteq HwTests
    BY DEF OrphanItems
  <2>4. CleanTypeOK'
    BY <1>1, <2>1, <2>2, <2>3 DEF CleanInvariant, CleanTypeOK
  <2>5. DoomedIsThere'
    BY <1>1, <2>1, <2>2 DEF CleanInvariant, DoomedIsThere, OrphanItems
  <2>6. ASSUME cleaning' = "commit"
        PROVE  RowsFollow' /\ ItemsFollow'
    <3>1. doomedRows = {} /\ OrphanItems(valid) = {}
      BY <2>1, <2>2, <2>6
    <3>2. RowsFollow
      BY <2>1, <3>1 DEF CleanInvariant, GoneTogether
    <3>3. ItemsFollow
      BY <3>1 DEF ItemsFollow, OrphanItems, CleanInvariant, DoomedIsThere
    <3> QED BY <1>1, <2>1, <3>2, <3>3 DEF RowsFollow, ItemsFollow
  <2> QED BY <1>2, <2>1, <2>4, <2>5, <2>6 DEF CleanInvariant, GoneTogether
<1>7. CASE DeleteDoomed
  <2>1. /\ goneRows' = goneRows \union doomedRows /\ goneItems' = goneItems \union doomedItems
        /\ cleaning' = "rows" /\ UNCHANGED <<valid, doomedRows, doomedItems, cleanups>>
    BY <1>7 DEF DeleteDoomed
  <2>2. CleanTypeOK'
    BY <1>1, <1>3, <2>1 DEF CleanInvariant, CleanTypeOK
  <2>3. DoomedIsThere' /\ GoneTogether'
    BY <1>1, <2>1 DEF CleanInvariant, DoomedIsThere, GoneTogether
  <2> QED BY <1>2, <2>2, <2>3 DEF CleanInvariant
<1> QED
  BY <1>4, <1>5, <1>6, <1>7

(* The commit takes the rows of some checkouts and all that is recorded of *)
(* them; the counters of the others keep what they count.                  *)
LEMMA CommitsStep ==
    ASSUME CleanInvariant, CleanupCommits
    PROVE  CleanInvariant'
<1>1. /\ cleaning = "commit" /\ cleaning' = "idle" /\ valid' = {}
      /\ doomedRows' = {} /\ doomedItems' = {} /\ goneRows' = {} /\ goneItems' = {}
      /\ hwRows' = hwRows \ goneRows
      /\ hwCounts' = [c \in HwCheckouts |-> IF c \in goneRows THEN [s \in Known |-> 0]
                                                              ELSE hwCounts[c]]
      /\ hwItems' = [t \in HwTests |-> IF t \in goneItems THEN NoRow ELSE hwItems[t]]
      /\ UNCHANGED <<storedTests, storedCheckouts, latest, waiting, aggStep, aggBatch, aggSeen,
                     aggStops, backfill, toBackfill, cleanups>>
  BY DEF CleanupCommits, CleanupEnds, aggregation, backfilling
<1>2. RowsFollow /\ ItemsFollow
  BY <1>1 DEF CleanInvariant, GoneTogether
<1>3. CleanTypeOK'
  <2>1. hwItems' \in [HwTests -> Row]
    BY <1>1 DEF CleanInvariant, CleanTypeOK, Row
  <2>2. hwCounts' \in [HwCheckouts -> [Known -> Int]]
    BY <1>1 DEF CleanInvariant, CleanTypeOK
  <2> QED BY <1>1, <2>1, <2>2 DEF CleanInvariant, CleanTypeOK
<1>4. SeenOrGone'
  BY <1>1 DEF CleanInvariant, SeenOrGone
<1>5. ItemsHaveRows'
  BY <1>1, <1>2 DEF CleanInvariant, ItemsHaveRows, ItemsFollow
<1>6. DoomedIsThere' /\ GoneTogether'
  BY <1>1 DEF DoomedIsThere, GoneTogether
<1>7. ASSUME NEW c \in HwCheckouts, NEW s \in Known
      PROVE  IF c \in goneRows
             THEN hwCounts'[c][s] = 0 /\ Census(hwItems', HwCell, <<c, s>>) = 0
             ELSE hwCounts'[c][s] = hwCounts[c][s]
                  /\ Census(hwItems', HwCell, <<c, s>>) = Census(hwItems, HwCell, <<c, s>>)
  <2> DEFINE Of(items) == {t \in DOMAIN items : /\ items[t] # NoRow
                                               /\ HwCell[<<t, Outcome(items[t])>>] = <<c, s>>}
  <2>1. DOMAIN hwItems = HwTests /\ DOMAIN hwItems' = HwTests
    BY <1>1 DEF CleanInvariant, CleanTypeOK
  <2>2. \A t \in Of(hwItems') : /\ t \in HwTests /\ HwCheckoutOf[t] = c
                                /\ t \notin goneItems /\ hwItems'[t] = hwItems[t]
    BY <1>1, <2>1, CellOfTest
  <2>3. \A t \in Of(hwItems) : t \in HwTests /\ HwCheckoutOf[t] = c /\ hwItems[t] # NoRow
    BY <2>1, CellOfTest
  <2>4. CASE c \in goneRows
    <3>1. Of(hwItems') = {}
      BY <1>1, <1>2, <2>2, <2>4 DEF ItemsFollow
    <3>2. Cardinality(Of(hwItems')) = 0
      BY <3>1, FS_EmptySet, Zenon
    <3> QED BY <1>1, <2>4, <3>2 DEF Census
  <2>5. CASE c \notin goneRows
    <3>1. \A t \in Of(hwItems) : t \notin goneItems
      BY <1>2, <2>3, <2>5 DEF RowsFollow
    <3>2. Of(hwItems') = Of(hwItems)
      BY <1>1, <2>1, <2>2, <3>1
    <3>3. Cardinality(Of(hwItems')) = Cardinality(Of(hwItems))
      BY <3>2, Zenon
    <3> QED BY <1>1, <2>5, <3>3 DEF Census
  <2> QED BY <2>4, <2>5
<1>8. RowsMatchItems'
  <2> SUFFICES ASSUME NEW c \in HwCheckouts
               PROVE  /\ \A s \in {"PASS", "FAIL"} :
                           hwCounts'[c][s] = Census(hwItems', HwCell, <<c, s>>)
                      /\ hwCounts'[c]["INC"] <= Census(hwItems', HwCell, <<c, "INC">>)
    BY DEF RowsMatchItems, HwCell
  <2>1. /\ \A s \in {"PASS", "FAIL"} : hwCounts[c][s] = Census(hwItems, HwCell, <<c, s>>)
        /\ hwCounts[c]["INC"] <= Census(hwItems, HwCell, <<c, "INC">>)
    BY DEF CleanInvariant, RowsMatchItems
  <2>2. {"PASS", "FAIL"} \subseteq Known /\ "INC" \in Known
    BY DEF Known
  <2> QED BY <1>7, <2>1, <2>2
<1> QED
  BY <1>3, <1>4, <1>5, <1>6, <1>8 DEF CleanInvariant

LEMMA AbortsStep ==
    ASSUME CleanInvariant, CleanupAborts
    PROVE  CleanInvariant'
<1>1. /\ cleaning' = "idle" /\ valid' = {}
      /\ doomedRows' = {} /\ doomedItems' = {} /\ goneRows' = {} /\ goneItems' = {}
      /\ UNCHANGED <<storedTests, storedCheckouts, latest, waiting, hwItems, hwRows, hwCounts,
                     aggStep, aggBatch, aggSeen, aggStops, backfill, toBackfill, cleanups>>
  BY DEF CleanupAborts, CleanupEnds, aggregation, backfilling
<1>2. CleanTypeOK' /\ SeenOrGone' /\ ItemsHaveRows'
  BY <1>1 DEF CleanInvariant, CleanTypeOK, SeenOrGone, ItemsHaveRows
<1>3. DoomedIsThere' /\ GoneTogether'
  BY <1>1 DEF DoomedIsThere, GoneTogether
<1>4. RowsMatchItems'
  BY <1>1 DEF CleanInvariant, RowsMatchItems
<1> QED
  BY <1>2, <1>3, <1>4 DEF CleanInvariant

-----------------------------------------------------------------------------
(* The backfill writes what the ingester writes.                           *)
LEMMA BackfillStep ==
    ASSUME CleanInvariant,
           \/ BackfillStarts \/ BackfillTruncates \/ BackfillCheckout \/ BackfillTests
           \/ BackfillStops
    PROVE  CleanInvariant'
<1>1. UNCHANGED <<storedTests, storedCheckouts, hwItems, hwRows, hwCounts, aggStep, aggBatch,
                  aggSeen, aggStops, cleaning, valid, doomedRows, doomedItems, goneRows, goneItems>>
  BY DEF BackfillStarts, BackfillTruncates, BackfillCheckout, BackfillTests, BackfillStops,
         listingTables, aggregation, cleanup
<1>2. latest' \in [HwTrees -> HwCheckouts \union {NoCheckout}]
  <2>1. CASE BackfillStarts
    BY <2>1 DEF BackfillStarts, CleanInvariant, CleanTypeOK
  <2>2. CASE BackfillCheckout
    <3>1. PICK c \in toBackfill : latest' \in {latest, Latest(latest, c)}
      BY <2>2 DEF BackfillCheckout
    <3>2. c \in HwCheckouts
      BY DEF CleanInvariant, CleanTypeOK
    <3> QED BY <3>1, <3>2 DEF Latest, CleanInvariant, CleanTypeOK
  <2>3. CASE BackfillTruncates \/ BackfillTests \/ BackfillStops
    BY <2>3 DEF BackfillTruncates, BackfillTests, BackfillStops, listingTables, CleanInvariant,
                CleanTypeOK
  <2> QED BY <2>1, <2>2, <2>3
<1>3. waiting' \in [HwTests -> Row]
  <2>1. CASE BackfillTests
    <3>1. PICK failed \in SUBSET HwTests :
            waiting' = [t \in HwTests |->
                          IF t \in RecentTests \ failed /\ HwCheckoutOf[t] \in LatestCheckouts
                          THEN Upsert(waiting[t], storedTests[t]) ELSE waiting[t]]
      BY <2>1 DEF BackfillTests
    <3>2. \A t \in HwTests : waiting[t] \in Row /\ Upsert(waiting[t], storedTests[t]) \in Row
      BY UpsertFacts DEF CleanInvariant, CleanTypeOK
    <3> QED BY <3>1, <3>2
  <2>2. CASE BackfillTruncates
    BY <2>2 DEF BackfillTruncates, NoResults, Row
  <2>3. CASE BackfillStarts \/ BackfillCheckout \/ BackfillStops
    BY <2>3 DEF BackfillStarts, BackfillCheckout, BackfillStops, listingTables, CleanInvariant,
                CleanTypeOK
  <2> QED BY <2>1, <2>2, <2>3
<1>4. backfill' \in {"idle", "truncate", "checkouts"}
  BY DEF BackfillStarts, BackfillTruncates, BackfillCheckout, BackfillTests, BackfillStops,
         CleanInvariant, CleanTypeOK
<1>5. toBackfill' \subseteq HwCheckouts
  BY DEF BackfillStarts, BackfillTruncates, BackfillCheckout, BackfillTests, BackfillStops,
         CleanInvariant, CleanTypeOK
<1>6. cleanups' \in 0..MaxCleanups
  <2>1. cleanups \in 0..MaxCleanups /\ MaxCleanups \in Nat
    BY CleanupAssumption DEF CleanInvariant, CleanTypeOK
  <2>2. cleanups' = cleanups \/ (cleanups < MaxCleanups /\ cleanups' = cleanups + 1)
    BY DEF BackfillStarts, BackfillTruncates, BackfillCheckout, BackfillTests, BackfillStops
  <2> QED BY <2>1, <2>2
<1>7. CleanTypeOK'
  BY <1>1, <1>2, <1>3, <1>4, <1>5, <1>6 DEF CleanInvariant, CleanTypeOK
<1> QED
  BY <1>1, <1>7, ElsewhereStep DEF counters, cleanup

LEMMA NextCleanInvariant == CleanInvariant /\ [CleanNext]_cleanVars => CleanInvariant'
<1> SUFFICES ASSUME CleanInvariant, [CleanNext]_cleanVars
             PROVE  CleanInvariant'
  OBVIOUS
<1>1. CASE UNCHANGED cleanVars
  <2>1. UNCHANGED <<counters, cleanup, aggStep, aggBatch, aggSeen>> /\ CleanTypeOK'
    BY <1>1 DEF cleanVars, listingTables, aggregation, cleanup, backfilling, counters,
                CleanInvariant, CleanTypeOK
  <2> QED BY <2>1, ElsewhereStep
<1>2. CASE CleanNext
  BY <1>2, IngestStep, ReadsStep, WritesStep, AggregatorEndsStep, CleanupReadsStep, CommitsStep,
     AbortsStep, BackfillStep DEF CleanNext
<1> QED
  BY <1>1, <1>2

(* Whatever is ingested, aggregated, cleaned up or recounted, and wherever *)
(* a program dies, the cleanup's snapshots stay what its deletions need.   *)
THEOREM CleanInvariantAlways == CleanSpec => []CleanInvariant
BY InitCleanInvariant, NextCleanInvariant, PTL DEF CleanSpec

(* The rows of hardware_status and the record of what they count come and  *)
(* go together, for any checkouts, batches, cleanups and crashes.          *)
THEOREM RowsMatchItemsAlways == CleanSpec => []RowsMatchItems
<1>1. CleanInvariant => RowsMatchItems
  BY DEF CleanInvariant
<1> QED
  BY <1>1, CleanInvariantAlways, PTL
=============================================================================
