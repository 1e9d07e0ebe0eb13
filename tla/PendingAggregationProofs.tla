---------------------- MODULE PendingAggregationProofs ----------------------
(***************************************************************************)
(* Theorems about PendingAggregation, for every value of its constants.    *)
(***************************************************************************)
EXTENDS PendingAggregation, ListingStatusProofs

LEMMA ItemsFinite ==
    /\ IsFiniteSet(Items)
    /\ Tests \subseteq Items
    /\ IsFiniteSet(HwItems) /\ IsFiniteSet(BuildKeys)
<1>1. IsFiniteSet(Items) /\ Tests \subseteq Items
  BY IdsAssumption, FS_Union DEF Items
<1>2. IsFiniteSet(Builds \ DummyBuilds)
  BY IdsAssumption, FS_Subset
<1> QED
  BY <1>1, <1>2, IdsAssumption, RelationsAssumption, FS_Product DEF HwItems, BuildKeys

(* The pairs of a test and a platform.                                     *)
LEMMA HwItemParts ==
    ASSUME NEW x \in HwItems
    PROVE  /\ x[1] \in Tests /\ x[1] \in Items /\ x[2] \in Platforms
           /\ x = <<x[1], x[2]>>
BY ItemsFinite DEF HwItems

LEMMA SteadyParts ==
    ASSUME NEW x \in Steady
    PROVE  x \in HwItems /\ x[1] \in Tests /\ x[1] \in Items /\ x[2] \in Platforms
BY HwItemParts DEF Steady

LEMMA PageType ==
    ASSUME NEW ids \in {Tests, Builds}, NEW last \in Nat
    PROVE  /\ Page(ids, last) \subseteq ids
           /\ Page(ids, last) \subseteq Items
           /\ LastSeen(Page(ids, last), last) \in Nat
<1>1. Page(ids, last) \subseteq ids
  BY DEF Page
<1>2. ids \subseteq Items /\ ids \subseteq Nat /\ IsFiniteSet(ids)
  BY IdsAssumption DEF Items
<1>3. Page(ids, last) \in SUBSET Nat /\ IsFiniteSet(Page(ids, last))
  BY <1>1, <1>2, FS_Subset
<1>4. LastSeen(Page(ids, last), last) \in Nat
  <2> DEFINE P == Page(ids, last)
  <2>1. CASE P = {}
    BY <2>1 DEF LastSeen
  <2>2. CASE P # {}
    <3>1. \E i \in P : \A j \in P : j <= i
      BY <1>3, <2>2, GreatestExists
    <3>2. LastSeen(P, last) = CHOOSE i \in P : \A j \in P : j <= i
      BY <2>2 DEF LastSeen
    <3> QED BY <3>1, <3>2, <1>3
  <2> QED BY <2>1, <2>2
<1> QED
  BY <1>1, <1>2, <1>4

(* Items found in a batch, or in a snapshot of the builds, carry a status. *)
LEMMA NewItems ==
    ASSUME TypeOK
    PROVE  /\ TreeNew \in SUBSET Items
           /\ \A i \in TreeNew : batch[i] \in Status /\ NeedsCount(treeDone[i], batch[i])
           /\ HwNew \in SUBSET HwItems
           /\ \A x \in HwNew : HwBatch[x] \in Status /\ NeedsCount(hwTest[x], HwBatch[x])
           /\ HwBuildNew \in SUBSET BuildKeys
           /\ \A k \in HwBuildNew : buildSnap[k[1]] \in Row
<1>1. \A x \in HwItems : HwBatch[x] \in Row
  BY HwItemParts DEF TypeOK, HwBatch, Row
<1>2. \A i \in Items : batch[i] \in Row
  BY DEF TypeOK
<1>3. /\ TreeNew \in SUBSET Items
      /\ \A i \in TreeNew : batch[i] \in Status /\ NeedsCount(treeDone[i], batch[i])
  BY <1>2 DEF TreeNew, Row
<1>4. /\ HwNew \in SUBSET HwItems
      /\ \A x \in HwNew : HwBatch[x] \in Status /\ NeedsCount(hwTest[x], HwBatch[x])
  BY <1>1 DEF HwNew, Row
<1>5. \A k \in BuildKeys : k[1] \in Builds
  BY DEF BuildKeys
<1>6. /\ HwBuildNew \in SUBSET BuildKeys
      /\ \A k \in HwBuildNew : buildSnap[k[1]] \in Row
  BY <1>5 DEF HwBuildNew, TypeOK
<1> QED
  BY <1>3, <1>4, <1>6

LEMMA HardwareCountsType ==
    ASSUME TypeOK, CountHardware
    PROVE  /\ hwTest' \in [HwItems -> Row]
           /\ hwTestCount' \in [HwTestCells -> Int]
           /\ hwBuild' \in [BuildKeys -> Row]
           /\ hwBuildCount' \in [HwBuildCells -> Int]
<1>1. IsFiniteSet(HwNew) /\ IsFiniteSet(HwBuildNew)
  BY NewItems, ItemsFinite, FS_Subset
<1>2. hwTest' \in [HwItems -> Row] /\ hwBuild' \in [BuildKeys -> Row]
  BY NewItems DEF CountHardware, TypeOK, Row
<1>3. hwTestCount' \in [HwTestCells -> Int]
  BY <1>1, CountChangeType DEF CountHardware, TypeOK
<1>4. ASSUME NEW c \in HwBuildCells
      PROVE  HwBuildChange(c) \in Int
  <2> DEFINE more == {k \in HwBuildNew :
                        HwBuildCellOf[<<k, Outcome(buildSnap[k[1]])>>] = c}
             less == {x \in HwNew : LET k == BuildKey(x)
                                    IN  /\ k \in HwBuildNew
                                        /\ hwBuild[k] = Null
                                        /\ HwBuildCellOf[<<k, "INC">>] = c}
  <2>1. IsFiniteSet(more) /\ IsFiniteSet(less)
    BY <1>1, FS_Subset
  <2>2. Cardinality(more) \in Nat /\ Cardinality(less) \in Nat
    BY <2>1, FS_CardinalityType
  <2>3. HwBuildChange(c) = Cardinality(more) - Cardinality(less)
    BY DEF HwBuildChange
  <2> QED BY <2>2, <2>3
<1>5. hwBuildCount' \in [HwBuildCells -> Int]
  BY <1>4 DEF CountHardware, TypeOK
<1> QED
  BY <1>2, <1>3, <1>5

LEMMA InitTypeOK == Init => TypeOK
BY BoundsAssumption
   DEF Init, TypeOK, Row, Status, NoBatch, NoBuilds, NoDetails, NoDetail, Detail

LEMMA FlushType ==
    ASSUME TypeOK, NEW f \in Flushes, FlushStep(f)
    PROVE  TypeOK'
<1>1. CASE FlushBegin(f)
  BY <1>1 DEF FlushBegin, TypeOK, database, listings, aggregator
<1>2. CASE FlushUpsert(f)
  <2>1. PICK i \in Mentions(f) : upserted' = [upserted EXCEPT ![f] = @ \union {i}]
    BY <1>2 DEF FlushUpsert
  <2>2. upserted' \in [Flushes -> SUBSET Items]
    BY <2>1 DEF Mentions, TypeOK
  <2> QED BY <1>2, <2>2 DEF FlushUpsert, TypeOK, database, listings, aggregator
<1>3. ASSUME NEW end \in {"archived", "spool", "failed"}, FlushEnds(f, end)
      PROVE  /\ progress' \in [Flushes -> {"spool", "open", "archived", "failed"}]
             /\ upserted' \in [Flushes -> SUBSET Items]
             /\ replays' \in 0..MaxReplays
  <2>1. replays \in 0..MaxReplays /\ MaxReplays \in Nat
    BY BoundsAssumption DEF TypeOK
  <2> QED BY <1>3, <2>1 DEF FlushEnds, TypeOK
<1>4. CASE FlushCommit(f)
  <2>1. PICK end \in {"archived", "spool"} : FlushEnds(f, end)
    BY <1>4 DEF FlushCommit
  <2>2. /\ source' \in [Items -> Row]
        /\ pending' \in [Items -> Row]
    <3>1. \A i \in Items : Reported[f][i] \in Row
      BY FlushesAssumption
    <3>2. \A i \in Items : /\ Upsert(source[i], Reported[f][i]) \in Row
                           /\ Upsert(pending[i], Reported[f][i]) \in Row
      BY <3>1, UpsertFacts DEF TypeOK
    <3> QED BY <1>4, <3>2 DEF FlushCommit
  <2>3. checkouts' \subseteq Checkouts
    BY <1>4, FlushesAssumption DEF FlushCommit, TypeOK
  <2>4. details' \in [Tests -> Detail]
    <3>1. ASSUME NEW t \in Tests
          PROVE  UpsertDetail(t, f) \in Detail
      <4>1. details[t] \in Detail /\ DetailIn[f][t] \in Detail
        BY FlushesAssumption DEF TypeOK
      <4>2. \A d \in Detail, e \in Detail :
              [d EXCEPT !.platform = IF @ = NoPlatform THEN e.platform ELSE @] \in Detail
        BY DEF Detail
      <4>3. UpsertDetail(t, f) \in
              {details[t], DetailIn[f][t],
               [details[t] EXCEPT
                  !.platform = IF @ = NoPlatform THEN DetailIn[f][t].platform ELSE @]}
        BY DEF UpsertDetail
      <4> QED BY <4>1, <4>2, <4>3, Zenon
    <3> QED BY <1>4, <3>1 DEF FlushCommit
  <2> QED
    BY <2>1, <2>2, <2>3, <2>4, <1>3 DEF FlushEnds, TypeOK, listings, aggregator
<1>5. CASE FlushAbort(f)
  <2>1. PICK end \in {"failed", "spool"} : FlushEnds(f, end)
    BY <1>5 DEF FlushAbort
  <2> QED
    BY <2>1, <1>3, <1>5 DEF FlushAbort, FlushEnds, TypeOK, database, listings, aggregator
<1> QED
  BY <1>1, <1>2, <1>4, <1>5 DEF FlushStep

LEMMA AggregatorType ==
    ASSUME TypeOK, AggregatorStep
    PROVE  TypeOK'
<1> USE DEF database, listings, ingester
<1>1. CASE StartPass
  BY <1>1 DEF StartPass, TypeOK
<1>2. CASE LockTests
  <2>1. page' \subseteq Items /\ lastTest' \in Nat
    BY <1>2, PageType DEF LockTests, TypeOK
  <2> QED BY <1>2, <2>1 DEF LockTests, TypeOK
<1>3. CASE ReadBuilds
  <2>1. buildSnap' \in [Builds -> Row] /\ batch' \in [Items -> Row]
    BY <1>3 DEF ReadBuilds, TypeOK, Row, Items
  <2>2. taken' \in [Tests -> Detail]
    BY <1>3 DEF ReadBuilds, TypeOK, NoDetail, Detail
  <2> QED BY <1>3, <2>1, <2>2 DEF ReadBuilds, TypeOK
<1>4. CASE LockBuilds
  <2>1. page' \subseteq Items /\ lastBuild' \in Nat
    BY <1>4, PageType DEF LockBuilds, TypeOK
  <2> QED BY <1>4, <2>1 DEF LockBuilds, TypeOK
<1>5. CASE CommitHardware
  <2>1. CountHardware
    BY <1>5 DEF CommitHardware
  <2>2. batch' \in [Items -> Row] /\ attempt' \in 0..(MaxRetries - 1)
    BY <1>5, BoundsAssumption DEF CommitHardware, TypeOK
  <2> QED BY <1>5, <2>1, <2>2, HardwareCountsType DEF CommitHardware, TypeOK
<1>6. CASE CommitTree
  <2>1. IsFiniteSet(TreeNew)
    BY NewItems, ItemsFinite, FS_Subset
  <2>2. treeDone' \in [Items -> Row]
    BY <1>6, NewItems DEF CommitTree, TypeOK, Row
  <2>3. treeCount' \in [TreeCells -> Int]
    BY <1>6, <2>1, CountChangeType DEF CommitTree, TypeOK
  <2> QED BY <1>6, <2>2, <2>3 DEF CommitTree, TypeOK
<1>7. CASE DeletePending
  <2>1. pending' \in [Items -> Row] /\ batch' \in [Items -> Row]
    BY <1>7 DEF DeletePending, TypeOK, NoBatch, Row, Deleted
  <2>2. buildSnap' \in [Builds -> Row]
    BY <1>7 DEF DeletePending, NoBuilds, Row
  <2>3. attempt' \in 0..(MaxRetries - 1)
    BY <1>7, BoundsAssumption DEF DeletePending
  <2>4. lastTest' \in Nat /\ lastBuild' \in Nat
    BY <1>7 DEF DeletePending, Cursor, TypeOK
  <2>5. details' \in [Tests -> Detail] /\ taken' \in [Tests -> Detail]
    BY <1>7 DEF DeletePending, TypeOK, NoDetails, NoDetail, Detail
  <2> QED BY <1>7, <2>1, <2>2, <2>3, <2>4, <2>5 DEF DeletePending, TypeOK
<1> QED
  BY <1>1, <1>2, <1>3, <1>4, <1>5, <1>6, <1>7 DEF AggregatorStep

LEMMA RestartType ==
    ASSUME TypeOK, TreeDeadlock \/ Crash
    PROVE  TypeOK'
<1>1. CASE Restart
  <2>1. faults' \in 0..MaxFaults /\ attempt' \in 0..(MaxRetries - 1)
    BY <1>1, BoundsAssumption DEF Restart, TypeOK
  <2>2. /\ batch' \in [Items -> Row] /\ buildSnap' \in [Builds -> Row]
        /\ taken' \in [Tests -> Detail]
    BY <1>1 DEF Restart, NoBatch, NoBuilds, NoDetails, NoDetail, Detail, Row
  <2> QED
    BY <1>1, <2>1, <2>2 DEF Restart, TypeOK, database, listings, ingester
<1>2. CASE TreeDeadlock /\ ~Restart
  <2>1. faults' \in 0..MaxFaults /\ attempt' \in 0..(MaxRetries - 1)
    BY <1>2, BoundsAssumption DEF TreeDeadlock, MayRetry, TypeOK
  <2> QED
    BY <1>2, <2>1 DEF TreeDeadlock, MayRetry, TypeOK, database, listings, ingester
<1> QED
  BY <1>1, <1>2 DEF Crash

LEMMA StutterType ==
    ASSUME TypeOK, UNCHANGED vars
    PROVE  TypeOK'
BY DEF vars, database, listings, ingester, aggregator, TypeOK

LEMMA StepType ==
    ASSUME TypeOK, [Next]_vars
    PROVE  TypeOK'
BY FlushType, AggregatorType, RestartType, StutterType DEF Next

(* Every variable keeps its type in every reachable state.                 *)
THEOREM TypeCorrect == Spec => []TypeOK
<1>1. Init => TypeOK
  BY InitTypeOK
<1>2. TypeOK /\ [Next]_vars => TypeOK'
  BY StepType
<1> QED
  BY <1>1, <1>2, PTL DEF Spec

-----------------------------------------------------------------------------
(* The tree listing keeps its ledger.                                      *)

LEMMA CensusOfNothing ==
    ASSUME NEW S, NEW cellOf, NEW c
    PROVE  Census([i \in S |-> NoRow], cellOf, c) = 0
<1>1. {i \in DOMAIN [i \in S |-> NoRow] :
         /\ [j \in S |-> NoRow][i] # NoRow
         /\ cellOf[<<i, Outcome([j \in S |-> NoRow][i])>>] = c} = {}
  OBVIOUS
<1> QED
  BY <1>1, FS_EmptySet, Zenon DEF Census

(* The tree listing is left alone by every step but transaction 2.         *)
LEMMA OnlyCommitTree ==
    ASSUME [Next]_vars, ~CommitTree
    PROVE  UNCHANGED <<treeDone, treeCount>>
BY DEF Next, FlushStep, FlushBegin, FlushUpsert, FlushCommit, FlushAbort, FlushEnds,
       AggregatorStep, StartPass, LockTests, ReadBuilds, LockBuilds, CommitHardware,
       DeletePending, TreeDeadlock, Crash, Restart, vars, listings

LEMMA EqualTriples ==
    \A a1, a2, a3, b1, b2, b3 :
        <<a1, a2, a3>> = <<b1, b2, b3>> <=> a1 = b1 /\ a2 = b2 /\ a3 = b3
OBVIOUS

LEMMA EqualQuadruples ==
    \A a1, a2, a3, a4, b1, b2, b3, b4 :
        <<a1, a2, a3, a4>> = <<b1, b2, b3, b4>>
          <=> a1 = b1 /\ a2 = b2 /\ a3 = b3 /\ a4 = b4
OBVIOUS

(* What transaction 2 adds to a total, in one column or in two.            *)
LEMMA TreeTotalsStep ==
    ASSUME TypeOK, CommitTree, NEW c \in TreeLedgerCells
    PROVE  /\ TreeTotals[c] \in Int
           /\ TreeTotals'[c] = TreeTotals[c]
                + CountChange(treeDone, TreeNew, batch, TreeLedgerCellOf, c)
<1>1. PICK r \in TreeRows, kind \in {"build", "run"}, o \in Known : c = <<r, kind, o>>
  BY DEF TreeLedgerCells
<1> DEFINE col(k) == <<r, k, o>>
           change(k) == CountChange(treeDone, TreeNew, batch, TreeCellOf, col(k))
<1>2. \A k \in Kinds : col(k) \in TreeCells
  BY DEF TreeCells
<1>3. IsFiniteSet(TreeNew) /\ TreeNew \subseteq Items
  BY NewItems, ItemsFinite, FS_Subset
<1>4. ASSUME NEW k \in Kinds
      PROVE  /\ treeCount'[col(k)] = treeCount[col(k)] + change(k)
             /\ treeCount[col(k)] \in Int /\ change(k) \in Int
  BY <1>2, <1>3, CountChangeType DEF CommitTree, TypeOK
<1>5. ASSUME NEW i \in TreeNew, NEW s \in Known
      PROVE  /\ TreeCellOf[<<i, s>>] = <<TreeRowOf[ItemCheckout(i)], KindOf(i), s>>
             /\ TreeLedgerCellOf[<<i, s>>]
                  = <<TreeRowOf[ItemCheckout(i)], IF i \in Builds THEN "build" ELSE "run", s>>
  BY <1>3 DEF TreeCellOf, TreeLedgerCellOf
<1>6. Kinds = {"build", "boot", "test"}
      /\ \A i \in TreeNew : IF i \in Builds THEN KindOf(i) = "build" ELSE KindOf(i) \in {"boot", "test"}
  BY DEF Kinds, KindOf
<1>7. CASE kind = "build"
  <2>1. \A i \in TreeNew : \A s \in Known :
          TreeLedgerCellOf[<<i, s>>] = <<r, kind, o>> <=> TreeCellOf[<<i, s>>] = col("build")
    <3> SUFFICES ASSUME NEW i \in TreeNew, NEW s \in Known
                 PROVE  TreeLedgerCellOf[<<i, s>>] = <<r, kind, o>>
                          <=> TreeCellOf[<<i, s>>] = col("build")
      OBVIOUS
    <3>1. TreeLedgerCellOf[<<i, s>>] = <<r, kind, o>>
            <=> /\ TreeRowOf[ItemCheckout(i)] = r
                /\ (IF i \in Builds THEN "build" ELSE "run") = kind
                /\ s = o
      BY <1>5, EqualTriples
    <3>2. \A k : TreeCellOf[<<i, s>>] = col(k)
            <=> TreeRowOf[ItemCheckout(i)] = r /\ KindOf(i) = k /\ s = o
      BY <1>5, EqualTriples
    <3> HIDE DEF col
    <3> QED BY <1>6, <1>7, <3>1, <3>2
  <2>2. CountChange(treeDone, TreeNew, batch, TreeLedgerCellOf, c) = change("build")
    <3> HIDE DEF col
    <3> QED BY <1>1, <2>1, ChangeOfOne
  <2>3. TreeTotals[c] = treeCount[col("build")] /\ TreeTotals'[c] = treeCount'[col("build")]
    BY <1>1, <1>7 DEF TreeTotals
  <2> HIDE DEF change, col
  <2> QED BY <1>4, <1>6, <2>2, <2>3
<1>8. CASE kind = "run"
  <2>1. \A i \in TreeNew : \A s \in Known :
          TreeLedgerCellOf[<<i, s>>] = <<r, kind, o>> <=> TreeCellOf[<<i, s>>] \in {col("boot"), col("test")}
    <3> SUFFICES ASSUME NEW i \in TreeNew, NEW s \in Known
                 PROVE  TreeLedgerCellOf[<<i, s>>] = <<r, kind, o>>
                          <=> \/ TreeCellOf[<<i, s>>] = col("boot")
                              \/ TreeCellOf[<<i, s>>] = col("test")
      OBVIOUS
    <3>1. TreeLedgerCellOf[<<i, s>>] = <<r, kind, o>>
            <=> /\ TreeRowOf[ItemCheckout(i)] = r
                /\ (IF i \in Builds THEN "build" ELSE "run") = kind
                /\ s = o
      BY <1>5, EqualTriples
    <3>2. \A k : TreeCellOf[<<i, s>>] = col(k)
            <=> TreeRowOf[ItemCheckout(i)] = r /\ KindOf(i) = k /\ s = o
      BY <1>5, EqualTriples
    <3> HIDE DEF col
    <3> QED BY <1>6, <1>8, <3>1, <3>2
  <2>2. CountChange(treeDone, TreeNew, batch, TreeLedgerCellOf, c) = change("boot") + change("test")
    <3>1. col("boot") # col("test")
      OBVIOUS
    <3> HIDE DEF col
    <3> QED BY <1>1, <1>3, <2>1, <3>1, ChangeOfTwo
  <2>3. /\ TreeTotals[c] = treeCount[col("boot")] + treeCount[col("test")]
        /\ TreeTotals'[c] = treeCount'[col("boot")] + treeCount'[col("test")]
    BY <1>1, <1>8 DEF TreeTotals
  <2> HIDE DEF change, col
  <2> QED BY <1>4, <1>6, <2>2, <2>3
<1> QED
  BY <1>1, <1>7, <1>8

LEMMA TreeCensusStep ==
    ASSUME TypeOK, TreeCensus, CommitTree, NEW c \in TreeLedgerCells
    PROVE  TreeTotals'[c] = Census(treeDone', TreeLedgerCellOf, c)
<1>1. TreeTotals'[c] = TreeTotals[c]
        + CountChange(treeDone, TreeNew, batch, TreeLedgerCellOf, c)
  BY TreeTotalsStep
<1>2. TreeTotals[c] = Census(treeDone, TreeLedgerCellOf, c)
  BY DEF TreeCensus
<1>3. treeDone \in [Items -> Row]
  BY DEF TypeOK
<1>4. LET after == [i \in Items |-> IF i \in TreeNew THEN batch[i] ELSE treeDone[i]]
      IN  Census(after, TreeLedgerCellOf, c)
            = Census(treeDone, TreeLedgerCellOf, c)
              + CountChange(treeDone, TreeNew, batch, TreeLedgerCellOf, c)
  BY <1>3, NewItems, ItemsFinite, CensusStep
<1>5. treeDone' = [i \in Items |-> IF i \in TreeNew THEN batch[i] ELSE treeDone[i]]
  BY DEF CommitTree
<1> QED
  BY <1>1, <1>2, <1>4, <1>5, Zenon

(* The initial state and every step of the program are the ledger's.       *)
LEMMA TreeLedgerInit == Init => TreeLedger!LedgerInit
<1> SUFFICES ASSUME Init PROVE TreeLedger!LedgerInit
  OBVIOUS
<1>1. \A c \in TreeLedgerCells : TreeTotals[c] = 0
  BY DEF Init, TreeTotals, TreeLedgerCells, TreeCells, Kinds
<1> QED
  BY <1>1 DEF Init, TreeTotals, TreeLedger!LedgerInit, TreeLedger!NoRow, NoRow

LEMMA TreeLedgerStep ==
    ASSUME TypeOK, TypeOK', TreeCensus, [Next]_vars
    PROVE  /\ TreeCensus'
           /\ [TreeLedger!CountItems]_<<treeDone, TreeTotals>>
<1>1. CASE CommitTree
  <2>1. TreeCensus'
    BY <1>1, TreeCensusStep DEF TreeCensus
  <2>2. treeDone' \in [Items -> Row]
    BY DEF TypeOK
  <2>3. ASSUME NEW i \in Items
        PROVE  \/ treeDone'[i] = treeDone[i]
               \/ /\ treeDone'[i] # NoRow
                  /\ NeedsCount(treeDone[i], treeDone'[i])
    BY <1>1 DEF CommitTree, TreeNew
  <2>4. TreeTotals' = [c \in TreeLedgerCells |-> Census(treeDone', TreeLedgerCellOf, c)]
    BY <2>1 DEF TreeCensus, TreeTotals
  <2>5. /\ TreeLedger!Row = Row
        /\ TreeLedger!NoRow = NoRow
        /\ \A old, new : TreeLedger!NeedsCount(old, new) = NeedsCount(old, new)
    BY DEF TreeLedger!Row, TreeLedger!Status, TreeLedger!Known, TreeLedger!Null,
           TreeLedger!NoRow, TreeLedger!NeedsCount, Row, Status, Known, Null, NoRow,
           NeedsCount
  <2>6. \A c : TreeLedger!Census(treeDone', TreeLedgerCellOf, c) = Census(treeDone', TreeLedgerCellOf, c)
    BY DEF TreeLedger!Census, TreeLedger!Outcome, TreeLedger!Known, TreeLedger!NoRow,
           TreeLedger!Cardinality, Census, Outcome, Known, NoRow, Cardinality
  <2>7. TreeLedger!CountItems
    BY <2>2, <2>3, <2>4, <2>5, <2>6 DEF TreeLedger!CountItems
  <2> QED BY <2>1, <2>7
<1>2. CASE ~CommitTree
  <2>1. UNCHANGED <<treeDone, treeCount>>
    BY <1>2, OnlyCommitTree
  <2> QED BY <2>1 DEF TreeCensus, TreeTotals
<1> QED
  BY <1>1, <1>2

(* PendingAggregation implements ListingLedger for the tree listing.       *)
THEOREM TreeRefinement == Spec => TreeKeepsLedger
<1>1. Init => TreeLedger!LedgerInit /\ TreeCensus
  <2> SUFFICES ASSUME Init PROVE TreeLedger!LedgerInit /\ TreeCensus
    OBVIOUS
  <2>1. TreeLedger!LedgerInit /\ TreeTotals = [c \in TreeLedgerCells |-> 0]
    BY TreeLedgerInit DEF TreeLedger!LedgerInit
  <2>2. treeDone = [i \in Items |-> NoRow]
    BY DEF Init
  <2> QED BY <2>1, <2>2, CensusOfNothing DEF TreeCensus
<1>2. TypeOK /\ TypeOK' /\ TreeCensus /\ [Next]_vars
        => TreeCensus' /\ [TreeLedger!CountItems]_<<treeDone, TreeTotals>>
  BY TreeLedgerStep
<1> QED
  BY <1>1, <1>2, TypeCorrect, PTL DEF Spec, TreeKeepsLedger, TreeLedger!LedgerSpec

-----------------------------------------------------------------------------
(* The test columns of hardware_status keep theirs, by the same argument.  *)

LEMMA OnlyCommitHardware ==
    ASSUME [Next]_vars, ~CommitHardware
    PROVE  UNCHANGED <<hwTest, hwTestCount, hwBuild, hwBuildCount>>
BY DEF Next, FlushStep, FlushBegin, FlushUpsert, FlushCommit, FlushAbort, FlushEnds,
       AggregatorStep, StartPass, LockTests, ReadBuilds, LockBuilds, CommitTree,
       DeletePending, TreeDeadlock, Crash, Restart, vars, listings

LEMMA HwTotalsStep ==
    ASSUME TypeOK, CountHardware, NEW c \in HwLedgerCells
    PROVE  HwTotals'[c] = HwTotals[c]
                + CountChange(hwTest, HwNew, HwBatch, HwLedgerCellOf, c)
<1>1. PICK p \in Platforms, co \in Checkouts, o \in Known : c = <<p, co, o>>
  BY DEF HwLedgerCells
<1> DEFINE col(k) == <<p, co, k, o>>
           change(k) == CountChange(hwTest, HwNew, HwBatch, HwTestCellOf, col(k))
<1>2. \A k \in {"boot", "test"} : col(k) \in HwTestCells
  BY DEF HwTestCells
<1>3. IsFiniteSet(HwNew) /\ HwNew \subseteq HwItems
  BY NewItems, ItemsFinite, FS_Subset
<1>4. ASSUME NEW k \in {"boot", "test"}
      PROVE  /\ hwTestCount'[col(k)] = hwTestCount[col(k)] + change(k)
             /\ hwTestCount[col(k)] \in Int /\ change(k) \in Int
  BY <1>2, <1>3, CountChangeType DEF CountHardware, TypeOK
<1>5. ASSUME NEW x \in HwNew, NEW s \in Known
      PROVE  /\ HwTestCellOf[<<x, s>>] = <<x[2], ItemCheckout(x[1]), KindOf(x[1]), s>>
             /\ HwLedgerCellOf[<<x, s>>] = <<x[2], ItemCheckout(x[1]), s>>
  BY <1>3 DEF HwTestCellOf, HwLedgerCellOf
<1>6. \A x \in HwNew : KindOf(x[1]) \in {"boot", "test"}
  <2>1. \A t \in Tests : t \notin Builds
    BY IdsAssumption
  <2> QED BY <1>3, <2>1, HwItemParts DEF KindOf
<1>7. \A x \in HwNew : \A s \in Known :
        HwLedgerCellOf[<<x, s>>] = <<p, co, o>> <=> HwTestCellOf[<<x, s>>] \in {col("boot"), col("test")}
  <2> SUFFICES ASSUME NEW x \in HwNew, NEW s \in Known
               PROVE  HwLedgerCellOf[<<x, s>>] = <<p, co, o>>
                        <=> \/ HwTestCellOf[<<x, s>>] = col("boot")
                            \/ HwTestCellOf[<<x, s>>] = col("test")
    OBVIOUS
  <2>1. HwLedgerCellOf[<<x, s>>] = <<p, co, o>>
          <=> x[2] = p /\ ItemCheckout(x[1]) = co /\ s = o
    BY <1>5, EqualTriples
  <2>2. \A k : HwTestCellOf[<<x, s>>] = col(k)
          <=> x[2] = p /\ ItemCheckout(x[1]) = co /\ KindOf(x[1]) = k /\ s = o
    BY <1>5, EqualQuadruples
  <2> HIDE DEF col
  <2> QED BY <1>6, <2>1, <2>2
<1>8. CountChange(hwTest, HwNew, HwBatch, HwLedgerCellOf, c) = change("boot") + change("test")
  <2>1. col("boot") # col("test")
    OBVIOUS
  <2> HIDE DEF col
  <2> QED BY <1>1, <1>3, <1>7, <2>1, ChangeOfTwo
<1>9. /\ HwTotals[c] = hwTestCount[col("boot")] + hwTestCount[col("test")]
      /\ HwTotals'[c] = hwTestCount'[col("boot")] + hwTestCount'[col("test")]
  BY <1>1 DEF HwTotals
<1> HIDE DEF change, col
<1> QED
  BY <1>4, <1>8, <1>9

LEMMA HwTestCensusStep ==
    ASSUME TypeOK, HwTestCensus, CountHardware, NEW c \in HwLedgerCells
    PROVE  HwTotals'[c] = Census(hwTest', HwLedgerCellOf, c)
<1>1. HwTotals'[c] = HwTotals[c] + CountChange(hwTest, HwNew, HwBatch, HwLedgerCellOf, c)
  BY HwTotalsStep
<1>2. HwTotals[c] = Census(hwTest, HwLedgerCellOf, c)
  BY DEF HwTestCensus
<1>3. hwTest \in [HwItems -> Row]
  BY DEF TypeOK
<1>4. LET after == [x \in HwItems |-> IF x \in HwNew THEN HwBatch[x] ELSE hwTest[x]]
      IN  Census(after, HwLedgerCellOf, c)
            = Census(hwTest, HwLedgerCellOf, c)
              + CountChange(hwTest, HwNew, HwBatch, HwLedgerCellOf, c)
  BY <1>3, NewItems, ItemsFinite, CensusStep
<1>5. hwTest' = [x \in HwItems |-> IF x \in HwNew THEN HwBatch[x] ELSE hwTest[x]]
  BY DEF CountHardware
<1> QED
  BY <1>1, <1>2, <1>4, <1>5, Zenon

LEMMA HwLedgerInit == Init => HwLedger!LedgerInit
<1> SUFFICES ASSUME Init PROVE HwLedger!LedgerInit
  OBVIOUS
<1>1. \A c \in HwLedgerCells : HwTotals[c] = 0
  BY DEF Init, HwTotals, HwLedgerCells, HwTestCells
<1> QED
  BY <1>1 DEF Init, HwTotals, HwLedger!LedgerInit, HwLedger!NoRow, NoRow

LEMMA HwLedgerStep ==
    ASSUME TypeOK, TypeOK', HwTestCensus, [Next]_vars
    PROVE  /\ HwTestCensus'
           /\ [HwLedger!CountItems]_<<hwTest, HwTotals>>
<1>1. CASE CommitHardware
  <2>1. CountHardware
    BY <1>1 DEF CommitHardware
  <2>2. HwTestCensus'
    BY <2>1, HwTestCensusStep DEF HwTestCensus
  <2>3. hwTest' \in [HwItems -> Row]
    BY DEF TypeOK
  <2>4. ASSUME NEW x \in HwItems
        PROVE  \/ hwTest'[x] = hwTest[x]
               \/ /\ hwTest'[x] # NoRow
                  /\ NeedsCount(hwTest[x], hwTest'[x])
    BY <2>1 DEF CountHardware, HwNew
  <2>5. HwTotals' = [c \in HwLedgerCells |-> Census(hwTest', HwLedgerCellOf, c)]
    BY <2>2 DEF HwTestCensus, HwTotals
  <2>6. /\ HwLedger!Row = Row
        /\ HwLedger!NoRow = NoRow
        /\ \A old, new : HwLedger!NeedsCount(old, new) = NeedsCount(old, new)
    BY DEF HwLedger!Row, HwLedger!Status, HwLedger!Known, HwLedger!Null,
           HwLedger!NoRow, HwLedger!NeedsCount, Row, Status, Known, Null, NoRow,
           NeedsCount
  <2>7. \A c : HwLedger!Census(hwTest', HwLedgerCellOf, c) = Census(hwTest', HwLedgerCellOf, c)
    BY DEF HwLedger!Census, HwLedger!Outcome, HwLedger!Known, HwLedger!NoRow,
           HwLedger!Cardinality, Census, Outcome, Known, NoRow, Cardinality
  <2>8. HwLedger!CountItems
    BY <2>3, <2>4, <2>5, <2>6, <2>7 DEF HwLedger!CountItems
  <2> QED BY <2>2, <2>8
<1>2. CASE ~CommitHardware
  <2>1. UNCHANGED <<hwTest, hwTestCount>>
    BY <1>2, OnlyCommitHardware
  <2> QED BY <2>1 DEF HwTestCensus, HwTotals
<1> QED
  BY <1>1, <1>2

(* PendingAggregation implements ListingLedger for the tests of            *)
(* hardware_status.                                                        *)
THEOREM HardwareRefinement == Spec => HardwareKeepsLedger
<1>1. Init => HwLedger!LedgerInit /\ HwTestCensus
  <2> SUFFICES ASSUME Init PROVE HwLedger!LedgerInit /\ HwTestCensus
    OBVIOUS
  <2>1. HwLedger!LedgerInit /\ HwTotals = [c \in HwLedgerCells |-> 0]
    BY HwLedgerInit DEF HwLedger!LedgerInit
  <2>2. hwTest = [x \in HwItems |-> NoRow]
    BY DEF Init
  <2> QED BY <2>1, <2>2, CensusOfNothing DEF HwTestCensus
<1>2. TypeOK /\ TypeOK' /\ HwTestCensus /\ [Next]_vars
        => HwTestCensus' /\ [HwLedger!CountItems]_<<hwTest, HwTotals>>
  BY HwLedgerStep
<1> QED
  BY <1>1, <1>2, TypeCorrect, PTL DEF Spec, HardwareKeepsLedger, HwLedger!LedgerSpec

-----------------------------------------------------------------------------
(* Nothing is forgotten.                                                   *)

LEMMA SteadyRowsStep ==
    ASSUME TypeOK, SteadyRows, [Next]_vars
    PROVE  SteadyRows'
<1> SUFFICES ASSUME NEW x \in Steady
             PROVE  /\ pending'[x[1]] # NoRow => details'[x[1]].platform = x[2]
                    /\ batch'[x[1]] # NoRow => taken'[x[1]].platform = x[2]
  BY DEF SteadyRows
<1> DEFINE t == x[1]
<1>1. /\ t \in Tests /\ t \in Items /\ t \notin Builds
      /\ x[2] \in Platforms /\ x[2] # NoPlatform
  BY SteadyParts, IdsAssumption, RelationsAssumption
<1>2. /\ pending[t] # NoRow => details[t].platform = x[2]
      /\ batch[t] # NoRow => taken[t].platform = x[2]
  BY DEF SteadyRows
<1> HIDE DEF t
<1>3. ASSUME NEW f \in Flushes, FlushCommit(f)
      PROVE  pending'[t] # NoRow => details'[t].platform = x[2]
  <2>1. /\ Reported[f][t] # NoRow => DetailIn[f][t].platform = x[2]
        /\ details[t] \in Detail
    BY <1>1 DEF Steady, t, TypeOK
  <2>2. /\ pending'[t] = Upsert(pending[t], Reported[f][t])
        /\ details'[t] = UpsertDetail(t, f)
    BY <1>1, <1>3 DEF FlushCommit
  <2>3. CASE Reported[f][t] = NoRow
    BY <1>2, <2>2, <2>3 DEF Upsert, UpsertDetail
  <2>4. CASE Reported[f][t] # NoRow /\ pending[t] = NoRow
    BY <2>1, <2>2, <2>4 DEF UpsertDetail
  <2>5. CASE Reported[f][t] # NoRow /\ pending[t] # NoRow
    BY <1>1, <1>2, <2>1, <2>2, <2>5 DEF UpsertDetail, Detail
  <2> QED BY <2>3, <2>4, <2>5
<1>4. ASSUME NEW f \in Flushes, FlushStep(f)
      PROVE  /\ pending'[t] # NoRow => details'[t].platform = x[2]
             /\ batch'[t] # NoRow => taken'[t].platform = x[2]
  <2>1. UNCHANGED <<batch, taken>>
    BY <1>4 DEF FlushStep, FlushBegin, FlushUpsert, FlushCommit, FlushAbort, FlushEnds, aggregator
  <2>2. CASE ~FlushCommit(f)
    BY <1>2, <1>4, <2>1, <2>2 DEF FlushStep, FlushBegin, FlushUpsert, FlushAbort, database
  <2> QED BY <1>2, <1>3, <2>1, <2>2
<1>5. CASE StartPass \/ LockTests \/ LockBuilds \/ CommitTree
  BY <1>2, <1>5 DEF StartPass, LockTests, LockBuilds, CommitTree, database, t
<1>6. CASE ReadBuilds
  BY <1>1, <1>2, <1>6 DEF ReadBuilds, database, t
<1>7. CASE CommitHardware
  BY <1>1, <1>2, <1>7 DEF CommitHardware, database, t
<1>8. CASE DeletePending
  <2>1. batch'[t] = NoRow
    BY <1>1, <1>8 DEF DeletePending, NoBatch
  <2>2. pending'[t] # NoRow => pending'[t] = pending[t] /\ details'[t] = details[t]
    BY <1>1, <1>8 DEF DeletePending
  <2> QED BY <1>2, <2>1, <2>2 DEF t
<1>9. CASE TreeDeadlock \/ Crash
  BY <1>1, <1>2, <1>9 DEF TreeDeadlock, Crash, Restart, NoBatch, database, t
<1>10. CASE UNCHANGED vars
  BY <1>2, <1>10 DEF vars, database, aggregator, t
<1> QED
  BY <1>4, <1>5, <1>6, <1>7, <1>8, <1>9, <1>10 DEF Next, AggregatorStep, t

LEMMA SteadyRowsInit == Init => SteadyRows
BY SteadyParts DEF Init, SteadyRows, NoBatch

(* So a steady test is in the batch of hardware_status as it was read.     *)
LEMMA SteadyBatch ==
    ASSUME SteadyRows, NEW x \in Steady
    PROVE  HwBatch[x] = batch[x[1]]
BY SteadyParts DEF HwBatch, SteadyRows

Forgetting == SteadyRows /\ NothingForgotten /\ BatchIsCounted

LEMMA ForgettingFlush ==
    ASSUME TypeOK, Forgetting, NEW f \in Flushes, FlushStep(f)
    PROVE  Forgetting'
<1>0. SteadyRows'
  BY SteadyRowsStep DEF Forgetting, Next
<1> USE DEF Forgetting, NothingForgotten, BatchIsCounted
<1>1. CASE FlushBegin(f) \/ FlushUpsert(f) \/ FlushAbort(f)
  BY <1>0, <1>1 DEF FlushBegin, FlushUpsert, FlushAbort, FlushEnds, database, listings, aggregator
<1>2. CASE FlushCommit(f)
  <2>1. UNCHANGED <<listings, aggregator>>
    BY <1>2 DEF FlushCommit, FlushEnds
  <2>2. ASSUME NEW i \in Items, source'[i] # NoRow
        PROVE  pending'[i] # NoRow \/ (source[i] # NoRow /\ pending'[i] = pending[i])
    <3>1. Reported[f][i] \in Row /\ pending[i] \in Row /\ source[i] \in Row
      BY FlushesAssumption DEF TypeOK
    <3>2. /\ pending'[i] = Upsert(pending[i], Reported[f][i])
          /\ source'[i] = Upsert(source[i], Reported[f][i])
      BY <1>2 DEF FlushCommit
    <3>3. CASE Reported[f][i] = NoRow
      BY <3>2, <3>3, <2>2 DEF Upsert
    <3>4. CASE Reported[f][i] # NoRow
      BY <3>1, <3>2, <3>4, UpsertFacts
    <3> QED BY <3>3, <3>4
  <2> QED BY <1>0, <2>1, <2>2, SteadyParts DEF listings, aggregator
<1> QED
  BY <1>1, <1>2 DEF FlushStep

LEMMA ForgettingAggregator ==
    ASSUME TypeOK, Forgetting, AggregatorStep \/ TreeDeadlock \/ Crash
    PROVE  Forgetting'
<1>0. SteadyRows'
  BY SteadyRowsStep DEF Forgetting, Next
<1> USE DEF Forgetting, NothingForgotten, BatchIsCounted, database, listings, ingester
<1>1. CASE StartPass \/ LockTests \/ ReadBuilds \/ LockBuilds
  BY <1>0, <1>1 DEF StartPass, LockTests, ReadBuilds, LockBuilds
<1>2. CASE CommitHardware
  <2>1. ASSUME NEW x \in Steady
        PROVE  /\ batch[x[1]] # NoRow => hwTest'[x] # NoRow
               /\ hwTest[x] # NoRow => hwTest'[x] # NoRow
    BY <1>2, SteadyBatch, SteadyParts DEF CommitHardware, CountHardware, HwNew, NeedsCount
  <2>2. ASSUME NEW t \in Tests
        PROVE  batch'[t] = batch[t]
    BY <1>2, ItemsFinite, IdsAssumption DEF CommitHardware
  <2>3. ASSUME pc' = "delete", NEW i \in Items
        PROVE  batch'[i] = NoRow
    BY <1>2, <2>3 DEF CommitHardware, NoBatch
  <2>4. UNCHANGED <<database, treeDone>>
    BY <1>2 DEF CommitHardware
  <2> QED BY <1>0, <2>1, <2>2, <2>3, <2>4, SteadyParts
<1>3. CASE CommitTree
  <2>1. ASSUME NEW i \in Items
        PROVE  /\ batch[i] # NoRow /\ i \notin DummyBuilds => treeDone'[i] # NoRow
               /\ treeDone[i] # NoRow => treeDone'[i] # NoRow
    BY <1>3 DEF CommitTree, TreeNew, NeedsCount
  <2>2. pc = "tree" /\ UNCHANGED <<database, hwTest, batch>>
    BY <1>3 DEF CommitTree
  <2> QED BY <1>0, <2>1, <2>2
<1>4. CASE DeletePending
  <2>1. pc = "delete" /\ UNCHANGED <<source, hwTest, treeDone>>
    BY <1>4 DEF DeletePending
  <2>2. ASSUME NEW i \in Items, pending[i] # NoRow, pending'[i] = NoRow
        PROVE  batch[i] # NoRow
    BY <1>4, <2>2 DEF DeletePending, Deleted
  <2>3. pc' \notin {"tree", "delete"}
    BY <1>4 DEF DeletePending
  <2> QED BY <1>0, <2>1, <2>2, <2>3, SteadyParts
<1>5. CASE TreeDeadlock \/ Crash
  BY <1>0, <1>5 DEF TreeDeadlock, Crash, Restart
<1> QED
  BY <1>1, <1>2, <1>3, <1>4, <1>5 DEF AggregatorStep

(* In every reachable state a stored item is pending or counted.           *)
THEOREM NeverForgotten == Spec => []NothingForgotten
<1>1. Init => Forgetting
  BY SteadyRowsInit, SteadyParts DEF Init, Forgetting, NothingForgotten, BatchIsCounted
<1>2. TypeOK /\ Forgetting /\ [Next]_vars => Forgetting'
  <2> SUFFICES ASSUME TypeOK, Forgetting, [Next]_vars
               PROVE  Forgetting'
    OBVIOUS
  <2>1. CASE UNCHANGED vars
    BY <2>1, SteadyRowsStep DEF Forgetting, NothingForgotten, BatchIsCounted, vars,
                database, listings, aggregator
  <2> QED BY <2>1, ForgettingFlush, ForgettingAggregator DEF Next
<1>3. Forgetting => NothingForgotten
  BY DEF Forgetting
<1> QED
  BY <1>1, <1>2, <1>3, TypeCorrect, PTL DEF Spec

-----------------------------------------------------------------------------
(* The two listings agree.                                                 *)

LEMMA AgreementFlush ==
    ASSUME TypeOK, Agreement, NEW f \in Flushes, FlushStep(f)
    PROVE  Agreement'
<1>1. UNCHANGED <<listings, aggregator>>
  BY DEF FlushStep, FlushBegin, FlushUpsert, FlushCommit, FlushAbort, FlushEnds
<1>2. ASSUME NEW i \in Items
      PROVE  /\ pending[i] # NoRow => pending'[i] # NoRow
             /\ pending[i] \in Known => pending'[i] = pending[i]
  <2>1. CASE FlushCommit(f)
    <3>1. Reported[f][i] \in Row /\ pending[i] \in Row
      BY FlushesAssumption DEF TypeOK
    <3> QED BY <2>1, <3>1, UpsertFacts DEF FlushCommit
  <2>2. CASE ~FlushCommit(f)
    BY <2>2 DEF FlushStep, FlushBegin, FlushUpsert, FlushAbort, database
  <2> QED BY <2>1, <2>2
<1>3. ASSUME NEW x \in Steady
      PROVE  (BatchIsPending(x[1]) /\ HardwareAhead(x) /\ HardwareCaughtUp(x))'
  <2>1. BatchIsPending(x[1]) /\ HardwareAhead(x) /\ HardwareCaughtUp(x)
    BY DEF Agreement
  <2> QED
    BY <1>1, <1>2, <2>1, SteadyParts
       DEF BatchIsPending, HardwareAhead, HardwareCaughtUp, listings, aggregator
<1> QED
  BY <1>3 DEF Agreement

(* What the two counting transactions do to one test.                      *)
LEMMA AgreementHardware ==
    ASSUME TypeOK, SteadyRows, Agreement, CommitHardware, NEW x \in Steady
    PROVE  (BatchIsPending(x[1]) /\ HardwareAhead(x) /\ HardwareCaughtUp(x))'
<1>1. BatchIsPending(x[1]) /\ HardwareAhead(x)
  BY DEF Agreement
<1>2. batch'[x[1]] = batch[x[1]] /\ (pc' = "delete" => batch[x[1]] = NoRow)
  BY SteadyParts, IdsAssumption DEF CommitHardware, NoBatch
<1>3. hwTest'[x] = IF batch[x[1]] # NoRow /\ NeedsCount(hwTest[x], batch[x[1]])
                   THEN batch[x[1]] ELSE hwTest[x]
  BY SteadyBatch, SteadyParts DEF CommitHardware, CountHardware, HwNew
<1>4. treeDone'[x[1]] = treeDone[x[1]] /\ pending'[x[1]] = pending[x[1]]
  BY DEF CommitHardware, database
<1>5. /\ batch[x[1]] \in Row /\ hwTest[x] \in Row /\ treeDone[x[1]] \in Row
      /\ Row = Known \union {Null, NoRow} /\ Null \notin Known /\ NoRow \notin Known
      /\ Null # NoRow
  BY SteadyParts DEF TypeOK, Row, Status, Known, Null, NoRow
<1> QED
  BY <1>1, <1>2, <1>3, <1>4, <1>5
     DEF BatchIsPending, HardwareAhead, HardwareCaughtUp, NeedsCount

LEMMA AgreementTree ==
    ASSUME TypeOK, Agreement, CommitTree, NEW x \in Steady
    PROVE  (BatchIsPending(x[1]) /\ HardwareAhead(x) /\ HardwareCaughtUp(x))'
<1>1. BatchIsPending(x[1]) /\ HardwareAhead(x) /\ HardwareCaughtUp(x)
  BY DEF Agreement
<1>2. treeDone'[x[1]] = IF batch[x[1]] # NoRow /\ NeedsCount(treeDone[x[1]], batch[x[1]])
                     THEN batch[x[1]] ELSE treeDone[x[1]]
  BY SteadyParts, RelationsAssumption, IdsAssumption DEF CommitTree, TreeNew
<1>3. /\ hwTest'[x] = hwTest[x] /\ pending'[x[1]] = pending[x[1]] /\ batch'[x[1]] = batch[x[1]]
      /\ pc = "tree" /\ pc' = "delete"
  BY DEF CommitTree, database
<1>4. /\ batch[x[1]] \in Row /\ hwTest[x] \in Row /\ treeDone[x[1]] \in Row
      /\ Row = Known \union {Null, NoRow} /\ Null \notin Known /\ NoRow \notin Known
      /\ Null # NoRow
  BY SteadyParts DEF TypeOK, Row, Status, Known, Null, NoRow
<1> QED
  BY <1>1, <1>2, <1>3, <1>4
     DEF BatchIsPending, HardwareAhead, HardwareCaughtUp, NeedsCount

LEMMA AgreementOther ==
    ASSUME TypeOK, Agreement,
           AggregatorStep \/ TreeDeadlock \/ Crash, ~CommitHardware, ~CommitTree,
           NEW x \in Steady
    PROVE  (BatchIsPending(x[1]) /\ HardwareAhead(x) /\ HardwareCaughtUp(x))'
<1>1. BatchIsPending(x[1]) /\ HardwareAhead(x) /\ HardwareCaughtUp(x) /\ x[1] \in Items
  BY SteadyParts DEF Agreement
<1> USE DEF BatchIsPending, HardwareAhead, HardwareCaughtUp, database, listings
<1>2. CASE StartPass \/ LockTests \/ LockBuilds
  BY <1>1, <1>2 DEF StartPass, LockTests, LockBuilds
<1>3. CASE ReadBuilds
  <2>1. batch'[x[1]] \in {NoRow, pending[x[1]]}
    BY <1>1, <1>3 DEF ReadBuilds
  <2>2. pc' = "lock_builds" /\ UNCHANGED <<database, listings>>
    BY <1>3 DEF ReadBuilds
  <2> QED BY <1>1, <2>1, <2>2
<1>4. CASE DeletePending
  <2>1. batch'[x[1]] = NoRow /\ UNCHANGED listings
    BY <1>1, <1>4 DEF DeletePending, NoBatch
  <2>2. pc = "delete" /\ pending'[x[1]] = IF batch[x[1]] # NoRow THEN NoRow ELSE pending[x[1]]
    BY <1>1, <1>4 DEF DeletePending, Deleted
  <2> QED BY <1>1, <2>1, <2>2
<1>5. CASE Restart
  <2>1. batch'[x[1]] = NoRow /\ UNCHANGED <<database, listings>>
    BY <1>1, <1>5 DEF Restart, NoBatch
  <2> QED BY <1>1, <2>1
<1>6. CASE TreeDeadlock /\ ~Restart
  BY <1>1, <1>6 DEF TreeDeadlock
<1> QED
  BY <1>2, <1>3, <1>4, <1>5, <1>6 DEF AggregatorStep, Crash

(* In every reachable state the listings agree on a test that is not       *)
(* pending, and hardware_status is never behind.                           *)
THEOREM ListingsAgreement == Spec => []ListingsAgree
<1>1. Init => Agreement
  BY SteadyParts DEF Init, Agreement, BatchIsPending, HardwareAhead, HardwareCaughtUp, NoBatch
<1>2. TypeOK /\ SteadyRows /\ Agreement /\ [Next]_vars => Agreement'
  <2> SUFFICES ASSUME TypeOK, SteadyRows, Agreement, [Next]_vars
               PROVE  Agreement'
    OBVIOUS
  <2>1. CASE UNCHANGED vars
    BY <2>1 DEF Agreement, BatchIsPending, HardwareAhead, HardwareCaughtUp, vars,
                database, listings, aggregator
  <2>2. CASE AggregatorStep \/ TreeDeadlock \/ Crash
    BY <2>2, AgreementHardware, AgreementTree, AgreementOther DEF Agreement
  <2> QED BY <2>1, <2>2, AgreementFlush DEF Next
<1>3. Agreement => ListingsAgree
  BY DEF Agreement, HardwareAhead, ListingsAgree
<1>4. Init => SteadyRows
  BY SteadyRowsInit
<1>5. TypeOK /\ SteadyRows /\ [Next]_vars => SteadyRows'
  BY SteadyRowsStep
<1> QED
  BY <1>1, <1>2, <1>3, <1>4, <1>5, TypeCorrect, PTL DEF Spec

-----------------------------------------------------------------------------
(* The build columns of hardware_status.  They are not a ledger: a build   *)
(* that is counted again is taken off build_inc once for each of its tests *)
(* that are counted with it, and that is at least once.                    *)

(* A test is taken into the batch with its build: the status the build has *)
(* been seen with is there when hardware_status is counted.                *)
BatchHasBuilds == \A t \in Tests : batch[t] # NoRow => buildSnap[BuildOf[t]] # NoRow

BuildCounting == BatchHasBuilds /\ HwBuildsNotOvercounted

LEMMA TestsAreNotBuilds ==
    /\ \A t \in Tests : t \in Items /\ t \notin Builds /\ BuildOf[t] \in Builds
    /\ \A k \in BuildKeys : k[1] \in Builds /\ k[2] \in Platforms
<1>1. \A t \in Tests : t \in Items /\ t \notin Builds /\ BuildOf[t] \in Builds
  BY IdsAssumption, RelationsAssumption DEF Items
<1>2. \A k \in BuildKeys : k[1] \in Builds /\ k[2] \in Platforms
  BY DEF BuildKeys
<1> QED
  BY <1>1, <1>2

LEMMA BatchHasBuildsStep ==
    ASSUME TypeOK, BatchHasBuilds, [Next]_vars
    PROVE  BatchHasBuilds'
<1> USE DEF BatchHasBuilds
<1>1. ASSUME NEW f \in Flushes, FlushStep(f) PROVE BatchHasBuilds'
  BY <1>1 DEF FlushStep, FlushBegin, FlushUpsert, FlushCommit, FlushAbort, FlushEnds, aggregator
<1>2. CASE StartPass \/ LockTests \/ LockBuilds \/ CommitTree
  BY <1>2 DEF StartPass, LockTests, LockBuilds, CommitTree
<1>3. CASE ReadBuilds
  BY <1>3, TestsAreNotBuilds DEF ReadBuilds
<1>4. CASE CommitHardware
  <2>1. \A t \in Tests : batch'[t] = batch[t]
    BY <1>4, TestsAreNotBuilds DEF CommitHardware
  <2>2. buildSnap' = buildSnap
    BY <1>4 DEF CommitHardware
  <2> QED BY <2>1, <2>2
<1>5. CASE DeletePending
  BY <1>5, TestsAreNotBuilds DEF DeletePending, NoBatch
<1>6. CASE TreeDeadlock \/ Crash
  BY <1>6, TestsAreNotBuilds DEF TreeDeadlock, Crash, Restart, NoBatch
<1>7. CASE UNCHANGED vars
  BY <1>7 DEF vars, aggregator
<1> QED
  BY <1>1, <1>2, <1>3, <1>4, <1>5, <1>6, <1>7 DEF Next, AggregatorStep

(* Every build of the batch that is counted was seen with a status.        *)
LEMMA NewBuildsAreSeen ==
    ASSUME TypeOK, BatchHasBuilds
    PROVE  \A k \in HwBuildNew : /\ buildSnap[k[1]] \in Status
                                 /\ NeedsCount(hwBuild[k], buildSnap[k[1]])
<1> SUFFICES ASSUME NEW k \in HwBuildNew
             PROVE  /\ buildSnap[k[1]] \in Status
                    /\ NeedsCount(hwBuild[k], buildSnap[k[1]])
  OBVIOUS
<1>1. PICK x \in HwNew : BuildKey(x) = k
  BY DEF HwBuildNew
<1>2. x[1] \in Tests /\ batch[x[1]] # NoRow /\ k[1] = BuildOf[x[1]]
  BY <1>1, HwItemParts DEF HwNew, HwBatch, BuildKey
<1>3. buildSnap[k[1]] # NoRow /\ buildSnap[k[1]] \in Row
  BY <1>2, TestsAreNotBuilds DEF BatchHasBuilds, TypeOK
<1> QED
  BY <1>3 DEF HwBuildNew, Row

(* What is taken off: once for every test, so at least once for every      *)
(* build, and only from the inconclusive column.                           *)
LEMMA DecrementsCover ==
    ASSUME TypeOK, NEW c \in HwBuildCells
    PROVE  LET builds == {k \in HwBuildNew : hwBuild[k] = Null /\ HwBuildCellOf[<<k, "INC">>] = c}
               tests == {x \in HwNew : LET k == BuildKey(x)
                                       IN  /\ k \in HwBuildNew
                                           /\ hwBuild[k] = Null
                                           /\ HwBuildCellOf[<<k, "INC">>] = c}
           IN  /\ Cardinality(builds) \in Nat /\ Cardinality(tests) \in Nat
               /\ Cardinality(builds) <= Cardinality(tests)
               /\ c[3] # "INC" => Cardinality(builds) = 0 /\ Cardinality(tests) = 0
<1> DEFINE builds == {k \in HwBuildNew : hwBuild[k] = Null /\ HwBuildCellOf[<<k, "INC">>] = c}
           tests == {x \in HwNew : LET k == BuildKey(x)
                                   IN  /\ k \in HwBuildNew
                                       /\ hwBuild[k] = Null
                                       /\ HwBuildCellOf[<<k, "INC">>] = c}
           key == [x \in tests |-> BuildKey(x)]
<1>1. tests = {x \in HwNew : BuildKey(x) \in builds}
  OBVIOUS
<1>2. \A k \in builds : \E x \in HwNew : BuildKey(x) = k
  BY DEF HwBuildNew
<1>3. IsFiniteSet(tests)
  BY NewItems, ItemsFinite, FS_Subset
<1>4. c[3] # "INC" => builds = {}
  <2> SUFFICES ASSUME NEW k \in builds PROVE c[3] = "INC"
    OBVIOUS
  <2>1. k \in BuildKeys /\ "INC" \in Known
    BY DEF HwBuildNew, Known
  <2>2. HwBuildCellOf[<<k, "INC">>] = <<k[2], CheckoutOf[k[1]], "INC">>
    BY <2>1 DEF HwBuildCellOf
  <2> QED BY <2>2
<1> HIDE DEF builds, tests
<1>5. c[3] # "INC" => tests = {}
  BY <1>1, <1>4
<1>6. key \in Surjection(tests, builds)
  BY <1>1, <1>2 DEF Surjection
<1>7. IsFiniteSet(builds) /\ Cardinality(builds) <= Cardinality(tests)
  BY <1>3, <1>6, FS_Surjection
<1>8. Cardinality(builds) \in Nat /\ Cardinality(tests) \in Nat
  BY <1>3, <1>7, FS_CardinalityType
<1>9. c[3] # "INC" => Cardinality(builds) = 0 /\ Cardinality(tests) = 0
  BY <1>4, <1>5, FS_EmptySet
<1> QED
  BY <1>7, <1>8, <1>9 DEF builds, tests

LEMMA HwBuildStep ==
    ASSUME TypeOK, BuildCounting, CountHardware
    PROVE  HwBuildsNotOvercounted'
<1> SUFFICES ASSUME NEW c \in HwBuildCells
             PROVE  IF c[3] = "INC"
                    THEN hwBuildCount'[c] <= Census(hwBuild', HwBuildCellOf, c)
                    ELSE hwBuildCount'[c] = Census(hwBuild', HwBuildCellOf, c)
  BY DEF HwBuildsNotOvercounted
<1> DEFINE snap == [k \in BuildKeys |-> buildSnap[k[1]]]
           more == {k \in HwBuildNew : HwBuildCellOf[<<k, Outcome(buildSnap[k[1]])>>] = c}
           builds == {k \in HwBuildNew : hwBuild[k] = Null /\ HwBuildCellOf[<<k, "INC">>] = c}
           tests == {x \in HwNew : LET k == BuildKey(x)
                                   IN  /\ k \in HwBuildNew
                                       /\ hwBuild[k] = Null
                                       /\ HwBuildCellOf[<<k, "INC">>] = c}
           change == CountChange(hwBuild, HwBuildNew, snap, HwBuildCellOf, c)
<1>1. HwBuildNew \in SUBSET BuildKeys /\ IsFiniteSet(HwBuildNew)
  BY NewItems, ItemsFinite, FS_Subset
<1>2. \A k \in HwBuildNew : snap[k] = buildSnap[k[1]]
  BY <1>1
<1>3. /\ Cardinality(builds) \in Nat /\ Cardinality(tests) \in Nat
      /\ Cardinality(builds) <= Cardinality(tests)
      /\ c[3] # "INC" => Cardinality(builds) = 0 /\ Cardinality(tests) = 0
  BY DecrementsCover
<1>4. Cardinality(more) \in Nat
  BY <1>1, FS_Subset, FS_CardinalityType
<1>5. change = Cardinality(more) - Cardinality(builds)
  <2>1. {k \in HwBuildNew : HwBuildCellOf[<<k, Outcome(snap[k])>>] = c} = more
    BY <1>2
  <2> HIDE DEF snap
  <2> QED BY <2>1, Zenon DEF CountChange
<1>6. hwBuildCount'[c] = hwBuildCount[c] + (Cardinality(more) - Cardinality(tests))
  BY DEF CountHardware, HwBuildChange
<1>7. hwBuild' = [k \in BuildKeys |-> IF k \in HwBuildNew THEN snap[k] ELSE hwBuild[k]]
  BY DEF CountHardware
<1>8. Census(hwBuild', HwBuildCellOf, c) = Census(hwBuild, HwBuildCellOf, c) + change
  <2>1. \A k \in HwBuildNew : snap[k] \in Status /\ NeedsCount(hwBuild[k], snap[k])
    BY <1>2, NewBuildsAreSeen DEF BuildCounting
  <2>2. hwBuild \in [BuildKeys -> Row]
    BY DEF TypeOK
  <2> HIDE DEF snap
  <2>3. LET after == [k \in BuildKeys |-> IF k \in HwBuildNew THEN snap[k] ELSE hwBuild[k]]
        IN  Census(after, HwBuildCellOf, c)
              = Census(hwBuild, HwBuildCellOf, c)
                + CountChange(hwBuild, HwBuildNew, snap, HwBuildCellOf, c)
    BY <1>1, <2>1, <2>2, ItemsFinite, CensusStep
  <2> QED BY <1>7, <2>3, Zenon
<1>9. Census(hwBuild, HwBuildCellOf, c) \in Int /\ hwBuildCount[c] \in Int
  <2>1. DOMAIN hwBuild = BuildKeys /\ hwBuildCount[c] \in Int
    BY DEF TypeOK
  <2>2. IsFiniteSet({k \in BuildKeys : /\ hwBuild[k] # NoRow
                                       /\ HwBuildCellOf[<<k, Outcome(hwBuild[k])>>] = c})
    BY ItemsFinite, FS_Subset
  <2> QED BY <2>1, <2>2, FS_CardinalityType DEF Census
<1>10. IF c[3] = "INC" THEN hwBuildCount[c] <= Census(hwBuild, HwBuildCellOf, c)
                       ELSE hwBuildCount[c] = Census(hwBuild, HwBuildCellOf, c)
  BY DEF BuildCounting, HwBuildsNotOvercounted
<1> HIDE DEF more, builds, tests, change
<1> QED
  BY <1>3, <1>4, <1>5, <1>6, <1>8, <1>9, <1>10

(* The build columns of hardware_status never show more builds than are    *)
(* recorded, and those of the known outcomes show exactly as many.         *)
THEOREM HwBuildsNotOvercountedAlways == Spec => []HwBuildsNotOvercounted
<1>1. Init => BuildCounting
  <2> SUFFICES ASSUME Init PROVE BuildCounting
    OBVIOUS
  <2>1. BatchHasBuilds
    BY TestsAreNotBuilds DEF Init, BatchHasBuilds, NoBatch
  <2>2. \A c \in HwBuildCells : hwBuildCount[c] = 0 /\ Census(hwBuild, HwBuildCellOf, c) = 0
    BY CensusOfNothing DEF Init
  <2> QED BY <2>1, <2>2 DEF BuildCounting, HwBuildsNotOvercounted
<1>2. TypeOK /\ BuildCounting /\ [Next]_vars => BuildCounting'
  <2> SUFFICES ASSUME TypeOK, BuildCounting, [Next]_vars
               PROVE  BuildCounting'
    OBVIOUS
  <2>1. BatchHasBuilds'
    BY BatchHasBuildsStep DEF BuildCounting
  <2>2. HwBuildsNotOvercounted'
    <3>1. CASE CommitHardware
      BY <3>1, HwBuildStep DEF CommitHardware
    <3>2. CASE ~CommitHardware
      BY <3>2, OnlyCommitHardware DEF BuildCounting, HwBuildsNotOvercounted
    <3> QED BY <3>1, <3>2
  <2> QED BY <2>1, <2>2 DEF BuildCounting
<1>3. BuildCounting => HwBuildsNotOvercounted
  BY DEF BuildCounting
<1> QED
  BY <1>1, <1>2, <1>3, TypeCorrect, PTL DEF Spec
=============================================================================
