------------------------ MODULE ListingStatusProofs ------------------------
(***************************************************************************)
(* Facts about the counting of items that every listing relies on.         *)
(***************************************************************************)
EXTENDS ListingStatus, FiniteSetTheorems, WellFoundedInduction, TLAPS

(* A finite set that is not empty has a greatest element: the cursor of a  *)
(* page (pending_tests_batch[-1]) exists.                                  *)
LEMMA GreatestExists ==
    ASSUME NEW S \in SUBSET Nat, IsFiniteSet(S), S # {}
    PROVE  \E i \in S : \A j \in S : j <= i
<1> DEFINE T == {{y \in S : y > x} : x \in S}
<1>1. T \subseteq FiniteSubsetsOf(S)
  <2> SUFFICES ASSUME NEW x \in S
               PROVE  {y \in S : y > x} \in FiniteSubsetsOf(S)
    OBVIOUS
  <2>1. {y \in S : y > x} \in SUBSET S
    OBVIOUS
  <2>2. IsFiniteSet({y \in S : y > x})
    BY <2>1, FS_Subset
  <2> QED BY <2>1, <2>2 DEF FiniteSubsetsOf
<1>2. T # {}
  OBVIOUS
<1>3. PICK m \in T : \A n \in T : ~ (<<n, m>> \in StrictSubsetOrdering(S))
  <2> HIDE DEF T
  <2> QED BY <1>1, <1>2, FS_StrictSubsetOrderingWellFounded, WFMin
<1>4. PICK x \in S : m = {y \in S : y > x}
  OBVIOUS
<1>5. ASSUME NEW y \in S, y > x
      PROVE  FALSE
  <2> DEFINE n == {z \in S : z > y}
  <2>1. n \subseteq m
    <3> SUFFICES ASSUME NEW z \in S, z > y PROVE z > x
      BY <1>4
    <3> QED BY <1>5
  <2>2. y \in m /\ y \notin n
    BY <1>4, <1>5
  <2>3. m \subseteq S /\ n \subseteq S
    BY <1>4
  <2>4. n \in T
    OBVIOUS
  <2>5. <<n, m>> \in StrictSubsetOrdering(S)
    <3> HIDE DEF n, T
    <3> QED BY <2>1, <2>2, <2>3 DEF StrictSubsetOrdering
  <2> QED BY <1>3, <2>4, <2>5
<1> QED
  BY <1>5

(* One step of an aggregation: when the items of `new', each of which has  *)
(* to be counted, are recorded with their statuses, the census of a cell   *)
(* moves by CountChange.                                                   *)
LEMMA CensusStep ==
    ASSUME NEW S, IsFiniteSet(S),
           NEW done \in [S -> Row],
           NEW new \in SUBSET S,
           NEW batch,
           \A i \in new : batch[i] \in Status /\ NeedsCount(done[i], batch[i]),
           NEW cellOf, NEW c
    PROVE  LET after == [i \in S |-> IF i \in new THEN batch[i] ELSE done[i]]
           IN  Census(after, cellOf, c)
                 = Census(done, cellOf, c) + CountChange(done, new, batch, cellOf, c)
<1> DEFINE after == [i \in S |-> IF i \in new THEN batch[i] ELSE done[i]]
           A == {i \in S : done[i] # NoRow /\ cellOf[<<i, Outcome(done[i])>>] = c}
           B == {i \in S : after[i] # NoRow /\ cellOf[<<i, Outcome(after[i])>>] = c}
           N == {i \in new : cellOf[<<i, Outcome(batch[i])>>] = c}
           D == {i \in new : done[i] = Null /\ cellOf[<<i, "INC">>] = c}
<1>1. IsFiniteSet(A) /\ IsFiniteSet(N) /\ IsFiniteSet(D)
  BY FS_Subset
<1>2. Outcome(Null) = "INC" /\ Null # NoRow /\ NoRow \notin Status
  BY DEF Outcome, Null, Known, NoRow, Status
<1>3. D \subseteq A
  BY <1>2
<1>4. (A \ D) \intersect N = {}
  BY <1>2 DEF NeedsCount
<1>5. B = (A \ D) \union N
  <2>1. ASSUME NEW i \in S, i \in new
        PROVE  i \in B <=> i \in (A \ D) \union N
    <3>1. after[i] = batch[i] /\ batch[i] # NoRow
      BY <2>1, <1>2
    <3>2. i \notin A \ D
      BY <2>1, <1>2 DEF NeedsCount
    <3> QED BY <3>1, <3>2, <2>1
  <2>2. ASSUME NEW i \in S, i \notin new
        PROVE  i \in B <=> i \in (A \ D) \union N
    BY <2>2
  <2> QED BY <2>1, <2>2
<1> HIDE DEF A, B, N, D
<1>6. Cardinality(A \ D) = Cardinality(A) - Cardinality(D)
  <2>1. A \intersect D = D
    BY <1>3
  <2> QED BY <2>1, <1>1, FS_Difference
<1>7. Cardinality(B) = Cardinality(A \ D) + Cardinality(N)
  <2>1. IsFiniteSet(A \ D)
    BY <1>1, FS_Difference
  <2>2. Cardinality((A \ D) \union N)
          = Cardinality(A \ D) + Cardinality(N) - Cardinality((A \ D) \intersect N)
    BY <2>1, <1>1, FS_Union
  <2>3. Cardinality(A \ D) \in Nat /\ Cardinality(N) \in Nat
    BY <2>1, <1>1, FS_CardinalityType
  <2>4. Cardinality((A \ D) \intersect N) = 0
    BY <1>4, FS_EmptySet, Zenon
  <2>5. Cardinality(B) = Cardinality((A \ D) \union N)
    BY <1>5, Zenon
  <2> QED BY <2>2, <2>3, <2>4, <2>5
<1>8. /\ Cardinality(A) \in Nat
      /\ Cardinality(N) \in Nat
      /\ Cardinality(D) \in Nat
  BY <1>1, FS_CardinalityType
<1>9. Cardinality(B) = Cardinality(A) + (Cardinality(N) - Cardinality(D))
  BY <1>6, <1>7, <1>8
<1> USE DEF A, B, N, D
<1>10. DOMAIN after = S /\ DOMAIN done = S
  OBVIOUS
<1> QED
  BY <1>9, <1>10 DEF Census, CountChange

(* What CountChange adds to a counter is an integer.                       *)
LEMMA CountChangeType ==
    ASSUME NEW done, NEW new, IsFiniteSet(new), NEW batch, NEW cellOf, NEW c
    PROVE  CountChange(done, new, batch, cellOf, c) \in Int
<1>1. /\ IsFiniteSet({i \in new : cellOf[<<i, Outcome(batch[i])>>] = c})
      /\ IsFiniteSet({i \in new : done[i] = Null /\ cellOf[<<i, "INC">>] = c})
  BY FS_Subset
<1> QED
  BY <1>1, FS_CardinalityType DEF CountChange

(* Columns of a row taken together change by the sum of their changes.     *)
LEMMA ChangeOfOne ==
    ASSUME NEW new, NEW done, NEW batch, NEW cellOf, NEW whole, NEW a, NEW c,
           \A i \in new : \A s \in Known : whole[<<i, s>>] = c <=> cellOf[<<i, s>>] = a
    PROVE  CountChange(done, new, batch, whole, c) = CountChange(done, new, batch, cellOf, a)
<1>1. \A s : Outcome(s) \in Known
  BY DEF Outcome, Known
<1>2. {i \in new : whole[<<i, Outcome(batch[i])>>] = c}
        = {i \in new : cellOf[<<i, Outcome(batch[i])>>] = a}
  BY <1>1
<1>3. {i \in new : done[i] = Null /\ whole[<<i, "INC">>] = c}
        = {i \in new : done[i] = Null /\ cellOf[<<i, "INC">>] = a}
  BY DEF Known
<1> QED
  BY <1>2, <1>3, Zenon DEF CountChange

LEMMA ChangeOfTwo ==
    ASSUME NEW new, IsFiniteSet(new), NEW done, NEW batch, NEW cellOf, NEW whole,
           NEW a, NEW b, NEW c, a # b,
           \A i \in new : \A s \in Known : whole[<<i, s>>] = c <=> cellOf[<<i, s>>] \in {a, b}
    PROVE  CountChange(done, new, batch, whole, c)
             = CountChange(done, new, batch, cellOf, a)
               + CountChange(done, new, batch, cellOf, b)
<1> DEFINE N(f, x) == {i \in new : f[<<i, Outcome(batch[i])>>] = x}
           D(f, x) == {i \in new : done[i] = Null /\ f[<<i, "INC">>] = x}
<1>1. \A s : Outcome(s) \in Known
  BY DEF Outcome, Known
<1>2. /\ N(whole, c) = N(cellOf, a) \union N(cellOf, b)
      /\ N(cellOf, a) \intersect N(cellOf, b) = {}
  BY <1>1
<1>3. /\ D(whole, c) = D(cellOf, a) \union D(cellOf, b)
      /\ D(cellOf, a) \intersect D(cellOf, b) = {}
  BY DEF Known
<1>4. /\ IsFiniteSet(N(cellOf, a)) /\ IsFiniteSet(N(cellOf, b))
      /\ IsFiniteSet(D(cellOf, a)) /\ IsFiniteSet(D(cellOf, b))
  BY FS_Subset
<1>5. ASSUME NEW S, NEW T, NEW U, IsFiniteSet(S), IsFiniteSet(T),
             S \intersect T = {}, U = S \union T
      PROVE  /\ Cardinality(U) = Cardinality(S) + Cardinality(T)
             /\ Cardinality(S) \in Nat /\ Cardinality(T) \in Nat
  <2>1. Cardinality(S \union T)
          = Cardinality(S) + Cardinality(T) - Cardinality(S \intersect T)
    BY <1>5, FS_Union
  <2>2. Cardinality(S \intersect T) = 0
    BY <1>5, FS_EmptySet
  <2>3. Cardinality(S) \in Nat /\ Cardinality(T) \in Nat
    BY <1>5, FS_CardinalityType
  <2> QED BY <1>5, <2>1, <2>2, <2>3
<1>6. /\ Cardinality(N(whole, c)) = Cardinality(N(cellOf, a)) + Cardinality(N(cellOf, b))
      /\ Cardinality(N(cellOf, a)) \in Nat /\ Cardinality(N(cellOf, b)) \in Nat
  <2> HIDE DEF N
  <2> QED BY <1>2, <1>4, <1>5
<1>7. /\ Cardinality(D(whole, c)) = Cardinality(D(cellOf, a)) + Cardinality(D(cellOf, b))
      /\ Cardinality(D(cellOf, a)) \in Nat /\ Cardinality(D(cellOf, b)) \in Nat
  <2> HIDE DEF D
  <2> QED BY <1>3, <1>4, <1>5
<1>8. \A f, x : CountChange(done, new, batch, f, x) = Cardinality(N(f, x)) - Cardinality(D(f, x))
  BY Zenon DEF CountChange
<1> HIDE DEF N, D
<1> QED
  BY <1>6, <1>7, <1>8

(* COALESCE keeps a row that is there and never takes a known status back. *)
LEMMA UpsertFacts ==
    ASSUME NEW old \in Row, NEW new \in Row
    PROVE  /\ Upsert(old, new) \in Row
           /\ old # NoRow => Upsert(old, new) # NoRow
           /\ new # NoRow => Upsert(old, new) # NoRow
           /\ old \in Known => Upsert(old, new) = old
BY DEF Upsert, Row, Status, Known, NoRow, Null
=============================================================================
