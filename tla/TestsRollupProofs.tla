------------------------- MODULE TestsRollupProofs -------------------------
(***************************************************************************)
(* The sums of tree_tests_rollup: whatever the aggregator, the rebuild and *)
(* the cleanup do to the rows, a commit's sums cover the tests recorded,   *)
(* and are exactly them where only the aggregator has written.             *)
(*                                                                         *)
(* The first part states how SumFunction, which adds up the rows of a      *)
(* commit, follows a change of them.                                       *)
(***************************************************************************)
EXTENDS TestsRollup, FiniteSetTheorems, WellFoundedInduction, TLAPS

(* A family of subsets of a finite set that is not empty has a minimal     *)
(* member: the induction the sums need, without an operator for what is    *)
(* proved by it.                                                           *)
LEMMA MinimalMember ==
    ASSUME NEW S, IsFiniteSet(S), NEW Family \in SUBSET SUBSET S, Family # {}
    PROVE  \E T \in Family : \A U \in SUBSET T : U # T => U \notin Family
<1>1. Family \subseteq FiniteSubsetsOf(S)
  BY FS_FiniteSubsetsOfFinite
<1>2. PICK T \in Family : \A U \in Family : ~ (<<U, T>> \in StrictSubsetOrdering(S))
  BY <1>1, FS_StrictSubsetOrderingWellFounded, WFMin
<1>3. ASSUME NEW U \in SUBSET T, U # T, U \in Family
      PROVE  FALSE
  BY <1>2, <1>3 DEF StrictSubsetOrdering
<1> QED BY <1>2, <1>3

-----------------------------------------------------------------------------
(* The recursion by which Folds!MapThenFoldSet adds up f over a set.       *)
Picked(s) == CHOOSE x \in s : TRUE
Adds(g, f, S) ==
    g = [s \in SUBSET S |-> IF s = {} THEN 0 ELSE f[Picked(s)] + g[s \ {Picked(s)}]]

LEMMA PickedIn == ASSUME NEW s, s # {} PROVE Picked(s) \in s
BY DEF Picked

(* Two functions that obey it agree where both are defined.                *)
LEMMA AddsUnique ==
    ASSUME NEW f, NEW S, NEW T, NEW g, NEW h, Adds(g, f, S), Adds(h, f, T),
           NEW u, IsFiniteSet(u), u \subseteq S, u \subseteq T
    PROVE  g[u] = h[u]
<1> SUFFICES ASSUME g[u] # h[u] PROVE FALSE
  OBVIOUS
<1> DEFINE Differ == {v \in SUBSET u : g[v] # h[v]}
<1>1. u \in Differ
  OBVIOUS
<1>2. PICK v \in Differ : \A w \in SUBSET v : w # v => w \notin Differ
  <2> HIDE DEF Differ
  <2>1. Differ \in SUBSET SUBSET u /\ Differ # {}
    BY <1>1 DEF Differ
  <2> QED BY <2>1, MinimalMember
<1>3. v \in SUBSET S /\ v \in SUBSET T
  OBVIOUS
<1>4. v # {}
  BY <1>2, <1>3 DEF Adds
<1>5. Picked(v) \in v
  BY <1>4, PickedIn
<1>6. g[v \ {Picked(v)}] = h[v \ {Picked(v)}]
  BY <1>2, <1>5
<1>7. g[v] = f[Picked(v)] + g[v \ {Picked(v)}]
  BY <1>3, <1>4 DEF Adds
<1>8. h[v] = f[Picked(v)] + h[v \ {Picked(v)}]
  BY <1>3, <1>4 DEF Adds
<1> QED BY <1>2, <1>6, <1>7, <1>8

(* On a finite set there is one.                                           *)
LEMMA AddsExists ==
    ASSUME NEW f, NEW S, IsFiniteSet(S)
    PROVE  \E g : Adds(g, f, S)
<1> SUFFICES ASSUME ~ \E g : Adds(g, f, S) PROVE FALSE
  OBVIOUS
<1> DEFINE Without == {T \in SUBSET S : ~ \E g : Adds(g, f, T)}
<1>1. PICK T \in Without : \A U \in SUBSET T : U # T => U \notin Without
  <2>1. S \in Without
    OBVIOUS
  <2> HIDE DEF Without
  <2>2. Without \in SUBSET SUBSET S
    BY DEF Without
  <2> QED BY <2>1, <2>2, MinimalMember
<1> DEFINE Of(v) == CHOOSE g : Adds(g, f, v)
           g == [u \in SUBSET T |-> IF u = {} THEN 0
                                    ELSE f[Picked(u)] + Of(u \ {Picked(u)})[u \ {Picked(u)}]]
<1>2. ASSUME NEW v \in SUBSET T, v # T
      PROVE  Adds(Of(v), f, v)
  <2>1. \E h : Adds(h, f, v)
    BY <1>1, <1>2
  <2> QED BY <2>1
<1> HIDE DEF Of
<1>3. ASSUME NEW u \in SUBSET T, u # {}
      PROVE  g[u \ {Picked(u)}] = Of(u \ {Picked(u)})[u \ {Picked(u)}]
  <2> DEFINE v == u \ {Picked(u)}
             w == v \ {Picked(v)}
  <2>1. v \in SUBSET T /\ v # T
    BY <1>3, PickedIn
  <2>2. Adds(Of(v), f, v)
    BY <2>1, <1>2
  <2>3. CASE v = {}
    <3>1. Of(v)[v] = 0
      BY <2>2, <2>3 DEF Adds
    <3> QED BY <2>1, <2>3, <3>1
  <2>4. CASE v # {}
    <3>1. Picked(v) \in v
      BY <2>4, PickedIn
    <3>2. w \in SUBSET T /\ w # T /\ w \subseteq v
      BY <2>1, <3>1
    <3>3. Adds(Of(w), f, w)
      BY <3>2, <1>2
    <3>4. IsFiniteSet(w)
      <4>1. w \in SUBSET S
        BY <3>2
      <4> QED BY <4>1, FS_Subset
    <3>5. Of(v)[w] = Of(w)[w]
      <4> HIDE DEF v, w
      <4> QED BY <2>2, <3>3, <3>2, <3>4, AddsUnique
    <3>6. Of(v)[v] = f[Picked(v)] + Of(v)[w]
      BY <2>2, <2>4 DEF Adds
    <3>7. g[v] = f[Picked(v)] + Of(w)[w]
      BY <2>1, <2>4
    <3> QED BY <3>5, <3>6, <3>7
  <2> QED BY <2>3, <2>4
<1>4. Adds(g, f, T)
  <2>1. ASSUME NEW u \in SUBSET T
        PROVE  g[u] = IF u = {} THEN 0 ELSE f[Picked(u)] + g[u \ {Picked(u)}]
    BY <1>3
  <2>2. g = [u \in SUBSET T |-> IF u = {} THEN 0 ELSE f[Picked(u)] + g[u \ {Picked(u)}]]
    <3>1. g = [u \in SUBSET T |-> g[u]]
      OBVIOUS
    <3> HIDE DEF g
    <3> QED BY <2>1, <3>1
  <2> HIDE DEF g
  <2> QED BY <2>2 DEF Adds
<1> QED BY <1>1, <1>4

(* So the sum is its value.                                                *)
LEMMA SumIsAdds ==
    ASSUME NEW f, NEW S, IsFiniteSet(S), NEW g, Adds(g, f, S)
    PROVE  SumFunctionOnSet(f, S) = g[S]
<1> DEFINE h == CHOOSE k : Adds(k, f, S)
<1>1. SumFunctionOnSet(f, S) = h[S]
  BY DEF SumFunctionOnSet, FoldFunctionOnSet, MapThenFoldSet, Adds, Picked
<1>2. Adds(h, f, S)
  OBVIOUS
<1> HIDE DEF h
<1> QED BY <1>1, <1>2, AddsUnique

(* The workhorse: a function of the subsets of S that starts at zero and   *)
(* grows by f[x] with each element x is the sum.                           *)
Grows(F, f, S) ==
    F[{}] = 0 /\ \A u \in SUBSET S : \A x \in u : F[u] = f[x] + F[u \ {x}]

LEMMA SumIs ==
    ASSUME NEW f, NEW S, IsFiniteSet(S), NEW F, Grows(F, f, S)
    PROVE  SumFunctionOnSet(f, S) = F[S]
<1> DEFINE g == [u \in SUBSET S |-> F[u]]
<1>1. Adds(g, f, S)
  <2>1. ASSUME NEW u \in SUBSET S
        PROVE  F[u] = IF u = {} THEN 0 ELSE f[Picked(u)] + g[u \ {Picked(u)}]
    <3>1. u # {} => Picked(u) \in u
      BY PickedIn
    <3> QED BY <3>1 DEF Grows
  <2> DEFINE G == [u \in SUBSET S |-> IF u = {} THEN 0 ELSE f[Picked(u)] + g[u \ {Picked(u)}]]
  <2>2. g = G
    BY <2>1
  <2> QED BY <2>2 DEF Adds
<1> HIDE DEF g
<1>2. SumFunctionOnSet(f, S) = g[S]
  BY <1>1, SumIsAdds
<1> QED BY <1>2 DEF g

(* A sum of nothing is zero, of integers an integer, and any element of    *)
(* the set may be added last.                                              *)
LEMMA SumEmpty == ASSUME NEW f PROVE SumFunctionOnSet(f, {}) = 0
<1>1. IsFiniteSet({})
  BY FS_EmptySet
<1>2. PICK g : Adds(g, f, {})
  BY <1>1, AddsExists
<1>3. g[{}] = 0
  BY <1>2 DEF Adds
<1> QED BY <1>1, <1>2, <1>3, SumIsAdds

LEMMA SumPicked ==
    ASSUME NEW f, NEW S, IsFiniteSet(S), S # {}
    PROVE  SumFunctionOnSet(f, S) = f[Picked(S)] + SumFunctionOnSet(f, S \ {Picked(S)})
<1>1. PICK g : Adds(g, f, S)
  BY AddsExists
<1> DEFINE T == S \ {Picked(S)}
<1>2. IsFiniteSet(T)
  BY FS_Subset
<1>3. PICK h : Adds(h, f, T)
  BY <1>2, AddsExists
<1>4. g[T] = h[T]
  BY <1>1, <1>2, <1>3, AddsUnique
<1>5. g[S] = f[Picked(S)] + g[T]
  BY <1>1 DEF Adds
<1> HIDE DEF T
<1>6. SumFunctionOnSet(f, S) = g[S] /\ SumFunctionOnSet(f, T) = h[T]
  BY <1>1, <1>2, <1>3, SumIsAdds
<1> QED BY <1>4, <1>5, <1>6 DEF T

LEMMA SumType ==
    ASSUME NEW f, NEW S, IsFiniteSet(S), \A x \in S : f[x] \in Int
    PROVE  SumFunctionOnSet(f, S) \in Int
<1> SUFFICES ASSUME SumFunctionOnSet(f, S) \notin Int PROVE FALSE
  OBVIOUS
<1> DEFINE Odd == {T \in SUBSET S : SumFunctionOnSet(f, T) \notin Int}
<1>1. PICK T \in Odd : \A U \in SUBSET T : U # T => U \notin Odd
  <2>1. S \in Odd /\ Odd \in SUBSET SUBSET S
    OBVIOUS
  <2> HIDE DEF Odd
  <2> QED BY <2>1, MinimalMember
<1>2. T # {}
  <2>1. SumFunctionOnSet(f, T) # 0
    BY <1>1
  <2> QED BY <2>1, SumEmpty
<1>3. IsFiniteSet(T)
  BY <1>1, FS_Subset
<1>4. Picked(T) \in T
  BY <1>2, PickedIn
<1>5. T \ {Picked(T)} \in SUBSET S /\ T \ {Picked(T)} \notin Odd
  BY <1>1, <1>4
<1>6. SumFunctionOnSet(f, T \ {Picked(T)}) \in Int
  BY <1>5
<1>7. f[Picked(T)] \in Int
  BY <1>1, <1>4
<1> QED BY <1>1, <1>2, <1>3, <1>6, <1>7, SumPicked

LEMMA SumWithout ==
    ASSUME NEW f, NEW S, IsFiniteSet(S), \A y \in S : f[y] \in Int, NEW x \in S
    PROVE  SumFunctionOnSet(f, S) = f[x] + SumFunctionOnSet(f, S \ {x})
<1> DEFINE Odd == {T \in SUBSET S :
                     \E z \in T : SumFunctionOnSet(f, T) # f[z] + SumFunctionOnSet(f, T \ {z})}
<1> SUFFICES ASSUME S \in Odd PROVE FALSE
  OBVIOUS
<1>1. PICK T \in Odd : \A U \in SUBSET T : U # T => U \notin Odd
  <2>1. Odd \in SUBSET SUBSET S
    OBVIOUS
  <2> HIDE DEF Odd
  <2> QED BY <2>1, MinimalMember
<1>2. PICK z \in T : SumFunctionOnSet(f, T) # f[z] + SumFunctionOnSet(f, T \ {z})
  BY <1>1
<1> DEFINE y == Picked(T)
<1>3. y \in T /\ T \in SUBSET S /\ IsFiniteSet(T)
  BY <1>1, <1>2, PickedIn, FS_Subset
<1>4. SumFunctionOnSet(f, T) = f[y] + SumFunctionOnSet(f, T \ {y})
  BY <1>2, <1>3, SumPicked
<1> HIDE DEF y
<1>5. z # y
  BY <1>2, <1>4
<1> DEFINE rest == SumFunctionOnSet(f, T \ {y, z})
<1>6. SumFunctionOnSet(f, T \ {y}) = f[z] + rest
  <2>1. T \ {y} \notin Odd
    BY <1>1, <1>3
  <2>2. (T \ {y}) \ {z} = T \ {y, z}
    OBVIOUS
  <2> QED BY <2>1, <2>2, <1>2, <1>3, <1>5
<1>7. SumFunctionOnSet(f, T \ {z}) = f[y] + rest
  <2>1. T \ {z} \notin Odd
    BY <1>1, <1>2
  <2>2. (T \ {z}) \ {y} = T \ {y, z}
    OBVIOUS
  <2> QED BY <2>1, <2>2, <1>2, <1>3, <1>5
<1>8. rest \in Int
  <2>1. T \ {y, z} \in SUBSET S
    BY <1>3
  <2> QED BY <2>1, FS_Subset, SumType
<1>9. f[y] \in Int /\ f[z] \in Int
  BY <1>2, <1>3
<1> QED BY <1>2, <1>4, <1>6, <1>7, <1>8, <1>9

(* Values outside the set do not matter, and zeros add nothing.            *)
LEMMA SumSame ==
    ASSUME NEW f, NEW S, IsFiniteSet(S), \A y \in S : f[y] \in Int,
           NEW h, \A y \in S : h[y] = f[y]
    PROVE  SumFunctionOnSet(h, S) = SumFunctionOnSet(f, S)
<1> DEFINE F == [u \in SUBSET S |-> SumFunctionOnSet(f, u)]
<1>1. F[{}] = 0
  BY SumEmpty
<1>2. ASSUME NEW u \in SUBSET S, NEW x \in u
      PROVE  F[u] = h[x] + F[u \ {x}]
  <2>1. IsFiniteSet(u)
    BY FS_Subset
  <2>2. SumFunctionOnSet(f, u) = f[x] + SumFunctionOnSet(f, u \ {x})
    BY <2>1, SumWithout
  <2> QED BY <2>2
<1>3. SumFunctionOnSet(h, S) = F[S]
  <2> HIDE DEF F
  <2>1. Grows(F, h, S)
    BY <1>1, <1>2 DEF Grows
  <2> QED BY <2>1, SumIs
<1> QED BY <1>3

LEMMA SumZeros ==
    ASSUME NEW f, NEW T, IsFiniteSet(T), \A y \in T : f[y] \in Int,
           NEW S \in SUBSET T, \A y \in T \ S : f[y] = 0
    PROVE  SumFunctionOnSet(f, T) = SumFunctionOnSet(f, S)
<1> DEFINE F == [u \in SUBSET T |-> SumFunctionOnSet(f, u \intersect S)]
<1>1. F[{}] = 0
  <2>1. {} \intersect S = {}
    OBVIOUS
  <2> QED BY <2>1, SumEmpty
<1>2. ASSUME NEW u \in SUBSET T, NEW x \in u
      PROVE  F[u] = f[x] + F[u \ {x}]
  <2>1. IsFiniteSet(u \intersect S)
    <3>1. u \intersect S \in SUBSET T
      OBVIOUS
    <3> QED BY <3>1, FS_Subset
  <2>2. CASE x \in S
    <3>1. (u \ {x}) \intersect S = (u \intersect S) \ {x}
      OBVIOUS
    <3>2. SumFunctionOnSet(f, u \intersect S)
            = f[x] + SumFunctionOnSet(f, (u \intersect S) \ {x})
      BY <2>1, <2>2, SumWithout
    <3> QED BY <3>1, <3>2
  <2>3. CASE x \notin S
    <3>1. (u \ {x}) \intersect S = u \intersect S
      BY <2>3
    <3>2. f[x] = 0
      BY <2>3
    <3>3. SumFunctionOnSet(f, u \intersect S) \in Int
      <4> DEFINE v == u \intersect S
      <4>1. IsFiniteSet(v) /\ \A y \in v : f[y] \in Int
        BY <2>1
      <4>2. SumFunctionOnSet(f, v) \in Int
        <5> HIDE DEF v
        <5> QED BY <4>1, SumType
      <4> QED BY <4>2
    <3>4. F[u] = SumFunctionOnSet(f, u \intersect S)
      OBVIOUS
    <3>5. F[u \ {x}] = SumFunctionOnSet(f, u \intersect S)
      BY <3>1
    <3> HIDE DEF F
    <3> DEFINE a == SumFunctionOnSet(f, u \intersect S)
    <3> HIDE DEF a
    <3> QED BY <3>2, <3>3, <3>4, <3>5 DEF a
  <2> QED BY <2>2, <2>3
<1>3. SumFunctionOnSet(f, T) = F[T]
  <2> HIDE DEF F
  <2>1. Grows(F, f, T)
    BY <1>1, <1>2 DEF Grows
  <2> QED BY <2>1, SumIs
<1>4. T \intersect S = S
  OBVIOUS
<1> QED BY <1>3, <1>4

(* The sum of sums, the count of the elements that a key sends into the    *)
(* set, and a sum of smaller values.                                       *)
LEMMA SumPlus ==
    ASSUME NEW f, NEW g, NEW h, NEW S, IsFiniteSet(S),
           \A y \in S : f[y] \in Int /\ g[y] \in Int /\ h[y] = f[y] + g[y]
    PROVE  SumFunctionOnSet(h, S) = SumFunctionOnSet(f, S) + SumFunctionOnSet(g, S)
<1> DEFINE F == [u \in SUBSET S |-> SumFunctionOnSet(f, u) + SumFunctionOnSet(g, u)]
<1>1. F[{}] = 0
  BY SumEmpty
<1>2. ASSUME NEW u \in SUBSET S, NEW x \in u
      PROVE  F[u] = h[x] + F[u \ {x}]
  <2>1. IsFiniteSet(u) /\ IsFiniteSet(u \ {x})
    BY FS_Subset
  <2>2. SumFunctionOnSet(f, u) = f[x] + SumFunctionOnSet(f, u \ {x})
    BY <2>1, SumWithout
  <2>3. SumFunctionOnSet(g, u) = g[x] + SumFunctionOnSet(g, u \ {x})
    BY <2>1, SumWithout
  <2>4. SumFunctionOnSet(f, u \ {x}) \in Int /\ SumFunctionOnSet(g, u \ {x}) \in Int
    BY <2>1, SumType
  <2>5. f[x] \in Int /\ g[x] \in Int /\ h[x] = f[x] + g[x]
    OBVIOUS
  <2> QED BY <2>2, <2>3, <2>4, <2>5
<1>3. SumFunctionOnSet(h, S) = F[S]
  <2> HIDE DEF F
  <2>1. Grows(F, h, S)
    BY <1>1, <1>2 DEF Grows
  <2> QED BY <2>1, SumIs
<1> QED BY <1>3

CountsKeys(f, S, X, key) == \A k \in S : f[k] = Cardinality({x \in X : key[x] = k})

LEMMA SumOfCounts ==
    ASSUME NEW X, IsFiniteSet(X), NEW key, NEW S, IsFiniteSet(S),
           NEW f, CountsKeys(f, S, X, key)
    PROVE  SumFunctionOnSet(f, S) = Cardinality({x \in X : key[x] \in S})
<1> DEFINE F == [u \in SUBSET S |-> Cardinality({x \in X : key[x] \in u})]
<1>1. F[{}] = 0
  <2>1. {x \in X : key[x] \in {}} = {}
    OBVIOUS
  <2> QED BY <2>1, FS_EmptySet
<1>2. ASSUME NEW u \in SUBSET S, NEW k \in u
      PROVE  F[u] = f[k] + F[u \ {k}]
  <2> DEFINE all == {x \in X : key[x] \in u}
             here == {x \in X : key[x] = k}
             rest == {x \in X : key[x] \in u \ {k}}
  <2>1. all = here \union rest /\ here \intersect rest = {}
    OBVIOUS
  <2>2. IsFiniteSet(here) /\ IsFiniteSet(rest)
    BY FS_Subset
  <2>3. /\ Cardinality(here) \in Nat /\ Cardinality(rest) \in Nat
        /\ Cardinality(here \intersect rest) = 0
    BY <2>1, <2>2, FS_CardinalityType, FS_EmptySet
  <2>4. Cardinality(here \union rest)
          = Cardinality(here) + Cardinality(rest) - Cardinality(here \intersect rest)
    BY <2>2, FS_Union
  <2>5. f[k] = Cardinality(here) /\ F[u] = Cardinality(all) /\ F[u \ {k}] = Cardinality(rest)
    BY DEF CountsKeys
  <2> HIDE DEF all, here, rest, F
  <2> QED BY <2>1, <2>3, <2>4, <2>5
<1>3. SumFunctionOnSet(f, S) = F[S]
  <2> HIDE DEF F
  <2>1. Grows(F, f, S)
    BY <1>1, <1>2 DEF Grows
  <2> QED BY <2>1, SumIs
<1> QED BY <1>3

LEMMA SumNat ==
    ASSUME NEW f, NEW S, IsFiniteSet(S), \A y \in S : f[y] \in Nat
    PROVE  SumFunctionOnSet(f, S) \in Nat
<1> SUFFICES ASSUME SumFunctionOnSet(f, S) \notin Nat PROVE FALSE
  OBVIOUS
<1> DEFINE Odd == {T \in SUBSET S : SumFunctionOnSet(f, T) \notin Nat}
<1>1. PICK T \in Odd : \A U \in SUBSET T : U # T => U \notin Odd
  <2>1. S \in Odd /\ Odd \in SUBSET SUBSET S
    OBVIOUS
  <2> HIDE DEF Odd
  <2> QED BY <2>1, MinimalMember
<1>2. T # {}
  <2>1. SumFunctionOnSet(f, T) # 0
    BY <1>1
  <2> QED BY <2>1, SumEmpty
<1>3. IsFiniteSet(T)
  BY <1>1, FS_Subset
<1>4. Picked(T) \in T
  BY <1>2, PickedIn
<1>5. SumFunctionOnSet(f, T \ {Picked(T)}) \in Nat
  BY <1>1, <1>4
<1>6. f[Picked(T)] \in Nat
  BY <1>1, <1>4
<1> QED BY <1>1, <1>2, <1>3, <1>5, <1>6, SumPicked

-----------------------------------------------------------------------------
(* Counting tests. *)
LEMMA CardinalityNotGreater ==
    ASSUME NEW B, IsFiniteSet(B), NEW A, A \subseteq B
    PROVE  IsFiniteSet(A) /\ Cardinality(A) \in Nat /\ Cardinality(B) \in Nat
             /\ Cardinality(A) <= Cardinality(B)
BY FS_Subset, FS_CardinalityType

LEMMA CardinalityDisjoint ==
    ASSUME NEW A, IsFiniteSet(A), NEW B, IsFiniteSet(B), A \intersect B = {}
    PROVE  IsFiniteSet(A \union B) /\ Cardinality(A \union B) = Cardinality(A) + Cardinality(B)
<1>1. Cardinality(A \intersect B) = 0
  BY FS_EmptySet
<1>2. Cardinality(A) \in Nat /\ Cardinality(B) \in Nat
  BY FS_CardinalityType
<1>3. /\ IsFiniteSet(A \union B)
      /\ Cardinality(A \union B)
           = Cardinality(A) + Cardinality(B) - Cardinality(A \intersect B)
  BY FS_Union
<1> QED BY <1>1, <1>2, <1>3

(* A commit's sum of the rows of any table of counts.                      *)
KeysOf(table, m) == {key \in DOMAIN table : key[1] = m}
TableSum(table, m, c) ==
    SumFunctionOnSet([k \in KeysOf(table, m) |-> table[k][c]], KeysOf(table, m))
IsTable(table) ==
    IsFiniteSet(DOMAIN table) /\ \A k \in DOMAIN table : table[k] \in [Columns -> Int]

LEMMA CommitSumIsTableSum ==
    ASSUME NEW m, NEW c
    PROVE  CommitSum(m, c) = TableSum(rows, m, c) /\ CommitSum(m, c)' = TableSum(rows', m, c)
<1>1. ASSUME NEW table
      PROVE  SumFunction([k \in {key \in DOMAIN table : key[1] = m} |-> table[k][c]])
               = TableSum(table, m, c)
  <2> DEFINE f == [k \in KeysOf(table, m) |-> table[k][c]]
  <2>1. SumFunction(f) = SumFunctionOnSet(f, DOMAIN f)
    BY DEF SumFunction
  <2>2. DOMAIN f = KeysOf(table, m)
    OBVIOUS
  <2>3. TableSum(table, m, c) = SumFunctionOnSet(f, KeysOf(table, m))
    BY DEF TableSum
  <2>4. SumFunction(f) = TableSum(table, m, c)
    BY <2>1, <2>2, <2>3
  <2> QED BY <2>4 DEF KeysOf
<1>2. CommitSum(m, c) = TableSum(rows, m, c)
  BY <1>1 DEF CommitSum
<1>3. CommitSum(m, c)' = TableSum(rows', m, c)
  BY <1>1 DEF CommitSum
<1> QED BY <1>2, <1>3

(* It may as well be taken over more keys, the table being zero there.     *)
LEMMA TableSumOver ==
    ASSUME NEW table, IsTable(table), NEW m, NEW c \in Columns,
           NEW T, IsFiniteSet(T), KeysOf(table, m) \subseteq T,
           \A k \in T : k \in DOMAIN table => k[1] = m
    PROVE  TableSum(table, m, c) = SumFunctionOnSet([k \in T |-> Cell(table, k, c)], T)
<1> DEFINE K == KeysOf(table, m)
           f == [k \in K |-> table[k][c]]
           h == [k \in T |-> Cell(table, k, c)]
<1>1. \A k \in T : h[k] \in Int
  BY DEF Cell, IsTable
<1>2. \A k \in K : f[k] \in Int /\ h[k] = f[k]
  BY DEF Cell, IsTable, KeysOf
<1>3. \A k \in T \ K : h[k] = 0
  BY DEF Cell, KeysOf
<1>4. IsFiniteSet(K)
  BY FS_Subset
<1>5. K \in SUBSET T
  OBVIOUS
<1>6. TableSum(table, m, c) = SumFunctionOnSet(f, K)
  BY DEF TableSum
<1> HIDE DEF K, f, h
<1>7. SumFunctionOnSet(h, T) = SumFunctionOnSet(h, K)
  BY <1>1, <1>3, <1>5, SumZeros
<1>8. SumFunctionOnSet(h, K) = SumFunctionOnSet(f, K)
  BY <1>2, <1>4, SumSame
<1>9. SumFunctionOnSet(h, T) = TableSum(table, m, c)
  BY <1>6, <1>7, <1>8
<1> QED BY <1>9 DEF h

LEMMA TableSumType ==
    ASSUME NEW table, IsTable(table), NEW m, NEW c \in Columns
    PROVE  TableSum(table, m, c) \in Int
<1> DEFINE K == KeysOf(table, m)
           f == [k \in K |-> table[k][c]]
<1>1. \A k \in K : f[k] \in Int
  BY DEF IsTable, KeysOf
<1>2. IsFiniteSet(K)
  BY FS_Subset DEF IsTable, KeysOf
<1>3. TableSum(table, m, c) = SumFunctionOnSet(f, K)
  BY DEF TableSum
<1> HIDE DEF K, f
<1> QED BY <1>1, <1>2, <1>3, SumType

(* _upsert_rollup adds one table to another: so do the sums.               *)
LEMMA TablesAdd ==
    ASSUME NEW old, IsTable(old), NEW add, IsTable(add), NEW both,
           DOMAIN both = DOMAIN old \union DOMAIN add,
           \A k \in DOMAIN both :
             both[k] = [c \in Columns |-> Cell(old, k, c) + Cell(add, k, c)],
           NEW m, NEW c \in Columns
    PROVE  TableSum(both, m, c) = TableSum(old, m, c) + TableSum(add, m, c)
<1> DEFINE T == KeysOf(both, m)
           f == [k \in T |-> Cell(old, k, c)]
           g == [k \in T |-> Cell(add, k, c)]
           h == [k \in T |-> both[k][c]]
<1>1. IsFiniteSet(T)
  <2>1. IsFiniteSet(DOMAIN old) /\ IsFiniteSet(DOMAIN add)
    BY DEF IsTable
  <2>2. IsFiniteSet(DOMAIN old \union DOMAIN add)
    BY <2>1, FS_Union, Zenon
  <2>3. T \subseteq DOMAIN old \union DOMAIN add
    BY DEF KeysOf
  <2> HIDE DEF T
  <2> QED BY <2>2, <2>3, FS_Subset
<1>2. \A k \in T : k \in DOMAIN both /\ k[1] = m
  BY DEF KeysOf
<1>3. TableSum(old, m, c) = SumFunctionOnSet(f, T)
  <2>1. KeysOf(old, m) \subseteq T
    BY DEF KeysOf
  <2> HIDE DEF T
  <2> QED BY <1>1, <1>2, <2>1, TableSumOver
<1>4. TableSum(add, m, c) = SumFunctionOnSet(g, T)
  <2>1. KeysOf(add, m) \subseteq T
    BY DEF KeysOf
  <2> HIDE DEF T
  <2> QED BY <1>1, <1>2, <2>1, TableSumOver
<1>5. \A k \in T : f[k] \in Int /\ g[k] \in Int /\ h[k] = f[k] + g[k]
  <2> SUFFICES ASSUME NEW k \in T
               PROVE  f[k] \in Int /\ g[k] \in Int /\ h[k] = f[k] + g[k]
    OBVIOUS
  <2>1. Cell(old, k, c) \in Int
    BY DEF Cell, IsTable
  <2>2. Cell(add, k, c) \in Int
    BY DEF Cell, IsTable
  <2>3. both[k][c] = Cell(old, k, c) + Cell(add, k, c)
    BY <1>2
  <2> QED BY <2>1, <2>2, <2>3
<1>6. TableSum(both, m, c) = SumFunctionOnSet(h, T)
  BY DEF TableSum
<1> HIDE DEF T, f, g, h
<1>7. SumFunctionOnSet(h, T) = SumFunctionOnSet(f, T) + SumFunctionOnSet(g, T)
  BY <1>1, <1>5, SumPlus
<1> QED BY <1>3, <1>4, <1>6, <1>7

(* _upsert_rollup_replace: what is not replaced adds what it has, which is *)
(* not negative, and a commit none of whose rows is replaced keeps its sum.*)
LEMMA TablesReplace ==
    ASSUME NEW old, IsTable(old), NEW new, IsTable(new), NEW both,
           DOMAIN both = DOMAIN old \union DOMAIN new,
           \A k \in DOMAIN both : both[k] = IF k \in DOMAIN new THEN new[k] ELSE old[k],
           NEW m, NEW c \in Columns, \A k \in DOMAIN old : old[k][c] >= 0
    PROVE  TableSum(both, m, c) >= TableSum(new, m, c)
<1> DEFINE T == KeysOf(both, m)
           f == [k \in T |-> Cell(new, k, c)]
           g == [k \in T |-> IF k \in DOMAIN new THEN 0 ELSE old[k][c]]
           h == [k \in T |-> both[k][c]]
<1>1. IsFiniteSet(T)
  <2>1. IsFiniteSet(DOMAIN old \union DOMAIN new)
    BY FS_Union DEF IsTable
  <2> QED BY <2>1, FS_Subset DEF KeysOf
<1>2. \A k \in T : k \in DOMAIN both /\ k[1] = m
  BY DEF KeysOf
<1>3. TableSum(new, m, c) = SumFunctionOnSet(f, T)
  <2>1. KeysOf(new, m) \subseteq T
    BY DEF KeysOf
  <2> HIDE DEF T
  <2> QED BY <1>1, <1>2, <2>1, TableSumOver
<1>4. ASSUME NEW k \in T
      PROVE  f[k] \in Int /\ g[k] \in Nat /\ h[k] = f[k] + g[k]
  <2>1. CASE k \in DOMAIN new
    <3>1. new[k][c] \in Int /\ both[k] = new[k]
      BY <1>2, <2>1 DEF IsTable
    <3> QED BY <2>1, <3>1 DEF Cell
  <2>2. CASE k \notin DOMAIN new
    <3>1. k \in DOMAIN old /\ both[k] = old[k]
      BY <1>2, <2>2
    <3>2. old[k][c] \in Int /\ old[k][c] >= 0
      BY <3>1 DEF IsTable
    <3> QED BY <2>2, <3>1, <3>2 DEF Cell
  <2> QED BY <2>1, <2>2
<1>5. TableSum(both, m, c) = SumFunctionOnSet(h, T)
  BY DEF TableSum
<1> HIDE DEF T, f, g, h
<1>6. SumFunctionOnSet(h, T) = SumFunctionOnSet(f, T) + SumFunctionOnSet(g, T)
  BY <1>1, <1>4, SumPlus
<1>7. SumFunctionOnSet(g, T) \in Nat
  BY <1>1, <1>4, SumNat
<1>8. SumFunctionOnSet(f, T) \in Int
  BY <1>1, <1>4, SumType
<1> QED BY <1>3, <1>5, <1>6, <1>7, <1>8

LEMMA TablesReplaceElsewhere ==
    ASSUME NEW old, IsTable(old), NEW new, IsTable(new), NEW both,
           DOMAIN both = DOMAIN old \union DOMAIN new,
           \A k \in DOMAIN both : both[k] = IF k \in DOMAIN new THEN new[k] ELSE old[k],
           NEW m, KeysOf(new, m) = {}, NEW c \in Columns
    PROVE  TableSum(both, m, c) = TableSum(old, m, c)
<1> DEFINE K == KeysOf(old, m)
           f == [k \in K |-> old[k][c]]
           h == [k \in K |-> both[k][c]]
<1>1. KeysOf(both, m) = K
  BY DEF KeysOf
<1>2. IsFiniteSet(K)
  BY FS_Subset DEF IsTable, KeysOf
<1>3. \A k \in K : f[k] \in Int /\ h[k] = f[k]
  BY DEF IsTable, KeysOf
<1>4. TableSum(old, m, c) = SumFunctionOnSet(f, K) /\ TableSum(both, m, c) = SumFunctionOnSet(h, K)
  BY <1>1 DEF TableSum
<1> HIDE DEF K, f, h
<1> QED BY <1>2, <1>3, <1>4, SumSame

-----------------------------------------------------------------------------
(* What accumulate_rollup_entry makes of a set of tests, read with their   *)
(* statuses and issues: sums that count the tests, whatever rows they are  *)
(* in.                                                                     *)
OfCommit(X, m) == {t \in X : RollupCommitOf[RollupCheckoutOf[t]] = m}
WithStatus(seen, X, s) == {t \in X : Column(seen[t].status) = s}

LEMMA AccumulateTable ==
    ASSUME NEW seen, IsFiniteSet(DOMAIN seen), NEW issues,
           NEW again \in SUBSET DOMAIN seen
    PROVE  /\ IsTable(Accumulate(seen, issues, again))
           /\ DOMAIN Accumulate(seen, issues, again) = RowsFor(seen, issues)
<1> DEFINE A == Accumulate(seen, issues, again)
<1>1. DOMAIN A = RowsFor(seen, issues)
  BY DEF Accumulate
<1>2. IsFiniteSet(RowsFor(seen, issues))
  <2> DEFINE key == [t \in DOMAIN seen |-> RowKey(t, seen[t], issues[t])]
  <2>1. RowsFor(seen, issues) = {key[t] : t \in DOMAIN seen}
    BY DEF RowsFor
  <2>2. key \in Surjection(DOMAIN seen, {key[t] : t \in DOMAIN seen})
    BY DEF Surjection
  <2> HIDE DEF key
  <2> QED BY <2>1, <2>2, FS_Surjection
<1>3. ASSUME NEW k \in RowsFor(seen, issues)
      PROVE  A[k] \in [Columns -> Int]
  <2> DEFINE here == {t \in DOMAIN seen : RowKey(t, seen[t], issues[t]) = k}
  <2>1. A[k] = [c \in Columns |->
                  IF c = "total" THEN Cardinality(here \ again)
                  ELSE Cardinality({t \in here : Column(seen[t].status) = c})
                       - IF c = Null THEN Cardinality(here \intersect again) ELSE 0]
    BY DEF Accumulate
  <2>2. IsFiniteSet(here)
    BY FS_Subset
  <2> HIDE DEF here
  <2>3. /\ Cardinality(here \ again) \in Int
        /\ Cardinality(here \intersect again) \in Int
        /\ \A c : Cardinality({t \in here : Column(seen[t].status) = c}) \in Int
    <3>1. \A X : X \subseteq here => Cardinality(X) \in Int
      BY <2>2, CardinalityNotGreater
    <3> QED BY <3>1
  <2>4. ASSUME NEW c \in Columns PROVE A[k][c] \in Int
    <3> DEFINE all == Cardinality(here \ again)
               some == Cardinality({t \in here : Column(seen[t].status) = c})
               twice == Cardinality(here \intersect again)
    <3>1. all \in Int /\ some \in Int /\ twice \in Int
      BY <2>3
    <3>2. A[k][c] = IF c = "total" THEN all ELSE some - IF c = Null THEN twice ELSE 0
      BY <2>1
    <3> HIDE DEF all, some, twice, A
    <3> QED BY <3>1, <3>2
  <2> QED BY <2>1, <2>4
<1> QED BY <1>1, <1>2, <1>3 DEF IsTable

LEMMA AccumulateTotal ==
    ASSUME NEW seen, IsFiniteSet(DOMAIN seen), NEW issues,
           NEW again \in SUBSET DOMAIN seen, NEW m
    PROVE  TableSum(Accumulate(seen, issues, again), m, "total")
             = Cardinality(OfCommit(DOMAIN seen \ again, m))
<1> DEFINE A == Accumulate(seen, issues, again)
           K == KeysOf(A, m)
           X == DOMAIN seen \ again
           key == [t \in DOMAIN seen |-> RowKey(t, seen[t], issues[t])]
           f == [k \in K |-> A[k]["total"]]
<1>1. IsFiniteSet(X) /\ IsFiniteSet(K)
  BY AccumulateTable, FS_Subset DEF IsTable, KeysOf
<1>2. ASSUME NEW k \in K
      PROVE  f[k] = Cardinality({t \in X : key[t] = k})
  <2>1. k \in RowsFor(seen, issues)
    BY AccumulateTable DEF KeysOf
  <2>2. "total" \in Columns
    BY DEF Columns
  <2>3. A[k]["total"]
          = Cardinality({t \in DOMAIN seen : RowKey(t, seen[t], issues[t]) = k} \ again)
    BY <2>1, <2>2 DEF Accumulate
  <2>4. {t \in DOMAIN seen : RowKey(t, seen[t], issues[t]) = k} \ again = {t \in X : key[t] = k}
    OBVIOUS
  <2> QED BY <2>3, <2>4
<1>3. {t \in X : key[t] \in K} = OfCommit(X, m)
  <2> SUFFICES ASSUME NEW t \in X
               PROVE  key[t] \in K <=> RollupCommitOf[RollupCheckoutOf[t]] = m
    BY DEF OfCommit
  <2>1. key[t] \in RowsFor(seen, issues)
    BY DEF RowsFor
  <2>2. key[t][1] = RollupCommitOf[RollupCheckoutOf[t]]
    BY DEF RowKey
  <2> QED BY <2>1, <2>2, AccumulateTable DEF KeysOf
<1>4. TableSum(A, m, "total") = SumFunctionOnSet(f, K)
  BY DEF TableSum
<1> HIDE DEF K, X, key, f, A
<1>5. SumFunctionOnSet(f, K) = Cardinality({t \in X : key[t] \in K})
  <2>1. CountsKeys(f, K, X, key)
    BY <1>2 DEF CountsKeys
  <2> QED BY <1>1, <2>1, SumOfCounts
<1> QED BY <1>3, <1>4, <1>5 DEF A, X

LEMMA AccumulateStatus ==
    ASSUME NEW seen, IsFiniteSet(DOMAIN seen), NEW issues,
           NEW again \in SUBSET DOMAIN seen, NEW m, NEW s \in FullStatus \union {Null}
    PROVE  TableSum(Accumulate(seen, issues, again), m, s)
             = Cardinality(OfCommit(WithStatus(seen, DOMAIN seen, s), m))
               - IF s = Null THEN Cardinality(OfCommit(again, m)) ELSE 0
<1> DEFINE A == Accumulate(seen, issues, again)
           K == KeysOf(A, m)
           X == WithStatus(seen, DOMAIN seen, s)
           key == [t \in DOMAIN seen |-> RowKey(t, seen[t], issues[t])]
           f == [k \in K |-> A[k][s]]
           g == [k \in K |-> IF s = Null THEN Cardinality({t \in again : key[t] = k}) ELSE 0]
           h == [k \in K |-> Cardinality({t \in X : key[t] = k})]
<1>1. IsFiniteSet(X) /\ IsFiniteSet(K) /\ IsFiniteSet(again)
  BY AccumulateTable, FS_Subset DEF IsTable, KeysOf, WithStatus
<1>2. ASSUME NEW k \in K
      PROVE  f[k] = h[k] - g[k]
  <2>1. k \in RowsFor(seen, issues)
    BY AccumulateTable DEF KeysOf
  <2>2. s \in Columns /\ s # "total"
    BY DEF Columns, FullStatus, Null
  <2> DEFINE here == {t \in DOMAIN seen : RowKey(t, seen[t], issues[t]) = k}
  <2>3. A[k][s] = Cardinality({t \in here : Column(seen[t].status) = s})
                  - IF s = Null THEN Cardinality(here \intersect again) ELSE 0
    BY <2>1, <2>2 DEF Accumulate
  <2>4. {t \in here : Column(seen[t].status) = s} = {t \in X : key[t] = k}
    BY DEF WithStatus
  <2>5. here \intersect again = {t \in again : key[t] = k}
    OBVIOUS
  <2> QED BY <2>3, <2>4, <2>5
<1>3. \A t \in DOMAIN seen : key[t] \in K <=> RollupCommitOf[RollupCheckoutOf[t]] = m
  <2> SUFFICES ASSUME NEW t \in DOMAIN seen
               PROVE  key[t] \in K <=> RollupCommitOf[RollupCheckoutOf[t]] = m
    OBVIOUS
  <2>1. key[t] \in RowsFor(seen, issues)
    BY DEF RowsFor
  <2>2. key[t][1] = RollupCommitOf[RollupCheckoutOf[t]]
    BY DEF RowKey
  <2> QED BY <2>1, <2>2, AccumulateTable DEF KeysOf
<1>4. /\ {t \in X : key[t] \in K} = OfCommit(X, m)
      /\ {t \in again : key[t] \in K} = OfCommit(again, m)
  <2>1. X \subseteq DOMAIN seen
    BY DEF WithStatus
  <2> HIDE DEF X, K, key
  <2> QED BY <1>3, <2>1 DEF OfCommit
<1>5. TableSum(A, m, s) = SumFunctionOnSet(f, K)
  BY DEF TableSum
<1>6. \A k \in K : /\ h[k] = Cardinality({t \in X : key[t] = k})
                   /\ s = Null => g[k] = Cardinality({t \in again : key[t] = k})
                   /\ s # Null => g[k] = 0
                   /\ h[k] \in Int /\ g[k] \in Int
  <2> SUFFICES ASSUME NEW k \in K PROVE h[k] \in Int /\ g[k] \in Int
    OBVIOUS
  <2>1. Cardinality({t \in X : key[t] = k}) \in Int /\ Cardinality({t \in again : key[t] = k}) \in Int
    <3> HIDE DEF X, K, key
    <3>1. /\ IsFiniteSet({t \in X : key[t] = k})
          /\ IsFiniteSet({t \in again : key[t] = k})
      BY <1>1, FS_Subset
    <3> QED BY <3>1, FS_CardinalityType
  <2> QED BY <2>1
<1> HIDE DEF K, X, key, f, g, h, A
<1>7. SumFunctionOnSet(h, K) = Cardinality(OfCommit(X, m))
  <2>1. CountsKeys(h, K, X, key)
    BY <1>6 DEF CountsKeys
  <2>2. SumFunctionOnSet(h, K) = Cardinality({t \in X : key[t] \in K})
    BY <1>1, <2>1, SumOfCounts
  <2> QED BY <2>2, <1>4
<1>8. SumFunctionOnSet(g, K) = IF s = Null THEN Cardinality(OfCommit(again, m)) ELSE 0
  <2>1. CASE s = Null
    <3>1. SumFunctionOnSet(g, K) = Cardinality({t \in again : key[t] \in K})
      <4>1. CountsKeys(g, K, again, key)
        BY <1>6, <2>1 DEF CountsKeys
      <4> QED BY <1>1, <4>1, SumOfCounts
    <3> QED BY <2>1, <3>1, <1>4
  <2>2. CASE s # Null
    <3>1. SumFunctionOnSet(g, K) = SumFunctionOnSet(g, {})
      <4>1. \A k \in K : g[k] = 0 /\ g[k] \in Int
        BY <1>6, <2>2
      <4>2. {} \in SUBSET K /\ \A k \in K \ {} : g[k] = 0
        BY <4>1
      <4> QED BY <1>1, <4>1, <4>2, SumZeros
    <3> QED BY <2>2, <3>1, SumEmpty
  <2> QED BY <2>1, <2>2
<1>9. \A k \in K : f[k] \in Int /\ g[k] \in Int /\ h[k] = f[k] + g[k]
  <2> SUFFICES ASSUME NEW k \in K
               PROVE  f[k] \in Int /\ g[k] \in Int /\ h[k] = f[k] + g[k]
    OBVIOUS
  <2>1. h[k] \in Int /\ g[k] \in Int
    BY <1>6
  <2>2. f[k] = h[k] - g[k]
    BY <1>2
  <2> QED BY <2>1, <2>2
<1>10. SumFunctionOnSet(h, K) = SumFunctionOnSet(f, K) + SumFunctionOnSet(g, K)
  BY <1>1, <1>9, SumPlus
<1>11. SumFunctionOnSet(f, K) \in Int /\ SumFunctionOnSet(g, K) \in Int
  BY <1>1, <1>9, SumType
<1>12. SumFunctionOnSet(f, K) = SumFunctionOnSet(h, K) - SumFunctionOnSet(g, K)
  BY <1>10, <1>11
<1>13. TableSum(A, m, s) = Cardinality(OfCommit(X, m))
                           - IF s = Null THEN Cardinality(OfCommit(again, m)) ELSE 0
  BY <1>5, <1>7, <1>8, <1>12, Zenon
<1> QED BY <1>13 DEF A, X

(* The four columns that KnownSum puts together are the tests simplified   *)
(* to inconclusive; each other column is one simplified status.            *)
Simply(seen, X, s) == {t \in X : Simplified(seen[t].status) = s}

LEMMA SimplyColumns ==
    ASSUME NEW seen, NEW X, IsFiniteSet(X), NEW m,
           \A t \in X : seen[t].status \in FullStatus \union {Null}
    PROVE  /\ \A s \in {"PASS", "FAIL", Null} : WithStatus(seen, X, s) = Simply(seen, X, s)
           /\ Cardinality(OfCommit(Simply(seen, X, "INC"), m))
                = Cardinality(OfCommit(WithStatus(seen, X, "SKIP"), m))
                  + Cardinality(OfCommit(WithStatus(seen, X, "ERROR"), m))
                  + Cardinality(OfCommit(WithStatus(seen, X, "MISS"), m))
                  + Cardinality(OfCommit(WithStatus(seen, X, "DONE"), m))
<1>1. ASSUME NEW t \in X
      PROVE  /\ Column(seen[t].status) = seen[t].status
             /\ seen[t].status \in {"PASS", "FAIL", Null} =>
                  Simplified(seen[t].status) = seen[t].status
             /\ seen[t].status \in {"SKIP", "ERROR", "MISS", "DONE"} =>
                  Simplified(seen[t].status) = "INC"
             /\ seen[t].status \in {"PASS", "FAIL", Null, "SKIP", "ERROR", "MISS", "DONE"}
  BY DEF Column, Simplified, FullStatus, Null
<1>2. \A s \in {"PASS", "FAIL", Null} : WithStatus(seen, X, s) = Simply(seen, X, s)
  BY <1>1 DEF WithStatus, Simply, Null
<1> DEFINE A == OfCommit(WithStatus(seen, X, "SKIP"), m)
           B == OfCommit(WithStatus(seen, X, "ERROR"), m)
           C == OfCommit(WithStatus(seen, X, "MISS"), m)
           D == OfCommit(WithStatus(seen, X, "DONE"), m)
           I == OfCommit(Simply(seen, X, "INC"), m)
<1>3. /\ A \intersect B = {}
      /\ (A \union B) \intersect C = {}
      /\ ((A \union B) \union C) \intersect D = {}
      /\ I = ((A \union B) \union C) \union D
  <2>1. /\ A = {t \in X : seen[t].status = "SKIP" /\ RollupCommitOf[RollupCheckoutOf[t]] = m}
        /\ B = {t \in X : seen[t].status = "ERROR" /\ RollupCommitOf[RollupCheckoutOf[t]] = m}
        /\ C = {t \in X : seen[t].status = "MISS" /\ RollupCommitOf[RollupCheckoutOf[t]] = m}
        /\ D = {t \in X : seen[t].status = "DONE" /\ RollupCommitOf[RollupCheckoutOf[t]] = m}
        /\ I = {t \in X : /\ seen[t].status \in {"SKIP", "ERROR", "MISS", "DONE"}
                          /\ RollupCommitOf[RollupCheckoutOf[t]] = m}
    BY <1>1 DEF OfCommit, WithStatus, Simply, Null
  <2> HIDE DEF A, B, C, D, I
  <2> QED BY <2>1
<1>4. IsFiniteSet(A) /\ IsFiniteSet(B) /\ IsFiniteSet(C) /\ IsFiniteSet(D)
  BY FS_Subset DEF OfCommit, WithStatus
<1> HIDE DEF A, B, C, D, I
<1>5. /\ IsFiniteSet(A \union B)
      /\ Cardinality(A \union B) = Cardinality(A) + Cardinality(B)
  BY <1>3, <1>4, CardinalityDisjoint
<1>6. /\ IsFiniteSet((A \union B) \union C)
      /\ Cardinality((A \union B) \union C) = Cardinality(A) + Cardinality(B) + Cardinality(C)
  BY <1>3, <1>4, <1>5, CardinalityDisjoint
<1>7. Cardinality(I) = Cardinality(A) + Cardinality(B) + Cardinality(C) + Cardinality(D)
  BY <1>3, <1>4, <1>6, CardinalityDisjoint
<1> QED BY <1>2, <1>7 DEF A, B, C, D, I

-----------------------------------------------------------------------------
(* Types. *)
LEMMA SimplifiedType ==
    /\ \A s \in FullStatus \union {Null} : Simplified(s) \in Status
    /\ \A s : Simplified(s) # NoRow \/ s = NoRow
    /\ Status \subseteq Row /\ NoRow \in Row /\ NoRow \notin Status /\ Null \in Status
BY DEF Simplified, FullStatus, Status, Known, Row, NoRow, Null

LEMMA AccumulateType ==
    ASSUME NEW seen, DOMAIN seen \subseteq RollupTests, \A t \in DOMAIN seen : seen[t] \in TestRow,
           NEW issues, \A t \in DOMAIN seen : issues[t] \in RollupIssues \union {"none"},
           NEW again \in SUBSET DOMAIN seen
    PROVE  /\ Counts(Accumulate(seen, issues, again))
           /\ IsTable(Accumulate(seen, issues, again))
<1>1. IsFiniteSet(DOMAIN seen)
  BY RollupAssumption, FS_Subset
<1>2. RowsFor(seen, issues) \subseteq RowKeys
  <2> SUFFICES ASSUME NEW t \in DOMAIN seen PROVE RowKey(t, seen[t], issues[t]) \in RowKeys
    BY DEF RowsFor
  <2>1. RollupCommitOf[RollupCheckoutOf[t]] \in RollupCommits
    BY RollupAssumption
  <2>2. seen[t].place \in Places \union {NoPlace}
    BY DEF TestRow
  <2>3. IssueOf(seen[t], issues[t]) \in IssueColumn
    BY DEF IssueOf, IssueColumn
  <2> QED BY <2>1, <2>2, <2>3 DEF RowKey, RowKeys
<1> QED BY <1>1, <1>2, AccumulateTable DEF Counts, IsTable

LEMMA InitRollupTypeOK == RollupInit => RollupTypeOK
<1> SUFFICES ASSUME RollupInit PROVE RollupTypeOK
  OBVIOUS
<1>1. NoTest \in TestRow
  BY DEF NoTest, TestRow
<1>2. DOMAIN NoRows = {} /\ DOMAIN NoSnapshot = {}
  BY DEF NoRows, NoSnapshot
<1> QED BY <1>1, <1>2, SimplifiedType, RollupAssumption DEF RollupInit, RollupTypeOK, Counts

LEMMA MergeType ==
    ASSUME NEW old \in TestRow, NEW new \in [status : Given, place : Places \union {NoPlace}]
    PROVE  Merge(old, new) \in TestRow /\ Merge(old, new).status # NoRow
BY RollupAssumption DEF Merge, TestRow, FullStatus, Null, NoRow

(* What the invariant of the sums says besides: a batch and a rebuild      *)
(* exclude each other; what the batch has read of the records is true, or  *)
(* forgotten since; the rebuild has read every test of its checkout that   *)
(* is recorded; only a test that was ingested is pending or recorded; and  *)
(* no column but null_tests is negative.                                   *)
Alone == step # "idle" => populating = "no"
ReadAsCounted ==
    step = "read" =>
      \A t \in DOMAIN chosen :
        /\ chosen[t].status # NoRow
        /\ \/ existing[t] = counted[t]
           \/ counted[t] = NoRow /\ RollupCheckoutOf[t] \in RollupStale
Computed == \E issues \in [RollupTests -> RollupIssues \union {"none"}] :
              fresh = Accumulate(snapshot, issues, {})
Rebuilding ==
    /\ populating = "no" => fresh = NoRows
    /\ populating # "no" =>
         /\ \A t \in DOMAIN snapshot : /\ RollupCheckoutOf[t] = populating
                                       /\ snapshot[t].status # NoRow
                                       /\ tests[t].status # NoRow
         /\ \A t \in RollupTests :
              RollupCheckoutOf[t] = populating /\ counted[t] # NoRow => t \in DOMAIN snapshot
         /\ fresh = NoRows \/ Computed
Ingested ==
    /\ \A t \in RollupTests :
         counted[t] # NoRow \/ queue[t].status # NoRow => tests[t].status # NoRow
    /\ step = "read" => \A t \in DOMAIN chosen : tests[t].status # NoRow
NotNegative == \A k \in DOMAIN rows, c \in Columns \ {Null} : rows[k][c] >= 0
Rows == IsFiniteSet(DOMAIN rows)

RollupState ==
    RollupTypeOK /\ Alone /\ ReadAsCounted /\ Rebuilding /\ Ingested /\ NotNegative /\ Rows

LEMMA InitRollupState == RollupInit => RollupState
<1> SUFFICES ASSUME RollupInit PROVE RollupState
  OBVIOUS
<1>1. RollupTypeOK
  BY InitRollupTypeOK
<1>2. DOMAIN NoRows = {}
  BY DEF NoRows
<1>3. IsFiniteSet({})
  BY FS_EmptySet
<1> QED
  BY <1>1, <1>2, <1>3
     DEF RollupInit, RollupState, Alone, ReadAsCounted, Rebuilding, Ingested, NotNegative, Rows, NoTest

-----------------------------------------------------------------------------
(* One lemma per action. *)
LEMMA IngestTestKeeps ==
    ASSUME RollupState, NEW t \in RollupTests, IngestTest(t)
    PROVE  RollupState' /\ UNCHANGED <<rows, counted, step, chosen, existing, populated>>
<1> USE DEF RollupState, RollupTypeOK
<1>1. PICK new \in [status : Given, place : Places \union {NoPlace}] :
        /\ tests' = [tests EXCEPT ![t] = Merge(@, new)]
        /\ queue' = [queue EXCEPT ![t] = Merge(@, new)]
  BY DEF IngestTest
<1>2. /\ Merge(tests[t], new) \in TestRow /\ Merge(tests[t], new).status # NoRow
      /\ Merge(queue[t], new) \in TestRow
  BY MergeType
<1>3. /\ UNCHANGED <<rows, counted, step, chosen, existing, populated>>
      /\ UNCHANGED <<firstIssue, populating, snapshot, fresh>>
      /\ inputs' = inputs + 1 /\ inputs < MaxInputs
  BY DEF IngestTest, rollupBatch, populate
<1>4. inputs' \in 0..MaxInputs
  BY <1>3, RollupAssumption
<1>5. RollupTypeOK'
  BY <1>1, <1>2, <1>3, <1>4 DEF Counts
<1>6. \A u \in RollupTests : tests[u].status # NoRow => tests'[u].status # NoRow
  BY <1>1, <1>2
<1>7. Ingested'
  BY <1>1, <1>2, <1>3, <1>6 DEF Ingested
<1>8. Rebuilding'
  BY <1>3, <1>6 DEF Rebuilding, Computed
<1>9. Alone' /\ ReadAsCounted' /\ NotNegative' /\ Rows'
  BY <1>3 DEF Alone, ReadAsCounted, NotNegative, Rows
<1> QED BY <1>3, <1>5, <1>7, <1>8, <1>9

LEMMA IngestIncidentKeeps ==
    ASSUME RollupState, NEW t \in RollupTests, IngestIncident(t)
    PROVE  RollupState' /\ UNCHANGED <<rows, counted, step, chosen, existing, populated>>
<1> USE DEF RollupState, RollupTypeOK
<1>1. PICK issue \in RollupIssues : firstIssue' = [firstIssue EXCEPT ![t] = issue]
  BY DEF IngestIncident
<1>2. /\ UNCHANGED <<rows, counted, step, chosen, existing, populated>>
      /\ UNCHANGED <<tests, queue, populating, snapshot, fresh, inputs>>
  BY DEF IngestIncident, rollupBatch, populate
<1>3. RollupTypeOK'
  BY <1>1, <1>2 DEF Counts
<1> QED
  BY <1>2, <1>3 DEF Alone, ReadAsCounted, Rebuilding, Computed, Ingested, NotNegative, Rows

LEMMA ReadRollupBatchKeeps ==
    ASSUME RollupState, ReadRollupBatch
    PROVE  RollupState'
<1> USE DEF RollupState, RollupTypeOK
<1>1. PICK batch \in SUBSET {t \in RollupTests : queue[t].status # NoRow} :
        chosen' = [t \in batch |-> queue[t]]
  BY DEF ReadRollupBatch
<1>2. DOMAIN chosen' = batch /\ batch \subseteq RollupTests
      /\ \A t \in batch : chosen'[t] = queue[t] /\ queue[t].status # NoRow
  BY <1>1
<1>3. existing' = [t \in RollupTests |-> IF t \in batch THEN counted[t] ELSE NoRow]
  BY <1>2 DEF ReadRollupBatch
<1>4. /\ step' = "read" /\ populating = "no"
      /\ UNCHANGED <<tests, queue, firstIssue, counted, rows, populating, snapshot, fresh,
                     populated, inputs>>
  BY DEF ReadRollupBatch, rollupTables, populate
<1>5. RollupTypeOK'
  BY <1>2, <1>3, <1>4, SimplifiedType DEF Counts
<1>6. ReadAsCounted' /\ Ingested'
  BY <1>2, <1>3, <1>4 DEF ReadAsCounted, Ingested
<1> QED
  BY <1>4, <1>5, <1>6 DEF Alone, Rebuilding, Computed, NotNegative, Rows

LEMMA BatchEndsKeeps ==
    ASSUME RollupState, DeleteRollupBatch \/ StopAggregator
    PROVE  RollupState' /\ UNCHANGED <<rows, counted, populated>> /\ step' = "idle"
<1> USE DEF RollupState, RollupTypeOK
<1>1. /\ step' = "idle" /\ chosen' = NoSnapshot
      /\ existing' = [t \in RollupTests |-> NoRow]
      /\ UNCHANGED <<tests, firstIssue, counted, rows, populating, snapshot, fresh, populated,
                     inputs>>
  BY DEF DeleteRollupBatch, StopAggregator, rollupTables, populate
<1>2. queue' \in [RollupTests -> TestRow]
      /\ \A t \in RollupTests : queue'[t] = queue[t] \/ queue'[t].status = NoRow
  <2>1. NoTest \in TestRow /\ NoTest.status = NoRow
    BY DEF NoTest, TestRow
  <2> QED BY <2>1 DEF DeleteRollupBatch, StopAggregator, rollupTables
<1>3. DOMAIN NoSnapshot = {}
  BY DEF NoSnapshot
<1>4. RollupTypeOK'
  BY <1>1, <1>2, <1>3, SimplifiedType DEF Counts
<1> QED
  BY <1>1, <1>2, <1>4 DEF Alone, ReadAsCounted, Rebuilding, Computed, Ingested, NotNegative, Rows

LEMMA ReadSourceKeeps ==
    ASSUME RollupState, NEW c \in RollupCheckouts, ReadSource(c)
    PROVE  RollupState' /\ UNCHANGED <<rows, counted, step, chosen, existing, populated>>
<1> USE DEF RollupState, RollupTypeOK
<1> DEFINE ofCheckout == {t \in RollupTests : /\ RollupCheckoutOf[t] = c
                                              /\ tests[t].status # NoRow}
<1>1. snapshot' = [t \in ofCheckout |-> tests[t]]
  BY DEF ReadSource
<1>2. /\ UNCHANGED <<rows, counted, step, chosen, existing, populated>>
      /\ UNCHANGED <<tests, queue, firstIssue, fresh, inputs>>
      /\ populating = "no" /\ step = "idle" /\ populating' = c
  BY DEF ReadSource, rollupTables, rollupBatch
<1>3. RollupTypeOK'
  BY <1>1, <1>2 DEF Counts
<1>4. Rebuilding'
  BY <1>1, <1>2 DEF Rebuilding, Ingested
<1> QED
  BY <1>1, <1>2, <1>3, <1>4 DEF Alone, ReadAsCounted, Ingested, NotNegative, Rows

LEMMA ReadIssuesKeeps ==
    ASSUME RollupState, ReadIssues
    PROVE  RollupState' /\ UNCHANGED <<rows, counted, step, chosen, existing, populated>>
<1> USE DEF RollupState, RollupTypeOK
<1>1. /\ UNCHANGED <<rows, counted, step, chosen, existing, populated>>
      /\ UNCHANGED <<tests, queue, firstIssue, populating, snapshot, inputs>>
      /\ populating # "no" /\ fresh' = Accumulate(snapshot, firstIssue, {})
  BY DEF ReadIssues, rollupTables, rollupBatch
<1>2. Counts(Accumulate(snapshot, firstIssue, {}))
  BY AccumulateType
<1>3. RollupTypeOK'
  BY <1>1, <1>2 DEF Counts
<1>4. Computed'
  BY <1>1 DEF Computed
<1>5. Rebuilding'
  BY <1>1, <1>4 DEF Rebuilding
<1> QED
  BY <1>1, <1>3, <1>5 DEF Alone, ReadAsCounted, Ingested, NotNegative, Rows

LEMMA PopulateFailsKeeps ==
    ASSUME RollupState, PopulateFails
    PROVE  RollupState' /\ UNCHANGED <<rows, counted, step, chosen, existing, populated>>
<1> USE DEF RollupState, RollupTypeOK
<1>1. /\ UNCHANGED <<rows, counted, step, chosen, existing, populated>>
      /\ UNCHANGED <<tests, queue, firstIssue, inputs>>
      /\ populating' = "no" /\ snapshot' = NoSnapshot /\ fresh' = NoRows
  BY DEF PopulateFails, rollupTables, rollupBatch
<1>2. DOMAIN NoSnapshot = {} /\ DOMAIN NoRows = {}
  BY DEF NoSnapshot, NoRows
<1>3. RollupTypeOK'
  BY <1>1, <1>2 DEF Counts
<1> QED
  BY <1>1, <1>3 DEF Alone, ReadAsCounted, Rebuilding, Ingested, NotNegative, Rows

LEMMA ForgetStaleKeeps ==
    ASSUME RollupState, ForgetStale
    PROVE  /\ RollupState' /\ UNCHANGED <<rows, step, chosen, existing, populated>>
           /\ \A t \in RollupTests :
                \/ counted'[t] = counted[t]
                \/ counted'[t] = NoRow /\ RollupCheckoutOf[t] \in RollupStale
<1> USE DEF RollupState, RollupTypeOK
<1>1. /\ UNCHANGED <<rows, step, chosen, existing, populated>>
      /\ UNCHANGED <<tests, queue, firstIssue, populating, snapshot, fresh>>
      /\ inputs' = inputs + 1 /\ inputs < MaxInputs
      /\ counted' = [t \in RollupTests |->
                       IF RollupCheckoutOf[t] \in RollupStale THEN NoRow ELSE counted[t]]
  BY DEF ForgetStale, rollupBatch, populate
<1>2. inputs' \in 0..MaxInputs
  BY <1>1, RollupAssumption
<1>3. \A t \in RollupTests :
        \/ counted'[t] = counted[t]
        \/ counted'[t] = NoRow /\ RollupCheckoutOf[t] \in RollupStale
  BY <1>1
<1>4. counted' \in [RollupTests -> Row]
  BY <1>1, SimplifiedType
<1>5. RollupTypeOK'
  BY <1>1, <1>2, <1>4 DEF Counts
<1>6. ReadAsCounted'
  BY <1>1, <1>3 DEF ReadAsCounted
<1>7. Rebuilding' /\ Ingested'
  BY <1>1, <1>3 DEF Rebuilding, Computed, Ingested
<1> QED
  BY <1>1, <1>3, <1>5, <1>6, <1>7 DEF Alone, NotNegative, Rows

(* A batch is counted: the tests to process, those of them that had been   *)
(* counted without a status, and what is added for them.                   *)
Process == ToProcess(existing)
Again == {t \in Process : existing[t] = Null}
Added == Accumulate([t \in Process |-> chosen[t]], firstIssue, Again)

LEMMA ProcessFacts ==
    ASSUME RollupState, step = "read"
    PROVE  /\ Process \subseteq DOMAIN chosen /\ Process \subseteq RollupTests
           /\ IsFiniteSet(Process) /\ IsFiniteSet(Again) /\ Again \subseteq Process
           /\ \A t \in Process : /\ chosen[t] \in TestRow
                                 /\ chosen[t].status \in FullStatus \union {Null}
                                 /\ Simplified(chosen[t].status) \in Status
                                 /\ existing[t] \in {NoRow, Null}
                                 /\ t \in Again => Simplified(chosen[t].status) # Null
                                 /\ \/ counted[t] = existing[t]
                                    \/ counted[t] = NoRow /\ RollupCheckoutOf[t] \in RollupStale
<1> USE DEF RollupState, RollupTypeOK
<1>1. Process \subseteq DOMAIN chosen /\ Again \subseteq Process
  BY DEF Process, Again, ToProcess
<1>2. IsFiniteSet(Process) /\ IsFiniteSet(Again)
  <2>1. Process \subseteq RollupTests /\ Again \subseteq RollupTests
    BY <1>1
  <2> QED BY <2>1, RollupAssumption, FS_Subset
<1>3. ASSUME NEW t \in Process
      PROVE  /\ chosen[t] \in TestRow
             /\ chosen[t].status \in FullStatus \union {Null}
             /\ existing[t] \in {NoRow, Null}
             /\ t \in Again => Simplified(chosen[t].status) # Null
             /\ \/ counted[t] = existing[t]
                \/ counted[t] = NoRow /\ RollupCheckoutOf[t] \in RollupStale
  <2>1. t \in DOMAIN chosen /\ NeedsCount(existing[t], Simplified(chosen[t].status))
    BY DEF Process, ToProcess
  <2>2. chosen[t] \in TestRow /\ chosen[t].status # NoRow
    BY <2>1 DEF ReadAsCounted
  <2>3. chosen[t].status \in FullStatus \union {Null}
    BY <2>2 DEF TestRow
  <2>4. \/ existing[t] = counted[t]
        \/ counted[t] = NoRow /\ RollupCheckoutOf[t] \in RollupStale
    <3>1. ReadAsCounted
      OBVIOUS
    <3> HIDE DEF RollupState
    <3> QED BY <2>1, <3>1 DEF ReadAsCounted
  <2>5. Null # NoRow
    BY DEF Null, NoRow
  <2>6. existing[t] \in {NoRow, Null} /\ (t \in Again => Simplified(chosen[t].status) # Null)
    BY <2>1, <2>5 DEF NeedsCount, Again
  <2> HIDE DEF RollupState, RollupTypeOK
  <2> QED BY <2>2, <2>3, <2>4, <2>6
<1> QED BY <1>1, <1>2, <1>3, SimplifiedType

LEMMA AddedFacts ==
    ASSUME RollupState, step = "read"
    PROVE  /\ Counts(Added) /\ IsTable(Added)
           /\ \A k \in DOMAIN Added, c \in Columns \ {Null} : Added[k][c] >= 0
           /\ \A m : TableSum(Added, m, "total") = Cardinality(OfCommit(Process \ Again, m))
           /\ \A m : \A s \in FullStatus \union {Null} :
                TableSum(Added, m, s) = Cardinality(OfCommit(WithStatus(chosen, Process, s), m))
                                        - IF s = Null THEN Cardinality(OfCommit(Again, m)) ELSE 0
<1> DEFINE seen == [t \in Process |-> chosen[t]]
<1>1. DOMAIN seen = Process /\ Again \in SUBSET DOMAIN seen
  BY ProcessFacts
<1>2. \A t \in DOMAIN seen : seen[t] \in TestRow
  BY ProcessFacts
<1>3. \A t \in DOMAIN seen : firstIssue[t] \in RollupIssues \union {"none"}
  BY ProcessFacts DEF RollupState, RollupTypeOK
<1>4. \A s : WithStatus(seen, Process, s) = WithStatus(chosen, Process, s)
  BY DEF WithStatus
<1>5. Added = Accumulate(seen, firstIssue, Again)
  BY DEF Added
<1>6. IsFiniteSet(Process) /\ Process \subseteq RollupTests
  BY ProcessFacts
<1>7. ASSUME NEW k \in DOMAIN Added, NEW c \in Columns \ {Null}
      PROVE  Added[k][c] >= 0
  <2> DEFINE here == {t \in DOMAIN seen : RowKey(t, seen[t], firstIssue[t]) = k}
  <2>1. /\ Cardinality(here \ Again) \in Nat
        /\ Cardinality({t \in here : Column(seen[t].status) = c}) \in Nat
    <3>1. here \ Again \subseteq Process /\ {t \in here : Column(seen[t].status) = c} \subseteq Process
      OBVIOUS
    <3> HIDE DEF here, seen
    <3> QED BY <3>1, <1>6, CardinalityNotGreater
  <2>2. Added[k][c] = IF c = "total" THEN Cardinality(here \ Again)
                      ELSE Cardinality({t \in here : Column(seen[t].status) = c}) - 0
    BY <1>5 DEF Accumulate
  <2> HIDE DEF here, seen
  <2> QED BY <2>1, <2>2
<1> HIDE DEF seen
<1>8. Counts(Added) /\ IsTable(Added)
  BY <1>1, <1>2, <1>3, <1>5, <1>6, AccumulateType
<1>9. ASSUME NEW m
      PROVE  TableSum(Added, m, "total") = Cardinality(OfCommit(Process \ Again, m))
  BY <1>1, <1>5, <1>6, AccumulateTotal
<1>10. ASSUME NEW m, NEW s \in FullStatus \union {Null}
       PROVE  TableSum(Added, m, s) = Cardinality(OfCommit(WithStatus(chosen, Process, s), m))
                                      - IF s = Null THEN Cardinality(OfCommit(Again, m)) ELSE 0
  BY <1>1, <1>4, <1>5, <1>6, AccumulateStatus
<1> QED BY <1>7, <1>8, <1>9, <1>10

LEMMA CountRollupBatchRows ==
    ASSUME RollupState, CountRollupBatch
    PROVE  /\ step = "read" /\ step' = "counted" /\ populated' = populated
           /\ counted' = [t \in RollupTests |-> IF t \in Process THEN Simplified(chosen[t].status)
                                                                 ELSE counted[t]]
           /\ DOMAIN rows' = DOMAIN rows \union DOMAIN Added
           /\ \A k \in DOMAIN rows' :
                rows'[k] = [c \in Columns |-> Cell(rows, k, c) + Cell(Added, k, c)]
           /\ UNCHANGED <<tests, queue, firstIssue, chosen, existing>>
           /\ UNCHANGED <<populating, snapshot, fresh, inputs>>
<1>1. rows' = [k \in DOMAIN rows \union DOMAIN Added |->
                 [c \in Columns |-> Cell(rows, k, c) + Cell(Added, k, c)]]
  BY DEF CountRollupBatch, Process, Again, Added
<1> QED BY <1>1 DEF CountRollupBatch, Process, populate

LEMMA CountRollupBatchKeeps ==
    ASSUME RollupState, CountRollupBatch
    PROVE  RollupState'
<1> USE DEF RollupState
<1>1. Counts(Added) /\ IsTable(Added)
      /\ \A k \in DOMAIN Added, c \in Columns \ {Null} : Added[k][c] >= 0
  BY CountRollupBatchRows, AddedFacts
<1>2. Counts(rows') /\ Rows'
  <2>1. IsFiniteSet(DOMAIN rows \union DOMAIN Added)
    BY <1>1, FS_Union DEF Rows, IsTable
  <2>2. ASSUME NEW k \in DOMAIN rows'
        PROVE  k \in RowKeys /\ rows'[k] \in [Columns -> Int]
    <3>1. rows'[k] = [c \in Columns |-> Cell(rows, k, c) + Cell(Added, k, c)]
      BY CountRollupBatchRows
    <3>2. ASSUME NEW c \in Columns PROVE Cell(rows, k, c) \in Int /\ Cell(Added, k, c) \in Int
      BY <1>1 DEF Cell, Counts, RollupTypeOK
    <3>3. k \in RowKeys
      BY <1>1, CountRollupBatchRows DEF Counts, RollupTypeOK
    <3> QED BY <3>1, <3>2, <3>3
  <2> QED BY <2>1, <2>2, CountRollupBatchRows DEF Counts, Rows
<1>3. NotNegative'
  <2> SUFFICES ASSUME NEW k \in DOMAIN rows', NEW c \in Columns \ {Null}
               PROVE  rows'[k][c] >= 0
    BY DEF NotNegative
  <2>1. rows'[k][c] = Cell(rows, k, c) + Cell(Added, k, c)
    BY CountRollupBatchRows
  <2>2. Cell(rows, k, c) \in Nat
    BY DEF Cell, NotNegative, RollupTypeOK, Counts
  <2>3. Cell(Added, k, c) \in Nat
    BY <1>1 DEF Cell, Counts
  <2> QED BY <2>1, <2>2, <2>3
<1>4. \A t \in RollupTests : counted'[t] \in Row
  <2>1. \A t \in Process : Simplified(chosen[t].status) \in Status
    BY ProcessFacts, CountRollupBatchRows
  <2>2. \A t \in RollupTests : counted[t] \in Row
    BY DEF RollupTypeOK
  <2> QED BY <2>1, <2>2, CountRollupBatchRows, SimplifiedType
<1>5. RollupTypeOK'
  BY <1>2, <1>4, CountRollupBatchRows DEF RollupTypeOK, Counts
<1>6. Ingested'
  <2>1. Process \subseteq DOMAIN chosen
    BY ProcessFacts, CountRollupBatchRows
  <2> QED BY <2>1, CountRollupBatchRows DEF Ingested
<1>7. populating = "no"
  BY CountRollupBatchRows DEF Alone
<1> QED
  BY <1>2, <1>3, <1>5, <1>6, <1>7, CountRollupBatchRows
     DEF Alone, ReadAsCounted, Rebuilding, Rows

(* So a batch moves the sums of a commit by its own tests.                 *)
LEMMA CountedSums ==
    ASSUME RollupState, CountRollupBatch, NEW m
    PROVE  /\ CommitSum(m, "total")'
                = CommitSum(m, "total") + Cardinality(OfCommit(Process \ Again, m))
           /\ \A s \in Status :
                KnownSum(m, s)' = KnownSum(m, s) + Cardinality(OfCommit(Simply(chosen, Process, s), m))
                                  - IF s = Null THEN Cardinality(OfCommit(Again, m)) ELSE 0
           /\ CommitSum(m, "total") \in Int /\ \A s \in Status : KnownSum(m, s) \in Int
<1>1. step = "read"
  BY CountRollupBatchRows
<1>2. IsTable(rows)
  BY DEF RollupState, RollupTypeOK, Counts, Rows, IsTable
<1>3. IsTable(Added)
  BY <1>1, AddedFacts
<1>4. ASSUME NEW c \in Columns
      PROVE  CommitSum(m, c)' = CommitSum(m, c) + TableSum(Added, m, c)
  <2>1. TableSum(rows', m, c) = TableSum(rows, m, c) + TableSum(Added, m, c)
    BY <1>2, <1>3, CountRollupBatchRows, TablesAdd
  <2> QED BY <2>1, CommitSumIsTableSum
<1>5. \A c \in Columns : CommitSum(m, c) \in Int
  BY <1>2, TableSumType, CommitSumIsTableSum
<1>6. CommitSum(m, "total")' = CommitSum(m, "total") + Cardinality(OfCommit(Process \ Again, m))
  <2>1. "total" \in Columns
    BY DEF Columns
  <2> QED BY <1>1, <1>4, <2>1, AddedFacts
<1> DEFINE n(s) == Cardinality(OfCommit(WithStatus(chosen, Process, s), m))
           d(s) == IF s = Null THEN Cardinality(OfCommit(Again, m)) ELSE 0
<1>7. \A s \in FullStatus \union {Null} : CommitSum(m, s)' = CommitSum(m, s) + (n(s) - d(s))
  <2> SUFFICES ASSUME NEW s \in FullStatus \union {Null}
               PROVE  CommitSum(m, s)' = CommitSum(m, s) + (n(s) - d(s))
    OBVIOUS
  <2>1. s \in Columns
    BY DEF Columns
  <2>2. TableSum(Added, m, s) = n(s) - d(s)
    BY <1>1, AddedFacts
  <2> QED BY <1>4, <2>1, <2>2
<1>8. /\ \A s \in {"PASS", "FAIL", Null} :
           n(s) = Cardinality(OfCommit(Simply(chosen, Process, s), m))
      /\ Cardinality(OfCommit(Simply(chosen, Process, "INC"), m))
           = n("SKIP") + n("ERROR") + n("MISS") + n("DONE")
  <2>1. /\ IsFiniteSet(Process)
        /\ \A t \in Process : chosen[t].status \in FullStatus \union {Null}
    BY <1>1, ProcessFacts
  <2> QED BY <2>1, SimplyColumns
<1>9. \A X : X \subseteq Process => Cardinality(OfCommit(X, m)) \in Nat
  <2> SUFFICES ASSUME NEW X, X \subseteq Process
               PROVE  Cardinality(OfCommit(X, m)) \in Nat
    OBVIOUS
  <2>1. OfCommit(X, m) \subseteq Process /\ IsFiniteSet(Process)
    BY <1>1, ProcessFacts DEF OfCommit
  <2> QED BY <2>1, CardinalityNotGreater
<1>10. \A s : n(s) \in Nat /\ d(s) \in Nat
  <2>1. \A s : WithStatus(chosen, Process, s) \subseteq Process
    BY DEF WithStatus
  <2>2. Again \subseteq Process
    BY DEF Again
  <2> QED BY <1>9, <2>1, <2>2
<1>11. /\ \A s \in {"PASS", "FAIL", Null, "SKIP", "ERROR", "MISS", "DONE"} :
            s \in FullStatus \union {Null} /\ s \in Columns
       /\ \A s \in {"PASS", "FAIL", "SKIP", "ERROR", "MISS", "DONE"} : d(s) = 0
       /\ "INC" # Null
  BY DEF FullStatus, Columns, Null
<1>12. ASSUME NEW s \in Status
       PROVE  /\ KnownSum(m, s)' = KnownSum(m, s)
                   + Cardinality(OfCommit(Simply(chosen, Process, s), m)) - d(s)
              /\ KnownSum(m, s) \in Int
  <2> HIDE DEF n, d
  <2>1. CASE s = "INC"
    <3>1. /\ KnownSum(m, s) = CommitSum(m, "SKIP") + CommitSum(m, "ERROR")
                                + CommitSum(m, "MISS") + CommitSum(m, "DONE")
          /\ KnownSum(m, s)' = CommitSum(m, "SKIP")' + CommitSum(m, "ERROR")'
                                 + CommitSum(m, "MISS")' + CommitSum(m, "DONE")'
      BY <2>1 DEF KnownSum
    <3>2. d(s) = 0
      BY <1>11, <2>1 DEF d
    <3>3. /\ CommitSum(m, "SKIP")' = CommitSum(m, "SKIP") + n("SKIP")
          /\ CommitSum(m, "ERROR")' = CommitSum(m, "ERROR") + n("ERROR")
          /\ CommitSum(m, "MISS")' = CommitSum(m, "MISS") + n("MISS")
          /\ CommitSum(m, "DONE")' = CommitSum(m, "DONE") + n("DONE")
      BY <1>5, <1>7, <1>10, <1>11
    <3>4. /\ CommitSum(m, "SKIP") \in Int /\ CommitSum(m, "ERROR") \in Int
          /\ CommitSum(m, "MISS") \in Int /\ CommitSum(m, "DONE") \in Int
      BY <1>5, <1>11
    <3>5. n("SKIP") \in Nat /\ n("ERROR") \in Nat /\ n("MISS") \in Nat /\ n("DONE") \in Nat
      BY <1>10
    <3> QED BY <1>8, <2>1, <3>1, <3>2, <3>3, <3>4, <3>5
  <2>2. CASE s # "INC"
    <3>1. s \in {"PASS", "FAIL", Null}
      BY <2>2 DEF Status, Known
    <3>2. KnownSum(m, s) = CommitSum(m, s) /\ KnownSum(m, s)' = CommitSum(m, s)'
      BY <2>2 DEF KnownSum
    <3>3. CommitSum(m, s)' = CommitSum(m, s) + (n(s) - d(s)) /\ CommitSum(m, s) \in Int
      BY <1>5, <1>7, <1>11, <3>1
    <3> QED BY <1>8, <1>10, <3>1, <3>2, <3>3
  <2> QED BY <2>1, <2>2
<1>13. "total" \in Columns
  BY DEF Columns
<1> QED BY <1>5, <1>6, <1>12, <1>13

(* ... and the records of the commit by as many, of a known status in any  *)
(* case, of the others if nothing was forgotten since the batch read them. *)
LEMMA RecordedMoves ==
    ASSUME RollupState, CountRollupBatch, NEW m
    PROVE  /\ \A s \in Known :
                Recorded(m, s)' = Recorded(m, s) + Cardinality(OfCommit(Simply(chosen, Process, s), m))
           /\ CheckoutsOf(m) \intersect RollupStale = {} =>
                /\ Recorded(m, Null)'
                     = Recorded(m, Null) + Cardinality(OfCommit(Simply(chosen, Process, Null), m))
                       - Cardinality(OfCommit(Again, m))
                /\ RecordedAtAll(m)' = RecordedAtAll(m) + Cardinality(OfCommit(Process \ Again, m))
<1> DEFINE R(s) == {t \in TestsOf(m) : counted[t] = s}
           R2(s) == {t \in TestsOf(m) : counted'[t] = s}
           N(s) == OfCommit(Simply(chosen, Process, s), m)
           G == OfCommit(Again, m)
           all == {t \in TestsOf(m) : counted[t] # NoRow}
           all2 == {t \in TestsOf(m) : counted'[t] # NoRow}
           first == OfCommit(Process \ Again, m)
<1>1. /\ \A s : Recorded(m, s) = Cardinality(R(s)) /\ Recorded(m, s)' = Cardinality(R2(s))
      /\ RecordedAtAll(m) = Cardinality(all) /\ RecordedAtAll(m)' = Cardinality(all2)
  BY DEF Recorded, RecordedAtAll, TestsOf
<1>2. \A X : X \subseteq RollupTests => IsFiniteSet(X)
  BY RollupAssumption, FS_Subset
<1>3. /\ \A s : R(s) \subseteq RollupTests /\ N(s) \subseteq RollupTests
      /\ G \subseteq RollupTests /\ all \subseteq RollupTests /\ first \subseteq RollupTests
  <2>1. Process \subseteq RollupTests /\ Again \subseteq Process
    BY ProcessFacts, CountRollupBatchRows
  <2> QED BY <2>1 DEF TestsOf, OfCommit, Simply
<1>4. ASSUME NEW t \in TestsOf(m)
      PROVE  /\ t \in RollupTests
             /\ t \in Process => /\ counted'[t] = Simplified(chosen[t].status)
                                 /\ counted'[t] \in Status
                                 /\ counted[t] \in {NoRow, Null}
             /\ t \notin Process => counted'[t] = counted[t]
             /\ \A s : t \in N(s) <=> t \in Process /\ Simplified(chosen[t].status) = s
             /\ t \in first <=> t \in Process \ Again
             /\ t \in G <=> t \in Again
             /\ t \in Again => t \in Process /\ counted'[t] # Null
  <2>1. t \in RollupTests /\ RollupCommitOf[RollupCheckoutOf[t]] = m
    BY DEF TestsOf
  <2>2. counted'[t] = IF t \in Process THEN Simplified(chosen[t].status) ELSE counted[t]
    BY <2>1, CountRollupBatchRows
  <2>3. t \in Process => /\ Simplified(chosen[t].status) \in Status
                         /\ counted[t] \in {NoRow, Null}
                         /\ t \in Again => Simplified(chosen[t].status) # Null
    BY ProcessFacts, CountRollupBatchRows
  <2>4. t \in Again => t \in Process
    BY DEF Again
  <2> QED BY <2>1, <2>2, <2>3, <2>4 DEF OfCommit, Simply
<1>5. \A s : N(s) \subseteq TestsOf(m) /\ G \subseteq TestsOf(m) /\ first \subseteq TestsOf(m)
  BY <1>3 DEF OfCommit, TestsOf
<1>6. Null # NoRow /\ NoRow \notin Status /\ Null \notin Known /\ NoRow \notin Known
      /\ Known \subseteq Status
  BY DEF Null, NoRow, Status, Known
<1> HIDE DEF N, G, first
<1>7. ASSUME NEW s \in Known
      PROVE  Cardinality(R2(s)) = Cardinality(R(s)) + Cardinality(N(s))
  <2>1. R2(s) = R(s) \union N(s) /\ R(s) \intersect N(s) = {}
    <3>1. \A t \in TestsOf(m) : /\ t \in R2(s) <=> t \in R(s) \/ t \in N(s)
                                /\ ~ (t \in R(s) /\ t \in N(s))
      BY <1>4, <1>6
    <3> QED BY <3>1, <1>5
  <2> HIDE DEF R, R2
  <2> QED BY <2>1, <1>2, <1>3, CardinalityDisjoint
<1>8. ASSUME CheckoutsOf(m) \intersect RollupStale = {}
      PROVE  /\ Cardinality(R2(Null)) = Cardinality(R(Null)) + Cardinality(N(Null)) - Cardinality(G)
             /\ Cardinality(all2) = Cardinality(all) + Cardinality(first)
  <2>1. ASSUME NEW t \in TestsOf(m), t \in Process
        PROVE  counted[t] = Null <=> t \in Again
    <3>1. RollupCheckoutOf[t] \notin RollupStale
      BY <1>8, <1>4, RollupAssumption DEF TestsOf, CheckoutsOf
    <3>2. counted[t] = existing[t]
      BY <2>1, <3>1, ProcessFacts, CountRollupBatchRows
    <3> QED BY <2>1, <3>2 DEF Again
  <2>2. /\ R2(Null) = (R(Null) \ G) \union N(Null)
        /\ (R(Null) \ G) \intersect N(Null) = {}
        /\ R(Null) \intersect G = G
    <3>1. \A t \in TestsOf(m) : /\ t \in R2(Null) <=> (t \in R(Null) /\ t \notin G) \/ t \in N(Null)
                                /\ ~ (t \in R(Null) /\ t \notin G /\ t \in N(Null))
                                /\ t \in G => t \in R(Null)
      BY <1>4, <2>1
    <3> QED BY <3>1, <1>5
  <2>3. all2 = all \union first /\ all \intersect first = {}
    <3>1. \A t \in TestsOf(m) : /\ t \in all2 <=> t \in all \/ t \in first
                                /\ ~ (t \in all /\ t \in first)
      BY <1>4, <1>6, <2>1
    <3> QED BY <3>1, <1>5
  <2>4. Cardinality(R(Null) \ G) = Cardinality(R(Null)) - Cardinality(G)
        /\ IsFiniteSet(R(Null) \ G)
    <3> HIDE DEF R
    <3> QED BY <1>2, <1>3, <2>2, FS_Difference
  <2>5. Cardinality(R2(Null)) = Cardinality(R(Null) \ G) + Cardinality(N(Null))
    <3> HIDE DEF R, R2
    <3> QED BY <2>2, <2>4, <1>2, <1>3, CardinalityDisjoint
  <2>6. Cardinality(all2) = Cardinality(all) + Cardinality(first)
    <3> HIDE DEF all, all2
    <3> QED BY <2>3, <1>2, <1>3, CardinalityDisjoint
  <2>7. Cardinality(R(Null)) \in Nat /\ Cardinality(G) \in Nat /\ Cardinality(N(Null)) \in Nat
    <3> HIDE DEF R
    <3> QED BY <1>2, <1>3, FS_CardinalityType
  <2> QED BY <2>4, <2>5, <2>6, <2>7
<1> HIDE DEF R, R2, all, all2
<1>9. \A s \in Known : Recorded(m, s)' = Recorded(m, s) + Cardinality(N(s))
  BY <1>1, <1>7
<1>10. CheckoutsOf(m) \intersect RollupStale = {} =>
         /\ Recorded(m, Null)' = Recorded(m, Null) + Cardinality(N(Null)) - Cardinality(G)
         /\ RecordedAtAll(m)' = RecordedAtAll(m) + Cardinality(first)
  BY <1>1, <1>8
<1> QED BY <1>9, <1>10 DEF N, G, first

-----------------------------------------------------------------------------
(* The rebuild writes: its rows count the tests it read, and it records    *)
(* exactly those.                                                          *)
LEMMA PopulateWritesFacts ==
    ASSUME RollupState, PopulateWrites
    PROVE  /\ populating # "no" /\ populating' = "no" /\ step = "idle"
           /\ snapshot' = NoSnapshot /\ fresh' = NoRows
           /\ UNCHANGED <<tests, queue, firstIssue, step, chosen, existing, inputs>>
           /\ populated' = populated \union {populating}
           /\ DOMAIN rows' = DOMAIN rows \union DOMAIN fresh
           /\ \A k \in DOMAIN rows' : rows'[k] = IF k \in DOMAIN fresh THEN fresh[k] ELSE rows[k]
           /\ counted' = [t \in RollupTests |-> IF t \in DOMAIN snapshot
                                                THEN Simplified(snapshot[t].status)
                                                ELSE counted[t]]
           /\ Computed /\ IsTable(fresh) /\ Counts(fresh)
           /\ DOMAIN snapshot \subseteq RollupTests /\ IsFiniteSet(DOMAIN snapshot)
           /\ \A t \in DOMAIN snapshot : /\ RollupCheckoutOf[t] = populating
                                         /\ snapshot[t].status \in FullStatus \union {Null}
                                         /\ Simplified(snapshot[t].status) \in Status
           /\ \A t \in RollupTests :
                RollupCheckoutOf[t] = populating /\ counted[t] # NoRow => t \in DOMAIN snapshot
<1>1. /\ populating # "no" /\ populating' = "no" /\ step = "idle" /\ fresh # NoRows
      /\ snapshot' = NoSnapshot /\ fresh' = NoRows
      /\ UNCHANGED <<tests, queue, firstIssue, step, chosen, existing, inputs>>
      /\ populated' = populated \union {populating}
  BY DEF PopulateWrites, rollupBatch, RollupState, Alone
<1>2. rows' = [k \in DOMAIN rows \union DOMAIN fresh |->
                 IF k \in DOMAIN fresh THEN fresh[k] ELSE rows[k]]
  BY DEF PopulateWrites, Replaced
<1>3. Computed
  BY <1>1 DEF RollupState, Rebuilding
<1>4. /\ DOMAIN snapshot \subseteq RollupTests
      /\ \A t \in DOMAIN snapshot : snapshot[t] \in TestRow
      /\ Counts(fresh)
  BY DEF RollupState, RollupTypeOK
<1>5. IsFiniteSet(DOMAIN snapshot)
  BY <1>4, RollupAssumption, FS_Subset
<1>6. IsTable(fresh)
  <2>1. PICK issues \in [RollupTests -> RollupIssues \union {"none"}] :
          fresh = Accumulate(snapshot, issues, {})
    BY <1>3 DEF Computed
  <2> QED BY <1>5, <2>1, AccumulateTable
<1>7. \A t \in DOMAIN snapshot : /\ RollupCheckoutOf[t] = populating
                                 /\ snapshot[t].status \in FullStatus \union {Null}
  BY <1>1, <1>4 DEF RollupState, Rebuilding, TestRow
<1>8. \A t \in DOMAIN snapshot : Simplified(snapshot[t].status) \in Status
  BY <1>7, SimplifiedType
<1>9. \A t \in RollupTests :
        RollupCheckoutOf[t] = populating /\ counted[t] # NoRow => t \in DOMAIN snapshot
  BY <1>1 DEF RollupState, Rebuilding
<1>10. counted' = [t \in RollupTests |-> IF t \in DOMAIN snapshot
                                         THEN Simplified(snapshot[t].status) ELSE counted[t]]
  BY DEF PopulateWrites
<1> QED BY <1>1, <1>2, <1>3, <1>4, <1>5, <1>6, <1>7, <1>8, <1>9, <1>10

(* The rows it has computed, for the commit of its checkout and no other.  *)
LEMMA ComputedSums ==
    ASSUME RollupState, PopulateWrites, NEW m
    PROVE  /\ TableSum(fresh, m, "total") = Cardinality(OfCommit(DOMAIN snapshot, m))
           /\ \A s \in FullStatus :
                TableSum(fresh, m, s)
                  = Cardinality(OfCommit(WithStatus(snapshot, DOMAIN snapshot, s), m))
           /\ m # RollupCommitOf[populating] => KeysOf(fresh, m) = {}
           /\ \A k \in DOMAIN fresh, c \in Columns \ {Null} : fresh[k][c] >= 0
<1>1. PICK issues \in [RollupTests -> RollupIssues \union {"none"}] :
        fresh = Accumulate(snapshot, issues, {})
  BY PopulateWritesFacts DEF Computed
<1>2. IsFiniteSet(DOMAIN snapshot) /\ {} \in SUBSET DOMAIN snapshot
  BY PopulateWritesFacts
<1>3. TableSum(fresh, m, "total") = Cardinality(OfCommit(DOMAIN snapshot, m))
  <2>1. DOMAIN snapshot \ {} = DOMAIN snapshot
    OBVIOUS
  <2>2. TableSum(fresh, m, "total") = Cardinality(OfCommit(DOMAIN snapshot \ {}, m))
    BY <1>1, <1>2, AccumulateTotal
  <2> QED BY <2>1, <2>2
<1>4. ASSUME NEW s \in FullStatus
      PROVE  TableSum(fresh, m, s) = Cardinality(OfCommit(WithStatus(snapshot, DOMAIN snapshot, s), m))
  <2> DEFINE n == Cardinality(OfCommit(WithStatus(snapshot, DOMAIN snapshot, s), m))
  <2>1. TableSum(fresh, m, s) = n - IF s = Null THEN Cardinality(OfCommit({}, m)) ELSE 0
    BY <1>1, <1>2, AccumulateStatus
  <2>2. s # Null
    BY DEF FullStatus, Null
  <2>3. n \in Int
    <3>1. OfCommit(WithStatus(snapshot, DOMAIN snapshot, s), m) \subseteq DOMAIN snapshot
      BY DEF OfCommit, WithStatus
    <3> QED BY <1>2, <3>1, CardinalityNotGreater
  <2> HIDE DEF n
  <2>4. TableSum(fresh, m, s) = n
    BY <2>1, <2>2, <2>3
  <2> QED BY <2>4 DEF n
<1>5. ASSUME NEW k \in DOMAIN fresh
      PROVE  /\ k[1] = RollupCommitOf[populating]
             /\ \A c \in Columns \ {Null} : fresh[k][c] >= 0
  <2>1. k \in RowsFor(snapshot, issues)
    BY <1>1, <1>2, AccumulateTable
  <2>2. k[1] = RollupCommitOf[populating]
    <3>1. PICK t \in DOMAIN snapshot : k = RowKey(t, snapshot[t], issues[t])
      BY <2>1 DEF RowsFor
    <3> QED BY <3>1, PopulateWritesFacts DEF RowKey
  <2> DEFINE here == {t \in DOMAIN snapshot : RowKey(t, snapshot[t], issues[t]) = k}
  <2>3. ASSUME NEW c \in Columns \ {Null}
        PROVE  fresh[k][c] >= 0
    <3>1. fresh[k][c] = IF c = "total" THEN Cardinality(here \ {})
                        ELSE Cardinality({t \in here : Column(snapshot[t].status) = c}) - 0
      BY <1>1, <2>1 DEF Accumulate
    <3>2. /\ Cardinality(here \ {}) \in Nat
          /\ Cardinality({t \in here : Column(snapshot[t].status) = c}) \in Nat
      <4>1. /\ here \ {} \subseteq DOMAIN snapshot
            /\ {t \in here : Column(snapshot[t].status) = c} \subseteq DOMAIN snapshot
        OBVIOUS
      <4> HIDE DEF here
      <4> QED BY <4>1, <1>2, CardinalityNotGreater
    <3> HIDE DEF here
    <3> QED BY <3>1, <3>2
  <2> QED BY <2>2, <2>3
<1>6. m # RollupCommitOf[populating] => KeysOf(fresh, m) = {}
  BY <1>5 DEF KeysOf
<1> QED BY <1>3, <1>4, <1>5, <1>6

LEMMA PopulateWritesKeeps ==
    ASSUME RollupState, PopulateWrites
    PROVE  RollupState'
<1> USE DEF RollupState
<1>1. Counts(rows') /\ Rows'
  <2>1. IsFiniteSet(DOMAIN rows \union DOMAIN fresh)
    BY PopulateWritesFacts, FS_Union DEF Rows, IsTable
  <2>2. \A k \in DOMAIN rows' : k \in RowKeys /\ rows'[k] \in [Columns -> Int]
    BY PopulateWritesFacts DEF Counts, RollupTypeOK
  <2> QED BY <2>1, <2>2, PopulateWritesFacts DEF Counts, Rows
<1>2. NotNegative'
  <2>1. \A k \in DOMAIN fresh, c \in Columns \ {Null} : fresh[k][c] >= 0
    BY ComputedSums
  <2> QED BY <2>1, PopulateWritesFacts DEF NotNegative
<1>3. \A t \in RollupTests : counted'[t] \in Row
  BY PopulateWritesFacts, SimplifiedType DEF RollupTypeOK
<1>4. RollupTypeOK'
  <2>1. DOMAIN NoSnapshot = {} /\ DOMAIN NoRows = {}
    BY DEF NoSnapshot, NoRows
  <2>2. Counts(NoRows)
    BY <2>1 DEF Counts
  <2>3. populating \in RollupCheckouts
    BY PopulateWritesFacts DEF RollupTypeOK
  <2> QED BY <1>1, <1>3, <2>1, <2>2, <2>3, PopulateWritesFacts DEF RollupTypeOK
<1>5. Ingested'
  <2>1. \A t \in DOMAIN snapshot : tests[t].status # NoRow
    BY PopulateWritesFacts DEF Rebuilding
  <2> QED BY <2>1, PopulateWritesFacts DEF Ingested
<1>6. Alone' /\ ReadAsCounted' /\ Rebuilding'
  BY PopulateWritesFacts DEF Alone, ReadAsCounted, Rebuilding
<1> QED BY <1>1, <1>2, <1>4, <1>5, <1>6

-----------------------------------------------------------------------------
(* The sums themselves.  A test is seen when it is recorded, or was when   *)
(* the batch under way read it: delete_unused_hardware_status may forget   *)
(* it in between, and the batch will record it again without adding it to  *)
(* the total.  So it is the tests seen that the total must keep covering.  *)
OneCheckout(m) == \A c, d \in CheckoutsOf(m) : c = d
Held(t) == step = "read" /\ t \in DOMAIN chosen /\ existing[t] # NoRow
Seen(m) == {t \in TestsOf(m) : counted[t] # NoRow \/ Held(t)}
AddedUp ==
    \A m \in RollupCommits :
        OneCheckout(m) =>
            /\ CommitSum(m, "total") >= Cardinality(Seen(m))
            /\ \A s \in Known : KnownSum(m, s) >= Recorded(m, s)

RollupInvariant == RollupState /\ CommitSumsExact /\ AddedUp

LEMMA TestsFinite ==
    ASSUME NEW X, X \subseteq RollupTests
    PROVE  IsFiniteSet(X) /\ Cardinality(X) \in Nat
BY RollupAssumption, FS_Subset, FS_CardinalityType

(* Sums over the same rows are the same, and are integers.                 *)
LEMMA SumsStay ==
    ASSUME UNCHANGED rows, NEW m
    PROVE  /\ CommitSum(m, "total")' = CommitSum(m, "total")
           /\ \A s : KnownSum(m, s)' = KnownSum(m, s)
BY DEF CommitSum, KnownSum

LEMMA SumsType ==
    ASSUME RollupState, NEW m
    PROVE  /\ CommitSum(m, "total") \in Int
           /\ \A s \in Status : KnownSum(m, s) \in Int
<1>1. IsTable(rows)
  BY DEF RollupState, RollupTypeOK, Counts, Rows, IsTable
<1>2. \A c \in Columns : CommitSum(m, c) \in Int
  BY <1>1, TableSumType, CommitSumIsTableSum
<1>3. {"total", "SKIP", "ERROR", "MISS", "DONE", "PASS", "FAIL", Null} \subseteq Columns
  BY DEF Columns, FullStatus
<1>4. ASSUME NEW s \in Status PROVE KnownSum(m, s) \in Int
  <2>1. CASE s = "INC"
    <3>1. /\ CommitSum(m, "SKIP") \in Int /\ CommitSum(m, "ERROR") \in Int
          /\ CommitSum(m, "MISS") \in Int /\ CommitSum(m, "DONE") \in Int
      BY <1>2, <1>3
    <3> QED BY <2>1, <3>1 DEF KnownSum
  <2>2. CASE s # "INC"
    <3>1. s \in Columns
      BY <1>3, <2>2 DEF Status, Known
    <3> QED BY <1>2, <2>2, <3>1 DEF KnownSum
  <2> QED BY <2>1, <2>2
<1> QED BY <1>2, <1>3, <1>4

LEMMA RecordedType ==
    ASSUME NEW m
    PROVE  /\ IsFiniteSet(Seen(m)) /\ Cardinality(Seen(m)) \in Nat
           /\ RecordedAtAll(m) \in Nat /\ RecordedAtAll(m) <= Cardinality(Seen(m))
           /\ \A s : Recorded(m, s) \in Nat
<1> DEFINE all == {t \in TestsOf(m) : counted[t] # NoRow}
<1>1. Seen(m) \subseteq RollupTests /\ all \subseteq Seen(m)
  BY DEF Seen, TestsOf
<1>2. IsFiniteSet(Seen(m)) /\ Cardinality(Seen(m)) \in Nat
  BY <1>1, TestsFinite
<1>3. Cardinality(all) \in Nat /\ Cardinality(all) <= Cardinality(Seen(m))
  BY <1>1, <1>2, CardinalityNotGreater
<1>4. RecordedAtAll(m) = Cardinality(all)
  BY DEF RecordedAtAll
<1>5. ASSUME NEW s PROVE Recorded(m, s) \in Nat
  <2>1. {t \in TestsOf(m) : counted[t] = s} \subseteq RollupTests
    BY DEF TestsOf
  <2>2. Cardinality({t \in TestsOf(m) : counted[t] = s}) \in Nat
    BY <2>1, TestsFinite
  <2> QED BY <2>2 DEF Recorded
<1> QED BY <1>2, <1>3, <1>4, <1>5

LEMMA InitRollupInvariant == RollupInit => RollupInvariant
<1> SUFFICES ASSUME RollupInit PROVE RollupInvariant
  OBVIOUS
<1>1. RollupState
  BY InitRollupState
<1>2. ASSUME NEW m
      PROVE  \A c : CommitSum(m, c) = 0
  <2>1. KeysOf(rows, m) = {}
    BY DEF RollupInit, NoRows, KeysOf
  <2>2. \A c : TableSum(rows, m, c) = 0
    BY <2>1, SumEmpty DEF TableSum
  <2> QED BY <2>2, CommitSumIsTableSum
<1>3. \A m, s : KnownSum(m, s) = 0
  BY <1>2 DEF KnownSum
<1>4. Null # NoRow /\ NoRow \notin Status /\ Known \subseteq Status
  BY SimplifiedType DEF Status, Null, NoRow
<1>5. ASSUME NEW m
      PROVE  /\ Seen(m) = {} /\ {t \in TestsOf(m) : counted[t] # NoRow} = {}
             /\ \A s \in Status : {t \in TestsOf(m) : counted[t] = s} = {}
  BY <1>4 DEF RollupInit, Seen, Held, TestsOf
<1>6. Cardinality({}) = 0
  BY FS_EmptySet
<1>7. \A m : RecordedAtAll(m) = 0 /\ Cardinality(Seen(m)) = 0
  BY <1>5, <1>6 DEF RecordedAtAll
<1>8. \A m : \A s \in Status : Recorded(m, s) = 0
  BY <1>5, <1>6 DEF Recorded
<1>9. CommitSumsExact
  BY <1>2, <1>3, <1>7, <1>8 DEF CommitSumsExact
<1>10. AddedUp
  BY <1>2, <1>3, <1>4, <1>7, <1>8 DEF AddedUp
<1> QED BY <1>1, <1>9, <1>10 DEF RollupInvariant

(* Nothing is written: the sums stay, and no more tests are seen.          *)
LEMMA NothingWritten ==
    ASSUME RollupInvariant, UNCHANGED <<rows, counted, populated>>,
           \A t \in RollupTests : Held(t)' => counted[t] # NoRow \/ Held(t)
    PROVE  CommitSumsExact' /\ AddedUp'
<1>1. \A m : /\ CommitSum(m, "total")' = CommitSum(m, "total")
             /\ \A s : KnownSum(m, s)' = KnownSum(m, s)
  BY SumsStay
<1>2. \A m : RecordedAtAll(m)' = RecordedAtAll(m) /\ \A s : Recorded(m, s)' = Recorded(m, s)
  BY DEF RecordedAtAll, Recorded, TestsOf
<1>3. CommitSumsExact'
  BY <1>1, <1>2 DEF RollupInvariant, CommitSumsExact, CheckoutsOf
<1>4. ASSUME NEW m
      PROVE  Cardinality(Seen(m))' <= Cardinality(Seen(m))
  <2> DEFINE after == {t \in TestsOf(m) : counted'[t] # NoRow \/ Held(t)'}
  <2>1. Seen(m)' = after
    BY DEF Seen, TestsOf
  <2>2. after \subseteq Seen(m)
    BY DEF Seen, TestsOf
  <2>3. Cardinality(after) <= Cardinality(Seen(m))
    <3> HIDE DEF after
    <3> QED BY <2>2, RecordedType, CardinalityNotGreater
  <2> QED BY <2>1, <2>3
<1>5. \A m : /\ Cardinality(Seen(m)) \in Nat /\ Cardinality(Seen(m))' \in Nat
             /\ CommitSum(m, "total") \in Int
  <2>1. \A m : Seen(m)' \subseteq RollupTests
    BY DEF Seen, TestsOf
  <2>2. \A m : Cardinality(Seen(m))' \in Nat
    BY <2>1, TestsFinite
  <2> QED BY <2>2, RecordedType, SumsType DEF RollupInvariant
<1>6. AddedUp'
  <2> SUFFICES ASSUME NEW m \in RollupCommits, OneCheckout(m)
               PROVE  /\ CommitSum(m, "total")' >= Cardinality(Seen(m))'
                      /\ \A s \in Known : KnownSum(m, s)' >= Recorded(m, s)'
    BY DEF AddedUp, OneCheckout, CheckoutsOf
  <2>1. /\ CommitSum(m, "total") >= Cardinality(Seen(m))
        /\ \A s \in Known : KnownSum(m, s) >= Recorded(m, s)
    BY DEF RollupInvariant, AddedUp
  <2>2. CommitSum(m, "total")' >= Cardinality(Seen(m))'
    BY <1>1, <1>4, <1>5, <2>1
  <2> QED BY <1>1, <1>2, <2>1, <2>2
<1> QED BY <1>3, <1>6

(* A batch is counted: a sum that was exact stays so, because both move    *)
(* alike; and the total grows by the tests now seen for the first time.    *)
LEMMA CountRollupBatchSums ==
    ASSUME RollupInvariant, CountRollupBatch
    PROVE  CommitSumsExact' /\ AddedUp'
<1>1. RollupState /\ step = "read"
  BY CountRollupBatchRows DEF RollupInvariant
<1>2. \A m : /\ CommitSum(m, "total")'
                  = CommitSum(m, "total") + Cardinality(OfCommit(Process \ Again, m))
             /\ \A s \in Status :
                  KnownSum(m, s)' = KnownSum(m, s) + Cardinality(OfCommit(Simply(chosen, Process, s), m))
                                    - IF s = Null THEN Cardinality(OfCommit(Again, m)) ELSE 0
             /\ CommitSum(m, "total") \in Int /\ \A s \in Status : KnownSum(m, s) \in Int
  BY <1>1, CountedSums
<1>3. \A m, X : X \subseteq Process =>
          IsFiniteSet(OfCommit(X, m)) /\ Cardinality(OfCommit(X, m)) \in Nat
  <2> SUFFICES ASSUME NEW m, NEW X, X \subseteq Process
               PROVE  IsFiniteSet(OfCommit(X, m)) /\ Cardinality(OfCommit(X, m)) \in Nat
    OBVIOUS
  <2>1. OfCommit(X, m) \subseteq RollupTests
    BY <1>1, ProcessFacts DEF OfCommit
  <2> QED BY <2>1, TestsFinite
<1>4. /\ \A s : Simply(chosen, Process, s) \subseteq Process
      /\ Again \subseteq Process /\ Process \ Again \subseteq Process
  BY DEF Simply, Again
<1>5. Status = Known \union {Null} /\ Null \notin Known
  BY DEF Status, Known, Null
<1>6. ASSUME NEW m \in RollupCommits,
             CheckoutsOf(m) \intersect (populated \union RollupStale) = {}
      PROVE  /\ CommitSum(m, "total")' = RecordedAtAll(m)'
             /\ \A s \in Status : KnownSum(m, s)' = Recorded(m, s)'
  <2>1. /\ CommitSum(m, "total") = RecordedAtAll(m)
        /\ \A s \in Status : KnownSum(m, s) = Recorded(m, s)
    BY <1>6 DEF RollupInvariant, CommitSumsExact
  <2>2. CheckoutsOf(m) \intersect RollupStale = {}
    BY <1>6
  <2>3. /\ \A s \in Known :
             Recorded(m, s)' = Recorded(m, s) + Cardinality(OfCommit(Simply(chosen, Process, s), m))
        /\ Recorded(m, Null)'
             = Recorded(m, Null) + Cardinality(OfCommit(Simply(chosen, Process, Null), m))
               - Cardinality(OfCommit(Again, m))
        /\ RecordedAtAll(m)' = RecordedAtAll(m) + Cardinality(OfCommit(Process \ Again, m))
    BY <1>1, <2>2, RecordedMoves
  <2>4. ASSUME NEW s \in Known PROVE KnownSum(m, s)' = Recorded(m, s)'
    <3> DEFINE n == Cardinality(OfCommit(Simply(chosen, Process, s), m))
    <3>1. n \in Nat /\ KnownSum(m, s) \in Int
      BY <1>2, <1>3, <1>4, <1>5
    <3>2. KnownSum(m, s)' = KnownSum(m, s) + n - 0
      BY <1>2, <1>5
    <3>3. Recorded(m, s)' = Recorded(m, s) + n /\ KnownSum(m, s) = Recorded(m, s)
      BY <1>5, <2>1, <2>3
    <3> HIDE DEF n
    <3> QED BY <3>1, <3>2, <3>3
  <2>5. KnownSum(m, Null)' = Recorded(m, Null)'
    BY <1>2, <1>5, <2>1, <2>3
  <2> QED BY <1>2, <1>5, <2>1, <2>3, <2>4, <2>5
<1>7. CommitSumsExact'
  BY <1>6, CountRollupBatchRows, <1>1 DEF CommitSumsExact, CheckoutsOf
<1>8. ASSUME NEW m
      PROVE  /\ Cardinality(Seen(m))' \in Nat
             /\ Cardinality(Seen(m))'
                  <= Cardinality(Seen(m)) + Cardinality(OfCommit(Process \ Again, m))
  <2> DEFINE after == {t \in TestsOf(m) : counted'[t] # NoRow \/ Held(t)'}
             first == OfCommit(Process \ Again, m)
  <2>1. Seen(m)' = after
    BY DEF Seen, TestsOf
  <2>2. after \subseteq Seen(m) \union first
    <3> SUFFICES ASSUME NEW t \in TestsOf(m), t \in after, t \notin Seen(m)
                 PROVE  t \in first
      OBVIOUS
    <3>1. ~ Held(t)' /\ t \in RollupTests /\ RollupCommitOf[RollupCheckoutOf[t]] = m
      BY <1>1, CountRollupBatchRows DEF Held, TestsOf
    <3>2. counted[t] = NoRow /\ ~ Held(t) /\ counted'[t] # NoRow
      BY <3>1 DEF Seen
    <3>3. t \in Process
      BY <1>1, <3>1, <3>2, CountRollupBatchRows
    <3>4. t \in DOMAIN chosen
      BY <1>1, <3>3, ProcessFacts
    <3>5. existing[t] = NoRow
      BY <1>1, <3>2, <3>4 DEF Held
    <3>6. t \notin Again
      BY <3>5 DEF Again, Null, NoRow
    <3> QED BY <3>1, <3>3, <3>6 DEF OfCommit
  <2>3. IsFiniteSet(first) /\ Cardinality(first) \in Nat
    BY <1>3, <1>4
  <2>4. IsFiniteSet(Seen(m)) /\ Cardinality(Seen(m)) \in Nat
    BY RecordedType
  <2> HIDE DEF after, first
  <2>5. /\ IsFiniteSet(Seen(m) \union first)
        /\ Cardinality(Seen(m) \union first) <= Cardinality(Seen(m)) + Cardinality(first)
    <3>1. /\ IsFiniteSet(Seen(m) \union first)
          /\ Cardinality(Seen(m) \union first)
               = Cardinality(Seen(m)) + Cardinality(first) - Cardinality(Seen(m) \intersect first)
      BY <2>3, <2>4, FS_Union
    <3>2. Cardinality(Seen(m) \intersect first) \in Nat
      BY <2>3, FS_Intersection, FS_CardinalityType
    <3> QED BY <2>3, <2>4, <3>1, <3>2
  <2>6. /\ Cardinality(after) \in Nat /\ Cardinality(Seen(m) \union first) \in Nat
        /\ Cardinality(after) <= Cardinality(Seen(m) \union first)
    BY <2>2, <2>5, CardinalityNotGreater
  <2>7. Cardinality(after) <= Cardinality(Seen(m)) + Cardinality(first)
    BY <2>3, <2>4, <2>5, <2>6
  <2> QED BY <2>1, <2>6, <2>7 DEF first
<1>9. ASSUME NEW m \in RollupCommits, OneCheckout(m)
      PROVE  /\ CommitSum(m, "total")' >= Cardinality(Seen(m))'
             /\ \A s \in Known : KnownSum(m, s)' >= Recorded(m, s)'
  <2>1. /\ CommitSum(m, "total") >= Cardinality(Seen(m))
        /\ \A s \in Known : KnownSum(m, s) >= Recorded(m, s)
    BY <1>9 DEF RollupInvariant, AddedUp
  <2>2. CommitSum(m, "total")' >= Cardinality(Seen(m))'
    <3> DEFINE n == Cardinality(OfCommit(Process \ Again, m))
    <3>1. /\ CommitSum(m, "total")' = CommitSum(m, "total") + n /\ CommitSum(m, "total") \in Int
          /\ Cardinality(Seen(m))' <= Cardinality(Seen(m)) + n
          /\ Cardinality(Seen(m))' \in Nat /\ Cardinality(Seen(m)) \in Nat /\ n \in Nat
      BY <1>2, <1>3, <1>4, <1>8, RecordedType
    <3> HIDE DEF n
    <3> QED BY <2>1, <3>1
  <2>3. ASSUME NEW s \in Known PROVE KnownSum(m, s)' >= Recorded(m, s)'
    <3> DEFINE n == Cardinality(OfCommit(Simply(chosen, Process, s), m))
    <3>1. n \in Nat /\ KnownSum(m, s) \in Int /\ Recorded(m, s) \in Nat
      BY <1>2, <1>3, <1>4, <1>5, RecordedType
    <3>2. KnownSum(m, s)' = KnownSum(m, s) + n - 0
      BY <1>2, <1>5
    <3>3. Recorded(m, s)' = Recorded(m, s) + n
      BY <1>1, RecordedMoves
    <3>4. KnownSum(m, s) >= Recorded(m, s)
      BY <2>1
    <3> HIDE DEF n
    <3> QED BY <3>1, <3>2, <3>3, <3>4
  <2> QED BY <2>2, <2>3
<1>10. AddedUp'
  BY <1>9 DEF AddedUp, OneCheckout, CheckoutsOf
<1> QED BY <1>7, <1>10

(* The rebuild writes: it leaves the other commits alone, and what it puts *)
(* in the place of its own commit's rows counts the tests it records.      *)
LEMMA PopulateWritesSums ==
    ASSUME RollupInvariant, PopulateWrites
    PROVE  CommitSumsExact' /\ AddedUp'
<1> PICK written : written = RollupCommitOf[populating]
  OBVIOUS
<1>1. RollupState /\ step = "idle" /\ step' = "idle"
  BY PopulateWritesFacts DEF RollupInvariant
<1>2. IsTable(rows) /\ IsTable(fresh)
  BY <1>1, PopulateWritesFacts DEF RollupState, RollupTypeOK, Counts, Rows, IsTable
<1>3. populating \in RollupCheckouts
  BY <1>1, PopulateWritesFacts DEF RollupState, RollupTypeOK
<1>4. ASSUME NEW m, m # written
      PROVE  /\ CommitSum(m, "total")' = CommitSum(m, "total")
             /\ \A s \in Status : KnownSum(m, s)' = KnownSum(m, s)
             /\ RecordedAtAll(m)' = RecordedAtAll(m)
             /\ \A s : Recorded(m, s)' = Recorded(m, s)
             /\ Cardinality(Seen(m))' <= Cardinality(Seen(m))
  <2>1. KeysOf(fresh, m) = {}
    BY <1>1, <1>4, ComputedSums
  <2>2. ASSUME NEW c \in Columns PROVE CommitSum(m, c)' = CommitSum(m, c)
    <3>1. /\ DOMAIN rows' = DOMAIN rows \union DOMAIN fresh
          /\ \A k \in DOMAIN rows' :
               rows'[k] = IF k \in DOMAIN fresh THEN fresh[k] ELSE rows[k]
      BY <1>1, PopulateWritesFacts
    <3>2. TableSum(rows', m, c) = TableSum(rows, m, c)
      BY <1>2, <2>1, <3>1, TablesReplaceElsewhere
    <3> QED BY <3>2, CommitSumIsTableSum
  <2>3. {"total", "SKIP", "ERROR", "MISS", "DONE", "PASS", "FAIL", Null} \subseteq Columns
    BY DEF Columns, FullStatus
  <2>4. ASSUME NEW s \in Status PROVE KnownSum(m, s)' = KnownSum(m, s)
    BY <2>2, <2>3 DEF KnownSum, Status, Known
  <2>5. \A t \in TestsOf(m) : counted'[t] = counted[t]
    <3> SUFFICES ASSUME NEW t \in TestsOf(m) PROVE t \in RollupTests /\ t \notin DOMAIN snapshot
      BY <1>1, PopulateWritesFacts
    <3> QED BY <1>1, <1>4, PopulateWritesFacts DEF TestsOf
  <2>6. /\ {t \in TestsOf(m) : counted'[t] # NoRow} = {t \in TestsOf(m) : counted[t] # NoRow}
        /\ \A s : {t \in TestsOf(m) : counted'[t] = s} = {t \in TestsOf(m) : counted[t] = s}
    BY <2>5
  <2>7. /\ RecordedAtAll(m)' = RecordedAtAll(m)
        /\ \A s : Recorded(m, s)' = Recorded(m, s)
    BY <2>6 DEF RecordedAtAll, Recorded, TestsOf
  <2>8. Cardinality(Seen(m))' <= Cardinality(Seen(m))
    <3> DEFINE after == {t \in TestsOf(m) : counted'[t] # NoRow \/ Held(t)'}
    <3>1. Seen(m)' = after
      BY DEF Seen, TestsOf
    <3>2. after \subseteq Seen(m)
      BY <1>1, <2>5 DEF Seen, Held
    <3>3. Cardinality(after) <= Cardinality(Seen(m))
      <4> HIDE DEF after
      <4> QED BY <3>2, RecordedType, CardinalityNotGreater
    <3> QED BY <3>1, <3>3
  <2> QED BY <2>2, <2>3, <2>4, <2>7, <2>8
<1>5. CommitSumsExact'
  <2> SUFFICES ASSUME NEW m \in RollupCommits,
                      CheckoutsOf(m) \intersect (populated' \union RollupStale) = {}
               PROVE  /\ CommitSum(m, "total")' = RecordedAtAll(m)'
                      /\ \A s \in Status : KnownSum(m, s)' = Recorded(m, s)'
    BY DEF CommitSumsExact, CheckoutsOf
  <2>1. m # written
    BY <1>1, <1>3, PopulateWritesFacts DEF CheckoutsOf
  <2>2. CheckoutsOf(m) \intersect (populated \union RollupStale) = {}
    BY <1>1, PopulateWritesFacts
  <2>3. /\ CommitSum(m, "total") = RecordedAtAll(m)
        /\ \A s \in Status : KnownSum(m, s) = Recorded(m, s)
    BY <2>2 DEF RollupInvariant, CommitSumsExact
  <2> QED BY <1>4, <2>1, <2>3
<1>6. ASSUME OneCheckout(written)
      PROVE  /\ CommitSum(written, "total")' >= Cardinality(Seen(written))'
             /\ \A s \in Known : KnownSum(written, s)' >= Recorded(written, s)'
  <2> DEFINE X == DOMAIN snapshot
  <2>1. IsFiniteSet(X) /\ X \subseteq RollupTests
    BY <1>1, PopulateWritesFacts
  <2>2. ASSUME NEW t \in TestsOf(written)
        PROVE  /\ counted'[t] # NoRow => t \in X
               /\ t \in X => counted'[t] = Simplified(snapshot[t].status)
               /\ t \in RollupTests
    <3>1. RollupCheckoutOf[t] = populating /\ t \in RollupTests
      BY <1>3, <1>6, RollupAssumption DEF TestsOf, OneCheckout, CheckoutsOf
    <3> QED BY <1>1, <3>1, PopulateWritesFacts
  <2>3. \A t \in X : t \in TestsOf(written)
    BY <1>1, PopulateWritesFacts DEF TestsOf
  <2>4. OfCommit(X, written) = X
    BY <2>3 DEF OfCommit, TestsOf
  <2>5. ASSUME NEW c \in Columns \ {Null}
        PROVE  /\ CommitSum(written, c)' >= TableSum(fresh, written, c)
               /\ CommitSum(written, c)' \in Int /\ TableSum(fresh, written, c) \in Int
    <3>1. \A k \in DOMAIN rows : rows[k][c] >= 0
      BY <1>1 DEF RollupState, NotNegative
    <3>2. TableSum(rows', written, c) >= TableSum(fresh, written, c)
      BY <1>1, <1>2, <3>1, PopulateWritesFacts, TablesReplace
    <3>3. IsTable(rows')
      BY <1>1, PopulateWritesKeeps DEF RollupState, RollupTypeOK, Counts, Rows, IsTable
    <3>4. TableSum(rows', written, c) \in Int /\ TableSum(fresh, written, c) \in Int
      BY <1>2, <3>3, TableSumType
    <3> QED BY <3>2, <3>4, CommitSumIsTableSum
  <2>6. {"total", "SKIP", "ERROR", "MISS", "DONE", "PASS", "FAIL"} \subseteq Columns \ {Null}
    BY DEF Columns, FullStatus, Null
  <2>7. CommitSum(written, "total")' >= Cardinality(Seen(written))'
    <3> DEFINE after == {t \in TestsOf(written) : counted'[t] # NoRow \/ Held(t)'}
    <3>1. Seen(written)' = after
      BY DEF Seen, TestsOf
    <3>2. after \subseteq X
      BY <1>1, <2>2 DEF Held
    <3>3. /\ Cardinality(after) <= Cardinality(X)
          /\ Cardinality(after) \in Nat /\ Cardinality(X) \in Nat
      <4> HIDE DEF after, X
      <4> QED BY <2>1, <3>2, CardinalityNotGreater
    <3>4. TableSum(fresh, written, "total") = Cardinality(X)
      BY <1>1, <2>4, ComputedSums
    <3> HIDE DEF after, X
    <3> QED BY <2>5, <2>6, <3>1, <3>3, <3>4
  <2> DEFINE w(s) == Cardinality(OfCommit(WithStatus(snapshot, X, s), written))
  <2>8. ASSUME NEW s \in Known
        PROVE  Recorded(written, s)' <= Cardinality(OfCommit(Simply(snapshot, X, s), written))
    <3> DEFINE now == {t \in TestsOf(written) : counted'[t] = s}
               read == OfCommit(Simply(snapshot, X, s), written)
    <3>1. Recorded(written, s)' = Cardinality(now)
      BY DEF Recorded, TestsOf
    <3>2. s # NoRow
      BY DEF Known, NoRow
    <3>3. now \subseteq read
      BY <2>2, <3>2 DEF OfCommit, Simply, TestsOf
    <3>4. IsFiniteSet(read)
      BY <2>1, FS_Subset DEF OfCommit, Simply
    <3> HIDE DEF now, read
    <3>5. Cardinality(now) <= Cardinality(read)
      BY <3>3, <3>4, CardinalityNotGreater
    <3> QED BY <3>1, <3>5 DEF read
  <2>9. /\ \A s \in {"PASS", "FAIL"} : Cardinality(OfCommit(Simply(snapshot, X, s), written)) = w(s)
        /\ Cardinality(OfCommit(Simply(snapshot, X, "INC"), written))
             = w("SKIP") + w("ERROR") + w("MISS") + w("DONE")
    <3>1. \A t \in X : snapshot[t].status \in FullStatus \union {Null}
      BY <1>1, PopulateWritesFacts
    <3> HIDE DEF X
    <3>2. /\ \A s \in {"PASS", "FAIL", Null} : WithStatus(snapshot, X, s) = Simply(snapshot, X, s)
          /\ Cardinality(OfCommit(Simply(snapshot, X, "INC"), written))
               = w("SKIP") + w("ERROR") + w("MISS") + w("DONE")
      BY <2>1, <3>1, SimplyColumns
    <3> QED BY <3>2
  <2>10. \A s \in FullStatus : TableSum(fresh, written, s) = w(s)
    BY <1>1, ComputedSums
  <2>11. ASSUME NEW s \in Known PROVE Recorded(written, s)' \in Int
    <3> DEFINE now == {t \in TestsOf(written) : counted'[t] = s}
    <3>1. Recorded(written, s)' = Cardinality(now)
      BY DEF Recorded, TestsOf
    <3>2. now \subseteq RollupTests
      BY DEF TestsOf
    <3> HIDE DEF now
    <3> QED BY <3>1, <3>2, TestsFinite
  <2>12. ASSUME NEW s \in Known PROVE KnownSum(written, s)' >= Recorded(written, s)'
    <3> HIDE DEF w, X
    <3>1. CASE s = "INC"
      <4>1. /\ CommitSum(written, "SKIP")' >= w("SKIP") /\ CommitSum(written, "ERROR")' >= w("ERROR")
            /\ CommitSum(written, "MISS")' >= w("MISS") /\ CommitSum(written, "DONE")' >= w("DONE")
            /\ CommitSum(written, "SKIP")' \in Int /\ CommitSum(written, "ERROR")' \in Int
            /\ CommitSum(written, "MISS")' \in Int /\ CommitSum(written, "DONE")' \in Int
            /\ w("SKIP") \in Int /\ w("ERROR") \in Int /\ w("MISS") \in Int /\ w("DONE") \in Int
        BY <2>5, <2>6, <2>10 DEF FullStatus
      <4>2. KnownSum(written, s)' = CommitSum(written, "SKIP")' + CommitSum(written, "ERROR")'
                                      + CommitSum(written, "MISS")' + CommitSum(written, "DONE")'
        BY <3>1 DEF KnownSum
      <4>3. Recorded(written, s)' <= w("SKIP") + w("ERROR") + w("MISS") + w("DONE")
        BY <2>8, <2>9, <3>1
      <4> QED BY <2>11, <4>1, <4>2, <4>3
    <3>2. CASE s # "INC"
      <4>1. s \in {"PASS", "FAIL"}
        BY <3>2 DEF Known
      <4>2. CommitSum(written, s)' >= w(s) /\ CommitSum(written, s)' \in Int /\ w(s) \in Int
        BY <2>5, <2>6, <2>10, <4>1 DEF FullStatus
      <4>3. KnownSum(written, s)' = CommitSum(written, s)'
        BY <3>2 DEF KnownSum
      <4>4. Recorded(written, s)' <= w(s)
        BY <2>8, <2>9, <4>1
      <4> QED BY <2>11, <4>2, <4>3, <4>4
    <3> QED BY <3>1, <3>2
  <2> QED BY <2>7, <2>12
<1>7. ASSUME NEW m \in RollupCommits, OneCheckout(m)
      PROVE  /\ CommitSum(m, "total")' >= Cardinality(Seen(m))'
             /\ \A s \in Known : KnownSum(m, s)' >= Recorded(m, s)'
  <2>1. CASE m = written
    BY <1>6, <1>7, <2>1
  <2>2. CASE m # written
    <3>1. /\ CommitSum(m, "total") >= Cardinality(Seen(m))
          /\ \A s \in Known : KnownSum(m, s) >= Recorded(m, s)
      BY <1>7 DEF RollupInvariant, AddedUp
    <3>2. /\ CommitSum(m, "total")' = CommitSum(m, "total")
          /\ \A s \in Status : KnownSum(m, s)' = KnownSum(m, s)
          /\ \A s : Recorded(m, s)' = Recorded(m, s)
          /\ Cardinality(Seen(m))' <= Cardinality(Seen(m))
      BY <1>4, <2>2
    <3>3. /\ Cardinality(Seen(m)) \in Nat /\ CommitSum(m, "total") \in Int
          /\ Cardinality(Seen(m))' \in Nat
      <4>1. Seen(m)' \subseteq RollupTests
        BY DEF Seen, TestsOf
      <4>2. Cardinality(Seen(m))' \in Nat
        BY <4>1, TestsFinite
      <4> QED BY <1>1, <4>2, RecordedType, SumsType
    <3>4. Known \subseteq Status
      BY DEF Status
    <3> QED BY <3>1, <3>2, <3>3, <3>4
  <2> QED BY <2>1, <2>2
<1>8. AddedUp'
  BY <1>7 DEF AddedUp, OneCheckout, CheckoutsOf
<1> QED BY <1>5, <1>8

(* The cleanup forgets: the sums stay, fewer tests are recorded, and none  *)
(* of a commit whose checkouts are all the latest of their trees.          *)
LEMMA ForgetStaleSums ==
    ASSUME RollupInvariant, ForgetStale
    PROVE  CommitSumsExact' /\ AddedUp'
<1>1. /\ RollupState
      /\ UNCHANGED <<rows, step, chosen, existing, populated>>
      /\ \A t \in RollupTests :
           \/ counted'[t] = counted[t]
           \/ counted'[t] = NoRow /\ RollupCheckoutOf[t] \in RollupStale
  BY ForgetStaleKeeps DEF RollupInvariant
<1>2. \A m : /\ CommitSum(m, "total")' = CommitSum(m, "total")
             /\ \A s : KnownSum(m, s)' = KnownSum(m, s)
  BY <1>1, SumsStay
<1>3. ASSUME NEW m, CheckoutsOf(m) \intersect RollupStale = {}
      PROVE  RecordedAtAll(m)' = RecordedAtAll(m) /\ \A s : Recorded(m, s)' = Recorded(m, s)
  <2>1. \A t \in TestsOf(m) : t \in RollupTests /\ RollupCheckoutOf[t] \notin RollupStale
    BY <1>3, RollupAssumption DEF TestsOf, CheckoutsOf
  <2>2. \A t \in TestsOf(m) : counted'[t] = counted[t]
    BY <1>1, <2>1
  <2>3. /\ {t \in TestsOf(m) : counted'[t] # NoRow} = {t \in TestsOf(m) : counted[t] # NoRow}
        /\ \A s : {t \in TestsOf(m) : counted'[t] = s} = {t \in TestsOf(m) : counted[t] = s}
    BY <2>2
  <2> QED BY <2>3 DEF RecordedAtAll, Recorded, TestsOf
<1>4. CommitSumsExact'
  <2> SUFFICES ASSUME NEW m \in RollupCommits,
                      CheckoutsOf(m) \intersect (populated \union RollupStale) = {}
               PROVE  /\ CommitSum(m, "total")' = RecordedAtAll(m)'
                      /\ \A s \in Status : KnownSum(m, s)' = Recorded(m, s)'
    BY <1>1 DEF CommitSumsExact, CheckoutsOf
  <2>1. CheckoutsOf(m) \intersect RollupStale = {}
    OBVIOUS
  <2>2. /\ CommitSum(m, "total") = RecordedAtAll(m)
        /\ \A s \in Status : KnownSum(m, s) = Recorded(m, s)
    BY DEF RollupInvariant, CommitSumsExact
  <2> QED BY <1>2, <1>3, <2>1, <2>2
<1>5. ASSUME NEW m
      PROVE  /\ Cardinality(Seen(m))' \in Nat
             /\ Cardinality(Seen(m))' <= Cardinality(Seen(m))
  <2> DEFINE after == {t \in TestsOf(m) : counted'[t] # NoRow \/ Held(t)'}
  <2>1. Seen(m)' = after
    BY DEF Seen, TestsOf
  <2>2. after \subseteq Seen(m)
    <3>1. \A t \in TestsOf(m) : t \in RollupTests
      BY DEF TestsOf
    <3> QED BY <1>1, <3>1 DEF Seen, Held
  <2> HIDE DEF after
  <2>3. Cardinality(after) \in Nat /\ Cardinality(after) <= Cardinality(Seen(m))
    BY <2>2, RecordedType, CardinalityNotGreater
  <2> QED BY <2>1, <2>3
<1>6. Known \subseteq Row /\ NoRow \notin Known
  BY DEF Known, Row, Status, NoRow
<1>7. ASSUME NEW m, NEW s \in Known
      PROVE  Recorded(m, s)' \in Nat /\ Recorded(m, s)' <= Recorded(m, s)
  <2> DEFINE now == {t \in TestsOf(m) : counted[t] = s}
             after == {t \in TestsOf(m) : counted'[t] = s}
  <2>1. Recorded(m, s) = Cardinality(now) /\ Recorded(m, s)' = Cardinality(after)
    BY DEF Recorded, TestsOf
  <2>2. after \subseteq now /\ now \subseteq RollupTests
    BY <1>1, <1>6 DEF TestsOf
  <2> HIDE DEF now, after
  <2>3. IsFiniteSet(now)
    BY <2>2, TestsFinite
  <2>4. Cardinality(after) \in Nat /\ Cardinality(after) <= Cardinality(now)
    BY <2>2, <2>3, CardinalityNotGreater
  <2> QED BY <2>1, <2>4
<1>8. AddedUp'
  <2> SUFFICES ASSUME NEW m \in RollupCommits, OneCheckout(m)
               PROVE  /\ CommitSum(m, "total")' >= Cardinality(Seen(m))'
                      /\ \A s \in Known : KnownSum(m, s)' >= Recorded(m, s)'
    BY DEF AddedUp, OneCheckout, CheckoutsOf
  <2>1. /\ CommitSum(m, "total") >= Cardinality(Seen(m))
        /\ \A s \in Known : KnownSum(m, s) >= Recorded(m, s)
    BY DEF RollupInvariant, AddedUp
  <2>2. CommitSum(m, "total")' >= Cardinality(Seen(m))'
    <3>1. CommitSum(m, "total") \in Int /\ Cardinality(Seen(m)) \in Nat
      BY <1>1, SumsType, RecordedType
    <3> QED BY <1>2, <1>5, <2>1, <3>1
  <2>3. ASSUME NEW s \in Known PROVE KnownSum(m, s)' >= Recorded(m, s)'
    <3>1. KnownSum(m, s) \in Int /\ Recorded(m, s) \in Nat /\ KnownSum(m, s) >= Recorded(m, s)
      BY <1>1, <2>1, SumsType, RecordedType DEF Status
    <3>2. /\ Recorded(m, s)' \in Nat /\ Recorded(m, s)' <= Recorded(m, s)
          /\ KnownSum(m, s)' = KnownSum(m, s)
      BY <1>2, <1>7
    <3> QED BY <3>1, <3>2
  <2> QED BY <2>2, <2>3
<1> QED BY <1>4, <1>8

-----------------------------------------------------------------------------
LEMMA NextRollupInvariant == RollupInvariant /\ [RollupNext]_rollupVars => RollupInvariant'
<1> SUFFICES ASSUME RollupInvariant, [RollupNext]_rollupVars
             PROVE  RollupInvariant'
  OBVIOUS
<1>1. RollupState
  BY DEF RollupInvariant
<1>2. ASSUME UNCHANGED <<rows, counted, populated>>, UNCHANGED <<step, chosen, existing>>, RollupState'
      PROVE  RollupInvariant'
  <2>1. \A t \in RollupTests : Held(t)' => Held(t)
    BY <1>2 DEF Held
  <2>2. CommitSumsExact' /\ AddedUp'
    BY <1>2, <2>1, NothingWritten
  <2> QED BY <1>2, <2>2 DEF RollupInvariant
<1>3. ASSUME NEW t \in RollupTests, IngestTest(t) PROVE RollupInvariant'
  BY <1>1, <1>2, <1>3, IngestTestKeeps
<1>4. ASSUME NEW t \in RollupTests, IngestIncident(t) PROVE RollupInvariant'
  BY <1>1, <1>2, <1>4, IngestIncidentKeeps
<1>5. CASE ReadRollupBatch
  <2>1. UNCHANGED <<rows, counted, populated>>
    BY <1>5 DEF ReadRollupBatch, rollupTables, populate
  <2>2. \A t \in RollupTests : Held(t)' => counted[t] # NoRow
    BY <1>5 DEF ReadRollupBatch, Held
  <2>3. CommitSumsExact' /\ AddedUp'
    BY <2>1, <2>2, NothingWritten
  <2> QED BY <1>1, <1>5, <2>3, ReadRollupBatchKeeps DEF RollupInvariant
<1>6. CASE CountRollupBatch
  BY <1>1, <1>6, CountRollupBatchKeeps, CountRollupBatchSums DEF RollupInvariant
<1>7. CASE DeleteRollupBatch \/ StopAggregator
  <2>1. RollupState' /\ UNCHANGED <<rows, counted, populated>> /\ step' = "idle"
    BY <1>1, <1>7, BatchEndsKeeps
  <2>2. \A t \in RollupTests : ~ Held(t)'
    BY <2>1 DEF Held
  <2>3. CommitSumsExact' /\ AddedUp'
    BY <2>1, <2>2, NothingWritten
  <2> QED BY <2>1, <2>3 DEF RollupInvariant
<1>8. ASSUME NEW c \in RollupCheckouts, ReadSource(c) PROVE RollupInvariant'
  BY <1>1, <1>2, <1>8, ReadSourceKeeps
<1>9. CASE ReadIssues
  BY <1>1, <1>2, <1>9, ReadIssuesKeeps
<1>10. CASE PopulateWrites
  BY <1>1, <1>10, PopulateWritesKeeps, PopulateWritesSums DEF RollupInvariant
<1>11. CASE PopulateFails
  BY <1>1, <1>2, <1>11, PopulateFailsKeeps
<1>12. CASE ForgetStale
  BY <1>1, <1>12, ForgetStaleKeeps, ForgetStaleSums DEF RollupInvariant
<1>13. CASE UNCHANGED rollupVars
  <2>1. UNCHANGED <<tests, queue, firstIssue, populating, snapshot, fresh, inputs>>
        /\ UNCHANGED <<rows, counted, populated>> /\ UNCHANGED <<step, chosen, existing>>
    BY <1>13 DEF rollupVars, rollupTables, rollupBatch, populate
  <2>2. RollupState'
    BY <1>1, <2>1 DEF RollupState, RollupTypeOK, Counts, Alone, ReadAsCounted, Rebuilding,
                      Computed, Ingested, NotNegative, Rows
  <2> QED BY <1>2, <2>1, <2>2
<1> QED
  BY <1>3, <1>4, <1>5, <1>6, <1>7, <1>8, <1>9, <1>10, <1>11, <1>12, <1>13 DEF RollupNext

(* Whatever the aggregator, the rebuild and the cleanup do, and whenever   *)
(* the aggregator dies, the invariant of the sums holds.                   *)
THEOREM RollupInvariantAlways == RollupSpec => []RollupInvariant
<1>1. RollupInit => RollupInvariant
  BY InitRollupInvariant
<1>2. RollupInvariant /\ [RollupNext]_rollupVars => RollupInvariant'
  BY NextRollupInvariant
<1> QED BY <1>1, <1>2, PTL DEF RollupSpec

(* A commit that only the aggregator has written shows, in every column,   *)
(* exactly the tests recorded (_process_tests_rollup_batch), for any       *)
(* number of tests, checkouts, places and issues.                          *)
THEOREM CommitSumsExactAlways == RollupSpec => []CommitSumsExact
<1>1. RollupInvariant => CommitSumsExact
  BY DEF RollupInvariant
<1> QED BY <1>1, RollupInvariantAlways, PTL

LEMMA SeenAreSummed == RollupInvariant => RecordedIsSummed
<1> SUFFICES ASSUME RollupInvariant, NEW m \in RollupCommits,
                    \A c, d \in CheckoutsOf(m) : c = d
             PROVE  /\ CommitSum(m, "total") >= RecordedAtAll(m)
                    /\ \A s \in Known : KnownSum(m, s) >= Recorded(m, s)
  BY DEF RecordedIsSummed
<1>1. /\ CommitSum(m, "total") >= Cardinality(Seen(m))
      /\ \A s \in Known : KnownSum(m, s) >= Recorded(m, s)
  BY DEF RollupInvariant, AddedUp, OneCheckout
<1>2. /\ CommitSum(m, "total") \in Int /\ Cardinality(Seen(m)) \in Nat
      /\ RecordedAtAll(m) \in Nat /\ RecordedAtAll(m) <= Cardinality(Seen(m))
  BY SumsType, RecordedType DEF RollupInvariant
<1> QED BY <1>1, <1>2

(* Whatever is recomputed or forgotten, a recorded test is in the sums of  *)
(* a commit of one checkout (populate_tree_tests_rollup,                   *)
(* delete_unused_hardware_status).                                         *)
THEOREM RecordedIsSummedAlways == RollupSpec => []RecordedIsSummed
BY SeenAreSummed, RollupInvariantAlways, PTL
=============================================================================
