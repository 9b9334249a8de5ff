------------------------- MODULE FiniteSums_proofs -------------------------
(***************************************************************************)
(* Sums over finite sets (MapThenSumSet of FiniteSetsExt): what the        *)
(* budgets of Envelope and the pool of BlockWindow are counted with.       *)
(*                                                                         *)
(* The fold is a function defined by recursion over the subsets of the     *)
(* set.  That it exists, that it does not depend on the order in which it  *)
(* takes the elements, and that it grows with the set and with the         *)
(* function, are all shown from a subset of the set that is minimal among  *)
(* those for which it would fail.                                          *)
(***************************************************************************)
EXTENDS Integers, FiniteSets, FiniteSetsExt, FiniteSetTheorems, WellFoundedInduction, TLAPS

SumOf(f, S) == MapThenSumSet(LAMBDA x : f[x], S)

(* The element the fold takes first, and the set left.                     *)
Taken(s) == CHOOSE x \in s : TRUE
Rest(s)  == s \ {Taken(s)}

(* The fold's function over the subsets of S.                              *)
Folds(g, f, S) == g = [s \in SUBSET S |-> IF s = {} THEN 0 ELSE f[Taken(s)] + g[Rest(s)]]
Fold(f, S) == CHOOSE g : Folds(g, f, S)

-----------------------------------------------------------------------------
(* Of the subsets of a finite set, any collection has a minimal one.       *)
LEMMA MinimalSubset ==
  ASSUME NEW S, IsFiniteSet(S), NEW Bad, Bad \subseteq SUBSET S, Bad # {}
  PROVE  \E T \in Bad : \A U \in SUBSET T : U # T => U \notin Bad
<1>1. Bad \subseteq FiniteSubsetsOf(S)
  BY FS_FiniteSubsetsOfFinite
<1>2. PICK T \in Bad : \A U \in Bad : ~ (<<U, T>> \in StrictSubsetOrdering(S))
  BY <1>1, FS_StrictSubsetOrderingWellFounded, WFMin
<1>3. ASSUME NEW U \in SUBSET T, U # T PROVE U \notin Bad
  <2>1. T \in SUBSET S /\ U \in SUBSET S
    BY <1>2
  <2> QED BY <1>2, <1>3, <2>1 DEF StrictSubsetOrdering
<1> QED BY <1>2, <1>3

(* An element can be taken from a set that has one.                        *)
LEMMA RestIsLess == ASSUME NEW s, s # {} PROVE Taken(s) \in s /\ Rest(s) \subseteq s /\ Rest(s) # s
BY DEF Taken, Rest

(* A function that folds over a set does what the fold says at each of its *)
(* subsets.                                                                *)
LEMMA FoldAt ==
  ASSUME NEW f, NEW S, NEW g, Folds(g, f, S), NEW s \in SUBSET S
  PROVE  g[s] = IF s = {} THEN 0 ELSE f[Taken(s)] + g[Rest(s)]
BY DEF Folds

(* Two functions that fold over sets with a subset in common agree on it.  *)
LEMMA FoldsAgree ==
  ASSUME NEW f, NEW S, IsFiniteSet(S), NEW U \in SUBSET S, NEW V \in SUBSET S,
         NEW g, Folds(g, f, U), NEW h, Folds(h, f, V)
  PROVE  \A s \in SUBSET (U \cap V) : g[s] = h[s]
<1> DEFINE Bad == {s \in SUBSET (U \cap V) : g[s] # h[s]}
<1> SUFFICES ASSUME Bad # {} PROVE FALSE
  OBVIOUS
<1>0. Bad \subseteq SUBSET S
  OBVIOUS
<1> HIDE DEF Bad
<1>2. PICK T \in Bad : \A W \in SUBSET T : W # T => W \notin Bad
  BY <1>0, MinimalSubset
<1> USE DEF Bad
<1>3. T \in SUBSET U /\ T \in SUBSET V
  OBVIOUS
<1>4. CASE T = {}
  BY <1>2, <1>3, <1>4, FoldAt
<1>5. CASE T # {}
  <2>1. Rest(T) \in SUBSET (U \cap V) /\ Rest(T) \in SUBSET T /\ Rest(T) # T
    BY <1>2, <1>5, RestIsLess
  <2>2. g[Rest(T)] = h[Rest(T)]
    BY <1>2, <2>1
  <2>3. g[T] = f[Taken(T)] + g[Rest(T)] /\ h[T] = f[Taken(T)] + h[Rest(T)]
    BY <1>3, <1>5, FoldAt
  <2> QED BY <1>2, <2>2, <2>3
<1> QED BY <1>4, <1>5

(* There is one for a finite set: the one that CHOOSE finds.               *)
LEMMA FoldExists == ASSUME NEW f, NEW S, IsFiniteSet(S) PROVE Folds(Fold(f, S), f, S)
<1> DEFINE Bad == {T \in SUBSET S : ~ Folds(Fold(f, T), f, T)}
<1> SUFFICES ASSUME Bad # {} PROVE FALSE
  OBVIOUS
<1>0. Bad \subseteq SUBSET S
  OBVIOUS
<1> HIDE DEF Bad
<1>1. PICK T \in Bad : \A U \in SUBSET T : U # T => U \notin Bad
  BY <1>0, MinimalSubset
<1> USE DEF Bad
<1>2. ASSUME NEW U \in SUBSET T, U # T PROVE Folds(Fold(f, U), f, U)
  BY <1>1, <1>2
<1> DEFINE h == [s \in SUBSET T |-> IF s = {} THEN 0 ELSE f[Taken(s)] + Fold(f, Rest(s))[Rest(s)]]
<1>3. ASSUME NEW s \in SUBSET T, s # {} PROVE Fold(f, Rest(s))[Rest(s)] = h[Rest(s)]
  <2>1. Rest(s) \in SUBSET T /\ Rest(s) # T
    BY <1>3, RestIsLess
  <2>2. Folds(Fold(f, Rest(s)), f, Rest(s))
    BY <1>2, <2>1
  <2>3. CASE Rest(s) = {}
    BY <2>1, <2>2, <2>3, FoldAt
  <2>4. CASE Rest(s) # {}
    <3>1. /\ Rest(Rest(s)) \in SUBSET Rest(s) /\ Rest(Rest(s)) \in SUBSET T /\ Rest(Rest(s)) # T
      BY <2>1, <2>4, RestIsLess
    <3>2. Folds(Fold(f, Rest(Rest(s))), f, Rest(Rest(s)))
      BY <1>2, <3>1
    <3>3. Rest(s) \in SUBSET S /\ Rest(Rest(s)) \in SUBSET S
      BY <2>1, <3>1
    <3>4. Fold(f, Rest(s))[Rest(Rest(s))] = Fold(f, Rest(Rest(s)))[Rest(Rest(s))]
      BY <2>2, <3>1, <3>2, <3>3, FoldsAgree
    <3>5. Fold(f, Rest(s))[Rest(s)] = f[Taken(Rest(s))] + Fold(f, Rest(s))[Rest(Rest(s))]
      BY <2>2, <2>4, FoldAt
    <3>6. h[Rest(s)] = f[Taken(Rest(s))] + Fold(f, Rest(Rest(s)))[Rest(Rest(s))]
      BY <2>1, <2>4
    <3> QED BY <3>4, <3>5, <3>6
  <2> QED BY <2>3, <2>4
<1>4. Folds(h, f, T)
  BY <1>3 DEF Folds
<1> HIDE DEF h
<1>5. Folds(Fold(f, T), f, T)
  BY <1>4 DEF Fold
<1> QED BY <1>1, <1>5

(* The sum is what the fold over the set gives.                            *)
LEMMA SumIsFold == ASSUME NEW f, NEW S PROVE SumOf(f, S) = Fold(f, S)[S]
BY DEF SumOf, MapThenSumSet, MapThenFoldSet, Fold, Folds, Taken, Rest

-----------------------------------------------------------------------------
(* The sums.                                                               *)

(* An empty sum.                                                           *)
LEMMA SumOfNone == ASSUME NEW f PROVE SumOf(f, {}) = 0
<1>1. IsFiniteSet({})
  BY FS_EmptySet
<1>2. Folds(Fold(f, {}), f, {})
  BY <1>1, FoldExists
<1> QED BY <1>2, SumIsFold, FoldAt

(* A sum is the element the fold takes, and the sum of the rest.           *)
LEMMA SumTakes ==
  ASSUME NEW f, NEW S, IsFiniteSet(S), S # {}
  PROVE  SumOf(f, S) = f[Taken(S)] + SumOf(f, Rest(S))
<1>1. Rest(S) \in SUBSET S
  BY RestIsLess
<1>2. IsFiniteSet(Rest(S))
  BY <1>1, FS_Subset
<1>3. Folds(Fold(f, S), f, S) /\ Folds(Fold(f, Rest(S)), f, Rest(S))
  BY <1>2, FoldExists
<1>4. Fold(f, S)[Rest(S)] = Fold(f, Rest(S))[Rest(S)]
  BY <1>1, <1>3, FoldsAgree
<1>5. Fold(f, S)[S] = f[Taken(S)] + Fold(f, S)[Rest(S)]
  BY <1>3, FoldAt
<1> QED BY <1>4, <1>5, SumIsFold

(* A sum of naturals is one.                                               *)
LEMMA SumType ==
  ASSUME NEW f, NEW S, IsFiniteSet(S), \A x \in S : f[x] \in Nat
  PROVE  SumOf(f, S) \in Nat
<1> DEFINE Bad == {T \in SUBSET S : SumOf(f, T) \notin Nat}
<1> SUFFICES ASSUME Bad # {} PROVE FALSE
  OBVIOUS
<1>0. Bad \subseteq SUBSET S
  OBVIOUS
<1> HIDE DEF Bad
<1>1. PICK T \in Bad : \A U \in SUBSET T : U # T => U \notin Bad
  BY <1>0, MinimalSubset
<1> USE DEF Bad
<1>2. CASE T = {}
  BY <1>1, <1>2, SumOfNone
<1>3. CASE T # {}
  <2>1. Rest(T) \in SUBSET T /\ Rest(T) # T /\ Rest(T) \in SUBSET S /\ f[Taken(T)] \in Nat
    BY <1>1, <1>3, RestIsLess
  <2>2. SumOf(f, Rest(T)) \in Nat
    BY <1>1, <2>1
  <2>3. SumOf(f, T) = f[Taken(T)] + SumOf(f, Rest(T))
    BY <1>1, <1>3, FS_Subset, SumTakes
  <2> QED BY <1>1, <2>1, <2>2, <2>3
<1> QED BY <1>2, <1>3

(* In whatever order the elements are taken.                               *)
LEMMA SumSplits ==
  ASSUME NEW f, NEW S, IsFiniteSet(S), \A x \in S : f[x] \in Nat, NEW x \in S
  PROVE  SumOf(f, S) = f[x] + SumOf(f, S \ {x})
<1> DEFINE Bad == {T \in SUBSET S : \E y \in T : SumOf(f, T) # f[y] + SumOf(f, T \ {y})}
<1> SUFFICES ASSUME Bad # {} PROVE FALSE
  OBVIOUS
<1>0. Bad \subseteq SUBSET S
  OBVIOUS
<1> HIDE DEF Bad
<1>1. PICK T \in Bad : \A U \in SUBSET T : U # T => U \notin Bad
  BY <1>0, MinimalSubset
<1> USE DEF Bad
<1>2. PICK y \in T : SumOf(f, T) # f[y] + SumOf(f, T \ {y})
  BY <1>1
<1>3. T \in SUBSET S /\ IsFiniteSet(T)
  BY <1>1, FS_Subset
<1>4. SumOf(f, T) = f[Taken(T)] + SumOf(f, Rest(T)) /\ Taken(T) \in T
  BY <1>2, <1>3, SumTakes, RestIsLess
<1>5. y # Taken(T)
  BY <1>2, <1>4 DEF Rest
<1>6. SumOf(f, Rest(T)) = f[y] + SumOf(f, Rest(T) \ {y})
  <2>1. Rest(T) \in SUBSET T /\ Rest(T) # T /\ y \in Rest(T)
    BY <1>2, <1>5, RestIsLess DEF Rest
  <2> QED BY <1>1, <1>3, <2>1
<1>7. SumOf(f, T \ {y}) = f[Taken(T)] + SumOf(f, (T \ {y}) \ {Taken(T)})
  <2>1. T \ {y} \in SUBSET T /\ T \ {y} # T /\ Taken(T) \in T \ {y}
    BY <1>2, <1>4, <1>5
  <2> QED BY <1>1, <1>3, <2>1
<1>8. Rest(T) \ {y} = (T \ {y}) \ {Taken(T)}
  BY DEF Rest
<1>9. f[y] \in Nat /\ f[Taken(T)] \in Nat /\ SumOf(f, Rest(T) \ {y}) \in Nat
  <2>1. Rest(T) \ {y} \in SUBSET S
    BY <1>3 DEF Rest
  <2>2. IsFiniteSet(Rest(T) \ {y}) /\ \A z \in Rest(T) \ {y} : f[z] \in Nat
    BY <2>1, FS_Subset
  <2> QED BY <1>2, <1>3, <1>4, <2>2, SumType
<1> QED BY <1>2, <1>4, <1>6, <1>7, <1>8, <1>9

(* Arithmetic.                                                             *)
LEMMA AddsUp ==
  ASSUME NEW a \in Nat, NEW b \in Nat, NEW c \in Nat, NEW d \in Nat, a <= c, b <= d
  PROVE  a + b <= c + d /\ b <= c + d
OBVIOUS

(* A larger function over a larger set.                                    *)
LEMMA SumGrows ==
  ASSUME NEW f, NEW g, NEW S, IsFiniteSet(S), NEW U \in SUBSET S,
         \A x \in U : f[x] \in Nat, \A x \in S : g[x] \in Nat,
         \A x \in U : f[x] <= g[x]
  PROVE  SumOf(f, U) <= SumOf(g, S)
<1> DEFINE Bad == {T \in SUBSET S : ~ (SumOf(f, U \cap T) <= SumOf(g, T))}
<1> SUFFICES ASSUME Bad # {} PROVE FALSE
  <2>1. U \cap S = U
    OBVIOUS
  <2> QED BY <2>1
<1>0. Bad \subseteq SUBSET S
  OBVIOUS
<1> HIDE DEF Bad
<1>1. PICK T \in Bad : \A W \in SUBSET T : W # T => W \notin Bad
  BY <1>0, MinimalSubset
<1> USE DEF Bad
<1>2. T \in SUBSET S /\ IsFiniteSet(T) /\ IsFiniteSet(U \cap T)
  BY <1>1, FS_Subset
<1>3. CASE T = {}
  <2>1. U \cap T = {}
    BY <1>3
  <2> QED BY <1>1, <1>3, <2>1, SumOfNone
<1>4. CASE T # {}
  <2>1. PICK x \in T : TRUE
    BY <1>4
  <2>2. SumOf(g, T) = g[x] + SumOf(g, T \ {x})
    BY <1>2, SumSplits
  <2>3. SumOf(f, U \cap (T \ {x})) <= SumOf(g, T \ {x})
    <3>1. T \ {x} \in SUBSET T /\ T \ {x} # T
      BY <2>1
    <3> QED BY <1>1, <1>2, <3>1
  <2>4. g[x] \in Nat /\ SumOf(g, T \ {x}) \in Nat /\ SumOf(f, U \cap (T \ {x})) \in Nat
    <3>1. IsFiniteSet(T \ {x}) /\ IsFiniteSet(U \cap (T \ {x}))
      BY <1>2, FS_Subset
    <3> QED BY <1>2, <3>1, SumType
  <2> SUFFICES SumOf(f, U \cap T) <= SumOf(g, T)
    BY <1>1
  <2> HIDE DEF Bad
  <2>5. CASE x \in U
    <3>1. SumOf(f, U \cap T) = f[x] + SumOf(f, (U \cap T) \ {x})
      BY <1>2, <2>5, SumSplits
    <3>2. (U \cap T) \ {x} = U \cap (T \ {x})
      OBVIOUS
    <3>3. f[x] \in Nat /\ f[x] <= g[x]
      BY <2>1, <2>5
    <3>4. f[x] + SumOf(f, U \cap (T \ {x})) <= g[x] + SumOf(g, T \ {x})
      BY <2>3, <2>4, <3>3, AddsUp
    <3> QED BY <2>2, <3>1, <3>2, <3>4, Zenon
  <2>6. CASE x \notin U
    <3>1. U \cap (T \ {x}) = U \cap T
      BY <2>6
    <3>2. SumOf(f, U \cap (T \ {x})) <= g[x] + SumOf(g, T \ {x})
      BY <2>3, <2>4, AddsUp
    <3> QED BY <2>2, <3>1, <3>2, Zenon
  <2> QED BY <2>5, <2>6
<1> QED BY <1>3, <1>4
=============================================================================
