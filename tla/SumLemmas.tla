----------------------------- MODULE SumLemmas -----------------------------
(***************************************************************************)
(* Sums over finite sets: what SumFunctionOnSet of the community modules   *)
(* computes, for any function and any finite set.                          *)
(*                                                                         *)
(* Induction over finite sets is here a fact about a set of good subsets   *)
(* instead of a predicate, and rests on strict inclusion being             *)
(* well-founded.                                                           *)
(***************************************************************************)
EXTENDS Integers, FiniteSets, FiniteSetTheorems, FiniteSetsExt,
        WellFoundedInduction, TLAPS

-----------------------------------------------------------------------------
(* Induction *)

(* Every non-empty set of subsets of a finite set has a minimal one.       *)
LEMMA MinimalSubset ==
    ASSUME NEW S, IsFiniteSet(S), NEW Bad, Bad \subseteq SUBSET S, Bad # {}
    PROVE  \E T \in Bad : \A U \in SUBSET T : U # T => U \notin Bad
<1>1. IsWellFoundedOn(StrictSubsetOrdering(S), FiniteSubsetsOf(S))
  BY FS_StrictSubsetOrderingWellFounded
<1>2. FiniteSubsetsOf(S) = SUBSET S
  BY FS_FiniteSubsetsOfFinite
<1>3. PICK T \in Bad : \A U \in Bad : ~(<<U, T>> \in StrictSubsetOrdering(S))
  BY <1>1, <1>2, WFMin
<1>4. \A U \in SUBSET T : U # T /\ U \in Bad => FALSE
  <2> SUFFICES ASSUME NEW U \in SUBSET T, U # T, U \in Bad PROVE FALSE
    OBVIOUS
  <2>1. <<U, T>> \in StrictSubsetOrdering(S)
    BY DEF StrictSubsetOrdering
  <2> QED BY <2>1, <1>3
<1> QED BY <1>3, <1>4

(* What holds of the empty set and is kept when an element is added holds  *)
(* of every finite set.                                                    *)
LEMMA SetInduction ==
    ASSUME NEW S, IsFiniteSet(S), NEW Good,
           {} \in Good,
           \A T \in SUBSET S, x \in S : T \in Good /\ x \notin T => T \cup {x} \in Good
    PROVE  S \in Good
<1> SUFFICES ASSUME S \notin Good PROVE FALSE
  OBVIOUS
<1> DEFINE Bad == (SUBSET S) \ Good
<1>1. Bad # {} /\ Bad \subseteq SUBSET S
  OBVIOUS
<1>2. PICK T \in Bad : \A U \in SUBSET T : U # T => U \notin Bad
  <2> HIDE DEF Bad
  <2> QED BY <1>1, MinimalSubset
<1>3. PICK x : x \in T
  BY <1>2
<1> DEFINE U == T \ {x}
<1>4. U \in SUBSET S /\ U # T /\ x \notin U /\ U \cup {x} = T /\ x \in S
  BY <1>2, <1>3
<1>5. U \in Good
  BY <1>2, <1>4
<1>6. T \in Good
  BY <1>4, <1>5
<1> QED BY <1>2, <1>6

-----------------------------------------------------------------------------
(* The fold *)

Sum(f, S) == SumFunctionOnSet(f, S)

Pick(s) == CHOOSE x \in s : TRUE

(* g[s] is what the fold computes for each subset s of S.                  *)
IsFold(g, f, S) ==
    /\ g = [s \in SUBSET S |-> g[s]]
    /\ g[{}] = 0
    /\ \A s \in SUBSET S : s # {} => g[s] = f[Pick(s)] + g[s \ {Pick(s)}]

(* One element of a non-empty set is picked.                               *)
LEMMA PickIn == ASSUME NEW s, s # {} PROVE Pick(s) \in s
BY DEF Pick

(* The fold is unique: on larger and smaller sets it agrees.               *)
LEMMA FoldAgrees ==
    ASSUME NEW f, NEW S, IsFiniteSet(S), NEW T \in SUBSET S,
           NEW g, IsFold(g, f, S), NEW h, IsFold(h, f, T)
    PROVE  \A s \in SUBSET T : h[s] = g[s]
<1> DEFINE Bad == {s \in SUBSET T : h[s] # g[s]}
<1> SUFFICES ASSUME Bad # {} PROVE FALSE
  OBVIOUS
<1>1. IsFiniteSet(T)
  BY FS_Subset
<1>2. PICK s \in Bad : \A U \in SUBSET s : U # s => U \notin Bad
  <2>1. Bad \subseteq SUBSET T
    OBVIOUS
  <2> HIDE DEF Bad
  <2> QED BY <1>1, <2>1, MinimalSubset
<1>3. s # {}
  BY <1>2 DEF IsFold
<1>4. Pick(s) \in s
  BY <1>3, PickIn
<1>5. s \ {Pick(s)} \in SUBSET T /\ s \ {Pick(s)} \notin Bad
  BY <1>2, <1>4
<1>6. h[s] = g[s]
  BY <1>3, <1>5, s \in SUBSET S, s \in SUBSET T DEF IsFold
<1> QED BY <1>2, <1>6

(* The fold exists.                                                        *)
LEMMA FoldExists ==
    ASSUME NEW f, NEW S, IsFiniteSet(S)
    PROVE  \E g : IsFold(g, f, S)
<1> DEFINE Bad == {T \in SUBSET S : ~\E g : IsFold(g, f, T)}
<1> SUFFICES ASSUME Bad # {} PROVE FALSE
  OBVIOUS
<1>1. PICK T \in Bad : \A U \in SUBSET T : U # T => U \notin Bad
  <2>1. Bad \subseteq SUBSET S
    OBVIOUS
  <2> HIDE DEF Bad
  <2> QED BY <2>1, MinimalSubset
<1> DEFINE G(U) == CHOOSE g : IsFold(g, f, U)
<1>2. \A U \in SUBSET T : U # T => IsFold(G(U), f, U)
  BY <1>1
<1> HIDE DEF G, Bad
<1>3. \A U \in SUBSET T : IsFiniteSet(U)
  BY FS_Subset, <1>1 DEF Bad
<1> DEFINE g == [s \in SUBSET T |->
                   IF s = {} THEN 0
                   ELSE IF s = T THEN f[Pick(s)] + G(s \ {Pick(s)})[s \ {Pick(s)}]
                   ELSE G(s)[s]]
<1>4. ASSUME NEW s \in SUBSET T, s # {}
      PROVE  g[s] = f[Pick(s)] + g[s \ {Pick(s)}]
  <2> DEFINE r == s \ {Pick(s)}
  <2>1. r \in SUBSET s /\ r # s /\ r # T /\ r \in SUBSET T
    BY <1>4, PickIn
  <2>2. g[r] = G(r)[r]
    <3>1. r = {} => G(r)[r] = 0
      BY <2>1, <1>2 DEF IsFold
    <3> QED BY <2>1, <3>1
  <2>3. g[s] = f[Pick(s)] + G(r)[r]
    <3>1. CASE s = T
      BY <3>1, <1>4
    <3>2. CASE s # T
      <4>1. IsFold(G(s), f, s) /\ IsFold(G(r), f, r)
        BY <1>2, <2>1, <3>2
      <4>2. G(s)[s] = f[Pick(s)] + G(s)[r]
        BY <4>1, <1>4 DEF IsFold
      <4>3. G(r)[r] = G(s)[r]
        BY <4>1, <2>1, <1>3, FoldAgrees
      <4> QED BY <4>2, <4>3, <3>2, <1>4
    <3> QED BY <3>1, <3>2
  <2> QED BY <2>2, <2>3
<1>5. IsFold(g, f, T)
  <2>1. g[{}] = 0
    OBVIOUS
  <2>2. g = [s \in SUBSET T |-> g[s]]
    OBVIOUS
  <2> HIDE DEF g
  <2> QED BY <1>4, <2>1, <2>2 DEF IsFold
<1> QED BY <1>1, <1>5 DEF Bad

(* SumFunctionOnSet computes it.                                           *)
LEMMA SumFolds ==
    ASSUME NEW f, NEW S, IsFiniteSet(S)
    PROVE  \E g : IsFold(g, f, S) /\ Sum(f, S) = g[S]
<1> DEFINE Def(g) == [s \in SUBSET S |-> IF s = {} THEN 0
                                  ELSE f[Pick(s)] + g[s \ {Pick(s)}]]
           iter == CHOOSE g : g = Def(g)
<1>1. PICK g : IsFold(g, f, S)
  BY FoldExists
<1>2. g = Def(g)
  BY <1>1 DEF IsFold
<1>3. iter = Def(iter)
  BY <1>2
<1>4. Sum(f, S) = iter[S]
  BY DEF Sum, SumFunctionOnSet, FoldFunctionOnSet, MapThenFoldSet, Pick
<1> HIDE DEF iter
<1>5. IsFold(iter, f, S)
  BY <1>3 DEF IsFold
<1> QED BY <1>4, <1>5

-----------------------------------------------------------------------------
(* What a sum is *)

Ints(f, S) == \A x \in S : f[x] \in Int

(* The sum over no element.                                                *)
LEMMA SumEmpty == ASSUME NEW f PROVE Sum(f, {}) = 0
<1>1. IsFiniteSet({})
  BY FS_EmptySet
<1> QED BY <1>1, SumFolds DEF IsFold

(* A picked element and the rest.                                          *)
LEMMA SumPick ==
    ASSUME NEW f, NEW S, IsFiniteSet(S), S # {}
    PROVE  Sum(f, S) = f[Pick(S)] + Sum(f, S \ {Pick(S)})
<1> DEFINE R == S \ {Pick(S)}
<1>1. R \in SUBSET S /\ IsFiniteSet(R)
  BY FS_Subset
<1>2. PICK g : IsFold(g, f, S) /\ Sum(f, S) = g[S]
  BY SumFolds
<1>3. PICK h : IsFold(h, f, R) /\ Sum(f, R) = h[R]
  BY <1>1, SumFolds
<1>4. h[R] = g[R]
  BY <1>1, <1>2, <1>3, FoldAgrees
<1>5. g[S] = f[Pick(S)] + g[R]
  BY <1>2 DEF IsFold
<1> QED BY <1>2, <1>3, <1>4, <1>5

(* A sum of integers is one.                                               *)
LEMMA SumInt ==
    ASSUME NEW f, NEW S, IsFiniteSet(S), Ints(f, S)
    PROVE  Sum(f, S) \in Int
<1> DEFINE Bad == {T \in SUBSET S : Sum(f, T) \notin Int}
<1> SUFFICES ASSUME Bad # {} PROVE FALSE
  OBVIOUS
<1>1. PICK T \in Bad : \A U \in SUBSET T : U # T => U \notin Bad
  <2>1. Bad \subseteq SUBSET S
    OBVIOUS
  <2> HIDE DEF Bad
  <2> QED BY <2>1, MinimalSubset
<1>2. IsFiniteSet(T)
  BY FS_Subset
<1>3. T # {}
  <2>1. Sum(f, {}) = 0
    BY SumEmpty
  <2>2. Sum(f, T) \notin Int
    BY <1>1
  <2> QED BY <2>1, <2>2
<1>4. Pick(T) \in T
  BY <1>3, PickIn
<1>5. Sum(f, T \ {Pick(T)}) \in Int
  BY <1>1, <1>4
<1>6. f[Pick(T)] \in Int
  BY <1>4 DEF Ints
<1>7. Sum(f, T) = f[Pick(T)] + Sum(f, T \ {Pick(T)})
  BY <1>2, <1>3, SumPick
<1> QED BY <1>1, <1>5, <1>6, <1>7

(* Any element and the rest: the order of the fold does not matter.        *)
LEMMA SumTake ==
    ASSUME NEW f, NEW S, IsFiniteSet(S), Ints(f, S), NEW e \in S
    PROVE  Sum(f, S) = f[e] + Sum(f, S \ {e})
<1> DEFINE Bad == {T \in SUBSET S :
                     \E x \in T : Sum(f, T) # f[x] + Sum(f, T \ {x})}
<1> SUFFICES ASSUME Bad # {} PROVE FALSE
  OBVIOUS
<1>1. PICK T \in Bad : \A U \in SUBSET T : U # T => U \notin Bad
  <2>1. Bad \subseteq SUBSET S
    OBVIOUS
  <2> HIDE DEF Bad
  <2> QED BY <2>1, MinimalSubset
<1>2. PICK x \in T : Sum(f, T) # f[x] + Sum(f, T \ {x})
  BY <1>1
<1>3. IsFiniteSet(T) /\ T \in SUBSET S
  BY FS_Subset
<1> DEFINE y == Pick(T)
           R == (T \ {x}) \ {y}
<1>4. y \in T /\ Sum(f, T) = f[y] + Sum(f, T \ {y})
  BY <1>2, <1>3, PickIn, SumPick
<1>5. x # y
  BY <1>2, <1>4
<1>6. Sum(f, T \ {y}) = f[x] + Sum(f, R)
  <2>1. T \ {y} \in SUBSET T /\ T \ {y} # T /\ x \in T \ {y}
    BY <1>4, <1>5
  <2>2. T \ {y} \notin Bad /\ T \ {y} \in SUBSET S
    BY <1>1, <2>1
  <2>3. (T \ {y}) \ {x} = R
    OBVIOUS
  <2> QED BY <2>1, <2>2, <2>3
<1>7. Sum(f, T \ {x}) = f[y] + Sum(f, R)
  <2>1. T \ {x} \in SUBSET T /\ T \ {x} # T /\ y \in T \ {x}
    BY <1>4, <1>5
  <2>2. T \ {x} \notin Bad /\ T \ {x} \in SUBSET S
    BY <1>1, <2>1
  <2> QED BY <2>1, <2>2
<1>8. f[x] \in Int /\ f[y] \in Int
  BY <1>3, <1>4 DEF Ints
<1>9. Sum(f, R) \in Int
  <2>1. R \in SUBSET S /\ IsFiniteSet(R)
    BY <1>3, FS_Subset
  <2> QED BY <2>1, SumInt DEF Ints
<1> HIDE DEF y, R, Bad
<1>10. f[y] + (f[x] + Sum(f, R)) = f[x] + (f[y] + Sum(f, R))
  BY <1>8, <1>9
<1> QED BY <1>2, <1>4, <1>6, <1>7, <1>10

-----------------------------------------------------------------------------
(* How sums compare *)

(* Terms no greater, a sum no greater.                                     *)
LEMMA SumMonotone ==
    ASSUME NEW S, IsFiniteSet(S), NEW f, Ints(f, S), NEW g, Ints(g, S),
           \A x \in S : f[x] <= g[x]
    PROVE  Sum(f, S) <= Sum(g, S)
<1> DEFINE Good == {T \in SUBSET S : Sum(f, T) <= Sum(g, T)}
<1>1. {} \in Good
  BY SumEmpty
<1>2. ASSUME NEW T \in SUBSET S, NEW x \in S, T \in Good, x \notin T
      PROVE  T \cup {x} \in Good
  <2> DEFINE U == T \cup {x}
  <2>1. IsFiniteSet(T) /\ IsFiniteSet(U) /\ U \in SUBSET S
    BY FS_Subset
  <2>2. Ints(f, T) /\ Ints(f, U) /\ Ints(g, T) /\ Ints(g, U)
    BY <2>1 DEF Ints
  <2>3. x \in U /\ U \ {x} = T
    BY <1>2
  <2> HIDE DEF U
  <2>4. Sum(f, U) = f[x] + Sum(f, T) /\ Sum(g, U) = g[x] + Sum(g, T)
    BY <2>1, <2>2, <2>3, SumTake
  <2>5. Sum(f, T) \in Int /\ Sum(g, T) \in Int
    BY <2>1, <2>2, SumInt
  <2>6. f[x] \in Int /\ g[x] \in Int /\ f[x] <= g[x] /\ Sum(f, T) <= Sum(g, T)
    BY <1>2 DEF Ints
  <2>7. Sum(f, U) <= Sum(g, U)
    BY <2>4, <2>5, <2>6
  <2> QED BY <2>1, <2>7 DEF U
<1> HIDE DEF Good
<1>3. S \in Good
  BY <1>1, <1>2, SetInduction
<1> QED BY <1>3 DEF Good

(* Equal terms, equal sums.                                                *)
LEMMA SumSame ==
    ASSUME NEW S, IsFiniteSet(S), NEW f, Ints(f, S), NEW g,
           \A x \in S : f[x] = g[x]
    PROVE  Sum(f, S) = Sum(g, S)
<1>1. Ints(g, S)
  BY DEF Ints
<1>2. \A x \in S : f[x] <= g[x] /\ g[x] <= f[x]
  BY DEF Ints
<1>3. Sum(f, S) <= Sum(g, S) /\ Sum(g, S) <= Sum(f, S)
  BY <1>1, <1>2, SumMonotone
<1>4. Sum(f, S) \in Int /\ Sum(g, S) \in Int
  BY <1>1, SumInt
<1> QED BY <1>3, <1>4

(* A change of one term changes the sum by as much.                        *)
LEMMA SumChange ==
    ASSUME NEW S, IsFiniteSet(S), NEW f, Ints(f, S), NEW g, Ints(g, S),
           NEW e \in S, \A x \in S \ {e} : f[x] = g[x]
    PROVE  Sum(g, S) = Sum(f, S) - f[e] + g[e]
<1> DEFINE R == S \ {e}
<1>1. IsFiniteSet(R) /\ Ints(f, R)
  BY FS_Subset DEF Ints
<1>2. Sum(f, R) = Sum(g, R)
  BY <1>1, SumSame
<1>3. Sum(f, S) = f[e] + Sum(f, R) /\ Sum(g, S) = g[e] + Sum(g, R)
  BY SumTake
<1>4. f[e] \in Int /\ g[e] \in Int /\ Sum(f, R) \in Int
  BY <1>1, SumInt DEF Ints
<1> HIDE DEF R
<1> QED BY <1>2, <1>3, <1>4

(* A sum of numbers that are not negative is no less than any of them.     *)
LEMMA SumNat ==
    ASSUME NEW S, IsFiniteSet(S), NEW f, \A x \in S : f[x] \in Nat
    PROVE  Sum(f, S) \in Nat /\ \A e \in S : f[e] <= Sum(f, S)
<1> DEFINE zero == [x \in S |-> 0]
<1>1. Ints(f, S) /\ Ints(zero, S) /\ \A x \in S : zero[x] <= f[x]
  BY DEF Ints
<1>2. \A T \in SUBSET S : Sum(zero, T) <= Sum(f, T)
  <2> TAKE T \in SUBSET S
  <2>1. IsFiniteSet(T) /\ Ints(f, T) /\ Ints(zero, T) /\ \A x \in T : zero[x] <= f[x]
    BY <1>1, FS_Subset DEF Ints
  <2> QED BY <2>1, SumMonotone
<1> DEFINE Good == {T \in SUBSET S : Sum(zero, T) = 0}
<1>3. \A T \in SUBSET S, x \in S : T \in Good /\ x \notin T => T \cup {x} \in Good
  <2> SUFFICES ASSUME NEW T \in SUBSET S, NEW x \in S, T \in Good, x \notin T
               PROVE  T \cup {x} \in Good
    OBVIOUS
  <2> DEFINE U == T \cup {x}
  <2>1. IsFiniteSet(U) /\ U \in SUBSET S /\ x \in U /\ U \ {x} = T
    BY FS_Subset
  <2>2. Ints(zero, U)
    BY <2>1 DEF Ints
  <2>3. Sum(zero, U) = zero[x] + Sum(zero, U \ {x})
    BY <2>1, <2>2, SumTake
  <2> QED BY <2>1, <2>3
<1>4. {} \in Good
  BY SumEmpty
<1>5. \A T \in SUBSET S : Sum(zero, T) = 0
  <2> TAKE T \in SUBSET S
  <2>1. IsFiniteSet(T)
    BY FS_Subset
  <2>2. \A V \in SUBSET T, x \in T : V \in Good /\ x \notin V => V \cup {x} \in Good
    BY <1>3
  <2> HIDE DEF Good
  <2>3. T \in Good
    BY <2>1, <2>2, <1>4, SetInduction
  <2> QED BY <2>3 DEF Good
<1>6. \A T \in SUBSET S : Sum(f, T) \in Nat
  <2> TAKE T \in SUBSET S
  <2>1. IsFiniteSet(T) /\ Ints(f, T)
    BY <1>1, FS_Subset DEF Ints
  <2>2. Sum(f, T) \in Int
    BY <2>1, SumInt
  <2> QED BY <2>2, <1>2, <1>5
<1>7. ASSUME NEW e \in S PROVE f[e] <= Sum(f, S)
  <2>1. Sum(f, S) = f[e] + Sum(f, S \ {e})
    BY <1>1, SumTake
  <2>2. Sum(f, S \ {e}) \in Nat
    BY <1>6
  <2> QED BY <2>1, <2>2
<1> QED BY <1>6, <1>7

(* Equal terms: their number times one of them.                            *)
LEMMA SumConstant ==
    ASSUME NEW S, IsFiniteSet(S), NEW f, NEW b \in Int, \A x \in S : f[x] = b
    PROVE  Sum(f, S) = b * Cardinality(S)
<1> DEFINE Good == {T \in SUBSET S : Sum(f, T) = b * Cardinality(T)}
<1>1. {} \in Good
  BY SumEmpty, FS_EmptySet
<1>2. ASSUME NEW T \in SUBSET S, NEW x \in S, T \in Good, x \notin T
      PROVE  T \cup {x} \in Good
  <2> DEFINE U == T \cup {x}
  <2>1. IsFiniteSet(T) /\ IsFiniteSet(U) /\ U \in SUBSET S
    BY FS_Subset
  <2>2. Ints(f, U) /\ x \in U /\ U \ {x} = T
    BY <1>2 DEF Ints
  <2>3. Cardinality(U) = Cardinality(T) + 1 /\ Cardinality(T) \in Nat
    BY <1>2, <2>1, FS_AddElement, FS_CardinalityType
  <2> HIDE DEF U
  <2>4. Sum(f, U) = f[x] + Sum(f, T)
    BY <2>1, <2>2, SumTake
  <2>5. b * (Cardinality(T) + 1) = b + b * Cardinality(T)
    BY <2>3
  <2>6. Sum(f, U) = b * Cardinality(U)
    BY <1>2, <2>3, <2>4, <2>5
  <2> QED BY <2>1, <2>6 DEF U
<1> HIDE DEF Good
<1>3. S \in Good
  BY <1>1, <1>2, SetInduction
<1> QED BY <1>3 DEF Good

(* Terms of at most b each sum up to at most b for each element, ...       *)
LEMMA SumBounded ==
    ASSUME NEW S, IsFiniteSet(S), NEW f, Ints(f, S), NEW b \in Int,
           \A x \in S : f[x] <= b
    PROVE  Sum(f, S) <= b * Cardinality(S)
<1> DEFINE g == [x \in S |-> b]
<1>1. Ints(g, S) /\ \A x \in S : f[x] <= g[x] /\ g[x] = b
  BY DEF Ints
<1> HIDE DEF g
<1>2. Sum(f, S) <= Sum(g, S)
  BY <1>1, SumMonotone
<1> QED BY <1>1, <1>2, SumConstant

(* ... terms of at least b to at least that.                               *)
LEMMA SumAtLeast ==
    ASSUME NEW S, IsFiniteSet(S), NEW f, Ints(f, S), NEW b \in Int,
           \A x \in S : b <= f[x]
    PROVE  b * Cardinality(S) <= Sum(f, S)
<1> DEFINE g == [x \in S |-> b]
<1>1. Ints(g, S) /\ \A x \in S : g[x] <= f[x] /\ g[x] = b
  BY DEF Ints
<1> HIDE DEF g
<1>2. Sum(g, S) <= Sum(f, S)
  BY <1>1, SumMonotone
<1> QED BY <1>1, <1>2, SumConstant

-----------------------------------------------------------------------------
(* Greatest, least, mean and number *)

(* A function on a finite set has a greatest value, ...                    *)
LEMMA GreatestExists ==
    ASSUME NEW S, IsFiniteSet(S), S # {}, NEW f, Ints(f, S)
    PROVE  \E x \in S : \A y \in S : f[y] <= f[x]
<1> DEFINE Good == {T \in SUBSET S : T = {} \/ \E x \in T : \A y \in T : f[y] <= f[x]}
<1>1. {} \in Good
  OBVIOUS
<1>2. ASSUME NEW T \in SUBSET S, NEW z \in S, T \in Good, z \notin T
      PROVE  T \cup {z} \in Good
  <2>1. \A y \in S : f[y] \in Int
    BY DEF Ints
  <2>2. CASE T = {}
    BY <2>1, <2>2
  <2>3. CASE T # {}
    <3>1. PICK x \in T : \A y \in T : f[y] <= f[x]
      BY <1>2, <2>3
    <3>2. CASE f[z] <= f[x]
      BY <3>1, <3>2
    <3>3. CASE f[x] <= f[z]
      <4>1. \A y \in T \cup {z} : f[y] <= f[z]
        BY <2>1, <3>1, <3>3
      <4> QED BY <4>1
    <3> QED BY <2>1, <3>2, <3>3
  <2> QED BY <2>2, <2>3
<1> HIDE DEF Good
<1>3. S \in Good
  BY <1>1, <1>2, SetInduction
<1> QED BY <1>3 DEF Good

(* ... which is the Max of its values, ...                                 *)
LEMMA MaxOfValues ==
    ASSUME NEW S, IsFiniteSet(S), S # {}, NEW f, Ints(f, S), NEW D,
           D = {f[x] : x \in S}
    PROVE  Max(D) \in D /\ \A x \in S : f[x] <= Max(D)
<1>1. PICK x \in S : \A y \in S : f[y] <= f[x]
  BY GreatestExists
<1>2. \E d \in D : \A e \in D : d >= e
  BY <1>1 DEF Ints
<1>3. Max(D) \in D /\ \A e \in D : Max(D) >= e
  BY <1>2 DEF Max
<1> QED BY <1>3 DEF Ints

(* ... and a least one.                                                    *)
LEMMA MinOfValues ==
    ASSUME NEW S, IsFiniteSet(S), S # {}, NEW f, Ints(f, S), NEW D,
           D = {f[x] : x \in S}
    PROVE  Min(D) \in D /\ \A x \in S : Min(D) <= f[x]
<1> DEFINE g == [x \in S |-> -f[x]]
<1>1. Ints(g, S)
  BY DEF Ints
<1>2. PICK x \in S : \A y \in S : g[y] <= g[x]
  <2> HIDE DEF g
  <2> QED BY <1>1, GreatestExists
<1>3. \A y \in S : f[x] <= f[y]
  BY <1>2 DEF Ints
<1>4. \E d \in D : \A e \in D : d =< e
  BY <1>3
<1>5. Min(D) \in D /\ \A e \in D : Min(D) =< e
  BY <1>4 DEF Min
<1> QED BY <1>5

(* A finite set of integers has a Max.                                     *)
LEMMA MaxOfSet ==
    ASSUME NEW S, IsFiniteSet(S), S # {}, S \subseteq Int
    PROVE  Max(S) \in S /\ \A x \in S : x <= Max(S)
<1> DEFINE f == [x \in S |-> x]
<1>1. Ints(f, S) /\ S = {f[x] : x \in S} /\ \A x \in S : f[x] = x
  BY DEF Ints
<1> HIDE DEF f
<1> QED BY <1>1, MaxOfValues

(* The integer quotient of what lies between a * c and b * c.              *)
LEMMA QuotientBetween ==
    ASSUME NEW a \in Int, NEW b \in Int, NEW c \in Nat, c > 0, NEW s \in Int,
           a * c <= s, s <= b * c
    PROVE  a <= s \div c /\ s \div c <= b
<1> DEFINE q == s \div c
<1>1. q \in Int /\ q * c <= s /\ s < (q + 1) * c
  OBVIOUS
<1> HIDE DEF q
<1>2. a < q + 1
  BY <1>1
<1>3. q <= b
  BY <1>1
<1> QED BY <1>1, <1>2, <1>3 DEF q

(* The mean lies between the least and the greatest value.                 *)
LEMMA MeanBetween ==
    ASSUME NEW S, IsFiniteSet(S), S # {}, NEW f, Ints(f, S), NEW D,
           D = {f[x] : x \in S}
    PROVE  /\ Min(D) <= Sum(f, S) \div Cardinality(S)
           /\ Sum(f, S) \div Cardinality(S) <= Max(D)
<1>1. Max(D) \in Int /\ \A x \in S : f[x] <= Max(D)
  BY MaxOfValues DEF Ints
<1>2. Min(D) \in Int /\ \A x \in S : Min(D) <= f[x]
  BY MinOfValues DEF Ints
<1>3. Min(D) * Cardinality(S) <= Sum(f, S)
  BY <1>2, SumAtLeast
<1>4. Sum(f, S) <= Max(D) * Cardinality(S)
  BY <1>1, SumBounded
<1>5. Cardinality(S) \in Nat /\ Cardinality(S) > 0
  BY FS_EmptySet, FS_CardinalityType
<1>6. Sum(f, S) \in Int
  BY SumInt
<1> QED BY <1>1, <1>2, <1>3, <1>4, <1>5, <1>6, QuotientBetween

(* A part and the rest.                                                    *)
LEMMA PartAndRest ==
    ASSUME NEW S, IsFiniteSet(S), NEW A \in SUBSET S
    PROVE  Cardinality(A) + Cardinality(S \ A) = Cardinality(S)
<1>1. IsFiniteSet(A) /\ IsFiniteSet(S \ A)
  BY FS_Subset
<1>2. A \cup (S \ A) = S /\ A \cap (S \ A) = {}
  OBVIOUS
<1>3. Cardinality(S) = Cardinality(A) + Cardinality(S \ A) - Cardinality({})
  BY <1>1, <1>2, FS_Union
<1>4. Cardinality(A) \in Nat /\ Cardinality(S \ A) \in Nat /\ Cardinality({}) = 0
  BY <1>1, FS_CardinalityType, FS_EmptySet
<1> QED BY <1>3, <1>4

OfClass(S, g, c) == {x \in S : g[x] = c}

(* Counted class by class, a set has as many elements as it has.           *)
LEMMA CountByClass ==
    ASSUME NEW S, IsFiniteSet(S), NEW C, IsFiniteSet(C), NEW g,
           \A x \in S : g[x] \in C, NEW f,
           \A c \in C : f[c] = Cardinality(OfClass(S, g, c))
    PROVE  Sum(f, C) = Cardinality(S)
<1> DEFINE Of(T) == {x \in S : g[x] \in T}
<1> DEFINE Good == {T \in SUBSET C : Sum(f, T) = Cardinality(Of(T))}
<1>1. {} \in Good
  <2>1. Of({}) = {}
    OBVIOUS
  <2> QED BY <2>1, SumEmpty, FS_EmptySet
<1>2. ASSUME NEW T \in SUBSET C, NEW c \in C, T \in Good, c \notin T
      PROVE  T \cup {c} \in Good
  <2> DEFINE U == T \cup {c}
             K == OfClass(S, g, c)
  <2>1. IsFiniteSet(T) /\ IsFiniteSet(U) /\ U \in SUBSET C /\ U \ {c} = T /\ c \in U
    BY <1>2, FS_Subset
  <2>2. Ints(f, U)
    <3> SUFFICES ASSUME NEW d \in U PROVE f[d] \in Int
      BY DEF Ints
    <3>1. OfClass(S, g, d) \in SUBSET S
      BY DEF OfClass
    <3>2. Cardinality(OfClass(S, g, d)) \in Nat
      BY <3>1, FS_Subset, FS_CardinalityType
    <3> QED BY <3>2
  <2>3. Sum(f, U) = f[c] + Sum(f, T)
    <3> HIDE DEF U
    <3> QED BY <2>1, <2>2, SumTake
  <2>4. K \in SUBSET Of(U) /\ Of(U) \ K = Of(T) /\ IsFiniteSet(Of(U))
    BY <1>2, FS_Subset DEF OfClass
  <2>5. Cardinality(K) + Cardinality(Of(T)) = Cardinality(Of(U))
    <3> HIDE DEF K, U, Of
    <3> QED BY <2>4, PartAndRest
  <2>6. f[c] = Cardinality(K) /\ Sum(f, T) = Cardinality(Of(T))
    BY <1>2
  <2>7. Sum(f, U) = Cardinality(Of(U))
    <3> HIDE DEF K, U, Of
    <3> QED BY <2>3, <2>5, <2>6
  <2> QED BY <2>1, <2>7
<1> HIDE DEF Good
<1>3. C \in Good
  BY <1>1, <1>2, SetInduction
<1>4. Of(C) = S
  OBVIOUS
<1> QED BY <1>3, <1>4 DEF Good
=============================================================================
