---------------------------- MODULE SumTheorems ----------------------------
(***************************************************************************)
(* What SumFunctionOnSet of the community modules computes for a finite set *)
(* of indices.  It is defined by a recursive function over the subsets; an   *)
(* induction over them is the choice of a least subset on which a fact would *)
(* fail.                                                                    *)
(***************************************************************************)
EXTENDS Integers, Functions, FiniteSetTheorems, WellFoundedInduction, TLAPS

\* Of sets of subsets of a finite set, some subset is least.
LEMMA LeastSubset ==
  ASSUME NEW S, IsFiniteSet(S), NEW B \in SUBSET SUBSET S, B # {}
  PROVE  \E T \in B : \A U \in B : U \subseteq T => U = T
<1>1. IsWellFoundedOn(StrictSubsetOrdering(S), SUBSET S)
  BY FS_StrictSubsetOrderingWellFounded, FS_FiniteSubsetsOfFinite
<1>2. PICK T \in B : \A U \in B : << U, T >> \notin StrictSubsetOrdering(S)
  BY <1>1, WFMin
<1>3. \A U \in B : << U, T >> \in (SUBSET S) \X (SUBSET S)
  OBVIOUS
<1> QED BY <1>2, <1>3 DEF StrictSubsetOrdering

\* Of sets of numbers, some number is least.
LEMMA LeastNumber ==
  ASSUME NEW B \in SUBSET Nat, B # {}
  PROVE  \E n \in B : \A m \in B : n <= m
<1>1. PICK n \in B : \A m \in B : << m, n >> \notin OpToRel(<, Nat)
  BY NatLessThanWellFounded, WFMin
<1>2. ASSUME NEW m \in B PROVE n <= m
  <2>1. << m, n >> \in Nat \X Nat
    OBVIOUS
  <2>2. ~ (m < n)
    BY <1>1, <2>1 DEF OpToRel
  <2> QED BY <2>2
<1> QED BY <1>2
-----------------------------------------------------------------------------
\* The index that the sum over a set takes first.
First(T) == CHOOSE x \in T : TRUE

\* The recursive function over subsets of S, with the sum over each.
SumSteps(f, S, g) ==
  g = [T \in SUBSET S |-> IF T = {} THEN 0 ELSE f[First(T)] + g[T \ {First(T)}]]

LEMMA SumIsChosen ==
  ASSUME NEW f, NEW S
  PROVE  SumFunctionOnSet(f, S) = (CHOOSE g : SumSteps(f, S, g))[S]
BY DEF SumFunctionOnSet, FoldFunctionOnSet, MapThenFoldSet, SumSteps, First

\* The same for the subsets of at most n elements.
UpTo(S, n) == {T \in SUBSET S : Cardinality(T) <= n}
SumStepsUpTo(f, S, n, g) ==
  g = [T \in UpTo(S, n) |-> IF T = {} THEN 0 ELSE f[First(T)] + g[T \ {First(T)}]]

\* Such a function exists: each size of subsets is computed from the one below.
LEMMA SumStepsExist ==
  ASSUME NEW f, NEW S, IsFiniteSet(S)
  PROVE  \E g : SumSteps(f, S, g)
<1> DEFINE Missing == {n \in Nat : ~ \E g : SumStepsUpTo(f, S, n, g)}
<1>1. \A T \in SUBSET S : IsFiniteSet(T) /\ Cardinality(T) \in Nat
  BY FS_Subset, FS_CardinalityType
<1>2. Missing = {}
  <2> SUFFICES ASSUME Missing # {} PROVE FALSE
    OBVIOUS
  <2>1. PICK n \in Missing : \A m \in Missing : n <= m
    BY LeastNumber
  <2>2. CASE n = 0
    <3> DEFINE g == [T \in UpTo(S, 0) |-> 0]
    <3>1. \A T \in UpTo(S, 0) : T = {}
      BY <1>1, FS_EmptySet DEF UpTo
    <3>2. g = [T \in UpTo(S, 0) |-> IF T = {} THEN 0 ELSE f[First(T)] + g[T \ {First(T)}]]
      BY <3>1
    <3> QED BY <2>2, <3>2 DEF SumStepsUpTo
  <2>3. CASE n # 0
    <3>1. n - 1 \in Nat /\ n - 1 \notin Missing
      BY <2>1, <2>3
    <3>2. PICK h : SumStepsUpTo(f, S, n - 1, h)
      BY <3>1
    <3> DEFINE g == [T \in UpTo(S, n) |-> IF T = {} THEN 0 ELSE f[First(T)] + h[T \ {First(T)}]]
    <3>3. ASSUME NEW T \in UpTo(S, n), T # {}
          PROVE  g[T \ {First(T)}] = h[T \ {First(T)}]
      <4> DEFINE W == T \ {First(T)}
      <4>1. First(T) \in T /\ T \in SUBSET S
        BY <3>3 DEF First, UpTo
      <4>2. Cardinality(W) = Cardinality(T) - 1
        BY <4>1, <1>1, FS_RemoveElement
      <4>3. W \in SUBSET S /\ Cardinality(W) <= n - 1 /\ Cardinality(W) <= n
        BY <4>1, <4>2, <1>1, <3>1 DEF UpTo
      <4>4. W \in UpTo(S, n - 1) /\ W \in UpTo(S, n)
        BY <4>3 DEF UpTo
      <4> HIDE DEF W
      <4>5. h[W] = IF W = {} THEN 0 ELSE f[First(W)] + h[W \ {First(W)}]
        BY <3>2, <4>4 DEF SumStepsUpTo
      <4>6. g[W] = IF W = {} THEN 0 ELSE f[First(W)] + h[W \ {First(W)}]
        BY <4>4
      <4> QED BY <4>5, <4>6 DEF W
    <3>4. g = [T \in UpTo(S, n) |-> IF T = {} THEN 0 ELSE f[First(T)] + g[T \ {First(T)}]]
      BY <3>3
    <3>5. SumStepsUpTo(f, S, n, g)
      BY <3>4 DEF SumStepsUpTo
    <3> QED BY <2>1, <3>5
  <2> QED BY <2>2, <2>3
<1>3. Cardinality(S) \in Nat /\ UpTo(S, Cardinality(S)) = SUBSET S
  BY <1>1, FS_Subset DEF UpTo
<1>4. PICK g : SumStepsUpTo(f, S, Cardinality(S), g)
  BY <1>2, <1>3
<1> QED BY <1>3, <1>4 DEF SumSteps, SumStepsUpTo

\* The sum over a set depends on the values at its elements alone.
LEMMA SumStepsAgree ==
  ASSUME NEW f, NEW k, NEW S, NEW T \in SUBSET S, IsFiniteSet(T), \A x \in T : f[x] = k[x],
         NEW g, SumSteps(f, S, g), NEW h, SumSteps(k, T, h)
  PROVE  \A U \in SUBSET T : g[U] = h[U]
<1> DEFINE Differ == {U \in SUBSET T : g[U] # h[U]}
<1> SUFFICES ASSUME Differ # {} PROVE FALSE
  OBVIOUS
<1>0. Differ \in SUBSET SUBSET T
  OBVIOUS
<1>1. PICK U \in Differ : \A V \in Differ : V \subseteq U => V = U
  <2> HIDE DEF Differ
  <2> QED BY <1>0, LeastSubset
<1>2. /\ g[U] = IF U = {} THEN 0 ELSE f[First(U)] + g[U \ {First(U)}]
      /\ h[U] = IF U = {} THEN 0 ELSE k[First(U)] + h[U \ {First(U)}]
  BY DEF SumSteps
<1>3. CASE U = {}
  BY <1>2, <1>3
<1>4. CASE U # {}
  <2>1. First(U) \in U
    BY <1>4 DEF First
  <2>2. g[U \ {First(U)}] = h[U \ {First(U)}]
    BY <1>1, <2>1
  <2> QED BY <1>2, <1>4, <2>1, <2>2
<1> QED BY <1>3, <1>4

\* The function that is chosen is such a function.
LEMMA SumOfChosen ==
  ASSUME NEW f, NEW S, IsFiniteSet(S)
  PROVE  \E g : SumSteps(f, S, g) /\ \A T \in SUBSET S : SumFunctionOnSet(f, T) = g[T]
<1> DEFINE g == CHOOSE h : SumSteps(f, S, h)
<1>1. SumSteps(f, S, g)
  BY SumStepsExist
<1>2. ASSUME NEW T \in SUBSET S PROVE SumFunctionOnSet(f, T) = g[T]
  <2> DEFINE h == CHOOSE k : SumSteps(f, T, k)
  <2>1. IsFiniteSet(T)
    BY FS_Subset
  <2>2. SumSteps(f, T, h)
    BY <2>1, SumStepsExist
  <2>3. SumFunctionOnSet(f, T) = h[T]
    BY SumIsChosen
  <2> HIDE DEF g, h
  <2>4. g[T] = h[T]
    BY <1>1, <2>1, <2>2, SumStepsAgree
  <2> QED BY <2>3, <2>4
<1> QED BY <1>1, <1>2
-----------------------------------------------------------------------------
\* The sum over no index is zero.
LEMMA SumOfNothing ==
  ASSUME NEW f
  PROVE  SumFunctionOnSet(f, {}) = 0
<1>1. PICK g : SumSteps(f, {}, g) /\ \A T \in SUBSET {} : SumFunctionOnSet(f, T) = g[T]
  BY FS_EmptySet, SumOfChosen
<1> QED BY <1>1 DEF SumSteps

\* The sum over a set is the value at one index and the sum over the rest.
LEMMA SumOfFirst ==
  ASSUME NEW f, NEW S, IsFiniteSet(S), S # {}
  PROVE  /\ First(S) \in S
         /\ SumFunctionOnSet(f, S) = f[First(S)] + SumFunctionOnSet(f, S \ {First(S)})
<1>1. PICK g : SumSteps(f, S, g) /\ \A T \in SUBSET S : SumFunctionOnSet(f, T) = g[T]
  BY SumOfChosen
<1>2. First(S) \in S
  BY DEF First
<1>3. g[S] = f[First(S)] + g[S \ {First(S)}]
  BY <1>1 DEF SumSteps
<1> QED BY <1>1, <1>2, <1>3

\* Functions that agree on a set have one sum over it.
LEMMA SumOfEqual ==
  ASSUME NEW f, NEW k, NEW S, IsFiniteSet(S), \A x \in S : f[x] = k[x]
  PROVE  SumFunctionOnSet(f, S) = SumFunctionOnSet(k, S)
<1> DEFINE Wrong == {T \in SUBSET S : SumFunctionOnSet(f, T) # SumFunctionOnSet(k, T)}
<1>1. ASSUME Wrong # {} PROVE FALSE
  <2>1. Wrong \in SUBSET SUBSET S
    OBVIOUS
  <2>2. PICK T \in Wrong : \A U \in Wrong : U \subseteq T => U = T
    <3> HIDE DEF Wrong
    <3> QED BY <1>1, <2>1, LeastSubset
  <2>3. T # {} /\ IsFiniteSet(T)
    <3>1. SumFunctionOnSet(f, {}) = 0 /\ SumFunctionOnSet(k, {}) = 0
      BY SumOfNothing
    <3>2. {} \notin Wrong
      BY <3>1
    <3>3. T # {}
      BY <2>2, <3>2, Zenon
    <3> QED BY <3>3, FS_Subset
  <2>4. /\ First(T) \in T
        /\ SumFunctionOnSet(f, T) = f[First(T)] + SumFunctionOnSet(f, T \ {First(T)})
        /\ SumFunctionOnSet(k, T) = k[First(T)] + SumFunctionOnSet(k, T \ {First(T)})
    BY <2>3, SumOfFirst
  <2>5. SumFunctionOnSet(f, T \ {First(T)}) = SumFunctionOnSet(k, T \ {First(T)})
    BY <2>2, <2>4
  <2>6. f[First(T)] = k[First(T)]
    BY <2>4
  <2> QED BY <2>4, <2>5, <2>6
<1> QED BY <1>1

\* A sum of integers is an integer.
LEMMA SumIsInteger ==
  ASSUME NEW f, NEW S, IsFiniteSet(S), \A x \in S : f[x] \in Int
  PROVE  SumFunctionOnSet(f, S) \in Int
<1> DEFINE Wrong == {T \in SUBSET S : SumFunctionOnSet(f, T) \notin Int}
<1>1. ASSUME Wrong # {} PROVE FALSE
  <2>1. Wrong \in SUBSET SUBSET S
    OBVIOUS
  <2>2. PICK T \in Wrong : \A U \in Wrong : U \subseteq T => U = T
    <3> HIDE DEF Wrong
    <3> QED BY <1>1, <2>1, LeastSubset
  <2>3. IsFiniteSet(T) /\ T # {}
    <3>1. SumFunctionOnSet(f, {}) \in Int
      BY SumOfNothing
    <3>2. {} \notin Wrong
      BY <3>1
    <3>3. T # {}
      BY <2>2, <3>2, Zenon
    <3> QED BY <3>3, FS_Subset
  <2>4. /\ First(T) \in T
        /\ SumFunctionOnSet(f, T) = f[First(T)] + SumFunctionOnSet(f, T \ {First(T)})
    BY <2>3, SumOfFirst
  <2>5. SumFunctionOnSet(f, T \ {First(T)}) \in Int
    BY <2>2, <2>4
  <2> QED BY <2>4, <2>5
<1> QED BY <1>1

\* It does not matter which index is taken first.
LEMMA SumOfElement ==
  ASSUME NEW f, NEW S, IsFiniteSet(S), \A x \in S : f[x] \in Int, NEW e \in S
  PROVE  SumFunctionOnSet(f, S) = f[e] + SumFunctionOnSet(f, S \ {e})
<1> DEFINE Wrong == {T \in SUBSET S : ~ \A x \in T :
                       SumFunctionOnSet(f, T) = f[x] + SumFunctionOnSet(f, T \ {x})}
<1>1. ASSUME Wrong # {} PROVE FALSE
  <2>1. Wrong \in SUBSET SUBSET S
    OBVIOUS
  <2>2. PICK T \in Wrong : \A U \in Wrong : U \subseteq T => U = T
    <3> HIDE DEF Wrong
    <3> QED BY <1>1, <2>1, LeastSubset
  <2>3. PICK x \in T : SumFunctionOnSet(f, T) # f[x] + SumFunctionOnSet(f, T \ {x})
    BY <2>2
  <2> DEFINE p == First(T)
  <2>4. p \in T /\ SumFunctionOnSet(f, T) = f[p] + SumFunctionOnSet(f, T \ {p})
    BY <2>3, FS_Subset, SumOfFirst
  <2> HIDE DEF p
  <2>5. p # x
    BY <2>3, <2>4
  <2>6. SumFunctionOnSet(f, T \ {p}) = f[x] + SumFunctionOnSet(f, (T \ {p}) \ {x})
    BY <2>2, <2>4, <2>5
  <2>7. SumFunctionOnSet(f, T \ {x}) = f[p] + SumFunctionOnSet(f, (T \ {x}) \ {p})
    BY <2>2, <2>4, <2>5
  <2>8. SumFunctionOnSet(f, (T \ {p}) \ {x}) = SumFunctionOnSet(f, (T \ {x}) \ {p})
    <3>1. (T \ {p}) \ {x} = (T \ {x}) \ {p}
      OBVIOUS
    <3> QED BY <3>1, Zenon
  <2>9. SumFunctionOnSet(f, (T \ {x}) \ {p}) \in Int
    BY FS_Subset, SumIsInteger
  <2>10. f[p] \in Int /\ f[x] \in Int
    BY <2>4
  <2> QED BY <2>3, <2>4, <2>6, <2>7, <2>8, <2>9, <2>10
<1> QED BY <1>1

\* A function that changes at one index changes the sum by as much.
LEMMA SumOfChanged ==
  ASSUME NEW f, NEW k, NEW S, IsFiniteSet(S), NEW e \in S,
         \A x \in S : f[x] \in Int /\ k[x] \in Int,
         \A x \in S : x # e => k[x] = f[x]
  PROVE  SumFunctionOnSet(k, S) = SumFunctionOnSet(f, S) + (k[e] - f[e])
<1>1. IsFiniteSet(S \ {e})
  BY FS_RemoveElement
<1>2. SumFunctionOnSet(k, S \ {e}) = SumFunctionOnSet(f, S \ {e})
  BY <1>1, SumOfEqual
<1>3. SumFunctionOnSet(f, S \ {e}) \in Int
  BY <1>1, SumIsInteger
<1>4. SumFunctionOnSet(f, S) = f[e] + SumFunctionOnSet(f, S \ {e})
  BY SumOfElement
<1>5. SumFunctionOnSet(k, S) = k[e] + SumFunctionOnSet(k, S \ {e})
  BY SumOfElement
<1>6. f[e] \in Int /\ k[e] \in Int
  OBVIOUS
<1> QED BY <1>2, <1>3, <1>4, <1>5, <1>6

\* Sums add index by index; where the second function is not needed its set may be
\* smaller.
LEMMA SumOfSums ==
  ASSUME NEW f, NEW h, NEW k, NEW S, IsFiniteSet(S), NEW R \in SUBSET S,
         \A x \in S : f[x] \in Int, \A x \in R : h[x] \in Int,
         \A x \in S : k[x] = IF x \in R THEN f[x] + h[x] ELSE f[x]
  PROVE  SumFunctionOnSet(k, S) = SumFunctionOnSet(f, S) + SumFunctionOnSet(h, R)
<1> DEFINE Wrong == {T \in SUBSET S : SumFunctionOnSet(k, T)
                       # SumFunctionOnSet(f, T) + SumFunctionOnSet(h, T \cap R)}
<1>1. ASSUME Wrong # {} PROVE FALSE
  <2>1. Wrong \in SUBSET SUBSET S
    OBVIOUS
  <2>2. PICK T \in Wrong : \A U \in Wrong : U \subseteq T => U = T
    <3> HIDE DEF Wrong
    <3> QED BY <1>1, <2>1, LeastSubset
  <2>3. T # {}
    <3>1. SumFunctionOnSet(k, {}) = 0 /\ SumFunctionOnSet(f, {}) = 0 /\ SumFunctionOnSet(h, {}) = 0
      BY SumOfNothing
    <3>2. {} \cap R = {}
      OBVIOUS
    <3>3. SumFunctionOnSet(h, {} \cap R) = 0
      BY <3>1, <3>2, Zenon
    <3>4. SumFunctionOnSet(k, {}) = SumFunctionOnSet(f, {}) + SumFunctionOnSet(h, {} \cap R)
      BY <3>1, <3>3
    <3>5. {} \notin Wrong
      BY <3>4
    <3> QED BY <2>2, <3>5, Zenon
  <2>4. PICK e : e \in T
    BY <2>3
  <2> DEFINE U == T \ {e}
  <2>5. IsFiniteSet(T) /\ IsFiniteSet(U) /\ IsFiniteSet(U \cap R) /\ IsFiniteSet(T \cap R)
    BY FS_Subset
  <2>6. SumFunctionOnSet(k, U) = SumFunctionOnSet(f, U) + SumFunctionOnSet(h, U \cap R)
    BY <2>2, <2>4
  <2>7. \A x \in S : k[x] \in Int
    OBVIOUS
  <2>8. /\ SumFunctionOnSet(f, U) \in Int /\ SumFunctionOnSet(h, U \cap R) \in Int
        /\ f[e] \in Int
    BY <2>4, <2>5, SumIsInteger
  <2>9. /\ SumFunctionOnSet(k, T) = k[e] + SumFunctionOnSet(k, U)
        /\ SumFunctionOnSet(f, T) = f[e] + SumFunctionOnSet(f, U)
    BY <2>4, <2>5, <2>7, SumOfElement
  <2>10. CASE e \in R
    <3>1. (T \cap R) \ {e} = U \cap R /\ e \in T \cap R
      BY <2>4, <2>10
    <3>2. SumFunctionOnSet(h, T \cap R) = h[e] + SumFunctionOnSet(h, (T \cap R) \ {e})
      BY <2>5, <3>1, SumOfElement
    <3>4. SumFunctionOnSet(h, (T \cap R) \ {e}) = SumFunctionOnSet(h, U \cap R)
      BY <3>1, Zenon
    <3>3. k[e] = f[e] + h[e] /\ h[e] \in Int
      BY <2>4, <2>10
    <3> QED BY <2>2, <2>6, <2>8, <2>9, <3>2, <3>3, <3>4
  <2>11. CASE e \notin R
    <3>1. T \cap R = U \cap R /\ k[e] = f[e]
      BY <2>4, <2>11
    <3>2. SumFunctionOnSet(h, T \cap R) = SumFunctionOnSet(h, U \cap R)
      BY <3>1, Zenon
    <3> QED BY <2>2, <2>6, <2>8, <2>9, <3>1, <3>2
  <2> QED BY <2>10, <2>11
<1>2. S \notin Wrong
  BY <1>1
<1>3. S \cap R = R
  OBVIOUS
<1>4. SumFunctionOnSet(h, S \cap R) = SumFunctionOnSet(h, R)
  BY <1>3, Zenon
<1> QED BY <1>2, <1>4

\* Where every value of a subset is at least one, there are no more indices than the sum.
LEMMA SumCounts ==
  ASSUME NEW f, NEW S, IsFiniteSet(S), NEW R \in SUBSET S,
         \A x \in S : f[x] \in Nat, \A x \in R : f[x] >= 1
  PROVE  Cardinality(R) <= SumFunctionOnSet(f, S)
<1> DEFINE Wrong == {T \in SUBSET S : ~ (Cardinality(T \cap R) <= SumFunctionOnSet(f, T))}
<1>1. ASSUME Wrong # {} PROVE FALSE
  <2>1. Wrong \in SUBSET SUBSET S
    OBVIOUS
  <2>2. PICK T \in Wrong : \A U \in Wrong : U \subseteq T => U = T
    <3> HIDE DEF Wrong
    <3> QED BY <1>1, <2>1, LeastSubset
  <2>3. T # {}
    <3>1. Cardinality({}) = 0 /\ SumFunctionOnSet(f, {}) = 0
      BY FS_EmptySet, SumOfNothing
    <3>2. {} \cap R = {}
      OBVIOUS
    <3>3. Cardinality({} \cap R) = 0
      BY <3>1, <3>2, Zenon
    <3>4. {} \notin Wrong
      BY <3>1, <3>3
    <3> QED BY <2>2, <3>4, Zenon
  <2>4. PICK e : e \in T
    BY <2>3
  <2> DEFINE U == T \ {e}
  <2>5. IsFiniteSet(T) /\ IsFiniteSet(U) /\ IsFiniteSet(U \cap R) /\ IsFiniteSet(T \cap R)
    BY FS_Subset
  <2>6. Cardinality(U \cap R) \in Nat /\ Cardinality(T \cap R) \in Nat
    BY <2>5, FS_CardinalityType
  <2>7. Cardinality(U \cap R) <= SumFunctionOnSet(f, U)
    BY <2>2, <2>4
  <2>8. SumFunctionOnSet(f, T) = f[e] + SumFunctionOnSet(f, U) /\ f[e] \in Nat
    BY <2>4, <2>5, SumOfElement
  <2>9. SumFunctionOnSet(f, U) \in Int
    BY <2>5, SumIsInteger
  <2>10. CASE e \in R
    <3>1. U \cap R = (T \cap R) \ {e} /\ e \in T \cap R
      BY <2>4, <2>10
    <3>2. Cardinality((T \cap R) \ {e}) = Cardinality(T \cap R) - 1
      BY <2>5, <3>1, FS_RemoveElement
    <3>4. Cardinality((T \cap R) \ {e}) = Cardinality(U \cap R)
      BY <3>1, Zenon
    <3>3. f[e] >= 1
      BY <2>10
    <3> QED BY <2>2, <2>6, <2>7, <2>8, <2>9, <3>2, <3>3, <3>4
  <2>11. CASE e \notin R
    <3>1. T \cap R = U \cap R
      BY <2>11
    <3>2. Cardinality(T \cap R) = Cardinality(U \cap R)
      BY <3>1, Zenon
    <3> QED BY <2>2, <2>6, <2>7, <2>8, <2>9, <3>2
  <2> QED BY <2>10, <2>11
<1>2. S \notin Wrong
  BY <1>1
<1>3. S \cap R = R
  OBVIOUS
<1>4. Cardinality(S \cap R) = Cardinality(R)
  BY <1>3, Zenon
<1> QED BY <1>2, <1>4
=============================================================================
