-------------------------------- MODULE Sums --------------------------------
(***************************************************************************)
(* What sums over finite functions come to, for the proofs about stored    *)
(* totals.  The library defines a sum by a recursive function over the     *)
(* subsets of a domain; the lemmas here are what the proofs use of it: a   *)
(* sum over nothing is 0, and one element more adds its value.             *)
(*                                                                         *)
(* Induction over a finite set is by its smallest counterexample, which    *)
(* needs no operator as a parameter.                                       *)
(***************************************************************************)
EXTENDS Integers, FiniteSets, Functions, FiniteSetTheorems, WellFoundedInduction, TLAPS

\* Of the subsets of a finite set, some sets have one that contains none of the others.
LEMMA SmallestSubset ==
  ASSUME NEW S, IsFiniteSet(S), NEW T, T \subseteq SUBSET S, T # {}
  PROVE  \E m \in T : \A u \in T : u \subseteq m => u = m
<1>1. FiniteSubsetsOf(S) = SUBSET S
  BY FS_FiniteSubsetsOfFinite
<1>2. IsWellFoundedOn(StrictSubsetOrdering(S), SUBSET S)
  BY <1>1, FS_StrictSubsetOrderingWellFounded
<1>3. PICK m \in T : \A u \in T : <<u, m>> \notin StrictSubsetOrdering(S)
  BY <1>2, WFMin
<1>4. \A u \in T : u \subseteq m => u = m
  BY <1>3 DEF StrictSubsetOrdering
<1> QED
  BY <1>4

----------------------------------------------------------------------------
(* The recursion of the library *)

Pick(s) == CHOOSE x \in s : TRUE

\* g sums f over the subsets of S.
Sums(f, S, g) ==
    g = [s \in SUBSET S |-> IF s = {} THEN 0 ELSE f[Pick(s)] + g[s \ {Pick(s)}]]

\* A set that is not empty has the element picked, and is larger than what is left.
LEMMA Picked ==
  ASSUME NEW s, s # {}
  PROVE  /\ Pick(s) \in s
         /\ s \ {Pick(s)} \subseteq s
         /\ s \ {Pick(s)} # s
<1>1. Pick(s) \in s
  BY DEF Pick
<1> QED
  BY <1>1

\* The recursion, on subsets of at most k elements.
SumsUpTo(f, S, g, k) ==
    \A s \in SUBSET S : Cardinality(s) <= k =>
        g[s] = IF s = {} THEN 0 ELSE f[Pick(s)] + g[s \ {Pick(s)}]

\* A subset is no larger, and one of its elements less than it makes it smaller by one.
LEMMA SizeOfSubset ==
  ASSUME NEW S, IsFiniteSet(S), NEW s \in SUBSET S
  PROVE  /\ IsFiniteSet(s)
         /\ Cardinality(s) \in Nat
         /\ Cardinality(s) <= Cardinality(S)
         /\ Cardinality(s) = 0 <=> s = {}
         /\ s # {} => /\ s \ {Pick(s)} \in SUBSET S
                      /\ Cardinality(s \ {Pick(s)}) = Cardinality(s) - 1
<1>1. IsFiniteSet(s) /\ Cardinality(s) <= Cardinality(S)
  BY FS_Subset
<1>2. Cardinality(s) \in Nat
  BY <1>1, FS_CardinalityType
<1>3. Cardinality(s) = 0 <=> s = {}
  BY <1>1, FS_EmptySet
<1>4. s # {} => Cardinality(s \ {Pick(s)}) = Cardinality(s) - 1
  BY <1>1, Picked, FS_RemoveElement
<1> QED
  BY <1>1, <1>2, <1>3, <1>4

\* The values a function gives subsets of k elements extend to k + 1.
LEMMA SumsExtend ==
  ASSUME NEW f, NEW S, IsFiniteSet(S), NEW k \in Nat, NEW g, SumsUpTo(f, S, g, k)
  PROVE  \E h : SumsUpTo(f, S, h, k + 1)
<1> DEFINE h == [s \in SUBSET S |-> IF s = {} THEN 0 ELSE f[Pick(s)] + g[s \ {Pick(s)}]]
<1>1. \A s \in SUBSET S : h[s] = IF s = {} THEN 0 ELSE f[Pick(s)] + g[s \ {Pick(s)}]
  OBVIOUS
<1> HIDE DEF h
<1>2. \A s \in SUBSET S : Cardinality(s) <= k => h[s] = g[s]
  BY <1>1 DEF SumsUpTo
<1>3. ASSUME NEW s \in SUBSET S, Cardinality(s) <= k + 1, s # {}
      PROVE  h[s \ {Pick(s)}] = g[s \ {Pick(s)}]
  <2>1. s \ {Pick(s)} \in SUBSET S /\ Cardinality(s \ {Pick(s)}) <= k
    BY <1>3, SizeOfSubset
  <2> QED
    BY <1>2, <2>1
<1>4. SumsUpTo(f, S, h, k + 1)
  BY <1>1, <1>3 DEF SumsUpTo
<1> QED
  BY <1>4

\* So, by the smallest subset whose size no such function reaches, one sums all of them.
LEMMA SumsExist ==
  ASSUME NEW f, NEW S, IsFiniteSet(S)
  PROVE  \E g : Sums(f, S, g)
<1> DEFINE T == {U \in SUBSET S : ~ \E g : SumsUpTo(f, S, g, Cardinality(U))}
<1>1. ASSUME NEW U \in T, \A V \in T : V \subseteq U => V = U
      PROVE  FALSE
  <2>1. CASE U = {}
    <3> DEFINE g == [s \in SUBSET S |-> 0]
    <3>1. ASSUME NEW s \in SUBSET S, Cardinality(s) <= 0
          PROVE  s = {}
      <4>1. Cardinality(s) \in Nat /\ (Cardinality(s) = 0 <=> s = {})
        BY SizeOfSubset
      <4> QED
        BY <3>1, <4>1
    <3>2. Cardinality(U) = 0
      BY <2>1, FS_EmptySet
    <3>3. SumsUpTo(f, S, g, Cardinality(U))
      BY <3>1, <3>2 DEF SumsUpTo
    <3> QED
      BY <3>3
  <2>2. CASE U # {}
    <3> DEFINE V == U \ {Pick(U)}
    <3>1. V \in SUBSET S /\ V \subseteq U /\ V # U
      BY <2>2, Picked
    <3>2. /\ Cardinality(V) \in Nat
          /\ Cardinality(U) = Cardinality(V) + 1
      BY <2>2, <3>1, SizeOfSubset
    <3>3. PICK g : SumsUpTo(f, S, g, Cardinality(V))
      BY <1>1, <3>1
    <3>4. \E h : SumsUpTo(f, S, h, Cardinality(U))
      BY <3>2, <3>3, SumsExtend
    <3> QED
      BY <3>4
  <2> QED
    BY <2>1, <2>2
<1>2. T = {}
  <2>1. SUFFICES ASSUME T # {} PROVE FALSE
    OBVIOUS
  <2>2. T \subseteq SUBSET S
    OBVIOUS
  <2> HIDE DEF T
  <2> QED
    BY <1>1, <2>1, <2>2, SmallestSubset
<1>3. PICK g : SumsUpTo(f, S, g, Cardinality(S))
  BY <1>2
<1> DEFINE h == [s \in SUBSET S |-> g[s]]
<1>4. \A s \in SUBSET S : g[s] = IF s = {} THEN 0 ELSE f[Pick(s)] + g[s \ {Pick(s)}]
  BY <1>3, SizeOfSubset DEF SumsUpTo
<1>5. \A s \in SUBSET S : s # {} => h[s \ {Pick(s)}] = g[s \ {Pick(s)}]
  OBVIOUS
<1>6. h = [s \in SUBSET S |-> IF s = {} THEN 0 ELSE f[Pick(s)] + h[s \ {Pick(s)}]]
  BY <1>4, <1>5
<1>7. Sums(f, S, h)
  BY <1>6 DEF Sums
<1> QED
  BY <1>7

\* The sum of the library is what such a function says of the domain.
LEMMA SumIsRecursive ==
  ASSUME NEW f, NEW S, IsFiniteSet(S)
  PROVE  \E g : Sums(f, S, g) /\ SumFunctionOnSet(f, S) = g[S]
<1> DEFINE g == CHOOSE i : i = [s \in SUBSET S |->
                                  IF s = {} THEN 0 ELSE f[Pick(s)] + i[s \ {Pick(s)}]]
<1>1. Sums(f, S, g)
  <2>1. PICK h : Sums(f, S, h)
    BY SumsExist
  <2>2. h = [s \in SUBSET S |-> IF s = {} THEN 0 ELSE f[Pick(s)] + h[s \ {Pick(s)}]]
    BY <2>1 DEF Sums
  <2> QED
    BY <2>2, Zenon DEF Sums
<1>2. SumFunctionOnSet(f, S) = MapThenFoldSet(+, 0, LAMBDA i : f[i], LAMBDA s : CHOOSE x \in s : TRUE, S)
  BY DEF SumFunctionOnSet, FoldFunctionOnSet
<1>3. SumFunctionOnSet(f, S) = g[S]
  BY <1>2 DEF MapThenFoldSet, Pick
<1> QED
  BY <1>1, <1>3

\* What is summed over a set depends on the values of its elements alone.
LEMMA SumsAgree ==
  ASSUME NEW f1, NEW S1, NEW g1, Sums(f1, S1, g1),
         NEW f2, NEW S2, NEW g2, Sums(f2, S2, g2),
         NEW U, IsFiniteSet(U), U \subseteq S1, U \subseteq S2,
         \A x \in U : f1[x] = f2[x]
  PROVE  g1[U] = g2[U]
<1> DEFINE T == {V \in SUBSET U : g1[V] # g2[V]}
<1>1. ASSUME NEW V \in T, \A W \in T : W \subseteq V => W = V
      PROVE  FALSE
  <2>1. \A s \in SUBSET U : /\ g1[s] = IF s = {} THEN 0 ELSE f1[Pick(s)] + g1[s \ {Pick(s)}]
                            /\ g2[s] = IF s = {} THEN 0 ELSE f2[Pick(s)] + g2[s \ {Pick(s)}]
    BY DEF Sums
  <2>2. V # {}
    BY <2>1
  <2>3. Pick(V) \in V /\ V \ {Pick(V)} \subseteq V /\ V \ {Pick(V)} # V
    BY <2>2, Picked
  <2>4. g1[V \ {Pick(V)}] = g2[V \ {Pick(V)}]
    BY <1>1, <2>3
  <2>5. f1[Pick(V)] = f2[Pick(V)]
    BY <2>3
  <2> QED
    BY <2>1, <2>2, <2>4, <2>5
<1>2. T = {}
  <2>1. SUFFICES ASSUME T # {} PROVE FALSE
    OBVIOUS
  <2>2. T \subseteq SUBSET U
    OBVIOUS
  <2> HIDE DEF T
  <2> QED
    BY <1>1, <2>1, <2>2, SmallestSubset
<1> QED
  BY <1>2

----------------------------------------------------------------------------
(* What a sum comes to *)

\* A sum over nothing is 0.
LEMMA SumOfNothing ==
  ASSUME NEW f
  PROVE  SumFunctionOnSet(f, {}) = 0
<1>1. PICK g : Sums(f, {}, g) /\ SumFunctionOnSet(f, {}) = g[{}]
  BY FS_EmptySet, SumIsRecursive
<1> QED
  BY <1>1 DEF Sums

\* Two functions that agree on a set have one sum over it.
LEMMA SameValuesSameSum ==
  ASSUME NEW f1, NEW f2, NEW S, IsFiniteSet(S), \A x \in S : f1[x] = f2[x]
  PROVE  SumFunctionOnSet(f1, S) = SumFunctionOnSet(f2, S)
<1>1. PICK g1 : Sums(f1, S, g1) /\ SumFunctionOnSet(f1, S) = g1[S]
  BY SumIsRecursive
<1>2. PICK g2 : Sums(f2, S, g2) /\ SumFunctionOnSet(f2, S) = g2[S]
  BY SumIsRecursive
<1>3. g1[S] = g2[S]
  BY <1>1, <1>2, SumsAgree
<1> QED
  BY <1>1, <1>2, <1>3

\* The element picked, and the rest.
LEMMA SumPicks ==
  ASSUME NEW f, NEW S, IsFiniteSet(S), S # {}
  PROVE  SumFunctionOnSet(f, S) = f[Pick(S)] + SumFunctionOnSet(f, S \ {Pick(S)})
<1> DEFINE R == S \ {Pick(S)}
<1>1. IsFiniteSet(R) /\ R \subseteq S
  BY FS_RemoveElement
<1>2. PICK g : Sums(f, S, g) /\ SumFunctionOnSet(f, S) = g[S]
  BY SumIsRecursive
<1>3. PICK h : Sums(f, R, h) /\ SumFunctionOnSet(f, R) = h[R]
  BY <1>1, SumIsRecursive
<1>4. g[R] = h[R]
  BY <1>1, <1>2, <1>3, SumsAgree
<1>5. g[S] = f[Pick(S)] + g[R]
  BY <1>2 DEF Sums
<1> QED
  BY <1>2, <1>3, <1>4, <1>5

\* A sum of integers is one.
LEMMA SumIsAnInteger ==
  ASSUME NEW f, NEW S, IsFiniteSet(S), \A x \in S : f[x] \in Int
  PROVE  SumFunctionOnSet(f, S) \in Int
<1> DEFINE T == {U \in SUBSET S : SumFunctionOnSet(f, U) \notin Int}
<1>1. ASSUME NEW U \in T, \A V \in T : V \subseteq U => V = U
      PROVE  FALSE
  <2>1. IsFiniteSet(U) /\ U \subseteq S
    BY FS_Subset
  <2>2. CASE U = {}
    BY <2>2, SumOfNothing
  <2>3. CASE U # {}
    <3>1. Pick(U) \in U /\ U \ {Pick(U)} \subseteq U /\ U \ {Pick(U)} # U
      BY <2>3, Picked
    <3>2. SumFunctionOnSet(f, U \ {Pick(U)}) \in Int /\ f[Pick(U)] \in Int
      BY <1>1, <2>1, <3>1
    <3>3. SumFunctionOnSet(f, U) = f[Pick(U)] + SumFunctionOnSet(f, U \ {Pick(U)})
      BY <2>1, <2>3, SumPicks
    <3> QED
      BY <3>2, <3>3
  <2> QED
    BY <2>2, <2>3
<1>2. T = {}
  <2>1. SUFFICES ASSUME T # {} PROVE FALSE
    OBVIOUS
  <2>2. T \subseteq SUBSET S
    OBVIOUS
  <2> HIDE DEF T
  <2> QED
    BY <1>1, <2>1, <2>2, SmallestSubset
<1> QED
  BY <1>2

\* Any element may be taken out, whichever the library picks: of a smallest set for
\* which it may not, the element picked can be taken out first.
LEMMA SumTakesOut ==
  ASSUME NEW f, NEW S, IsFiniteSet(S), \A y \in S : f[y] \in Int, NEW x \in S
  PROVE  SumFunctionOnSet(f, S) = f[x] + SumFunctionOnSet(f, S \ {x})
<1> DEFINE Sum(U) == SumFunctionOnSet(f, U)
           T == {U \in SUBSET S : \E z \in U : Sum(U) # f[z] + Sum(U \ {z})}
<1>1. ASSUME NEW U \in T, \A V \in T : V \subseteq U => V = U
      PROVE  FALSE
  <2>1. PICK z \in U : Sum(U) # f[z] + Sum(U \ {z})
    OBVIOUS
  <2>2. U \subseteq S /\ IsFiniteSet(U) /\ U # {}
    BY FS_Subset
  <2> DEFINE p == Pick(U)
  <2>3. p \in U /\ Sum(U) = f[p] + Sum(U \ {p})
    BY <2>2, Picked, SumPicks
  <2>4. p # z
    BY <2>1, <2>3
  <2> HIDE DEF p
  <2>5. U \ {p} \in SUBSET S /\ U \ {p} \subseteq U /\ U \ {p} # U /\ z \in U \ {p}
    BY <2>2, <2>3, <2>4
  <2>6. U \ {z} \in SUBSET S /\ U \ {z} \subseteq U /\ U \ {z} # U /\ p \in U \ {z}
    BY <2>2, <2>3, <2>4
  <2>7. Sum(U \ {p}) = f[z] + Sum((U \ {p}) \ {z})
    BY <1>1, <2>5
  <2>8. Sum(U \ {z}) = f[p] + Sum((U \ {z}) \ {p})
    BY <1>1, <2>6
  <2>9. (U \ {p}) \ {z} = (U \ {z}) \ {p}
    OBVIOUS
  <2>10. Sum((U \ {p}) \ {z}) \in Int /\ f[p] \in Int /\ f[z] \in Int
    <3>1. IsFiniteSet((U \ {p}) \ {z})
      BY <2>2, FS_Subset
    <3> QED
      BY <2>2, <2>3, <3>1, SumIsAnInteger
  <2>11. PICK rest \in Int : rest = Sum((U \ {p}) \ {z})
    BY <2>10
  <2>12. Sum(U \ {p}) = f[z] + rest /\ Sum(U \ {z}) = f[p] + rest
    BY <2>7, <2>8, <2>9, <2>11
  <2> HIDE DEF Sum
  <2>13. Sum(U) = f[p] + (f[z] + rest)
    BY <2>3, <2>12
  <2>14. Sum(U) = f[z] + (f[p] + rest)
    BY <2>10, <2>11, <2>13
  <2> QED
    BY <2>1, <2>12, <2>14
<1>2. T = {}
  <2>1. SUFFICES ASSUME T # {} PROVE FALSE
    OBVIOUS
  <2>2. T \subseteq SUBSET S
    OBVIOUS
  <2> HIDE DEF T
  <2> QED
    BY <1>1, <2>1, <2>2, SmallestSubset
<1> QED
  BY <1>2

\* The sum of the values is the same whatever the elements are called.
LEMMA SumRenamed ==
  ASSUME NEW f, NEW S, IsFiniteSet(S), NEW g, NEW T, IsFiniteSet(T), NEW h \in [S -> T],
         \A x, y \in S : h[x] = h[y] => x = y,
         \A z \in T : \E x \in S : z = h[x],
         \A x \in S : f[x] \in Int /\ g[h[x]] = f[x]
  PROVE  SumFunctionOnSet(f, S) = SumFunctionOnSet(g, T)
<1> DEFINE Image(U) == {h[x] : x \in U}
           C == {U \in SUBSET S : SumFunctionOnSet(f, U) # SumFunctionOnSet(g, Image(U))}
<1>1. ASSUME NEW U \in C, \A V \in C : V \subseteq U => V = U
      PROVE  FALSE
  <2>1. U \subseteq S /\ IsFiniteSet(U)
    BY FS_Subset
  <2>2. CASE U = {}
    <3>1. Image(U) = {}
      BY <2>2
    <3> QED
      BY <2>2, <3>1, SumOfNothing
  <2>3. CASE U # {}
    <3> DEFINE p == Pick(U)
               V == U \ {p}
    <3>1. p \in U /\ V \subseteq U /\ V # U
      BY <2>3, Picked
    <3>2. SumFunctionOnSet(f, U) = f[p] + SumFunctionOnSet(f, V)
      BY <2>1, <2>3, SumPicks
    <3> HIDE DEF p
    <3>3. SumFunctionOnSet(f, V) = SumFunctionOnSet(g, Image(V))
      BY <1>1, <2>1, <3>1
    <3>4. Image(U) \ {h[p]} = Image(V)
      BY <2>1, <3>1
    <3>5. Image(U) \subseteq T /\ h[p] \in Image(U)
      BY <2>1, <3>1
    <3>6. IsFiniteSet(Image(U)) /\ \A z \in Image(U) : g[z] \in Int
      <4>1. IsFiniteSet(Image(U))
        BY <3>5, FS_Subset
      <4> QED
        BY <2>1, <4>1
    <3> HIDE DEF Image
    <3>7. SumFunctionOnSet(g, Image(U)) = g[h[p]] + SumFunctionOnSet(g, Image(U) \ {h[p]})
      BY <3>5, <3>6, SumTakesOut
    <3>8. g[h[p]] = f[p]
      BY <2>1, <3>1
    <3> QED
      BY <3>2, <3>3, <3>4, <3>7, <3>8
  <2> QED
    BY <2>2, <2>3
<1>2. C = {}
  <2>1. SUFFICES ASSUME C # {} PROVE FALSE
    OBVIOUS
  <2>2. C \subseteq SUBSET S
    OBVIOUS
  <2> HIDE DEF C
  <2> QED
    BY <1>1, <2>1, <2>2, SmallestSubset
<1>3. Image(S) = T
  OBVIOUS
<1> QED
  BY <1>2, <1>3

\* Elements whose value is 0 may be left out.
LEMMA SumWithoutZeros ==
  ASSUME NEW f, NEW S, IsFiniteSet(S), \A x \in S : f[x] \in Int,
         NEW U, U \subseteq S, \A x \in S \ U : f[x] = 0
  PROVE  SumFunctionOnSet(f, S) = SumFunctionOnSet(f, U)
<1> DEFINE C == {V \in SUBSET S : SumFunctionOnSet(f, V) # SumFunctionOnSet(f, V \cap U)}
<1>1. ASSUME NEW V \in C, \A W \in C : W \subseteq V => W = V
      PROVE  FALSE
  <2>1. V \subseteq S /\ IsFiniteSet(V) /\ IsFiniteSet(V \cap U)
    <3>1. IsFiniteSet(V)
      BY FS_Subset
    <3> QED
      BY <3>1, FS_Subset
  <2>2. V # {}
    <3>1. {} \cap U = {}
      OBVIOUS
    <3> QED
      BY <3>1
  <2> DEFINE p == Pick(V)
             W == V \ {p}
  <2>3. p \in V /\ W \subseteq V /\ W # V
    BY <2>2, Picked
  <2>4. SumFunctionOnSet(f, V) = f[p] + SumFunctionOnSet(f, W)
    BY <2>1, <2>2, SumPicks
  <2> HIDE DEF p
  <2>5. SumFunctionOnSet(f, W) = SumFunctionOnSet(f, W \cap U)
    BY <1>1, <2>1, <2>3
  <2>6. IsFiniteSet(W \cap U)
    BY <2>1, FS_Subset
  <2>7. SumFunctionOnSet(f, W \cap U) \in Int
    BY <2>1, <2>6, SumIsAnInteger
  <2>8. CASE p \in U
    <3>1. p \in V \cap U /\ (V \cap U) \ {p} = W \cap U
      BY <2>3, <2>8
    <3>2. SumFunctionOnSet(f, V \cap U) = f[p] + SumFunctionOnSet(f, (V \cap U) \ {p})
      BY <2>1, <3>1, SumTakesOut
    <3> QED
      BY <2>4, <2>5, <3>1, <3>2
  <2>9. CASE p \notin U
    <3>1. V \cap U = W \cap U /\ f[p] = 0
      BY <2>1, <2>3, <2>9
    <3>2. SumFunctionOnSet(f, V) = SumFunctionOnSet(f, W \cap U)
      BY <2>4, <2>5, <2>7, <3>1
    <3>3. SumFunctionOnSet(f, V) # SumFunctionOnSet(f, V \cap U)
      OBVIOUS
    <3> HIDE DEF W
    <3> QED
      BY <3>1, <3>2, <3>3
  <2> QED
    BY <2>8, <2>9
<1>2. C = {}
  <2>1. SUFFICES ASSUME C # {} PROVE FALSE
    OBVIOUS
  <2>2. C \subseteq SUBSET S
    OBVIOUS
  <2> HIDE DEF C
  <2> QED
    BY <1>1, <2>1, <2>2, SmallestSubset
<1>3. S \cap U = U
  OBVIOUS
<1> QED
  BY <1>2, <1>3

\* A sum of natural numbers is one.
LEMMA SumIsNatural ==
  ASSUME NEW f, NEW S, IsFiniteSet(S), \A x \in S : f[x] \in Nat
  PROVE  SumFunctionOnSet(f, S) \in Nat
<1> DEFINE T == {U \in SUBSET S : SumFunctionOnSet(f, U) \notin Nat}
<1>1. ASSUME NEW U \in T, \A V \in T : V \subseteq U => V = U
      PROVE  FALSE
  <2>1. IsFiniteSet(U) /\ U \subseteq S
    BY FS_Subset
  <2>2. CASE U = {}
    BY <2>2, SumOfNothing
  <2>3. CASE U # {}
    <3>1. Pick(U) \in U /\ U \ {Pick(U)} \subseteq U /\ U \ {Pick(U)} # U
      BY <2>3, Picked
    <3>2. SumFunctionOnSet(f, U \ {Pick(U)}) \in Nat /\ f[Pick(U)] \in Nat
      BY <1>1, <2>1, <3>1
    <3>3. SumFunctionOnSet(f, U) = f[Pick(U)] + SumFunctionOnSet(f, U \ {Pick(U)})
      BY <2>1, <2>3, SumPicks
    <3> QED
      BY <3>2, <3>3
  <2> QED
    BY <2>2, <2>3
<1>2. T = {}
  <2>1. SUFFICES ASSUME T # {} PROVE FALSE
    OBVIOUS
  <2>2. T \subseteq SUBSET S
    OBVIOUS
  <2> HIDE DEF T
  <2> QED
    BY <1>1, <2>1, <2>2, SmallestSubset
<1> QED
  BY <1>2

\* The sum over a set is the sum over a part of it and the sum over the rest.
LEMMA SumOfParts ==
  ASSUME NEW f, NEW S, IsFiniteSet(S), \A x \in S : f[x] \in Int, NEW P, P \subseteq S
  PROVE  SumFunctionOnSet(f, S) = SumFunctionOnSet(f, P) + SumFunctionOnSet(f, S \ P)
<1> DEFINE Sum(U) == SumFunctionOnSet(f, U)
           T == {U \in SUBSET S : Sum(U) # Sum(U \cap P) + Sum(U \ P)}
<1>1. ASSUME NEW U \in T, \A V \in T : V \subseteq U => V = U
      PROVE  FALSE
  <2>1. \A V \in SUBSET S : IsFiniteSet(V) /\ Sum(V) \in Int
    <3>1. ASSUME NEW V \in SUBSET S PROVE IsFiniteSet(V)
      BY FS_Subset
    <3> QED
      BY <3>1, SumIsAnInteger
  <2>2. U # {}
    <3>1. SUFFICES ASSUME U = {} PROVE FALSE
      OBVIOUS
    <3>2. U \cap P = {} /\ U \ P = {}
      BY <3>1
    <3>3. Sum(U) = 0 /\ Sum(U \cap P) = 0 /\ Sum(U \ P) = 0
      BY <3>1, <3>2, SumOfNothing
    <3>4. Sum(U) # Sum(U \cap P) + Sum(U \ P)
      OBVIOUS
    <3> HIDE DEF Sum
    <3> QED
      BY <3>3, <3>4
  <2>3. PICK p : p = Pick(U)
    OBVIOUS
  <2>4. PICK V : V = U \ {p}
    OBVIOUS
  <2>5. p \in U /\ V \subseteq U /\ V # U /\ U \in SUBSET S /\ V \in SUBSET S
    BY <2>2, <2>3, <2>4, Picked
  <2>6. Sum(U) = f[p] + Sum(V) /\ f[p] \in Int
    BY <2>1, <2>2, <2>3, <2>4, <2>5, SumPicks
  <2>7. Sum(V) = Sum(V \cap P) + Sum(V \ P)
    BY <1>1, <2>5
  <2>8. /\ Sum(V) \in Int /\ Sum(V \cap P) \in Int /\ Sum(V \ P) \in Int
        /\ IsFiniteSet(U \cap P) /\ IsFiniteSet(U \ P)
    <3>1. /\ V \cap P \in SUBSET S /\ V \ P \in SUBSET S
          /\ U \cap P \in SUBSET S /\ U \ P \in SUBSET S
      BY <2>5
    <3> QED
      BY <2>1, <2>5, <3>1
  <2>9. CASE p \in P
    <3>1. p \in U \cap P /\ (U \cap P) \ {p} = V \cap P /\ U \ P = V \ P
      BY <2>4, <2>5, <2>9
    <3>2. \A x \in U \cap P : f[x] \in Int
      BY <2>5
    <3>3. Sum(U \cap P) = f[p] + Sum((U \cap P) \ {p})
      BY <2>8, <3>1, <3>2, SumTakesOut
    <3>4. PICK v \in Int : v = Sum(V \cap P)
      BY <2>8
    <3>5. PICK w \in Int : w = Sum(V \ P)
      BY <2>8
    <3>6. Sum(U) = f[p] + (v + w)
      BY <2>6, <2>7, <3>4, <3>5
    <3>7. Sum(U \cap P) = f[p] + v /\ Sum(U \ P) = w
      BY <3>1, <3>3, <3>4, <3>5
    <3>8. Sum(U) # Sum(U \cap P) + Sum(U \ P)
      OBVIOUS
    <3> HIDE DEF Sum
    <3> QED
      BY <2>6, <3>6, <3>7, <3>8
  <2>10. CASE p \notin P
    <3>1. p \in U \ P /\ (U \ P) \ {p} = V \ P /\ U \cap P = V \cap P
      BY <2>4, <2>5, <2>10
    <3>2. \A x \in U \ P : f[x] \in Int
      BY <2>5
    <3>3. Sum(U \ P) = f[p] + Sum((U \ P) \ {p})
      BY <2>8, <3>1, <3>2, SumTakesOut
    <3>4. PICK v \in Int : v = Sum(V \cap P)
      BY <2>8
    <3>5. PICK w \in Int : w = Sum(V \ P)
      BY <2>8
    <3>6. Sum(U) = f[p] + (v + w)
      BY <2>6, <2>7, <3>4, <3>5
    <3>7. Sum(U \cap P) = v /\ Sum(U \ P) = f[p] + w
      BY <3>1, <3>3, <3>4, <3>5
    <3>8. Sum(U) # Sum(U \cap P) + Sum(U \ P)
      OBVIOUS
    <3> HIDE DEF Sum
    <3> QED
      BY <2>6, <3>6, <3>7, <3>8
  <2> QED
    BY <2>9, <2>10
<1>2. T = {}
  <2>1. SUFFICES ASSUME T # {} PROVE FALSE
    OBVIOUS
  <2>2. T \subseteq SUBSET S
    OBVIOUS
  <2> HIDE DEF T
  <2> QED
    BY <1>1, <2>1, <2>2, SmallestSubset
<1>3. Sum(S) = Sum(S \cap P) + Sum(S \ P)
  BY <1>2
<1>4. S \cap P = P
  OBVIOUS
<1> QED
  BY <1>3, <1>4

\* A sum of differences.
LEMMA SumOfDifferences ==
  ASSUME NEW f, NEW g, NEW h, NEW S, IsFiniteSet(S),
         \A x \in S : f[x] \in Int /\ g[x] \in Int /\ h[x] = f[x] - g[x]
  PROVE  SumFunctionOnSet(h, S) = SumFunctionOnSet(f, S) - SumFunctionOnSet(g, S)
<1> DEFINE C == {V \in SUBSET S :
                   SumFunctionOnSet(h, V) # SumFunctionOnSet(f, V) - SumFunctionOnSet(g, V)}
<1>1. CASE C = {}
  BY <1>1
<1>2. CASE C # {}
  <2>1. C \subseteq SUBSET S
    OBVIOUS
  <2>2. PICK V \in C : \A U \in C : U \subseteq V => U = V
    <3> HIDE DEF C
    <3> QED
      BY <1>2, <2>1, SmallestSubset
  <2>3. /\ V \subseteq S
        /\ SumFunctionOnSet(h, V) # SumFunctionOnSet(f, V) - SumFunctionOnSet(g, V)
    BY <2>2
  <2>4. CASE V = {}
    <3>1. SumFunctionOnSet(h, {}) = 0 /\ SumFunctionOnSet(f, {}) = 0 /\ SumFunctionOnSet(g, {}) = 0
      BY SumOfNothing
    <3> QED
      BY <2>3, <2>4, <3>1
  <2>5. CASE V # {}
    <3>1. PICK x : x \in V
      BY <2>5
    <3>2. PICK W : W = V \ {x}
      OBVIOUS
    <3>3. W \subseteq V /\ W # V
      BY <3>1, <3>2
    <3>4. W \notin C
      BY <2>2, <3>3
    <3>5. SumFunctionOnSet(h, W) = SumFunctionOnSet(f, W) - SumFunctionOnSet(g, W)
      BY <2>3, <3>3, <3>4
    <3>6. /\ IsFiniteSet(V) /\ IsFiniteSet(W)
          /\ \A y \in V : f[y] \in Int
          /\ \A y \in V : g[y] \in Int
          /\ \A y \in V : h[y] \in Int
      BY <2>3, <3>3, FS_Subset
    <3>7. SumFunctionOnSet(f, V) = f[x] + SumFunctionOnSet(f, W)
      BY <3>1, <3>2, <3>6, SumTakesOut
    <3>8. SumFunctionOnSet(g, V) = g[x] + SumFunctionOnSet(g, W)
      BY <3>1, <3>2, <3>6, SumTakesOut
    <3>9. SumFunctionOnSet(h, V) = h[x] + SumFunctionOnSet(h, W)
      BY <3>1, <3>2, <3>6, SumTakesOut
    <3>10. SumFunctionOnSet(f, W) \in Int /\ SumFunctionOnSet(g, W) \in Int
      <4>1. (\A y \in W : f[y] \in Int) /\ \A y \in W : g[y] \in Int
        BY <3>3, <3>6
      <4> QED
        BY <3>6, <4>1, SumIsAnInteger
    <3>11. f[x] \in Int /\ g[x] \in Int /\ h[x] = f[x] - g[x]
      BY <2>3, <3>1
    <3> QED
      BY <2>3, <3>5, <3>7, <3>8, <3>9, <3>10, <3>11
  <2> QED
    BY <2>4, <2>5
<1> QED
  BY <1>1, <1>2

\* A sum by parts: h says which part an element is of, and g what each part comes to.
LEMMA SumByParts ==
  ASSUME NEW f, NEW S, IsFiniteSet(S), \A x \in S : f[x] \in Int,
         NEW h, NEW T, IsFiniteSet(T), \A x \in S : h[x] \in T,
         NEW g, \A z \in T : g[z] = SumFunctionOnSet(f, {x \in S : h[x] = z})
  PROVE  SumFunctionOnSet(f, S) = SumFunctionOnSet(g, T)
<1> DEFINE Of(V) == {x \in S : h[x] \in V}
           C == {V \in SUBSET T : SumFunctionOnSet(f, Of(V)) # SumFunctionOnSet(g, V)}
<1>1. \A z \in T : g[z] \in Int
  <2>1. ASSUME NEW z \in T PROVE g[z] \in Int
    <3>1. PICK P : P = {x \in S : h[x] = z}
      OBVIOUS
    <3>2. P \subseteq S
      BY <3>1
    <3>3. IsFiniteSet(P) /\ \A x \in P : f[x] \in Int
      BY <3>2, FS_Subset
    <3>4. SumFunctionOnSet(f, P) \in Int
      BY <3>3, SumIsAnInteger
    <3> QED
      BY <3>1, <3>4
  <2> QED
    BY <2>1
<1>2. CASE C = {}
  <2>1. SumFunctionOnSet(f, Of(T)) = SumFunctionOnSet(g, T)
    BY <1>2
  <2>2. Of(T) = S
    OBVIOUS
  <2> QED
    BY <2>1, <2>2
<1>3. CASE C # {}
  <2>1. C \subseteq SUBSET T
    OBVIOUS
  <2>2. PICK V \in C : \A U \in C : U \subseteq V => U = V
    <3> HIDE DEF C
    <3> QED
      BY <1>3, <2>1, SmallestSubset
  <2>3. V \subseteq T /\ SumFunctionOnSet(f, Of(V)) # SumFunctionOnSet(g, V)
    BY <2>2
  <2>4. CASE V = {}
    <3>1. Of(V) = {}
      BY <2>4
    <3>2. SumFunctionOnSet(f, {}) = 0 /\ SumFunctionOnSet(g, {}) = 0
      BY SumOfNothing
    <3> QED
      BY <2>3, <2>4, <3>1, <3>2
  <2>5. CASE V # {}
    <3>1. PICK z : z \in V
      BY <2>5
    <3>2. PICK W : W = V \ {z}
      OBVIOUS
    <3>3. W \subseteq V /\ W # V
      BY <3>1, <3>2
    <3>4. W \notin C
      BY <2>2, <3>3
    <3>5. SumFunctionOnSet(f, Of(W)) = SumFunctionOnSet(g, W)
      BY <2>3, <3>3, <3>4
    <3>6. IsFiniteSet(V) /\ \A x \in V : g[x] \in Int
      BY <1>1, <2>3, FS_Subset
    <3>7. SumFunctionOnSet(g, V) = g[z] + SumFunctionOnSet(g, W)
      <4>1. SumFunctionOnSet(g, V) = g[z] + SumFunctionOnSet(g, V \ {z})
        BY <3>1, <3>6, SumTakesOut
      <4> QED
        BY <3>2, <4>1
    <3>8. PICK A : A = Of(V)
      OBVIOUS
    <3>9. PICK P : P = {x \in S : h[x] = z}
      OBVIOUS
    <3>10. P \subseteq A /\ Of(W) = A \ P /\ A \subseteq S
      BY <3>1, <3>2, <3>8, <3>9
    <3>11. IsFiniteSet(A) /\ \A x \in A : f[x] \in Int
      BY <3>10, FS_Subset
    <3>12. SumFunctionOnSet(f, A) = SumFunctionOnSet(f, P) + SumFunctionOnSet(f, A \ P)
      BY <3>10, <3>11, SumOfParts
    <3>13. g[z] = SumFunctionOnSet(f, P)
      BY <2>3, <3>1, <3>9
    <3>14. SumFunctionOnSet(f, P) \in Int /\ SumFunctionOnSet(f, A \ P) \in Int
      <4>1. IsFiniteSet(P) /\ IsFiniteSet(A \ P)
        BY <3>10, <3>11, FS_Subset
      <4> QED
        BY <3>10, <3>11, <4>1, SumIsAnInteger
    <3> QED
      BY <2>3, <3>5, <3>7, <3>8, <3>10, <3>12, <3>13, <3>14
  <2> QED
    BY <2>4, <2>5
<1> QED
  BY <1>2, <1>3

\* What a function takes a finite set to is finite.
LEMMA FiniteImage ==
  ASSUME NEW S, IsFiniteSet(S), NEW T, NEW f, DOMAIN f = S, \A x \in S : f[x] \in T,
         f = [x \in S |-> f[x]], \A t \in T : \E x \in S : f[x] = t
  PROVE  IsFiniteSet(T)
<1>1. f \in Surjection(S, T)
  BY DEF Surjection
<1> QED
  BY <1>1, FS_Surjection

=============================================================================
