-------------------------------- MODULE Sums --------------------------------
(***************************************************************************)
(* Sums over finite sets, as SumFunctionOnSet of Functions defines them,   *)
(* for every set and every function.  The order in which the recursion     *)
(* takes the elements is a CHOOSE; the laws below say that it does not     *)
(* matter.  A set stands for a predicate, so that the induction has no     *)
(* operator parameter, and what is needed of finite sets is proved from    *)
(* their definition: a module that uses the sums then has few theorems of  *)
(* the library in its context.                                             *)
(***************************************************************************)
EXTENDS Integers, Sequences, FiniteSets, Functions, WellFoundedInduction, TLAPS

-----------------------------------------------------------------------------
(* Finite sets *)

\* A set of numbers that is not empty has a least one.
LEMMA LeastNumber ==
  ASSUME NEW T, T \subseteq Nat, T # {}
  PROVE  \E m \in T : \A n \in T : ~(n < m)
<1> DEFINE R == OpToRel(<, Nat)
<1>1. \A m, n \in Nat : n < m => << n, m >> \in R
  BY DEF OpToRel
<1>2. IsWellFoundedOn(R, Nat)
  BY NatLessThanWellFounded
<1> HIDE DEF R
<1>3. \E m \in T : \A n \in T : ~(<< n, m >> \in R)
  BY <1>2, WFMin
<1> QED BY <1>1, <1>3

\* A set of sets that has the empty set, and with a set also the set with one
\* element of S more, has S itself when S is finite.
LEMMA ElementInduction ==
  ASSUME NEW S, IsFiniteSet(S), NEW G, {} \in G,
         \A T \in SUBSET S, x \in S : T \in G /\ x \notin T => T \cup {x} \in G
  PROVE  S \in G
<1>1. PICK q \in Seq(S) : \A s \in S : \E n \in 1..Len(q) : q[n] = s
  BY Zenon DEF IsFiniteSet
<1> DEFINE First(k) == {x \in S : \E n \in 1..k : q[n] = x}
           Bad == {k \in 0..Len(q) : First(k) \notin G}
<1>2. First(0) = {} /\ First(Len(q)) = S /\ Len(q) \in Nat
  BY <1>1
<1>3. \A k : First(k) \in SUBSET S
  BY Zenon
<1>4. ASSUME NEW k \in 1..Len(q)
      PROVE  First(k) = First(k - 1) \cup {q[k]} /\ q[k] \in S
  <2>1. q[k] \in S
    BY <1>1
  <2>2. \A n : n \in 1..k <=> n \in 1..(k - 1) \/ n = k
    BY <1>2
  <2> QED BY <2>1, <2>2
<1> HIDE DEF First
<1>5. SUFFICES ASSUME First(Len(q)) \notin G PROVE FALSE
  BY <1>2, Zenon
<1>6. PICK m \in Bad : \A n \in Bad : ~(n < m)
  <2>1. Bad \subseteq Nat /\ Bad # {}
    BY <1>2, <1>5
  <2> HIDE DEF Bad
  <2> QED BY <2>1, LeastNumber
<1>7. m \in 1..Len(q) /\ First(m - 1) \in G
  <2>1. m # 0
    BY <1>2, <1>6, Zenon
  <2>2. m \in 1..Len(q) /\ m - 1 \in 0..Len(q) /\ m - 1 < m
    BY <1>2, <1>6, <2>1
  <2>3. m - 1 \notin Bad
    BY <1>6, <2>2, Zenon
  <2> QED BY <2>2, <2>3, Zenon
<1>8. First(m) \in G
  <2>1. CASE q[m] \in First(m - 1)
    <3>1. First(m - 1) \cup {q[m]} = First(m - 1)
      BY <2>1
    <3> QED BY <1>4, <1>7, <3>1
  <2>2. CASE q[m] \notin First(m - 1)
    <3>1. First(m) = First(m - 1) \cup {q[m]} /\ q[m] \in S /\ First(m - 1) \in SUBSET S
      BY <1>3, <1>4, <1>7, Zenon
    <3>2. First(m - 1) \cup {q[m]} \in G
      BY <1>7, <2>2, <3>1, Zenon
    <3> QED BY <3>1, <3>2
  <2> QED BY <2>1, <2>2, Zenon
<1> QED BY <1>6, <1>8, Zenon

\* The same, when a set is there as soon as all its strict subsets are.
LEMMA SubsetInduction ==
  ASSUME NEW S, IsFiniteSet(S), NEW G,
         \A T \in SUBSET S : (\A U \in SUBSET T : U # T => U \in G) => T \in G
  PROVE  S \in G
<1> DEFINE Below(U, H) == \A V \in SUBSET U : V # U => V \in H
           Closed(H, T) == \A U \in SUBSET T : Below(U, H) => U \in H
           K == {T \in SUBSET S : \A H : Closed(H, T) => \A U \in SUBSET T : U \in H}
<1>1. {} \in K
  <2>1. \A U \in SUBSET {} : U = {}
    BY Zenon
  <2>2. \A H : Below({}, H)
    BY <2>1, Zenon
  <2> HIDE DEF Below
  <2> QED BY <2>1, <2>2
<1>2. ASSUME NEW T \in SUBSET S, NEW x \in S, T \in K, x \notin T
      PROVE  T \cup {x} \in K
  <2> SUFFICES ASSUME NEW H, Closed(H, T \cup {x}), NEW W \in SUBSET (T \cup {x})
               PROVE  W \in H
    BY Zenon
  <2>1. \A U \in SUBSET T : U \in H
    BY <1>2, Zenon
  <2> DEFINE J == {U \in SUBSET T : U \cup {x} \in H}
  <2>2. ASSUME NEW U \in SUBSET T, Below(U, J) PROVE U \in J
    <3>1. ASSUME NEW V \in SUBSET (U \cup {x}), V # U \cup {x} PROVE V \in H
      <4>1. CASE x \notin V
        <5>1. V \in SUBSET T
          BY <4>1, Zenon
        <5> QED BY <2>1, <5>1, Zenon
      <4>2. CASE x \in V
        <5>1. V \ {x} \in SUBSET U /\ (V \ {x}) \cup {x} = V
          BY <4>2
        <5>2. V \ {x} # U
          BY <3>1, <5>1
        <5>3. V \ {x} \in J
          BY <2>2, <5>1, <5>2, Zenon
        <5>4. (V \ {x}) \cup {x} \in H
          BY <5>3, Zenon
        <5> QED BY <5>1, <5>4
      <4> QED BY <4>1, <4>2, Zenon
    <3>2. U \cup {x} \in SUBSET (T \cup {x})
      BY Zenon
    <3>3. Below(U \cup {x}, H)
      BY <3>1, Zenon
    <3> HIDE DEF Below
    <3> QED BY <3>2, <3>3, Zenon
  <2>3. Closed(J, T)
    <3> HIDE DEF Below, J
    <3> QED BY <2>2, Zenon
  <2>4. \A U \in SUBSET T : U \in J
    <3> HIDE DEF Closed, J
    <3> QED BY <1>2, <2>3, Zenon
  <2>5. CASE x \notin W
    <3>1. W \in SUBSET T
      BY <2>5, Zenon
    <3> QED BY <2>1, <3>1, Zenon
  <2>6. CASE x \in W
    <3>1. W \ {x} \in SUBSET T /\ (W \ {x}) \cup {x} = W
      BY <2>6
    <3>2. W \ {x} \in J
      BY <2>4, <3>1, Zenon
    <3>3. (W \ {x}) \cup {x} \in H
      BY <3>2, Zenon
    <3> QED BY <3>1, <3>3
  <2> QED BY <2>5, <2>6, Zenon
<1>3. S \in K
  <2> HIDE DEF K
  <2> QED BY <1>1, <1>2, ElementInduction
<1> QED BY <1>3, Zenon

\* The empty set is finite.
LEMMA FiniteNone == IsFiniteSet({})
<1>1. << >> \in Seq({}) /\ \A s \in {} : \E n \in 1..Len(<< >>) : << >>[n] = s
  OBVIOUS
<1> QED BY <1>1 DEF IsFiniteSet

\* A finite set with one more element is finite.
LEMMA FiniteAdd ==
  ASSUME NEW S, IsFiniteSet(S), NEW x
  PROVE  IsFiniteSet(S \cup {x})
<1>1. PICK q \in Seq(S) : \A s \in S : \E n \in 1..Len(q) : q[n] = s
  BY Zenon DEF IsFiniteSet
<1> DEFINE r == Append(q, x)
<1>2. /\ r \in Seq(S \cup {x}) /\ Len(r) = Len(q) + 1 /\ Len(q) \in Nat
      /\ r[Len(q) + 1] = x /\ \A n \in 1..Len(q) : r[n] = q[n]
  <2>1. q \in Seq(S \cup {x})
    BY <1>1
  <2> QED BY <2>1
<1> HIDE DEF r
<1>3. Len(q) + 1 \in 1..Len(r) /\ \A n \in 1..Len(q) : n \in 1..Len(r)
  BY <1>2
<1>4. \A s \in S \cup {x} : \E n \in 1..Len(r) : r[n] = s
  BY <1>1, <1>2, <1>3, Zenon
<1> QED BY <1>2, <1>4, Zenon DEF IsFiniteSet

\* A part of a finite set is finite.
LEMMA FinitePart ==
  ASSUME NEW S, IsFiniteSet(S), NEW T \in SUBSET S
  PROVE  IsFiniteSet(T)
<1> DEFINE G == {U \in SUBSET S : \A V \in SUBSET U : IsFiniteSet(V)}
<1>1. {} \in G
  <2>1. \A V \in SUBSET {} : V = {}
    BY Zenon
  <2> QED BY <2>1, FiniteNone
<1>2. ASSUME NEW U \in SUBSET S, NEW x \in S, U \in G, x \notin U
      PROVE  U \cup {x} \in G
  <2>1. ASSUME NEW V \in SUBSET (U \cup {x}) PROVE IsFiniteSet(V)
    <3>1. V \ {x} \in SUBSET U
      BY Zenon
    <3>2. IsFiniteSet(V \ {x})
      BY <1>2, <3>1, Zenon
    <3>3. CASE x \in V
      <4>1. (V \ {x}) \cup {x} = V
        BY <3>3
      <4>2. IsFiniteSet((V \ {x}) \cup {x})
        BY <3>2, FiniteAdd, Zenon
      <4> QED BY <4>1, <4>2
    <3>4. CASE x \notin V
      <4>1. V \ {x} = V
        BY <3>4
      <4> QED BY <3>2, <4>1
    <3> QED BY <3>3, <3>4, Zenon
  <2>2. U \cup {x} \in SUBSET S
    BY Zenon
  <2> QED BY <2>1, <2>2, Zenon
<1>3. S \in G
  <2> HIDE DEF G
  <2> QED BY <1>1, <1>2, ElementInduction
<1> QED BY <1>3, Zenon

\* The union of two finite sets is finite.
LEMMA FiniteUnion ==
  ASSUME NEW S, IsFiniteSet(S), NEW T, IsFiniteSet(T)
  PROVE  IsFiniteSet(S \cup T)
<1> DEFINE G == {U \in SUBSET T : IsFiniteSet(S \cup U)}
<1>1. {} \in G
  <2>1. S \cup {} = S
    OBVIOUS
  <2> QED BY <2>1
<1>2. ASSUME NEW U \in SUBSET T, NEW x \in T, U \in G, x \notin U
      PROVE  U \cup {x} \in G
  <2>1. S \cup (U \cup {x}) = (S \cup U) \cup {x}
    OBVIOUS
  <2>2. IsFiniteSet((S \cup U) \cup {x})
    BY <1>2, FiniteAdd, Zenon
  <2> QED BY <2>1, <2>2
<1>3. T \in G
  <2> HIDE DEF G
  <2> QED BY <1>1, <1>2, ElementInduction
<1> QED BY <1>3, Zenon

\* A sequence of length n has a finite domain.
LEMMA FiniteDomain == ASSUME NEW n \in Nat PROVE IsFiniteSet(1..n)
<1> DEFINE q == [i \in 1..n |-> i]
<1>1. q \in Seq(1..n) /\ \A i \in 1..n : i \in 1..Len(q) /\ q[i] = i
  OBVIOUS
<1> HIDE DEF q
<1> QED BY <1>1 DEF IsFiniteSet

\* The values of a function on a finite set are finitely many.
LEMMA FiniteImage ==
  ASSUME NEW S, IsFiniteSet(S), NEW r, NEW R, R = {r[x] : x \in S}
  PROVE  IsFiniteSet(R)
<1> DEFINE I(U) == {r[x] : x \in U}
           G == {U \in SUBSET S : IsFiniteSet(I(U))}
<1>1. {} \in G
  <2>1. I({}) = {}
    OBVIOUS
  <2> QED BY <2>1, FiniteNone
<1>2. ASSUME NEW U \in SUBSET S, NEW x \in S, U \in G, x \notin U
      PROVE  U \cup {x} \in G
  <2>1. I(U \cup {x}) = I(U) \cup {r[x]}
    OBVIOUS
  <2>2. IsFiniteSet(I(U))
    BY <1>2, Zenon
  <2> HIDE DEF I
  <2>3. IsFiniteSet(I(U) \cup {r[x]})
    BY <2>2, FiniteAdd, Zenon
  <2> QED BY <2>1, <2>3, Zenon
<1>3. S \in G
  <2> HIDE DEF G
  <2> QED BY <1>1, <1>2, ElementInduction
<1> QED BY <1>3, Zenon

-----------------------------------------------------------------------------
(* What SumFunctionOnSet computes *)

\* The element that MapThenFoldSet takes first.
Pick(s) == CHOOSE x \in s : TRUE

\* g sums f over the subsets of S.
PartialSums(f, S, g) ==
  g = [s \in SUBSET S |-> IF s = {} THEN 0 ELSE f[Pick(s)] + g[s \ {Pick(s)}]]

\* Pick takes an element of the set.
LEMMA PickIn == ASSUME NEW s, s # {} PROVE Pick(s) \in s
  BY Zenon DEF Pick

\* SumFunctionOnSet is the recursive function above, applied to the whole set.
LEMMA SumDef ==
  ASSUME NEW f, NEW S
  PROVE  SumFunctionOnSet(f, S) = (CHOOSE g : PartialSums(f, S, g))[S]
  BY Zenon DEF SumFunctionOnSet, FoldFunctionOnSet, MapThenFoldSet, PartialSums, Pick

\* Two such functions agree where both are defined.
LEMMA SumsAgree ==
  ASSUME NEW f, NEW S, NEW T, NEW g, NEW h, PartialSums(f, S, g), PartialSums(f, T, h),
         NEW R, R \subseteq S, R \subseteq T, IsFiniteSet(R)
  PROVE  g[R] = h[R]
<1> DEFINE G == {U \in SUBSET R : g[U] = h[U]}
<1>1. ASSUME NEW U \in SUBSET R, \A V \in SUBSET U : V # U => V \in G
      PROVE  U \in G
  <2>1. U \in SUBSET S /\ U \in SUBSET T
    OBVIOUS
  <2>2. /\ g[U] = IF U = {} THEN 0 ELSE f[Pick(U)] + g[U \ {Pick(U)}]
        /\ h[U] = IF U = {} THEN 0 ELSE f[Pick(U)] + h[U \ {Pick(U)}]
    BY <2>1, Zenon DEF PartialSums
  <2>3. U # {} => U \ {Pick(U)} \in SUBSET U /\ U \ {Pick(U)} # U
    BY PickIn
  <2>4. U # {} => g[U \ {Pick(U)}] = h[U \ {Pick(U)}]
    BY <1>1, <2>3, Zenon
  <2> QED BY <2>2, <2>4, Zenon
<1>2. R \in G
  <2> HIDE DEF G
  <2> QED BY <1>1, SubsetInduction, Zenon
<1> QED BY <1>2, Zenon

\* Over a finite set there is such a function.
LEMMA SumsExist ==
  ASSUME NEW f, NEW S, IsFiniteSet(S)
  PROVE  \E g : PartialSums(f, S, g)
<1> DEFINE G == {T \in SUBSET S : \E g : PartialSums(f, T, g)}
<1>1. ASSUME NEW T \in SUBSET S, \A U \in SUBSET T : U # T => U \in G
      PROVE  T \in G
  <2> DEFINE h(U) == CHOOSE g : PartialSums(f, U, g)
             v(U) == h(U)[U]
             p == Pick(T)
             g == [s \in SUBSET T |->
                     IF s # T THEN v(s) ELSE IF T = {} THEN 0 ELSE f[p] + v(T \ {p})]
  <2>1. ASSUME NEW U \in SUBSET T, U # T
        PROVE  PartialSums(f, U, h(U))
    <3>1. \E k : PartialSums(f, U, k)
      BY <1>1, <2>1, Zenon
    <3> QED BY <3>1, Zenon
  <2>2. ASSUME NEW U \in SUBSET T, U # T
        PROVE  g[U] = IF U = {} THEN 0 ELSE f[Pick(U)] + g[U \ {Pick(U)}]
    <3> DEFINE W == U \ {Pick(U)}
    <3>1. g[U] = v(U)
      BY <2>2, Zenon
    <3>2. PartialSums(f, U, h(U))
      BY <2>1, <2>2, Zenon
    <3>3. h(U)[U] = IF U = {} THEN 0 ELSE f[Pick(U)] + h(U)[W]
      <4>1. U \in SUBSET U
        OBVIOUS
      <4> HIDE DEF h
      <4> QED BY <3>2, <4>1, Zenon DEF PartialSums
    <3>4. ASSUME U # {} PROVE h(U)[W] = g[W]
      <4>1. W \in SUBSET T /\ W # T /\ W \subseteq U
        BY <2>2
      <4>2. PartialSums(f, W, h(W))
        BY <2>1, <4>1, Zenon
      <4>3. IsFiniteSet(W)
        BY <4>1, FinitePart, Zenon
      <4>4. h(U)[W] = h(W)[W]
        <5>1. W \subseteq W
          OBVIOUS
        <5> HIDE DEF h, W
        <5> QED BY <3>2, <4>1, <4>2, <4>3, <5>1, SumsAgree
      <4>5. g[W] = v(W)
        BY <4>1, Zenon
      <4> QED BY <4>4, <4>5, Zenon
    <3> HIDE DEF h, W, g
    <3> QED BY <3>1, <3>3, <3>4, Zenon DEF W
  <2>3. T # {} => g[T] = f[p] + g[T \ {p}]
    <3>1. T # {} => T \ {p} \in SUBSET T /\ T \ {p} # T
      BY PickIn
    <3>2. T \in SUBSET T
      OBVIOUS
    <3> HIDE DEF v, p
    <3>3. g[T] = IF T = {} THEN 0 ELSE f[p] + v(T \ {p})
      BY <3>2, Zenon
    <3> QED BY <3>1, <3>3, Zenon
  <2>4. T = {} => g[T] = 0
    <3> HIDE DEF v, p
    <3>2. T \in SUBSET T
      OBVIOUS
    <3>3. g[T] = IF T = {} THEN 0 ELSE f[p] + v(T \ {p})
      BY <3>2, Zenon
    <3> QED BY <3>3, Zenon
  <2>5. \A s \in SUBSET T :
          g[s] = IF s = {} THEN 0 ELSE f[Pick(s)] + g[s \ {Pick(s)}]
    <3> HIDE DEF g
    <3> QED BY <2>2, <2>3, <2>4, Zenon
  <2>6. g = [s \in SUBSET T |-> g[s]]
    <3> HIDE DEF v, p
    <3> QED OBVIOUS
  <2> HIDE DEF g
  <2>7. PartialSums(f, T, g)
    BY <2>5, <2>6, Zenon DEF PartialSums
  <2> QED BY <2>7, Zenon
<1>2. S \in G
  <2> HIDE DEF G
  <2> QED BY <1>1, SubsetInduction, Zenon
<1> QED BY <1>2, Zenon

\* Nothing sums to zero.
LEMMA SumOfNone == ASSUME NEW f PROVE SumFunctionOnSet(f, {}) = 0
<1>1. IsFiniteSet({})
  BY FiniteNone
<1>2. PartialSums(f, {}, CHOOSE g : PartialSums(f, {}, g))
  BY <1>1, SumsExist, Zenon
<1>3. {} \in SUBSET {}
  OBVIOUS
<1>4. (CHOOSE g : PartialSums(f, {}, g))[{}] = 0
  BY <1>2, <1>3, Zenon DEF PartialSums
<1> QED BY <1>4, SumDef, Zenon

\* A sum is its first element and the sum of the others.
LEMMA SumStep ==
  ASSUME NEW f, NEW S, IsFiniteSet(S), S # {}
  PROVE  SumFunctionOnSet(f, S) = f[Pick(S)] + SumFunctionOnSet(f, S \ {Pick(S)})
<1> DEFINE W == S \ {Pick(S)}
           g == CHOOSE g : PartialSums(f, S, g)
           h == CHOOSE h : PartialSums(f, W, h)
<1>1. IsFiniteSet(W) /\ W \subseteq S /\ W \subseteq W /\ S \in SUBSET S
  BY FinitePart
<1>2. PartialSums(f, S, g)
  BY SumsExist, Zenon
<1>3. PartialSums(f, W, h)
  BY <1>1, SumsExist, Zenon
<1>4. SumFunctionOnSet(f, S) = g[S] /\ SumFunctionOnSet(f, W) = h[W]
  BY SumDef, Zenon
<1> HIDE DEF g, h
<1>5. g[W] = h[W]
  BY <1>1, <1>2, <1>3, SumsAgree
<1>6. g[S] = f[Pick(S)] + g[W]
  BY <1>1, <1>2, Zenon DEF PartialSums
<1> QED BY <1>4, <1>5, <1>6, Zenon

\* A sum of integers is an integer.
LEMMA SumType ==
  ASSUME NEW f, NEW S, IsFiniteSet(S), \A x \in S : f[x] \in Int
  PROVE  SumFunctionOnSet(f, S) \in Int
<1> DEFINE G == {T \in SUBSET S : SumFunctionOnSet(f, T) \in Int}
<1>1. ASSUME NEW T \in SUBSET S, \A U \in SUBSET T : U # T => U \in G
      PROVE  T \in G
  <2>1. CASE T = {}
    BY <2>1, SumOfNone
  <2>2. CASE T # {}
    <3>1. IsFiniteSet(T)
      BY FinitePart, Zenon
    <3>2. Pick(T) \in T
      BY <2>2, PickIn, Zenon
    <3>3. SumFunctionOnSet(f, T) = f[Pick(T)] + SumFunctionOnSet(f, T \ {Pick(T)})
      BY <2>2, <3>1, SumStep, Zenon
    <3>4. T \ {Pick(T)} \in SUBSET T /\ T \ {Pick(T)} # T
      BY <3>2
    <3>5. SumFunctionOnSet(f, T \ {Pick(T)}) \in Int
      BY <1>1, <3>4, Zenon
    <3> QED BY <3>2, <3>3, <3>5
  <2> QED BY <2>1, <2>2, Zenon
<1>2. S \in G
  <2> HIDE DEF G
  <2> QED BY <1>1, SubsetInduction, Zenon
<1> QED BY <1>2, Zenon

-----------------------------------------------------------------------------
(* The laws of sums *)

\* An element that is added to the set adds its value to the sum, whichever
\* element the recursion takes first.
LEMMA SumAdd ==
  ASSUME NEW f, NEW S, IsFiniteSet(S), NEW x, x \notin S,
         \A y \in S \cup {x} : f[y] \in Int
  PROVE  SumFunctionOnSet(f, S \cup {x}) = SumFunctionOnSet(f, S) + f[x]
<1> DEFINE A == S \cup {x}
           G == {T \in SUBSET A :
                   \A y \in A : y \notin T =>
                     SumFunctionOnSet(f, T \cup {y}) = SumFunctionOnSet(f, T) + f[y]}
<1>1. IsFiniteSet(A)
  BY FiniteAdd, Zenon
<1>2. ASSUME NEW T \in SUBSET A, \A U \in SUBSET T : U # T => U \in G
      PROVE  T \in G
  <2> SUFFICES ASSUME NEW y \in A, y \notin T
               PROVE  SumFunctionOnSet(f, T \cup {y}) = SumFunctionOnSet(f, T) + f[y]
    BY Zenon
  <2> DEFINE V == T \cup {y}
             p == Pick(V)
             W == T \ {p}
  <2>1. IsFiniteSet(T) /\ IsFiniteSet(V) /\ IsFiniteSet(W) /\ IsFiniteSet(V \ {p})
    BY <1>1, FinitePart
  <2>2. p \in V
    BY PickIn
  <2>3. SumFunctionOnSet(f, V) = f[p] + SumFunctionOnSet(f, V \ {p})
    BY <2>1, <2>2, SumStep, Zenon
  <2>4. \A u \in A : f[u] \in Int
    OBVIOUS
  <2>5. SumFunctionOnSet(f, T) \in Int /\ SumFunctionOnSet(f, W) \in Int
    <3>1. \A u \in T : f[u] \in Int
      BY <2>4
    <3>2. \A u \in W : f[u] \in Int
      BY <3>1
    <3> QED BY <2>1, <3>1, <3>2, SumType, Zenon
  <2>6. CASE p = y
    <3>1. V \ {p} = T
      BY <2>6
    <3>2. SumFunctionOnSet(f, V) = f[y] + SumFunctionOnSet(f, T)
      BY <2>3, <2>6, <3>1, Zenon
    <3> QED BY <2>4, <2>5, <3>2
  <2>7. CASE p # y
    <3>1. /\ p \in T /\ p \in A /\ W \in SUBSET T /\ W # T /\ W \in G
          /\ p \notin W /\ y \notin W
          /\ T = W \cup {p} /\ V \ {p} = W \cup {y}
      <4>0. p \in T
        BY <2>2, <2>7
      <4>1. p \in T /\ W \in SUBSET T /\ W # T /\ p \in A
        <5> HIDE DEF p
        <5> QED BY <4>0
      <4>2. T = W \cup {p} /\ V \ {p} = W \cup {y}
        <5> HIDE DEF p
        <5> QED BY <2>7, <4>1
      <4>3. W \in G
        <5> HIDE DEF p, G
        <5> QED BY <1>2, <4>1, Zenon
      <4>4. p \notin W /\ y \notin W
        OBVIOUS
      <4> QED BY <4>1, <4>2, <4>3, <4>4, Zenon
    <3>2. SumFunctionOnSet(f, T) = SumFunctionOnSet(f, W) + f[p]
      <4> HIDE DEF W, p, V
      <4> QED BY <3>1, Zenon
    <3>3. SumFunctionOnSet(f, V \ {p}) = SumFunctionOnSet(f, W) + f[y]
      <4> HIDE DEF W, p, V
      <4> QED BY <3>1, Zenon
    <3>4. SumFunctionOnSet(f, T \cup {y}) = f[p] + (SumFunctionOnSet(f, W) + f[y])
      BY <2>3, <3>3, Zenon
    <3> HIDE DEF W, p, V
    <3> QED BY <2>4, <2>5, <3>1, <3>2, <3>4
  <2> QED BY <2>6, <2>7, Zenon
<1>3. S \in G
  <2>1. \A T \in SUBSET S : T \in SUBSET A
    OBVIOUS
  <2>2. \A T \in SUBSET S : (\A U \in SUBSET T : U # T => U \in G) => T \in G
    <3> HIDE DEF G, A
    <3> QED BY <1>2, <2>1, Zenon
  <2> HIDE DEF G, A
  <2> QED BY <2>2, SubsetInduction
<1> QED BY <1>3, Zenon

\* Functions with the same values have the same sum.
LEMMA SumSame ==
  ASSUME NEW f, NEW g, NEW S, IsFiniteSet(S), \A x \in S : f[x] = g[x]
  PROVE  SumFunctionOnSet(f, S) = SumFunctionOnSet(g, S)
<1> DEFINE G == {T \in SUBSET S : SumFunctionOnSet(f, T) = SumFunctionOnSet(g, T)}
<1>1. ASSUME NEW T \in SUBSET S, \A U \in SUBSET T : U # T => U \in G
      PROVE  T \in G
  <2>1. CASE T = {}
    BY <2>1, SumOfNone, Zenon
  <2>2. CASE T # {}
    <3>1. IsFiniteSet(T)
      BY FinitePart, Zenon
    <3>2. Pick(T) \in T
      BY <2>2, PickIn, Zenon
    <3>3. /\ SumFunctionOnSet(f, T) = f[Pick(T)] + SumFunctionOnSet(f, T \ {Pick(T)})
          /\ SumFunctionOnSet(g, T) = g[Pick(T)] + SumFunctionOnSet(g, T \ {Pick(T)})
      BY <2>2, <3>1, SumStep, Zenon
    <3>4. T \ {Pick(T)} \in SUBSET T /\ T \ {Pick(T)} # T
      BY <3>2
    <3>5. SumFunctionOnSet(f, T \ {Pick(T)}) = SumFunctionOnSet(g, T \ {Pick(T)})
      BY <1>1, <3>4, Zenon
    <3>6. f[Pick(T)] = g[Pick(T)]
      BY <3>2, Zenon
    <3> QED BY <3>3, <3>5, <3>6, Zenon
  <2> QED BY <2>1, <2>2, Zenon
<1>2. S \in G
  <2> HIDE DEF G
  <2> QED BY <1>1, SubsetInduction, Zenon
<1> QED BY <1>2, Zenon

\* The sum over two disjoint sets.
LEMMA SumUnion ==
  ASSUME NEW f, NEW S, NEW T, IsFiniteSet(S), IsFiniteSet(T), S \cap T = {},
         \A x \in S \cup T : f[x] \in Int
  PROVE  SumFunctionOnSet(f, S \cup T) = SumFunctionOnSet(f, S) + SumFunctionOnSet(f, T)
<1> DEFINE G == {U \in SUBSET T : SumFunctionOnSet(f, S \cup U) =
                                   SumFunctionOnSet(f, S) + SumFunctionOnSet(f, U)}
<1>1. {} \in G
  <2>1. S \cup {} = S
    OBVIOUS
  <2>2. SumFunctionOnSet(f, S) \in Int
    BY SumType
  <2>3. SumFunctionOnSet(f, S \cup {}) = SumFunctionOnSet(f, S) + SumFunctionOnSet(f, {})
    BY <2>1, <2>2, SumOfNone
  <2> QED BY <2>3
<1>2. ASSUME NEW U \in SUBSET T, NEW x \in T, U \in G, x \notin U
      PROVE  U \cup {x} \in G
  <2>1. IsFiniteSet(U) /\ IsFiniteSet(S \cup U)
    BY FinitePart, FiniteUnion
  <2>2. SumFunctionOnSet(f, U \cup {x}) = SumFunctionOnSet(f, U) + f[x]
    <3>1. \A y \in U \cup {x} : f[y] \in Int
      OBVIOUS
    <3> QED BY <1>2, <2>1, <3>1, SumAdd, Zenon
  <2>3. SumFunctionOnSet(f, (S \cup U) \cup {x}) = SumFunctionOnSet(f, S \cup U) + f[x]
    <3>1. \A y \in (S \cup U) \cup {x} : f[y] \in Int
      OBVIOUS
    <3>2. x \notin S \cup U
      BY <1>2
    <3> QED BY <2>1, <3>1, <3>2, SumAdd, Zenon
  <2>4. (S \cup U) \cup {x} = S \cup (U \cup {x})
    OBVIOUS
  <2>5. SumFunctionOnSet(f, S) \in Int /\ SumFunctionOnSet(f, U) \in Int /\ f[x] \in Int
    BY <2>1, SumType
  <2>6. SumFunctionOnSet(f, S \cup U) = SumFunctionOnSet(f, S) + SumFunctionOnSet(f, U)
    BY <1>2
  <2>7. (SumFunctionOnSet(f, S) + SumFunctionOnSet(f, U)) + f[x] =
          SumFunctionOnSet(f, S) + (SumFunctionOnSet(f, U) + f[x])
    BY <2>5
  <2>8. SumFunctionOnSet(f, S \cup (U \cup {x})) =
          SumFunctionOnSet(f, S) + SumFunctionOnSet(f, U \cup {x})
    BY <2>2, <2>3, <2>4, <2>6, <2>7, Zenon
  <2> QED BY <2>8
<1>3. T \in G
  <2> HIDE DEF G
  <2> QED BY <1>1, <1>2, ElementInduction
<1> QED BY <1>3

\* r is a bijection from S to R.
OneToOne(r, S, R) ==
  /\ R = {r[x] : x \in S}
  /\ \A x, y \in S : r[x] = r[y] => x = y

\* g has on the image what f has on S.
Carries(r, S, f, g) == \A x \in S : f[x] \in Int /\ g[r[x]] = f[x]

\* A sum survives a renaming of the elements.
LEMMA SumImage ==
  ASSUME NEW f, NEW g, NEW S, IsFiniteSet(S), NEW r, NEW R, OneToOne(r, S, R),
         Carries(r, S, f, g)
  PROVE  IsFiniteSet(R) /\ SumFunctionOnSet(g, R) = SumFunctionOnSet(f, S)
<1> DEFINE I(U) == {r[x] : x \in U}
           G == {U \in SUBSET S : /\ IsFiniteSet(I(U))
                                  /\ SumFunctionOnSet(g, I(U)) = SumFunctionOnSet(f, U)}
<1>1. {} \in G
  <2>1. I({}) = {}
    OBVIOUS
  <2>2. IsFiniteSet({})
    BY FiniteNone
  <2> QED BY <2>1, <2>2, SumOfNone, Zenon
<1>2. ASSUME NEW U \in SUBSET S, NEW x \in S, U \in G, x \notin U
      PROVE  U \cup {x} \in G
  <2>1. IsFiniteSet(U)
    BY FinitePart, Zenon
  <2>2. I(U \cup {x}) = I(U) \cup {r[x]}
    OBVIOUS
  <2>3. r[x] \notin I(U)
    BY <1>2, Zenon DEF OneToOne
  <2>4. \A y \in U \cup {x} : f[y] \in Int
    BY DEF Carries
  <2>5. \A y \in I(U) \cup {r[x]} : g[y] \in Int
    BY DEF Carries
  <2>6. IsFiniteSet(I(U)) /\ SumFunctionOnSet(g, I(U)) = SumFunctionOnSet(f, U)
    BY <1>2, Zenon
  <2>7. SumFunctionOnSet(f, U \cup {x}) = SumFunctionOnSet(f, U) + f[x]
    BY <1>2, <2>1, <2>4, SumAdd, Zenon
  <2>8. SumFunctionOnSet(g, I(U) \cup {r[x]}) = SumFunctionOnSet(g, I(U)) + g[r[x]]
    <3> DEFINE V == I(U)
               z == r[x]
    <3>1. z \notin V /\ IsFiniteSet(V) /\ \A y \in V \cup {z} : g[y] \in Int
      BY <2>3, <2>5, <2>6, Zenon
    <3> HIDE DEF V, z
    <3>2. SumFunctionOnSet(g, V \cup {z}) = SumFunctionOnSet(g, V) + g[z]
      BY <3>1, SumAdd, Zenon
    <3> QED BY <3>2, Zenon DEF V, z
  <2> HIDE DEF I
  <2>9. IsFiniteSet(I(U) \cup {r[x]})
    BY <2>6, FiniteAdd, Zenon
  <2>10. g[r[x]] = f[x]
    BY Zenon DEF Carries
  <2> QED BY <2>2, <2>6, <2>7, <2>8, <2>9, <2>10, Zenon
<1>3. S \in G
  <2> HIDE DEF G
  <2> QED BY <1>1, <1>2, ElementInduction
<1>4. R = I(S)
  BY Zenon DEF OneToOne
<1> QED BY <1>3, <1>4, Zenon

\* The sum of the opposites is the opposite of the sum.
LEMMA SumOpposite ==
  ASSUME NEW f, NEW g, NEW S, IsFiniteSet(S), \A x \in S : f[x] \in Int /\ g[x] = -f[x]
  PROVE  SumFunctionOnSet(g, S) = -SumFunctionOnSet(f, S)
<1> DEFINE G == {U \in SUBSET S : /\ SumFunctionOnSet(f, U) \in Int
                                  /\ SumFunctionOnSet(g, U) = -SumFunctionOnSet(f, U)}
<1>1. {} \in G
  BY SumOfNone
<1>2. ASSUME NEW U \in SUBSET S, NEW x \in S, U \in G, x \notin U
      PROVE  U \cup {x} \in G
  <2>1. IsFiniteSet(U)
    BY FinitePart, Zenon
  <2>2. \A y \in U \cup {x} : f[y] \in Int /\ g[y] \in Int
    OBVIOUS
  <2>3. /\ SumFunctionOnSet(f, U \cup {x}) = SumFunctionOnSet(f, U) + f[x]
        /\ SumFunctionOnSet(g, U \cup {x}) = SumFunctionOnSet(g, U) + g[x]
    BY <1>2, <2>1, <2>2, SumAdd, Zenon
  <2>4. /\ f[x] \in Int /\ g[x] = -f[x] /\ SumFunctionOnSet(f, U) \in Int
        /\ SumFunctionOnSet(g, U) = -SumFunctionOnSet(f, U)
    BY <1>2
  <2> QED BY <2>3, <2>4
<1>3. S \in G
  <2> HIDE DEF G
  <2> QED BY <1>1, <1>2, ElementInduction
<1> QED BY <1>3

\* Zeros sum to zero.
LEMMA SumOfZeros ==
  ASSUME NEW f, NEW S, IsFiniteSet(S), \A x \in S : f[x] = 0
  PROVE  SumFunctionOnSet(f, S) = 0
<1> DEFINE v == SumFunctionOnSet(f, S)
<1>1. \A x \in S : f[x] \in Int /\ f[x] = -f[x]
  OBVIOUS
<1>2. v = -v
  BY <1>1, SumOpposite, Zenon
<1>3. v \in Int
  BY <1>1, SumType, Zenon
<1> HIDE DEF v
<1>4. v = 0
  BY <1>2, <1>3
<1> QED BY <1>4 DEF v

\* A sum of natural numbers is one.
LEMMA SumNotNegative ==
  ASSUME NEW f, NEW S, IsFiniteSet(S), \A x \in S : f[x] \in Nat
  PROVE  SumFunctionOnSet(f, S) \in Nat
<1> DEFINE G == {U \in SUBSET S : SumFunctionOnSet(f, U) \in Nat}
<1>1. {} \in G
  BY SumOfNone
<1>2. ASSUME NEW U \in SUBSET S, NEW x \in S, U \in G, x \notin U
      PROVE  U \cup {x} \in G
  <2>1. IsFiniteSet(U)
    BY FinitePart, Zenon
  <2>2. \A y \in U \cup {x} : f[y] \in Int
    OBVIOUS
  <2>3. SumFunctionOnSet(f, U \cup {x}) = SumFunctionOnSet(f, U) + f[x]
    BY <1>2, <2>1, <2>2, SumAdd, Zenon
  <2>4. f[x] \in Nat /\ SumFunctionOnSet(f, U) \in Nat
    BY <1>2
  <2> QED BY <2>3, <2>4
<1>3. S \in G
  <2> HIDE DEF G
  <2> QED BY <1>1, <1>2, ElementInduction
<1> QED BY <1>3

\* Fewer natural numbers have a smaller sum.
LEMMA SumFewer ==
  ASSUME NEW f, NEW S, NEW T, IsFiniteSet(S), T \subseteq S, \A x \in S : f[x] \in Nat
  PROVE  /\ SumFunctionOnSet(f, T) \in Nat /\ SumFunctionOnSet(f, S) \in Nat
         /\ SumFunctionOnSet(f, T) <= SumFunctionOnSet(f, S)
<1> DEFINE W == S \ T
<1>1. IsFiniteSet(T) /\ IsFiniteSet(W)
  BY FinitePart
<1>2. /\ \A x \in T \cup W : f[x] \in Int
      /\ \A x \in T : f[x] \in Nat
      /\ \A x \in W : f[x] \in Nat
      /\ T \cap W = {} /\ T \cup W = S
  OBVIOUS
<1> HIDE DEF W
<1>3. SumFunctionOnSet(f, S) = SumFunctionOnSet(f, T) + SumFunctionOnSet(f, W)
  BY <1>1, <1>2, SumUnion, Zenon
<1>4. SumFunctionOnSet(f, T) \in Nat /\ SumFunctionOnSet(f, W) \in Nat
  BY <1>1, <1>2, SumNotNegative, Zenon
<1> QED BY <1>3, <1>4

\* h has for every key of A the sum of f over the elements of E with that key.
SumsOfGroups(h, A, key, f, E) ==
  /\ \A e \in E : f[e] \in Int /\ key[e] \in A
  /\ \A a \in A : h[a] = SumFunctionOnSet(f, {e \in E : key[e] = a})

\* Summing by groups first gives the sum over all.
LEMMA SumByGroup ==
  ASSUME NEW f, NEW E, NEW key, NEW A, NEW h, IsFiniteSet(E), IsFiniteSet(A),
         SumsOfGroups(h, A, key, f, E)
  PROVE  SumFunctionOnSet(h, A) = SumFunctionOnSet(f, E)
<1> USE DEF SumsOfGroups
<1> DEFINE P(B) == {e \in E : key[e] \in B}
           G == {B \in SUBSET A : SumFunctionOnSet(h, B) = SumFunctionOnSet(f, P(B))}
<1>1. {} \in G
  <2>1. P({}) = {}
    OBVIOUS
  <2> QED BY <2>1, SumOfNone, Zenon
<1>2. ASSUME NEW B \in SUBSET A, NEW a \in A, B \in G, a \notin B
      PROVE  B \cup {a} \in G
  <2> DEFINE Q == {e \in E : key[e] = a}
  <2>1. /\ IsFiniteSet(B) /\ IsFiniteSet(P(B)) /\ IsFiniteSet(Q)
    BY FinitePart
  <2>2. P(B \cup {a}) = P(B) \cup Q /\ P(B) \cap Q = {}
    BY <1>2
  <2>3. \A e \in P(B) \cup Q : f[e] \in Int
    OBVIOUS
  <2>4. h[a] = SumFunctionOnSet(f, Q)
    OBVIOUS
  <2>5. \A b \in B \cup {a} : h[b] \in Int
    <3> SUFFICES ASSUME NEW b \in B \cup {a} PROVE h[b] \in Int
      OBVIOUS
    <3>1. IsFiniteSet({e \in E : key[e] = b})
      BY FinitePart
    <3>2. SumFunctionOnSet(f, {e \in E : key[e] = b}) \in Int
      BY <3>1, SumType
    <3> QED BY <3>2
  <2>6. SumFunctionOnSet(h, B) = SumFunctionOnSet(f, P(B))
    BY <1>2
  <2> HIDE DEF P, Q
  <2>7. SumFunctionOnSet(f, P(B) \cup Q) = SumFunctionOnSet(f, P(B)) + SumFunctionOnSet(f, Q)
    BY <2>1, <2>2, <2>3, SumUnion
  <2>8. SumFunctionOnSet(h, B \cup {a}) = SumFunctionOnSet(h, B) + h[a]
    BY <1>2, <2>1, <2>5, SumAdd, Zenon
  <2>9. SumFunctionOnSet(h, B \cup {a}) = SumFunctionOnSet(f, P(B \cup {a}))
    BY <2>2, <2>4, <2>6, <2>7, <2>8, Zenon
  <2> QED BY <2>9
<1>3. A \in G
  <2> HIDE DEF G
  <2> QED BY <1>1, <1>2, ElementInduction
<1>4. P(A) = E
  OBVIOUS
<1> QED BY <1>3, <1>4

-----------------------------------------------------------------------------
(* Cardinality *)

\* Cardinality is the sum of ones.
LEMMA CardinalityIsSum ==
  ASSUME NEW S
  PROVE  Cardinality(S) = SumFunctionOnSet([x \in S |-> 1], S)
<1> DEFINE f == [x \in S |-> 1]
           Counts(g) == g = [T \in SUBSET S |->
                               IF T = {} THEN 0 ELSE 1 + g[T \ {CHOOSE x : x \in T}]]
<1>1. Cardinality(S) = (CHOOSE g : Counts(g))[S]
  BY Zenon DEF Cardinality
<1>2. \A T \in SUBSET S : T # {} => Pick(T) = (CHOOSE x : x \in T) /\ f[Pick(T)] = 1
  <2>1. \A T : Pick(T) = (CHOOSE x : x \in T)
    BY Zenon DEF Pick
  <2>2. \A T \in SUBSET S : T # {} => Pick(T) \in S
    BY PickIn, Zenon
  <2> QED BY <2>1, <2>2, Zenon
<1>3. ASSUME NEW g PROVE Counts(g) <=> PartialSums(f, S, g)
  <2> DEFINE One(T) == IF T = {} THEN 0 ELSE 1 + g[T \ {CHOOSE x : x \in T}]
             Val(T) == IF T = {} THEN 0 ELSE f[Pick(T)] + g[T \ {Pick(T)}]
  <2>1. \A T \in SUBSET S : One(T) = Val(T)
    <3> SUFFICES ASSUME NEW T \in SUBSET S PROVE One(T) = Val(T)
      BY Zenon
    <3>1. CASE T = {}
      BY <3>1, Zenon
    <3>2. CASE T # {}
      <4>1. Pick(T) = (CHOOSE x : x \in T) /\ f[Pick(T)] = 1
        BY <1>2, <3>2, Zenon
      <4> HIDE DEF f
      <4> QED BY <3>2, <4>1, Zenon
    <3> QED BY <3>1, <3>2, Zenon
  <2>2. Counts(g) <=> g = [T \in SUBSET S |-> One(T)]
    BY Zenon
  <2>3. PartialSums(f, S, g) <=> g = [T \in SUBSET S |-> Val(T)]
    BY Zenon DEF PartialSums
  <2>4. [T \in SUBSET S |-> One(T)] = [T \in SUBSET S |-> Val(T)]
    <3> HIDE DEF One, Val
    <3> QED BY <2>1, Zenon
  <2> HIDE DEF One, Val, Counts
  <2> QED BY <2>2, <2>3, <2>4, Zenon
<1>4. (CHOOSE g : Counts(g)) = (CHOOSE g : PartialSums(f, S, g))
  <2> HIDE DEF Counts, f
  <2> QED BY <1>3, Zenon
<1> HIDE DEF Counts
<1> QED BY <1>1, <1>4, SumDef, Zenon

\* The cardinality of a finite set is a natural number, and one element more
\* adds one to it.
LEMMA CardinalityAdd ==
  ASSUME NEW S, IsFiniteSet(S), NEW x, x \notin S
  PROVE  Cardinality(S) \in Nat /\ Cardinality(S \cup {x}) = Cardinality(S) + 1
<1> DEFINE A == S \cup {x}
           f == [y \in S |-> 1]
           g == [y \in A |-> 1]
<1>1. Cardinality(S) = SumFunctionOnSet(f, S) /\ Cardinality(A) = SumFunctionOnSet(g, A)
  BY CardinalityIsSum, Zenon
<1>2. /\ \A y \in S : f[y] = g[y]
      /\ \A y \in S : f[y] \in Nat
      /\ \A y \in A : g[y] \in Int
      /\ g[x] = 1
  OBVIOUS
<1> HIDE DEF f, g
<1>3. SumFunctionOnSet(f, S) \in Nat
  BY <1>2, SumNotNegative
<1>4. SumFunctionOnSet(f, S) = SumFunctionOnSet(g, S)
  BY <1>2, SumSame
<1>5. SumFunctionOnSet(g, A) = SumFunctionOnSet(g, S) + g[x]
  BY <1>2, SumAdd
<1> QED BY <1>1, <1>2, <1>3, <1>4, <1>5, Zenon

\* A part of a finite set has at most its cardinality.
LEMMA CardinalityPart ==
  ASSUME NEW S, IsFiniteSet(S), NEW T \in SUBSET S
  PROVE  /\ Cardinality(T) \in Nat /\ Cardinality(S) \in Nat
         /\ Cardinality(T) <= Cardinality(S)
<1> DEFINE f == [y \in S |-> 1]
           g == [y \in T |-> 1]
<1>1. Cardinality(S) = SumFunctionOnSet(f, S) /\ Cardinality(T) = SumFunctionOnSet(g, T)
  BY CardinalityIsSum, Zenon
<1>2. /\ \A y \in T : g[y] = f[y]
      /\ \A y \in S : f[y] \in Nat
  OBVIOUS
<1> HIDE DEF f, g
<1>3. IsFiniteSet(T)
  BY FinitePart, Zenon
<1>4. SumFunctionOnSet(g, T) = SumFunctionOnSet(f, T)
  BY <1>2, <1>3, SumSame
<1>5. /\ SumFunctionOnSet(f, T) \in Nat /\ SumFunctionOnSet(f, S) \in Nat
      /\ SumFunctionOnSet(f, T) <= SumFunctionOnSet(f, S)
  BY <1>2, SumFewer
<1> QED BY <1>1, <1>4, <1>5, Zenon

\* A finite set of cardinality one has one element.
LEMMA OnlyElement ==
  ASSUME NEW S, IsFiniteSet(S), Cardinality(S) = 1
  PROVE  \E c : S = {c}
<1> DEFINE f == [x \in S |-> 1]
           c == Pick(S)
           T == S \ {c}
<1>1. SumFunctionOnSet(f, S) = 1
  BY CardinalityIsSum, Zenon
<1>2. S # {}
  BY <1>1, SumOfNone
<1>3. c \in S /\ f[c] = 1
  BY <1>2, PickIn, Zenon
<1>4. 1 = 1 + SumFunctionOnSet(f, T)
  <2> HIDE DEF f
  <2> QED BY <1>1, <1>2, <1>3, SumStep
<1>5. SUFFICES ASSUME T # {} PROVE FALSE
  <2>1. T = {} => S = {c}
    BY <1>3
  <2> QED BY <2>1, Zenon
<1>6. IsFiniteSet(T) /\ IsFiniteSet(T \ {Pick(T)}) /\ T \in SUBSET S
  <2>1. T \in SUBSET S /\ T \ {Pick(T)} \in SUBSET S
    BY Zenon
  <2> QED BY <2>1, FinitePart, Zenon
<1>7. Pick(T) \in S /\ \A x \in T \ {Pick(T)} : f[x] = 1
  BY <1>5, <1>6, PickIn, Zenon
<1>8. SumFunctionOnSet(f, T) = 1 + SumFunctionOnSet(f, T \ {Pick(T)})
  <2>1. f[Pick(T)] = 1
    BY <1>7, Zenon
  <2> HIDE DEF f, T
  <2> QED BY <1>5, <1>6, <2>1, SumStep
<1>9. /\ SumFunctionOnSet(f, T \ {Pick(T)}) >= 0
      /\ SumFunctionOnSet(f, T \ {Pick(T)}) \in Int
  <2>1. \A x \in T \ {Pick(T)} : f[x] \in Int /\ f[x] >= 0
    BY <1>7
  <2> HIDE DEF f, T
  <2> QED BY <1>6, <2>1, SumNotNegative, SumType
<1> QED BY <1>4, <1>8, <1>9
=============================================================================
