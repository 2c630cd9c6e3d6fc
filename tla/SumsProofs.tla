----------------------------- MODULE SumsProofs -----------------------------
(***************************************************************************)
(* What the sums of Sums.tla obey, for every finite set.                   *)
(*                                                                         *)
(* A sum is a recursive function on the subsets of its set, which takes    *)
(* out one element at a time. That such a function exists, and everything  *)
(* about it, is an induction over finite sets, which is stated here about  *)
(* a family of sets instead of a predicate (FiniteInduction), so that the  *)
(* provers can use it.                                                     *)
(***************************************************************************)
EXTENDS Sums, Integers, FiniteSetTheorems, TLAPS

\* Induction over the subsets of a finite set: a family F with every subset T of S that is in F
\* as soon as T without any one of its elements is in F, has all of them.
LEMMA FiniteInduction ==
  ASSUME NEW S, IsFiniteSet(S), NEW F,
         \A T \in SUBSET S : (\A x \in T : T \ {x} \in F) => T \in F
  PROVE  \A T \in SUBSET S : T \in F
<1> DEFINE Out == {T \in SUBSET S : T \notin F}
<1>1. SUFFICES ASSUME Out # {} PROVE FALSE
  OBVIOUS
<1>2. IsWellFoundedOn(StrictSubsetOrdering(S), FiniteSubsetsOf(S)) /\ FiniteSubsetsOf(S) = SUBSET S
  BY FS_StrictSubsetOrderingWellFounded, FS_FiniteSubsetsOfFinite
<1>3. PICK T \in Out : \A U \in Out : <<U, T>> \notin StrictSubsetOrdering(S)
  <2> HIDE DEF Out
  <2>1. Out \subseteq FiniteSubsetsOf(S)
    BY <1>2 DEF Out
  <2> QED
    BY <1>1, <1>2, <2>1, WFMin
<1>4. PICK x \in T : T \ {x} \in Out
  OBVIOUS
<1>5. <<T \ {x}, T>> \in StrictSubsetOrdering(S)
  BY <1>4 DEF StrictSubsetOrdering
<1> QED
  BY <1>3, <1>4, <1>5

\* The element that a sum takes out of a set first.
First(s) == CHOOSE x \in s : TRUE

\* h gives every subset of S its sum.
Sums0(h, f, S) == h = [s \in SUBSET S |-> IF s = {} THEN 0 ELSE f[First(s)] + h[s \ {First(s)}]]

LEMMA SumIs ==
  ASSUME NEW f, NEW S
  PROVE  Sum(f, S) = (CHOOSE h : Sums0(h, f, S))[S]
BY DEF Sum, MapThenSumSet, MapThenFoldSet, Sums0, First

\* h gives every subset of S of at most n elements its sum.
SumsUpTo(n, h, f, S) ==
  /\ h = [s \in SUBSET S |-> h[s]]
  /\ \A s \in SUBSET S : Cardinality(s) <= n =>
       h[s] = IF s = {} THEN 0 ELSE f[First(s)] + h[s \ {First(s)}]

LEMMA SumsExist ==
  ASSUME NEW f, NEW S, IsFiniteSet(S)
  PROVE  \E h : Sums0(h, f, S)
<1> DEFINE F == {T \in SUBSET S : \E h : SumsUpTo(Cardinality(T), h, f, S)}
<1>0. \A s \in SUBSET S : IsFiniteSet(s) /\ Cardinality(s) \in Nat /\ Cardinality(s) <= Cardinality(S)
                          /\ (Cardinality(s) = 0 <=> s = {})
  BY FS_Subset, FS_CardinalityType, FS_EmptySet
<1>1. {} \in F
  <2> DEFINE h == [s \in SUBSET S |-> 0]
  <2>1. SumsUpTo(0, h, f, S)
    BY <1>0 DEF SumsUpTo
  <2> QED
    BY <2>1, FS_EmptySet
<1>2. ASSUME NEW T \in SUBSET S, NEW x \in T, T \ {x} \in F
      PROVE  T \in F
  <2>1. PICK h : SumsUpTo(Cardinality(T \ {x}), h, f, S)
    BY <1>2
  <2> DEFINE g == [s \in SUBSET S |-> IF s = {} THEN 0 ELSE f[First(s)] + h[s \ {First(s)}]]
  <2>2. Cardinality(T \ {x}) = Cardinality(T) - 1 /\ Cardinality(T) \in Nat
    BY <1>0, <1>2, FS_RemoveElement
  <2>3. ASSUME NEW s \in SUBSET S, Cardinality(s) <= Cardinality(T), s # {}
        PROVE  g[s] = f[First(s)] + g[s \ {First(s)}]
    <3>1. First(s) \in s
      BY <2>3 DEF First
    <3> DEFINE u == s \ {First(s)}
    <3>2. u \in SUBSET S /\ Cardinality(u) <= Cardinality(T \ {x})
      BY <1>0, <2>2, <2>3, <3>1, FS_RemoveElement
    <3>3. h[u] = IF u = {} THEN 0 ELSE f[First(u)] + h[u \ {First(u)}]
      BY <2>1, <3>2 DEF SumsUpTo
    <3>4. g[u] = h[u]
      BY <3>2, <3>3
    <3>5. g[s] = f[First(s)] + h[u]
      BY <2>3
    <3> HIDE DEF g
    <3> QED
      BY <3>4, <3>5
  <2>4. SumsUpTo(Cardinality(T), g, f, S)
    BY <2>3 DEF SumsUpTo
  <2> HIDE DEF g
  <2> QED
    BY <2>4
<1>3. S \in F
  <2> HIDE DEF F
  <2>1. \A T \in SUBSET S : T \in F
    <3>1. ASSUME NEW T \in SUBSET S, \A x \in T : T \ {x} \in F
          PROVE  T \in F
      <4>1. CASE T = {}
        BY <1>1, <4>1
      <4>2. CASE T # {}
        <5>1. PICK x : x \in T
          BY <4>2
        <5> QED
          BY <1>2, <3>1, <5>1
      <4> QED
        BY <4>1, <4>2
    <3> QED
      BY <3>1, FiniteInduction
  <2> QED
    BY <2>1
<1>4. PICK h : SumsUpTo(Cardinality(S), h, f, S)
  BY <1>3
<1>5. Sums0(h, f, S)
  BY <1>0, <1>4 DEF SumsUpTo, Sums0
<1> QED
  BY <1>5

\* The recursion of a sum, with the element it takes out first.
LEMMA SumStep ==
  ASSUME NEW f, NEW S, IsFiniteSet(S)
  PROVE  Sum(f, S) = IF S = {} THEN 0 ELSE f[First(S)] + Sum(f, S \ {First(S)})
<1> DEFINE H(U) == CHOOSE h : Sums0(h, f, U)
<1>1. \A U \in SUBSET S : Sums0(H(U), f, U) /\ Sum(f, U) = H(U)[U]
  BY FS_Subset, SumsExist, SumIs
<1> HIDE DEF H
<1>2. ASSUME NEW U \in SUBSET S
      PROVE  H(S)[U] = Sum(f, U)
  <2> DEFINE F == {T \in SUBSET U : H(S)[T] = H(U)[T]}
  <2>1. ASSUME NEW T \in SUBSET U, \A x \in T : T \ {x} \in F
        PROVE  T \in F
    <3>1. CASE T = {}
      BY <1>1, <3>1 DEF Sums0
    <3>2. CASE T # {}
      <4>1. First(T) \in T
        BY <3>2 DEF First
      <4>2. H(S)[T \ {First(T)}] = H(U)[T \ {First(T)}]
        BY <2>1, <4>1
      <4>3. H(S)[T] = f[First(T)] + H(S)[T \ {First(T)}]
        BY <1>1, <3>2 DEF Sums0
      <4>4. H(U)[T] = f[First(T)] + H(U)[T \ {First(T)}]
        BY <1>1, <3>2 DEF Sums0
      <4> QED
        BY <4>2, <4>3, <4>4
    <3> QED
      BY <3>1, <3>2
  <2>2. IsFiniteSet(U)
    BY FS_Subset
  <2>3. U \in F
    <3> HIDE DEF F
    <3>1. \A T \in SUBSET U : T \in F
      BY <2>1, <2>2, FiniteInduction
    <3> QED
      BY <3>1
  <2> QED
    BY <1>1, <2>3
<1>3. H(S)[S] = IF S = {} THEN 0 ELSE f[First(S)] + H(S)[S \ {First(S)}]
  BY <1>1 DEF Sums0
<1>4. S \ {First(S)} \in SUBSET S
  OBVIOUS
<1> QED
  BY <1>2, <1>3, <1>4

LEMMA SumEmpty == \A f : Sum(f, {}) = 0
BY SumStep, FS_EmptySet

\* The sum of integers is one, and of natural numbers a natural number.
LEMMA SumType ==
  ASSUME NEW S, IsFiniteSet(S), NEW f, \A x \in S : f[x] \in Int
  PROVE  /\ Sum(f, S) \in Int
         /\ (\A x \in S : f[x] >= 0) => Sum(f, S) >= 0
<1> DEFINE F == {T \in SUBSET S : Sum(f, T) \in Int /\ ((\A x \in S : f[x] >= 0) => Sum(f, T) >= 0)}
<1>1. ASSUME NEW T \in SUBSET S, \A x \in T : T \ {x} \in F
      PROVE  T \in F
  <2>1. CASE T = {}
    BY <2>1, SumEmpty
  <2>2. CASE T # {}
    <3>1. First(T) \in T
      BY <2>2 DEF First
    <3>2. Sum(f, T) = f[First(T)] + Sum(f, T \ {First(T)})
      BY <2>2, SumStep, FS_Subset
    <3> QED
      BY <1>1, <3>1, <3>2
  <2> QED
    BY <2>1, <2>2
<1>2. S \in F
  <2> HIDE DEF F
  <2>1. \A T \in SUBSET S : T \in F
    BY <1>1, FiniteInduction
  <2> QED
    BY <2>1
<1> QED
  BY <1>2

\* A sum depends on what its function is on the set, and on nothing else.
LEMMA SumSame ==
  ASSUME NEW S, IsFiniteSet(S), NEW f, NEW g, \A x \in S : f[x] = g[x]
  PROVE  Sum(f, S) = Sum(g, S)
<1> DEFINE F == {T \in SUBSET S : Sum(f, T) = Sum(g, T)}
<1>1. ASSUME NEW T \in SUBSET S, \A x \in T : T \ {x} \in F
      PROVE  T \in F
  <2>1. CASE T = {}
    BY <2>1, SumEmpty
  <2>2. CASE T # {}
    <3>1. First(T) \in T
      BY <2>2 DEF First
    <3>2. /\ Sum(f, T) = f[First(T)] + Sum(f, T \ {First(T)})
          /\ Sum(g, T) = g[First(T)] + Sum(g, T \ {First(T)})
      BY <2>2, SumStep, FS_Subset
    <3> QED
      BY <1>1, <3>1, <3>2
  <2> QED
    BY <2>1, <2>2
<1>2. S \in F
  <2> HIDE DEF F
  <2>1. \A T \in SUBSET S : T \in F
    BY <1>1, FiniteInduction
  <2> QED
    BY <2>1
<1> QED
  BY <1>2

\* Any element can be taken out first.
LEMMA SumWithout ==
  ASSUME NEW S, IsFiniteSet(S), NEW f, \A x \in S : f[x] \in Int, NEW x \in S
  PROVE  Sum(f, S) = f[x] + Sum(f, S \ {x})
<1> DEFINE F == {T \in SUBSET S : \A y \in T : Sum(f, T) = f[y] + Sum(f, T \ {y})}
<1>0. \A T \in SUBSET S : IsFiniteSet(T) /\ Sum(f, T) \in Int
  BY FS_Subset, SumType
<1>1. ASSUME NEW T \in SUBSET S, \A y \in T : T \ {y} \in F
      PROVE  T \in F
  <2> SUFFICES ASSUME NEW y \in T PROVE Sum(f, T) = f[y] + Sum(f, T \ {y})
    OBVIOUS
  <2>1. PICK z \in T : z = First(T)
    BY DEF First
  <2>2. Sum(f, T) = f[z] + Sum(f, T \ {z})
    BY <1>0, <2>1, SumStep
  <2>3. CASE y # z
    <3>1. Sum(f, T \ {z}) = f[y] + Sum(f, (T \ {z}) \ {y})
      BY <1>1, <2>1, <2>3
    <3>2. Sum(f, T \ {y}) = f[z] + Sum(f, (T \ {y}) \ {z})
      BY <1>1, <2>1, <2>3
    <3>3. (T \ {z}) \ {y} = (T \ {y}) \ {z}
      OBVIOUS
    <3>4. f[y] \in Int /\ f[z] \in Int /\ Sum(f, (T \ {z}) \ {y}) \in Int
      BY <1>0, <2>1
    <3>5. PICK rest \in Int : rest = Sum(f, (T \ {z}) \ {y})
      BY <3>4
    <3>6. f[z] + (f[y] + rest) = f[y] + (f[z] + rest)
      BY <3>4
    <3> QED
      BY <2>2, <3>1, <3>2, <3>3, <3>5, <3>6, Zenon
  <2> QED
    BY <2>2, <2>3
<1>2. S \in F
  <2> HIDE DEF F
  <2>1. \A T \in SUBSET S : T \in F
    BY <1>1, FiniteInduction
  <2> QED
    BY <2>1
<1> QED
  BY <1>2

\* A sum with one more element.
LEMMA SumWith ==
  ASSUME NEW S, IsFiniteSet(S), NEW f, NEW x, x \notin S, \A y \in S \cup {x} : f[y] \in Int
  PROVE  Sum(f, S \cup {x}) = f[x] + Sum(f, S)
<1>1. IsFiniteSet(S \cup {x}) /\ (S \cup {x}) \ {x} = S
  BY FS_AddElement
<1> QED
  BY <1>1, SumWithout

\* Only the value at x changes.
LEMMA SumUpdate ==
  ASSUME NEW S, IsFiniteSet(S), NEW x \in S, NEW f, NEW g,
         \A y \in S : f[y] \in Int, g[x] \in Int,
         \A y \in S : y # x => g[y] = f[y]
  PROVE  Sum(g, S) = Sum(f, S) - f[x] + g[x]
<1>1. IsFiniteSet(S \ {x})
  BY FS_Subset
<1>2. Sum(f, S) = f[x] + Sum(f, S \ {x}) /\ Sum(g, S) = g[x] + Sum(g, S \ {x})
  BY SumWithout
<1>3. Sum(f, S \ {x}) = Sum(g, S \ {x}) /\ Sum(f, S \ {x}) \in Int
  BY <1>1, SumSame, SumType
<1> QED
  BY <1>2, <1>3

\* A sum over a part is at most the whole, when nothing is negative.
LEMMA SumPart ==
  ASSUME NEW S, IsFiniteSet(S), NEW f, \A x \in S : f[x] \in Nat, NEW T \in SUBSET S
  PROVE  Sum(f, T) <= Sum(f, S)
<1> DEFINE F == {U \in SUBSET (S \ T) : Sum(f, T) <= Sum(f, T \cup U)}
<1>0. \A U \in SUBSET S : IsFiniteSet(U) /\ Sum(f, U) \in Nat
  BY FS_Subset, SumType
<1>1. ASSUME NEW U \in SUBSET (S \ T), \A y \in U : U \ {y} \in F
      PROVE  U \in F
  <2>1. CASE U = {}
    BY <1>0, <2>1
  <2>2. CASE U # {}
    <3>1. PICK y : y \in U
      BY <2>2
    <3>2. (T \cup U) \ {y} = T \cup (U \ {y})
      BY <3>1
    <3>3. Sum(f, T \cup U) = f[y] + Sum(f, T \cup (U \ {y}))
      BY <1>0, <3>1, <3>2, SumWithout
    <3>4. Sum(f, T) <= Sum(f, T \cup (U \ {y}))
      BY <1>1, <3>1
    <3> QED
      BY <1>0, <3>1, <3>3, <3>4
  <2> QED
    BY <2>1, <2>2
<1>2. IsFiniteSet(S \ T)
  BY <1>0
<1>3. S \ T \in F
  <2> HIDE DEF F
  <2>1. \A U \in SUBSET (S \ T) : U \in F
    BY <1>1, <1>2, FiniteInduction
  <2> QED
    BY <2>1
<1>4. T \cup (S \ T) = S
  OBVIOUS
<1> QED
  BY <1>3, <1>4

\* Summing is linear, and respects an order of the functions.
LEMMA SumPlus ==
  ASSUME NEW S, IsFiniteSet(S), NEW f, NEW g, NEW h,
         \A x \in S : f[x] \in Int /\ g[x] \in Int /\ h[x] \in Int /\ h[x] <= f[x] + g[x]
  PROVE  /\ Sum(h, S) <= Sum(f, S) + Sum(g, S)
         /\ (\A x \in S : h[x] = f[x] + g[x]) => Sum(h, S) = Sum(f, S) + Sum(g, S)
<1> DEFINE Linear == \A x \in S : h[x] = f[x] + g[x]
           F == {T \in SUBSET S : /\ Sum(h, T) <= Sum(f, T) + Sum(g, T)
                                  /\ Linear => Sum(h, T) = Sum(f, T) + Sum(g, T)}
<1>0. \A T \in SUBSET S : IsFiniteSet(T) /\ Sum(f, T) \in Int /\ Sum(g, T) \in Int /\ Sum(h, T) \in Int
  BY FS_Subset, SumType
<1>1. ASSUME NEW T \in SUBSET S, \A x \in T : T \ {x} \in F
      PROVE  T \in F
  <2>1. CASE T = {}
    BY <2>1, SumEmpty
  <2>2. CASE T # {}
    <3>1. PICK x : x \in T
      BY <2>2
    <3>2. /\ Sum(f, T) = f[x] + Sum(f, T \ {x})
          /\ Sum(g, T) = g[x] + Sum(g, T \ {x})
          /\ Sum(h, T) = h[x] + Sum(h, T \ {x})
      BY <1>0, <3>1, SumWithout
    <3>3. T \ {x} \in SUBSET S /\ x \in S
      BY <3>1
    <3>4. T \ {x} \in F
      BY <1>1, <3>1
    <3> QED
      BY <1>0, <3>2, <3>3, <3>4
  <2> QED
    BY <2>1, <2>2
<1>2. S \in F
  <2> HIDE DEF F
  <2>1. \A T \in SUBSET S : T \in F
    BY <1>1, FiniteInduction
  <2> QED
    BY <2>1
<1> QED
  BY <1>2

\* A factor that all values share.
LEMMA SumTimes ==
  ASSUME NEW S, IsFiniteSet(S), NEW f, NEW g, NEW k \in Int,
         \A x \in S : f[x] \in Int /\ g[x] = k * f[x]
  PROVE  Sum(g, S) = k * Sum(f, S)
<1> DEFINE F == {T \in SUBSET S : Sum(g, T) = k * Sum(f, T)}
<1>0. \A T \in SUBSET S : IsFiniteSet(T) /\ Sum(f, T) \in Int
  BY FS_Subset, SumType
<1>1. ASSUME NEW T \in SUBSET S, \A x \in T : T \ {x} \in F
      PROVE  T \in F
  <2>1. CASE T = {}
    BY <2>1, SumEmpty
  <2>2. CASE T # {}
    <3>1. PICK x : x \in T
      BY <2>2
    <3>2. T \ {x} \in SUBSET S /\ x \in S /\ T \ {x} \in F
      BY <1>1, <3>1
    <3>3. Sum(f, T) = f[x] + Sum(f, T \ {x})
      BY <1>0, <3>1, SumWithout
    <3>4. Sum(g, T) = g[x] + Sum(g, T \ {x})
      <4>1. \A y \in T : g[y] \in Int
        OBVIOUS
      <4> QED
        BY <1>0, <3>1, <4>1, SumWithout
    <3>5. PICK i \in Int : i = Sum(f, T \ {x})
      BY <1>0, <3>2
    <3>6. PICK j \in Int : j = f[x]
      BY <3>2
    <3>7. k * (j + i) = k * j + k * i
      OBVIOUS
    <3>8. Sum(g, T \ {x}) = k * i /\ g[x] = k * j
      BY <3>2, <3>5, <3>6
    <3> QED
      BY <3>3, <3>4, <3>5, <3>6, <3>7, <3>8
  <2> QED
    BY <2>1, <2>2
<1>2. S \in F
  <2> HIDE DEF F
  <2>1. \A T \in SUBSET S : T \in F
    BY <1>1, FiniteInduction
  <2> QED
    BY <2>1
<1> QED
  BY <1>2

\* Sums are in the order of their terms.
LEMMA SumOrder ==
  ASSUME NEW S, IsFiniteSet(S), NEW f, NEW h,
         \A x \in S : f[x] \in Int /\ h[x] \in Int /\ h[x] <= f[x]
  PROVE  Sum(h, S) <= Sum(f, S)
<1> DEFINE none == [x \in S |-> 0]
<1>1. \A x \in S : none[x] = 0
  OBVIOUS
<1> HIDE DEF none
<1>2. Sum(none, S) = 0 * Sum(f, S)
  BY <1>1, SumTimes
<1>3. Sum(h, S) <= Sum(f, S) + Sum(none, S)
  BY <1>1, SumPlus
<1> QED
  BY <1>2, <1>3, SumType

\* A term of a sum of natural numbers is at most the sum.
LEMMA SumElement ==
  ASSUME NEW S, IsFiniteSet(S), NEW f, \A x \in S : f[x] \in Nat, NEW x \in S
  PROVE  f[x] <= Sum(f, S)
<1>1. IsFiniteSet({x}) /\ {x} \ {x} = {}
  BY FS_Singleton
<1>2. Sum(f, {x}) = f[x] + Sum(f, {x} \ {x})
  BY <1>1, SumWithout
<1>3. Sum(f, {}) = 0
  BY SumEmpty
<1>4. Sum(f, {x}) = f[x]
  BY <1>1, <1>2, <1>3
<1>5. Sum(f, {x}) <= Sum(f, S)
  BY SumPart
<1> QED
  BY <1>4, <1>5

\* Elements that count nothing may be left out.
LEMMA SumZeros ==
  ASSUME NEW S, IsFiniteSet(S), NEW f, \A x \in S : f[x] \in Int,
         NEW T \in SUBSET S, \A x \in S \ T : f[x] = 0
  PROVE  Sum(f, T) = Sum(f, S)
<1> DEFINE F == {U \in SUBSET (S \ T) : Sum(f, T \cup U) = Sum(f, T)}
<1>0. \A U \in SUBSET S : IsFiniteSet(U) /\ Sum(f, U) \in Int
  BY FS_Subset, SumType
<1>1. ASSUME NEW U \in SUBSET (S \ T), \A y \in U : U \ {y} \in F
      PROVE  U \in F
  <2>1. CASE U = {}
    BY <2>1
  <2>2. CASE U # {}
    <3>1. PICK y \in U : TRUE
      BY <2>2
    <3>2. (T \cup U) \ {y} = T \cup (U \ {y}) /\ T \cup U \in SUBSET S /\ y \in T \cup U
      BY <3>1
    <3>3. Sum(f, T \cup U) = f[y] + Sum(f, (T \cup U) \ {y})
      <4>1. IsFiniteSet(T \cup U) /\ \A x \in T \cup U : f[x] \in Int
        BY <1>0, <3>2
      <4> QED
        BY <3>2, <4>1, SumWithout
    <3>4. Sum(f, T \cup (U \ {y})) = Sum(f, T) /\ f[y] = 0 /\ Sum(f, T) \in Int
      BY <1>0, <1>1, <3>1
    <3>5. Sum(f, T \cup U) = Sum(f, T)
      BY <3>2, <3>3, <3>4
    <3> QED
      BY <3>5
  <2> QED
    BY <2>1, <2>2
<1>2. IsFiniteSet(S \ T)
  BY <1>0
<1>3. S \ T \in F
  <2> HIDE DEF F
  <2>1. \A U \in SUBSET (S \ T) : U \in F
    BY <1>1, <1>2, FiniteInduction
  <2> QED
    BY <2>1
<1>4. T \cup (S \ T) = S
  OBVIOUS
<1> QED
  BY <1>3, <1>4

LEMMA SumOfZeros ==
  ASSUME NEW S, IsFiniteSet(S), NEW f, \A x \in S : f[x] = 0
  PROVE  Sum(f, S) = 0
<1>1. {} \in SUBSET S /\ \A x \in S : f[x] \in Int
  OBVIOUS
<1>2. Sum(f, {}) = Sum(f, S)
  BY <1>1, SumZeros
<1> QED
  BY <1>2, SumEmpty
=============================================================================
