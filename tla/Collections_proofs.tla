------------------------- MODULE Collections_proofs -------------------------
(***************************************************************************)
(* What the proofs of the components rest on: least elements, sums over    *)
(* finite sets taken in whatever order, extremes, and what the removal of  *)
(* an element leaves of a sequence.  The sums are built up over the subsets*)
(* of a set, so that they need no induction over an operator.              *)
(***************************************************************************)
EXTENDS Integers, FiniteSets, Sequences, SequencesExt, FiniteSetTheorems,
        SequenceTheorems, WellFoundedInduction, TLAPS

\* A set of numbers has a least one.
LEMMA LeastNumber ==
  ASSUME NEW T, T \subseteq Nat, T # {}
  PROVE  \E n \in T : \A m \in T : n <= m
<1> DEFINE Less == OpToRel(<, Nat)
<1>1. \A a, b \in Nat : a < b => <<a, b>> \in Less
  BY DEF OpToRel
<1>2. IsWellFoundedOn(Less, Nat)
  BY NatLessThanWellFounded
<1> HIDE DEF Less
<1>3. PICK n \in T : \A m \in T : ~ (<<m, n>> \in Less)
  BY <1>2, WFMin
<1>4. n \in Nat /\ \A m \in T : m \in Nat
  OBVIOUS
<1>5. \A m \in T : ~ (m < n)
  BY ONLY <1>1, <1>3, <1>4, Zenon
<1>6. QED BY <1>4, <1>5

\* Induction over the numbers, for sets.
LEMMA NatStep ==
  ASSUME NEW T, 0 \in T, \A n \in Nat : n \in T => n + 1 \in T
  PROVE  \A n \in Nat : n \in T
<1>1. SUFFICES ASSUME Nat \ T # {} PROVE FALSE
  OBVIOUS
<1>2. PICK n \in Nat \ T : \A m \in Nat \ T : n <= m
  BY <1>1, LeastNumber
<1>3. n - 1 \in Nat /\ n - 1 \in T
  BY <1>2
<1>4. QED BY <1>2, <1>3

\* One element of a set.
Chosen(s) == CHOOSE x \in s : TRUE

\* A member can be chosen of a set that has one.
LEMMA ChosenIsMember ==
  ASSUME NEW s, s # {}
  PROVE  Chosen(s) \in s
BY DEF Chosen

\* g adds up w over every subset of S, taking out one element after another.
AddsUp(g, w, S) ==
    g = [s \in SUBSET S |-> IF s = {} THEN 0 ELSE w[Chosen(s)] + g[s \ {Chosen(s)}]]

\* The sum of w over S.
SumOver(w, S) == (CHOOSE g : AddsUp(g, w, S))[S]

\* Some function adds up the weights of every part of a finite set.
LEMMA SomethingAddsUp ==
  ASSUME NEW S, IsFiniteSet(S), NEW w, \A x \in S : w[x] \in Int
  PROVE  \E g \in [SUBSET S -> Int] : AddsUp(g, w, S)
<1> DEFINE Sum(g, s) == IF s = {} THEN 0 ELSE w[Chosen(s)] + g[s \ {Chosen(s)}]
           Upto(n) == \E g \in [SUBSET S -> Int] :
                        \A s \in SUBSET S : Cardinality(s) <= n => g[s] = Sum(g, s)
           T == {n \in Nat : Upto(n)}
<1>a. \A s \in SUBSET S : IsFiniteSet(s) /\ Cardinality(s) \in Nat
  BY FS_Subset, FS_CardinalityType
<1>b. \A s \in SUBSET S : s # {} =>
        /\ Chosen(s) \in S /\ s \ {Chosen(s)} \in SUBSET S
        /\ Cardinality(s \ {Chosen(s)}) = Cardinality(s) - 1
  BY <1>a, ChosenIsMember, FS_RemoveElement
<1>c. \A n \in Nat : n \in T <=> Upto(n)
  OBVIOUS
<1> HIDE DEF T
<1>1. 0 \in T
  <2> DEFINE g == [s \in SUBSET S |-> 0]
  <2>1. \A s \in SUBSET S : Cardinality(s) <= 0 => g[s] = Sum(g, s)
    BY <1>a, FS_EmptySet
  <2>2. g \in [SUBSET S -> Int]
    OBVIOUS
  <2> HIDE DEF g
  <2>3. Upto(0)
    BY <2>1, <2>2
  <2>4. QED BY <2>3, <1>c
<1>2. ASSUME NEW n \in Nat, n \in T
      PROVE  n + 1 \in T
  <2>1. PICK g \in [SUBSET S -> Int] :
             \A s \in SUBSET S : Cardinality(s) <= n => g[s] = Sum(g, s)
    BY <1>2, <1>c
  <2> DEFINE h == [s \in SUBSET S |-> Sum(g, s)]
  <2>a. ASSUME NEW s \in SUBSET S
        PROVE  Sum(g, s) \in Int
    <3>1. CASE s = {}
      BY <3>1
    <3>2. CASE s # {}
      <4>1. g[s \ {Chosen(s)}] \in Int /\ w[Chosen(s)] \in Int
        BY <1>b, <3>2
      <4>2. QED BY <4>1, <3>2
    <3>3. QED BY <3>1, <3>2
  <2>2. h \in [SUBSET S -> Int]
    BY <2>a
  <2>3. \A s \in SUBSET S : Cardinality(s) <= n => h[s] = g[s]
    BY <2>1
  <2>4. ASSUME NEW s \in SUBSET S, Cardinality(s) <= n + 1
        PROVE  h[s] = Sum(h, s)
    <3>1. CASE s = {}
      BY <3>1
    <3>2. CASE s # {}
      <4>1. Cardinality(s \ {Chosen(s)}) <= n /\ s \ {Chosen(s)} \in SUBSET S
        BY <1>a, <1>b, <2>4, <3>2
      <4>2. h[s \ {Chosen(s)}] = g[s \ {Chosen(s)}]
        BY <2>3, <4>1
      <4>3. QED BY <3>2, <4>2
    <3>3. QED BY <3>1, <3>2
  <2> HIDE DEF h
  <2>5. Upto(n + 1)
    BY <2>2, <2>4
  <2> HIDE DEF Upto
  <2>6. QED BY <2>5, <1>c
<1>3. \A n \in Nat : n \in T
  BY <1>1, <1>2, NatStep
<1>4. PICK g \in [SUBSET S -> Int] :
           \A s \in SUBSET S : Cardinality(s) <= Cardinality(S) => g[s] = Sum(g, s)
  BY <1>3, <1>c, FS_CardinalityType
<1>5. \A s \in SUBSET S : g[s] = Sum(g, s)
  BY <1>4, FS_Subset
<1>6. g = [s \in SUBSET S |-> Sum(g, s)]
  BY <1>5
<1>7. QED BY <1>6 DEF AddsUp

\* And one only: what it makes of a part depends on the weights of that part.
LEMMA AdditionUnique ==
  ASSUME NEW S, IsFiniteSet(S), NEW w, NEW v, \A x \in S : w[x] = v[x],
         NEW R, R \subseteq S,
         NEW g, AddsUp(g, w, S), NEW h, AddsUp(h, v, R)
  PROVE  \A s \in SUBSET R : g[s] = h[s]
<1> DEFINE T == {n \in Nat : \A s \in SUBSET R : Cardinality(s) <= n => g[s] = h[s]}
<1>a. \A s \in SUBSET S : IsFiniteSet(s) /\ Cardinality(s) \in Nat
  BY FS_Subset, FS_CardinalityType
<1>b. \A s \in SUBSET R : s # {} =>
        /\ Chosen(s) \in S /\ s \ {Chosen(s)} \in SUBSET R
        /\ Cardinality(s \ {Chosen(s)}) = Cardinality(s) - 1
  BY <1>a, ChosenIsMember, FS_RemoveElement
<1>c. \A s \in SUBSET S :
        g[s] = IF s = {} THEN 0 ELSE w[Chosen(s)] + g[s \ {Chosen(s)}]
  BY DEF AddsUp
<1>d. \A s \in SUBSET R :
        h[s] = IF s = {} THEN 0 ELSE v[Chosen(s)] + h[s \ {Chosen(s)}]
  BY DEF AddsUp
<1>1. 0 \in T
  <2>1. ASSUME NEW s \in SUBSET R, Cardinality(s) <= 0 PROVE g[s] = h[s]
    <3>1. s = {}
      BY <2>1, <1>a, FS_EmptySet
    <3>2. QED BY <3>1, <1>c, <1>d
  <2>2. QED BY <2>1
<1>2. ASSUME NEW n \in Nat, n \in T
      PROVE  n + 1 \in T
  <2>1. ASSUME NEW s \in SUBSET R, Cardinality(s) <= n + 1 PROVE g[s] = h[s]
    <3>1. CASE s = {}
      BY <3>1, <1>c, <1>d
    <3>2. CASE s # {}
      <4>1. g[s \ {Chosen(s)}] = h[s \ {Chosen(s)}]
        BY <1>2, <2>1, <3>2, <1>a, <1>b
      <4>2. QED BY <3>2, <4>1, <1>b, <1>c, <1>d
    <3>3. QED BY <3>1, <3>2
  <2>2. QED BY <2>1
<1> HIDE DEF T
<1>3. \A n \in Nat : n \in T
  BY <1>1, <1>2, NatStep
<1>4. ASSUME NEW s \in SUBSET R PROVE g[s] = h[s]
  <2>1. Cardinality(s) \in T /\ Cardinality(s) <= Cardinality(s)
    BY <1>a, <1>3
  <2>2. QED BY <2>1 DEF T
<1>5. QED BY <1>4

\* Every function that adds up the weights gives their sum.
LEMMA SumIsSum ==
  ASSUME NEW S, IsFiniteSet(S), NEW w, \A x \in S : w[x] \in Int,
         NEW g, AddsUp(g, w, S)
  PROVE  SumOver(w, S) = g[S]
<1> DEFINE h == CHOOSE h : AddsUp(h, w, S)
<1>1. AddsUp(h, w, S)
  OBVIOUS
<1>2. h[S] = g[S]
  BY <1>1, AdditionUnique
<1>3. QED BY <1>2 DEF SumOver

\* A sum of numbers is a number.
LEMMA SumType ==
  ASSUME NEW S, IsFiniteSet(S), NEW w, \A x \in S : w[x] \in Int
  PROVE  SumOver(w, S) \in Int
<1>1. PICK g \in [SUBSET S -> Int] : AddsUp(g, w, S)
  BY SomethingAddsUp
<1>2. QED BY <1>1, SumIsSum

\* The empty sum.
LEMMA SumOfNone ==
  ASSUME NEW w
  PROVE  SumOver(w, {}) = 0
<1>1. IsFiniteSet({})
  BY FS_EmptySet
<1>2. PICK g \in [SUBSET {} -> Int] : AddsUp(g, w, {})
  BY <1>1, SomethingAddsUp
<1>3. SumOver(w, {}) = g[{}]
  BY <1>1, <1>2, SumIsSum
<1>4. g[{}] = 0
  BY <1>2 DEF AddsUp
<1>5. QED BY <1>3, <1>4

\* The sum depends on the weights alone.
LEMMA SumOfSame ==
  ASSUME NEW S, IsFiniteSet(S), NEW w, NEW v, \A x \in S : w[x] \in Int /\ v[x] = w[x]
  PROVE  SumOver(v, S) = SumOver(w, S)
<1>1. PICK g \in [SUBSET S -> Int] : AddsUp(g, w, S)
  BY SomethingAddsUp
<1>2. PICK h \in [SUBSET S -> Int] : AddsUp(h, v, S)
  BY SomethingAddsUp
<1>3. g[S] = h[S]
  BY <1>1, <1>2, AdditionUnique
<1>4. QED BY <1>1, <1>2, <1>3, SumIsSum

\* Any member may be taken out first.
LEMMA SumTakesOut ==
  ASSUME NEW S, IsFiniteSet(S), NEW w, \A y \in S : w[y] \in Int, NEW x \in S
  PROVE  SumOver(w, S) = w[x] + SumOver(w, S \ {x})
<1>1. PICK g \in [SUBSET S -> Int] : AddsUp(g, w, S)
  BY SomethingAddsUp
<1> DEFINE Free(n) == \A s \in SUBSET S : Cardinality(s) <= n =>
                         \A y \in s : g[s] = w[y] + g[s \ {y}]
           T == {n \in Nat : Free(n)}
<1>a. \A s \in SUBSET S : IsFiniteSet(s) /\ Cardinality(s) \in Nat
  BY FS_Subset, FS_CardinalityType
<1>b. \A s \in SUBSET S : \A y \in s :
        s \ {y} \in SUBSET S /\ Cardinality(s \ {y}) = Cardinality(s) - 1
  BY <1>a, FS_RemoveElement
<1>c. \A s \in SUBSET S : s # {} => /\ Chosen(s) \in s
                                     /\ g[s] = w[Chosen(s)] + g[s \ {Chosen(s)}]
  BY <1>1, ChosenIsMember DEF AddsUp
<1>d. \A n \in Nat : n \in T <=> Free(n)
  OBVIOUS
<1> HIDE DEF T
<1>2. 0 \in T
  <2>1. Free(0)
    BY <1>a, FS_EmptySet
  <2>2. QED BY <2>1, <1>d
<1>3. ASSUME NEW n \in Nat, n \in T
      PROVE  n + 1 \in T
  <2>1. Free(n)
    BY <1>3, <1>d
  <2>2. ASSUME NEW s \in SUBSET S, Cardinality(s) <= n + 1, NEW y \in s
        PROVE  g[s] = w[y] + g[s \ {y}]
    <3> DEFINE c == Chosen(s)
    <3>1. c \in s /\ g[s] = w[c] + g[s \ {c}]
      BY <1>c
    <3> HIDE DEF c
    <3>2. CASE c = y
      BY <3>1, <3>2
    <3>3. CASE c # y
      <4> DEFINE rest == (s \ {c}) \ {y}
      <4>1. /\ s \ {c} \in SUBSET S /\ Cardinality(s \ {c}) <= n
            /\ s \ {y} \in SUBSET S /\ Cardinality(s \ {y}) <= n
            /\ y \in s \ {c} /\ c \in s \ {y}
        BY <1>a, <1>b, <2>2, <3>1, <3>3
      <4>2. g[s \ {c}] = w[y] + g[rest]
        BY <2>1, <4>1
      <4>3. (s \ {y}) \ {c} = rest
        OBVIOUS
      <4>4. g[s \ {y}] = w[c] + g[rest]
        <5>1. g[s \ {y}] = w[c] + g[(s \ {y}) \ {c}]
          BY <2>1, <4>1
        <5>2. QED BY <5>1, <4>3
      <4>5. rest \in SUBSET S /\ g[rest] \in Int /\ w[c] \in Int /\ w[y] \in Int
        BY <3>1
      <4>6. QED BY <3>1, <4>2, <4>4, <4>5
    <3>4. QED BY <3>2, <3>3
  <2>3. Free(n + 1)
    BY <2>2
  <2> HIDE DEF Free
  <2>4. QED BY <2>3, <1>d
<1>4. \A n \in Nat : n \in T
  BY <1>2, <1>3, NatStep
<1>5. g[S] = w[x] + g[S \ {x}]
  <2>1. Free(Cardinality(S)) /\ Cardinality(S) \in Nat
    BY <1>4, <1>d, <1>a
  <2>2. QED BY <2>1
<1>6. IsFiniteSet(S \ {x})
  BY FS_RemoveElement
<1>7. PICK h \in [SUBSET (S \ {x}) -> Int] : AddsUp(h, w, S \ {x})
  BY <1>6, SomethingAddsUp
<1>8. g[S \ {x}] = h[S \ {x}]
  BY <1>1, <1>7, AdditionUnique
<1>9. SumOver(w, S) = g[S] /\ SumOver(w, S \ {x}) = h[S \ {x}]
  BY <1>1, <1>6, <1>7, SumIsSum
<1>10. QED BY <1>5, <1>8, <1>9

\* One weight that changes changes the sum by as much.
LEMMA SumChanges ==
  ASSUME NEW S, IsFiniteSet(S), NEW x \in S, NEW w, NEW v,
         \A y \in S : w[y] \in Int /\ v[y] \in Int,
         \A y \in S \ {x} : v[y] = w[y]
  PROVE  SumOver(v, S) = SumOver(w, S) + (v[x] - w[x])
<1>1. IsFiniteSet(S \ {x})
  BY FS_RemoveElement
<1>2. SumOver(v, S \ {x}) = SumOver(w, S \ {x})
  BY <1>1, SumOfSame
<1>3. /\ SumOver(w, S) = w[x] + SumOver(w, S \ {x})
      /\ SumOver(v, S) = v[x] + SumOver(v, S \ {x})
  BY SumTakesOut
<1>4. SumOver(w, S \ {x}) \in Int
  BY <1>1, SumType
<1>5. QED BY <1>2, <1>3, <1>4

\* One member more adds its weight.
LEMMA SumGains ==
  ASSUME NEW S, IsFiniteSet(S), NEW x, x \notin S, NEW w, NEW v,
         \A y \in S : w[y] \in Int /\ v[y] = w[y], v[x] \in Int
  PROVE  SumOver(v, S \union {x}) = SumOver(w, S) + v[x]
<1>1. IsFiniteSet(S \union {x}) /\ (S \union {x}) \ {x} = S
  BY FS_AddElement
<1>2. SumOver(v, S \union {x}) = v[x] + SumOver(v, S)
  BY <1>1, SumTakesOut
<1>3. SumOver(v, S) = SumOver(w, S) /\ SumOver(w, S) \in Int
  BY SumOfSame, SumType
<1>4. QED BY <1>2, <1>3

\* The same with the sum of the others first, as the folds of the library add.
Accumulates(g, w, S) ==
    g = [s \in SUBSET S |-> IF s = {} THEN 0 ELSE g[s \ {Chosen(s)}] + w[Chosen(s)]]

\* The same for a sum that takes its members in the order of FoldFunctionOnSet.
LEMMA SomethingAccumulates ==
  ASSUME NEW S, IsFiniteSet(S), NEW w, \A x \in S : w[x] \in Int
  PROVE  \E g \in [SUBSET S -> Int] : Accumulates(g, w, S)
<1>1. PICK g \in [SUBSET S -> Int] : AddsUp(g, w, S)
  BY SomethingAddsUp
<1>2. ASSUME NEW s \in SUBSET S, s # {}
      PROVE  w[Chosen(s)] + g[s \ {Chosen(s)}] = g[s \ {Chosen(s)}] + w[Chosen(s)]
  <2>1. g[s \ {Chosen(s)}] \in Int /\ w[Chosen(s)] \in Int
    BY <1>2, ChosenIsMember
  <2>2. QED BY <2>1
<1>3. QED BY <1>1, <1>2 DEF AddsUp, Accumulates

\* Either order gives the same sum.
LEMMA AccumulatedIsSum ==
  ASSUME NEW S, IsFiniteSet(S), NEW w, \A x \in S : w[x] \in Int,
         NEW h, Accumulates(h, w, S)
  PROVE  h[S] = SumOver(w, S)
<1>1. PICK g \in [SUBSET S -> Int] : AddsUp(g, w, S)
  BY SomethingAddsUp
<1> DEFINE Equal(n) == \A s \in SUBSET S : Cardinality(s) <= n => h[s] = g[s]
           T == {n \in Nat : Equal(n)}
<1>a. \A s \in SUBSET S : IsFiniteSet(s) /\ Cardinality(s) \in Nat
  BY FS_Subset, FS_CardinalityType
<1>b. \A s \in SUBSET S : s # {} =>
        /\ Chosen(s) \in S /\ s \ {Chosen(s)} \in SUBSET S
        /\ Cardinality(s \ {Chosen(s)}) = Cardinality(s) - 1
  BY <1>a, ChosenIsMember, FS_RemoveElement
<1>c. \A s \in SUBSET S :
        /\ s = {} => g[s] = 0 /\ h[s] = 0
        /\ s # {} => /\ g[s] = w[Chosen(s)] + g[s \ {Chosen(s)}]
                     /\ h[s] = h[s \ {Chosen(s)}] + w[Chosen(s)]
  BY <1>1 DEF AddsUp, Accumulates
<1>d. \A n \in Nat : n \in T <=> Equal(n)
  OBVIOUS
<1> HIDE DEF T
<1>2. 0 \in T
  <2>1. \A s \in SUBSET S : Cardinality(s) <= 0 => s = {}
    BY <1>a, FS_EmptySet
  <2>2. Equal(0)
    BY <2>1, <1>c
  <2>3. QED BY <2>2, <1>d
<1>3. ASSUME NEW n \in Nat, n \in T
      PROVE  n + 1 \in T
  <2>1. Equal(n)
    BY <1>3, <1>d
  <2>2. ASSUME NEW s \in SUBSET S, Cardinality(s) <= n + 1
        PROVE  h[s] = g[s]
    <3>1. CASE s = {}
      BY <3>1, <1>c
    <3>2. CASE s # {}
      <4>1. h[s \ {Chosen(s)}] = g[s \ {Chosen(s)}]
        BY <2>1, <2>2, <3>2, <1>a, <1>b
      <4>2. g[s \ {Chosen(s)}] \in Int /\ w[Chosen(s)] \in Int
        BY <3>2, <1>b
      <4>3. QED BY <3>2, <4>1, <4>2, <1>c
    <3>3. QED BY <3>1, <3>2
  <2>3. Equal(n + 1)
    BY <2>2
  <2> HIDE DEF Equal
  <2>4. QED BY <2>3, <1>d
<1>4. Equal(Cardinality(S)) /\ Cardinality(S) \in Nat
  BY <1>2, <1>3, <1>a, <1>d, NatStep
<1>5. h[S] = g[S]
  BY <1>4
<1>6. QED BY <1>1, <1>5, SumIsSum

\* Sums over a set and a part of it compare as their weights do.
LEMMA SumsCompare ==
    ASSUME NEW S, IsFiniteSet(S), NEW R \in SUBSET S, NEW w, NEW v,
           \A x \in R : w[x] \in Int /\ w[x] <= v[x],
           \A x \in S : v[x] \in Nat
    PROVE  SumOver(w, R) <= SumOver(v, S)
<1>. DEFINE Less(s) == SumOver(w, s \cap R) <= SumOver(v, s)
            T == {n \in Nat : \A s \in SUBSET S : Cardinality(s) <= n => Less(s)}
<1>a. \A s \in SUBSET S : IsFiniteSet(s) /\ Cardinality(s) \in Nat
  BY FS_Subset, FS_CardinalityType
<1>b. \A n \in Nat : n \in T <=> \A s \in SUBSET S : Cardinality(s) <= n => Less(s)
  OBVIOUS
<1>. HIDE DEF T
<1>1. 0 \in T
  <2>1. \A s \in SUBSET S : Cardinality(s) <= 0 => s = {}  BY <1>a, FS_EmptySet
  <2>2. Less({})
    <3>1. {} \cap R = {}  OBVIOUS
    <3>. QED  BY <3>1, SumOfNone
  <2>3. \A s \in SUBSET S : Cardinality(s) <= 0 => Less(s)  BY <2>1, <2>2
  <2>. HIDE DEF Less
  <2>. QED  BY <1>b, <2>3
<1>2. ASSUME NEW n \in Nat, n \in T
      PROVE  n + 1 \in T
  <2>1. ASSUME NEW s \in SUBSET S, Cardinality(s) <= n + 1
        PROVE  Less(s)
    <3>1. CASE s = {}
      <4>1. s \cap R = {}  BY <3>1
      <4>. QED  BY <3>1, <4>1, SumOfNone
    <3>2. CASE s # {}
      <4>1. PICK y \in s : TRUE  BY <3>2
      <4>. DEFINE rest == s \ {y}
      <4>2. rest \in SUBSET S /\ Cardinality(rest) = Cardinality(s) - 1
        BY <1>a, <4>1, FS_RemoveElement
      <4>3. Cardinality(rest) <= n  BY <1>a, <2>1, <4>2
      <4>4. Less(rest)  BY <1>2, <1>b, <4>2, <4>3
      <4>5. SumOver(v, s) = v[y] + SumOver(v, rest)
        <5>1. IsFiniteSet(s) /\ \A x \in s : v[x] \in Int  BY <1>a
        <5>. QED  BY <4>1, <5>1, SumTakesOut
      <4>6. SumOver(v, rest) \in Int
        <5>1. IsFiniteSet(rest) /\ \A x \in rest : v[x] \in Int  BY <1>a, <4>2
        <5>. QED  BY <5>1, SumType
      <4>7. IsFiniteSet(s \cap R) /\ IsFiniteSet(rest \cap R)
        <5>1. s \cap R \in SUBSET S /\ rest \cap R \in SUBSET S  OBVIOUS
        <5>. QED  BY <1>a, <5>1
      <4>8. SumOver(w, rest \cap R) \in Int
        <5>1. \A x \in rest \cap R : w[x] \in Int  OBVIOUS
        <5>. QED  BY <4>7, <5>1, SumType
      <4>9. v[y] \in Nat  BY <4>1
      <4>10. CASE y \in R
        <5>1. y \in s \cap R /\ (s \cap R) \ {y} = rest \cap R  BY <4>1, <4>10
        <5>2. \A x \in s \cap R : w[x] \in Int  OBVIOUS
        <5>3. SumOver(w, s \cap R) = w[y] + SumOver(w, (s \cap R) \ {y})
          BY <4>7, <5>1, <5>2, SumTakesOut
        <5>4. w[y] \in Int /\ w[y] <= v[y]  BY <4>10
        <5>. HIDE DEF rest
        <5>. QED  BY <4>4, <4>5, <4>6, <4>8, <4>9, <5>1, <5>3, <5>4
      <4>11. CASE y \notin R
        <5>1. s \cap R = rest \cap R  BY <4>11
        <5>2. SumOver(w, s \cap R) = SumOver(w, rest \cap R)  BY <5>1
        <5>. HIDE DEF rest
        <5>. QED  BY <4>4, <4>5, <4>6, <4>8, <4>9, <5>2
      <4>. QED  BY <4>10, <4>11
    <3>. QED  BY <3>1, <3>2
  <2>. HIDE DEF Less
  <2>. QED  BY <1>b, <2>1
<1>3. Cardinality(S) \in Nat /\ Cardinality(S) \in T  BY <1>a, <1>1, <1>2, NatStep
<1>. HIDE DEF Less
<1>4. Less(S)  BY <1>b, <1>3
<1>5. S \cap R = R  OBVIOUS
<1>. QED  BY <1>4, <1>5 DEF Less

\* The sum of a function is the sum of its values.
LEMMA FunctionSum ==
    ASSUME NEW f, IsFiniteSet(DOMAIN f), \A x \in DOMAIN f : f[x] \in Int
    PROVE  SumFunction(f) = SumOver(f, DOMAIN f) /\ SumFunction(f) \in Int
<1>. DEFINE S == DOMAIN f
            Turn(g) ==
              [t \in SUBSET S |->
                 IF t = {} THEN 0
                 ELSE LET x == CHOOSE x \in t : TRUE IN f[x] + g[t \ {x}]]
            Iter == CHOOSE g : g = Turn(g)
<1>1. SumFunction(f) = Iter[S]
  BY DEF SumFunction, SumFunctionOnSet, FoldFunctionOnSet, MapThenFoldSet
<1>2. \A g : AddsUp(g, f, S) <=> g = Turn(g)
  BY DEF AddsUp, Chosen
<1>. HIDE DEF Turn
<1>3. PICK g \in [SUBSET S -> Int] : AddsUp(g, f, S)  BY SomethingAddsUp
<1>4. AddsUp(Iter, f, S)  BY <1>2, <1>3
<1>5. SumOver(f, S) = Iter[S] /\ SumOver(f, S) \in Int  BY <1>4, SumIsSum, SumType
<1>. QED  BY <1>1, <1>5

\* Functions with a larger domain or larger values, none of them negative, have the
\* larger sum.
LEMMA FunctionSumsCompare ==
    ASSUME NEW f, NEW g, IsFiniteSet(DOMAIN g), DOMAIN f \subseteq DOMAIN g,
           \A x \in DOMAIN f : f[x] \in Int /\ f[x] <= g[x],
           \A x \in DOMAIN g : g[x] \in Nat
    PROVE  SumFunction(f) <= SumFunction(g)
<1>1. IsFiniteSet(DOMAIN f)  BY FS_Subset
<1>2. SumFunction(f) = SumOver(f, DOMAIN f) /\ SumFunction(g) = SumOver(g, DOMAIN g)
  BY <1>1, FunctionSum
<1>. QED  BY <1>2, SumsCompare

\* A sum of natural numbers is one.
LEMMA NaturalSum ==
    ASSUME NEW f, IsFiniteSet(DOMAIN f), \A x \in DOMAIN f : f[x] \in Nat
    PROVE  SumFunction(f) \in Nat
<1>1. SumFunction(f) = SumOver(f, DOMAIN f) /\ SumFunction(f) \in Int  BY FunctionSum
<1>2. SumOver(f, {}) <= SumOver(f, DOMAIN f)  BY SumsCompare
<1>3. 0 <= SumFunction(f)  BY <1>1, <1>2, SumOfNone
<1>. QED  BY <1>1, <1>3

\* A set of integers with a bound has a least one.
LEMMA LeastInteger ==
    ASSUME NEW T, T \subseteq Int, T # {}, NEW b \in Int, \A x \in T : b <= x
    PROVE  \E n \in T : \A m \in T : n <= m
<1>. DEFINE Above == {k \in Nat : b + k \in T}
<1>1. PICK x \in T : TRUE  OBVIOUS
<1>2. x - b \in Above  BY <1>1
<1>3. PICK k \in Above : \A j \in Above : k <= j  BY <1>2, LeastNumber
<1>4. \A m \in T : m - b \in Above  OBVIOUS
<1>5. b + k \in T /\ \A m \in T : b + k <= m  BY <1>3, <1>4
<1>. QED  BY <1>5

\* What a whole number of parts costs, of a sum divided by what one costs.
LEMMA PartsWithin ==
    ASSUME NEW sum \in Int, NEW part \in Nat \ {0}, NEW n \in Int, n <= sum \div part
    PROVE  n * part <= sum
<1>1. PICK k \in Int : k = sum \div part  OBVIOUS
<1>2. k * part <= sum  BY <1>1
<1>a. n <= k  BY <1>1
<1>3. PICK d \in Nat : d = k - n  BY <1>a
<1>4. k = n + d  BY <1>1, <1>3
<1>5. k * part = n * part + d * part  BY <1>4
<1>6. d * part >= 0 /\ n * part \in Int /\ d * part \in Int  OBVIOUS
<1>. QED  BY <1>2, <1>5, <1>6

\* A finite set of numbers that is not empty has a greatest and a least element.
LEMMA FiniteExtremes ==
    ASSUME NEW S, S \subseteq Int, IsFiniteSet(S), S # {}
    PROVE  /\ \E m \in S : \A x \in S : x <= m
           /\ \E m \in S : \A x \in S : m <= x
<1>. DEFINE Both(s) == /\ \E m \in s : \A x \in s : x <= m
                       /\ \E m \in s : \A x \in s : m <= x
            T == {n \in Nat : \A s \in SUBSET S : (s # {} /\ Cardinality(s) <= n) => Both(s)}
<1>a. \A s \in SUBSET S : IsFiniteSet(s) /\ Cardinality(s) \in Nat
  BY FS_Subset, FS_CardinalityType
<1>b. \A n \in Nat : n \in T <=> \A s \in SUBSET S : (s # {} /\ Cardinality(s) <= n) => Both(s)
  OBVIOUS
<1>. HIDE DEF T
<1>1. 0 \in T
  <2>1. \A s \in SUBSET S : Cardinality(s) <= 0 => s = {}  BY <1>a, FS_EmptySet
  <2>. QED  BY <1>b, <2>1
<1>2. ASSUME NEW n \in Nat, n \in T
      PROVE  n + 1 \in T
  <2>1. ASSUME NEW s \in SUBSET S, s # {}, Cardinality(s) <= n + 1
        PROVE  Both(s)
    <3>1. PICK y \in s : TRUE  BY <2>1
    <3>2. y \in Int /\ \A x \in s : x \in Int  OBVIOUS
    <3>3. CASE s \ {y} = {}
      <4>1. \A x \in s : x = y  BY <3>3
      <4>. QED  BY <3>1, <3>2, <4>1
    <3>4. CASE s \ {y} # {}
      <4>1. Cardinality(s \ {y}) = Cardinality(s) - 1  BY <1>a, <3>1, FS_RemoveElement
      <4>2. Cardinality(s \ {y}) <= n  BY <1>a, <2>1, <4>1
      <4>3. Both(s \ {y})  BY <1>2, <1>b, <3>4, <4>2
      <4>4. PICK high \in s \ {y} : \A x \in s \ {y} : x <= high  BY <4>3
      <4>5. PICK low \in s \ {y} : \A x \in s \ {y} : low <= x  BY <4>3
      <4>6. \E m \in s : \A x \in s : x <= m
        <5>1. CASE high <= y
          <6>1. \A x \in s : x <= y  BY <3>2, <4>4, <5>1
          <6>. QED  BY <3>1, <6>1
        <5>2. CASE ~(high <= y)
          <6>1. \A x \in s : x <= high  BY <3>2, <4>4, <5>2
          <6>. QED  BY <6>1
        <5>. QED  BY <5>1, <5>2
      <4>7. \E m \in s : \A x \in s : m <= x
        <5>1. CASE y <= low
          <6>1. \A x \in s : y <= x  BY <3>2, <4>5, <5>1
          <6>. QED  BY <3>1, <6>1
        <5>2. CASE ~(y <= low)
          <6>1. \A x \in s : low <= x  BY <3>2, <4>5, <5>2
          <6>. QED  BY <6>1
        <5>. QED  BY <5>1, <5>2
      <4>. QED  BY <4>6, <4>7
    <3>. QED  BY <3>3, <3>4
  <2>. QED  BY <1>b, <2>1
<1>3. \A n \in Nat : n \in T  BY <1>1, <1>2, NatStep
<1>4. Cardinality(S) \in Nat /\ Cardinality(S) \in T  BY <1>a, <1>3
<1>. HIDE DEF Both
<1>5. Both(S)  BY <1>4, <1>b
<1>. QED  BY <1>5 DEF Both

\* Max and Min of a finite set of numbers are its extremes.
LEMMA ExtremesOf ==
    ASSUME NEW S, S \subseteq Int, IsFiniteSet(S), S # {}
    PROVE  /\ Max(S) \in S /\ \A x \in S : x <= Max(S)
           /\ Min(S) \in S /\ \A x \in S : Min(S) <= x
<1>1. \E m \in S : \A x \in S : m >= x
  <2>1. PICK m \in S : \A x \in S : x <= m  BY FiniteExtremes
  <2>2. \A x \in S : m >= x  BY <2>1
  <2>. QED  BY <2>2
<1>2. Max(S) \in S /\ \A x \in S : Max(S) >= x  BY <1>1 DEF Max
<1>3. \E m \in S : \A x \in S : m <= x  BY FiniteExtremes
<1>4. Min(S) \in S /\ \A x \in S : Min(S) <= x  BY <1>3 DEF Min
<1>5. PICK m \in Int : m = Max(S)  BY <1>2
<1>6. \A x \in S : x <= m  BY <1>2, <1>5
<1>. QED  BY <1>2, <1>4, <1>5, <1>6

\* The values a function takes on a finite set are finitely many.
LEMMA ValuesAreFinite ==
    ASSUME NEW S, IsFiniteSet(S), NEW w
    PROVE  IsFiniteSet({w[x] : x \in S})
<1>. DEFINE f == [x \in S |-> w[x]]
            V == {w[x] : x \in S}
<1>1. f \in [S -> V] /\ \A v \in V : \E x \in S : f[x] = v  OBVIOUS
<1>. HIDE DEF f, V
<1>2. f \in Surjection(S, V)  BY <1>1 DEF Surjection
<1>3. IsFiniteSet(V)  BY <1>2, FS_Surjection
<1>. QED  BY <1>3 DEF V

-----------------------------------------------------------------------------
(* Sequences. *)

\* Removing an element shifts those behind it.
LEMMA RemoveAtProperties ==
    ASSUME NEW S, NEW s \in Seq(S), NEW i \in 1..Len(s)
    PROVE  /\ RemoveAt(s, i) \in Seq(S)
           /\ Len(RemoveAt(s, i)) = Len(s) - 1
           /\ \A j \in 1..(Len(s) - 1) :
                RemoveAt(s, i)[j] = IF j < i THEN s[j] ELSE s[j + 1]
<1> DEFINE before == SubSeq(s, 1, i - 1)
           after == SubSeq(s, i + 1, Len(s))
<1>1. Len(s) \in Nat /\ \A j \in 1..Len(s) : s[j] \in S
  BY LenProperties, ElementOfSeq
<1>2. /\ before \in Seq(S) /\ Len(before) = i - 1
      /\ \A j \in 1..(i - 1) : before[j] = s[j]
  <2>1. \A j \in 1..(i - 1) : s[j] \in S
    BY <1>1
  <2>2. /\ before \in Seq(S) /\ Len(before) = IF 1 <= i - 1 THEN i - 1 - 1 + 1 ELSE 0
        /\ \A j \in 1..(i - 1 - 1 + 1) : before[j] = s[1 + j - 1]
    BY <2>1, SubSeqProperties, i - 1 \in Int, 1 \in Int
  <2> QED
    BY <2>2
<1>3. /\ after \in Seq(S) /\ Len(after) = Len(s) - i
      /\ \A j \in 1..(Len(s) - i) : after[j] = s[i + j]
  <2>1. \A j \in (i + 1)..Len(s) : s[j] \in S
    BY <1>1
  <2>2. /\ after \in Seq(S)
        /\ Len(after) = IF i + 1 <= Len(s) THEN Len(s) - (i + 1) + 1 ELSE 0
        /\ \A j \in 1..(Len(s) - (i + 1) + 1) : after[j] = s[(i + 1) + j - 1]
    BY <2>1, <1>1, SubSeqProperties, i + 1 \in Int, Len(s) \in Int
  <2> QED
    BY <2>2, <1>1
<1>4. /\ before \o after \in Seq(S)
      /\ Len(before \o after) = Len(before) + Len(after)
      /\ \A j \in 1..(Len(before) + Len(after)) : (before \o after)[j] =
             IF j <= Len(before) THEN before[j] ELSE after[j - Len(before)]
  <2> HIDE DEF before, after
  <2> QED
    BY <1>2, <1>3, ConcatProperties
<1>5. RemoveAt(s, i) = before \o after
  BY DEF RemoveAt
<1> HIDE DEF before, after
<1>6. Len(before \o after) = Len(s) - 1
  BY <1>1, <1>2, <1>3, <1>4
<1>7. ASSUME NEW j \in 1..(Len(s) - 1)
      PROVE  (before \o after)[j] = IF j < i THEN s[j] ELSE s[j + 1]
  <2>1. j \in 1..(Len(before) + Len(after))
    BY <1>1, <1>2, <1>3
  <2>2. CASE j < i
    BY <2>1, <2>2, <1>1, <1>2, <1>4
  <2>3. CASE ~(j < i)
    <3>1. j - (i - 1) \in 1..(Len(s) - i) /\ i + (j - (i - 1)) = j + 1
      BY <2>3, <1>1
    <3>2. (before \o after)[j] = after[j - (i - 1)]
      BY <2>1, <2>3, <1>1, <1>2, <1>4
    <3> QED
      BY <3>1, <3>2, <2>3, <1>3
  <2> QED
    BY <2>2, <2>3
<1> QED
  BY <1>4, <1>5, <1>6, <1>7

=============================================================================
