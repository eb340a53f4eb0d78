----------------------------- MODULE ListLemmas -----------------------------
(***************************************************************************)
(* What proofs about lists and counts need: induction over the naturals    *)
(* for a set, functions defined by recursion, what a filter keeps, sums,   *)
(* and the greatest and the least of a finite set.                         *)
(***************************************************************************)
EXTENDS Filters, Integers, FiniteSetsExt, Functions, FiniteSetTheorems, SequenceTheorems, TLAPS

\* A set of numbers that has 0 and every successor of its own has them all: a
\* counterexample n would let the shift by one fit a set of at most n + 1 elements
\* into that set without 0.
LEMMA NatInd ==
  ASSUME NEW P, 0 \in P, \A n \in Nat : n \in P => n + 1 \in P
  PROVE  Nat \subseteq P
<1> SUFFICES ASSUME NEW n \in Nat, n \notin P PROVE FALSE
  OBVIOUS
<1> DEFINE S == {i \in 0..n : i \in P}
           f == [i \in S |-> i + 1]
<1>0. 0 \in S
  OBVIOUS
<1>1. IsFiniteSet(0..n)
  BY FS_Interval
<1>2. IsFiniteSet(S) /\ Cardinality(S) \in Nat
  BY <1>1, FS_Subset, FS_CardinalityType
<1>4. f \in [S -> S \ {0}]
  OBVIOUS
<1>5. \A x, y \in S : f[x] = f[y] => x = y
  OBVIOUS
<1> HIDE DEF S, f
<1>3. IsFiniteSet(S \ {0}) /\ Cardinality(S \ {0}) = Cardinality(S) - 1
  BY <1>0, <1>2, FS_RemoveElement
<1>6. \E x, y \in S : x # y /\ f[x] = f[y]
  <2>1. Cardinality(S \ {0}) < Cardinality(S)
    BY <1>2, <1>3
  <2> QED BY <2>1, <1>2, <1>3, <1>4, FS_PigeonHole, Zenon
<1>7. QED
  BY <1>5, <1>6

\* The least of a set of numbers.
LEMMA MinIs ==
  ASSUME NEW S \in SUBSET Nat, S # {}
  PROVE  Min(S) \in S /\ \A x \in S : Min(S) <= x
<1> DEFINE P == {n \in Nat : (\E x \in S : x <= n) => \E m \in S : \A x \in S : m <= x}
<1>1. 0 \in P
  OBVIOUS
<1>2. ASSUME NEW n \in Nat, n \in P PROVE n + 1 \in P
  <2> SUFFICES ASSUME NEW y \in S, y <= n + 1 PROVE \E m \in S : \A x \in S : m <= x
    OBVIOUS
  <2>1. CASE \E x \in S : x <= n
    BY <1>2, <2>1
  <2>2. CASE \A x \in S : ~ (x <= n)
    <3>1. \A x \in S : n + 1 <= x
      BY <2>2
    <3>2. QED
      BY <3>1
  <2>3. QED
    BY <2>1, <2>2
<1>3. \E m \in S : \A x \in S : m <= x
  <2>1. PICK x \in S : TRUE
    OBVIOUS
  <2> HIDE DEF P
  <2>2. x \in P /\ x \in Nat /\ x <= x
    BY <1>1, <1>2, NatInd
  <2>3. QED
    BY <2>2 DEF P
<1>4. QED
  BY <1>3 DEF Min

\* A function defined by recursion up to n, and that there is one.
Recursive(g, n, S, base, step) ==
  g \in [0..n -> S] /\ g[0] = base /\ \A i \in 1..n : g[i] = step[i][g[i - 1]]

\* There is a function that is defined by recursion.
LEMMA Recursion ==
  ASSUME NEW n \in Nat, NEW S, NEW base \in S, NEW step \in [1..n -> [S -> S]]
  PROVE  \E g : Recursive(g, n, S, base, step)
<1> DEFINE Def(m) == \E g \in [0..m -> S] : g[0] = base /\ \A i \in 1..m : g[i] = step[i][g[i - 1]]
           P == {m \in Nat : m <= n => Def(m)}
<1>1. 0 \in P
  <2>1. [i \in 0..0 |-> base] \in [0..0 -> S]
    OBVIOUS
  <2>2. Def(0)
    <3> WITNESS [i \in 0..0 |-> base] \in [0..0 -> S]
    <3> QED OBVIOUS
  <2>3. QED
    BY <2>2
<1>2. ASSUME NEW m \in Nat, m \in P PROVE m + 1 \in P
  <2> SUFFICES ASSUME m + 1 <= n PROVE Def(m + 1)
    OBVIOUS
  <2>1. PICK g \in [0..m -> S] : g[0] = base /\ \A i \in 1..m : g[i] = step[i][g[i - 1]]
    <3>1. m <= n
      OBVIOUS
    <3>2. QED
      BY <1>2, <3>1
  <2> DEFINE v == step[m + 1][g[m]]
             h == [i \in 0..(m + 1) |-> IF i = m + 1 THEN v ELSE g[i]]
  <2>2. v \in S
    <3>1. m + 1 \in 1..n /\ m \in 0..m
      OBVIOUS
    <3>2. QED
      BY <3>1
  <2>3. h \in [0..(m + 1) -> S] /\ h[0] = base
    <3> HIDE DEF v
    <3> QED BY <2>1, <2>2
  <2>4. \A i \in 1..m : h[i] = g[i] /\ h[i - 1] = g[i - 1]
    OBVIOUS
  <2>5. h[m + 1] = v /\ h[m] = g[m]
    OBVIOUS
  <2> HIDE DEF h
  <2>6. \A i \in 1..(m + 1) : h[i] = step[i][h[i - 1]]
    <3> SUFFICES ASSUME NEW i \in 1..(m + 1) PROVE h[i] = step[i][h[i - 1]]
      OBVIOUS
    <3>1. CASE i = m + 1
      BY <2>5, <3>1
    <3>2. CASE i \in 1..m
      BY <2>1, <2>4, <3>2
    <3>3. QED
      BY <3>1, <3>2
  <2>7. QED
    BY <2>3, <2>6
<1> HIDE DEF P
<1>3. n \in P
  BY <1>1, <1>2, NatInd
<1>4. QED
  BY <1>3 DEF P, Recursive

\* Picked goes through the positions one after the other.
LEMMA PickedSteps ==
  ASSUME NEW T, NEW s \in Seq(T), NEW kept
  PROVE  \E g \in [0..Len(s) -> Seq(T)] :
           /\ g[0] = <<>> /\ Picked(s, kept) = g[Len(s)]
           /\ \A i \in 1..Len(s) : g[i] = IF i \in kept THEN Append(g[i - 1], s[i]) ELSE g[i - 1]
<1> DEFINE n == Len(s)
           Step(i, r) == IF i \in kept THEN Append(r, s[i]) ELSE r
           step == [i \in 1..n |-> [r \in Seq(T) |-> Step(i, r)]]
           F(g) == [i \in 0..n |-> IF i = 0 THEN <<>> ELSE Step(i, g[i - 1])]
           Def(g) == g = F(g)
<1>0. n \in Nat
  OBVIOUS
<1>1. step \in [1..n -> [Seq(T) -> Seq(T)]] /\ <<>> \in Seq(T)
  <2>1. \A i \in 1..n, r \in Seq(T) : Step(i, r) \in Seq(T)
    OBVIOUS
  <2> HIDE DEF Step
  <2>2. QED
    BY <2>1
<1>2. PICK g \in [0..n -> Seq(T)] : g[0] = <<>> /\ \A i \in 1..n : g[i] = step[i][g[i - 1]]
  <2> DEFINE S == Seq(T)
             empty == <<>>
  <2>1. empty \in S /\ step \in [1..n -> [S -> S]]
    BY <1>1
  <2> HIDE DEF step, n, S, empty
  <2>2. \E g : Recursive(g, n, S, empty, step)
    BY <1>0, <2>1, Recursion
  <2>3. QED
    BY <2>2 DEF Recursive, S, empty
<1>3. \A i \in 1..n : g[i] = Step(i, g[i - 1])
  <2> SUFFICES ASSUME NEW i \in 1..n PROVE g[i] = Step(i, g[i - 1])
    OBVIOUS
  <2>1. g[i - 1] \in Seq(T)
    BY <1>0, <1>2, SMTT(30)
  <2> HIDE DEF n, Step
  <2>2. QED
    BY <1>2, <2>1
<1>4. Def(g)
  <2> HIDE DEF Step, n
  <2>1. \A i \in 0..n : g[i] = F(g)[i]
    BY <1>0, <1>2, <1>3
  <2>2. QED
    BY <2>1
<1>5. Picked(s, kept) = (CHOOSE h : Def(h))[n]
  BY DEF Picked
<1>6. Def(CHOOSE h : Def(h))
  BY <1>4
<1> DEFINE f == CHOOSE h : Def(h)
<1>7. f = F(f)
  BY <1>6
<1> HIDE DEF f, Step, n
<1>8. f[0] = <<>> /\ \A i \in 1..n : f[i] = Step(i, f[i - 1])
  BY <1>0, <1>7
<1>9. f \in [0..n -> Seq(T)]
  <2> DEFINE P == {i \in Nat : i \in 0..n => f[i] \in Seq(T)}
  <2>1. 0 \in P
    BY <1>8, <1>1
  <2>2. ASSUME NEW i \in Nat, i \in P PROVE i + 1 \in P
    <3> SUFFICES ASSUME i + 1 \in 1..n PROVE f[i + 1] \in Seq(T)
      OBVIOUS
    <3>1. f[i] \in Seq(T) /\ f[i + 1] = Step(i + 1, f[i])
      BY <1>0, <1>8, <2>2
    <3>2. QED
      BY <3>1 DEF Step, n
  <2>3. \A i \in 0..n : f[i] \in Seq(T)
    <3> HIDE DEF P
    <3>1. Nat \subseteq P
      BY <2>1, <2>2, NatInd
    <3>2. QED
      BY <1>0, <3>1 DEF P
  <2>4. f = [i \in 0..n |-> f[i]]
    BY <1>7
  <2>5. QED
    BY <2>3, <2>4
<1>10. QED
  BY <1>5, <1>8, <1>9 DEF f, Step, n

\* e leads from the positions of r to those of s, in order, onto the ones in `at`.
Onto(e, r, s, at) ==
  /\ e \in [1..Len(r) -> at]
  /\ \A j \in 1..Len(r) : r[j] = s[e[j]]
  /\ \A j, k \in 1..Len(r) : j < k => e[j] < e[k]
  /\ \A i \in at : \E j \in 1..Len(r) : e[j] = i

\* What is picked is what was at the kept positions, in order.
LEMMA PickedIs ==
  ASSUME NEW T, NEW s \in Seq(T), NEW kept \in SUBSET (1..Len(s))
  PROVE  /\ Picked(s, kept) \in Seq(T)
         /\ \E e : Onto(e, Picked(s, kept), s, kept)
<1>1. PICK g \in [0..Len(s) -> Seq(T)] :
           /\ g[0] = <<>> /\ Picked(s, kept) = g[Len(s)]
           /\ \A i \in 1..Len(s) : g[i] = IF i \in kept THEN Append(g[i - 1], s[i]) ELSE g[i - 1]
  BY PickedSteps
<1> DEFINE At(i) == {k \in kept : k <= i}
           P == {i \in Nat : i \in 0..Len(s) => \E e : Onto(e, g[i], s, At(i))}
<1>2. 0 \in P
  <2>1. At(0) = {}
    OBVIOUS
  <2>2. Onto(<<>>, g[0], s, At(0))
    BY <1>1, <2>1 DEF Onto
  <2>3. QED
    BY <2>2
<1>3. ASSUME NEW i \in Nat, i \in P PROVE i + 1 \in P
  <2> SUFFICES ASSUME i + 1 \in 1..Len(s) PROVE \E e : Onto(e, g[i + 1], s, At(i + 1))
    OBVIOUS
  <2>1. PICK e : Onto(e, g[i], s, At(i))
    <3>1. i \in 0..Len(s)
      OBVIOUS
    <3>2. QED
      BY <1>3, <3>1
  <2> DEFINE r == g[i]
  <2>2. r \in Seq(T) /\ g[i + 1] = IF i + 1 \in kept THEN Append(r, s[i + 1]) ELSE r
    BY <1>1
  <2>3. CASE i + 1 \notin kept
    <3>1. At(i + 1) = At(i)
      BY <2>3
    <3>2. QED
      BY <2>1, <2>2, <2>3, <3>1
  <2>4. CASE i + 1 \in kept
    <3> DEFINE n == Len(r)
               f == [j \in 1..(n + 1) |-> IF j = n + 1 THEN i + 1 ELSE e[j]]
               q == Append(r, s[i + 1])
    <3>1. /\ n \in Nat /\ e \in [1..n -> At(i)]
          /\ \A j \in 1..n : r[j] = s[e[j]]
          /\ \A j, k \in 1..n : j < k => e[j] < e[k]
          /\ \A k \in At(i) : \E j \in 1..n : e[j] = k
      BY <2>1, <2>2 DEF Onto
    <3>2. s[i + 1] \in T
      OBVIOUS
    <3>3. /\ q \in Seq(T) /\ Len(q) = n + 1 /\ q[n + 1] = s[i + 1]
          /\ \A j \in 1..n : q[j] = r[j]
      BY <2>2, <3>2
    <3>4. At(i + 1) = At(i) \cup {i + 1}
      <4>1. \A k \in kept : k \in Nat /\ (k <= i + 1 <=> k <= i \/ k = i + 1)
        OBVIOUS
      <4>2. QED
        BY <2>4, <4>1
    <3>5. \A k \in At(i) : k \in Nat /\ k < i + 1
      OBVIOUS
    <3> HIDE DEF n, q, At, r
    <3>6. f \in [1..(n + 1) -> At(i + 1)] /\ f[n + 1] = i + 1 /\ \A j \in 1..n : f[j] = e[j]
      BY <3>1, <3>4
    <3> HIDE DEF f
    <3>7. \A j \in 1..(n + 1) : q[j] = s[f[j]]
      <4> SUFFICES ASSUME NEW j \in 1..(n + 1) PROVE q[j] = s[f[j]]
        OBVIOUS
      <4>1. CASE j = n + 1
        BY <3>3, <3>6, <4>1
      <4>2. CASE j \in 1..n
        BY <3>1, <3>3, <3>6, <4>2
      <4>3. QED
        BY <3>1, <4>1, <4>2
    <3>8. \A j, k \in 1..(n + 1) : j < k => f[j] < f[k]
      <4> SUFFICES ASSUME NEW j \in 1..(n + 1), NEW k \in 1..(n + 1), j < k PROVE f[j] < f[k]
        OBVIOUS
      <4>1. j \in 1..n /\ f[j] = e[j] /\ e[j] \in At(i) /\ f[j] < i + 1
        BY <3>1, <3>5, <3>6
      <4>2. CASE k = n + 1
        BY <3>6, <4>1, <4>2
      <4>3. CASE k \in 1..n
        BY <3>1, <3>6, <4>1, <4>3
      <4>4. k = n + 1 \/ k \in 1..n
        BY <3>1
      <4>5. QED
        BY <4>2, <4>3, <4>4
    <3>9. \A k \in At(i + 1) : \E j \in 1..(n + 1) : f[j] = k
      <4> SUFFICES ASSUME NEW k \in At(i + 1) PROVE \E j \in 1..(n + 1) : f[j] = k
        OBVIOUS
      <4>1. CASE k = i + 1
        BY <3>1, <3>6, <4>1
      <4>2. CASE k \in At(i)
        BY <3>1, <3>6, <4>2
      <4>3. QED
        BY <3>4, <4>1, <4>2
    <3>10. Onto(f, q, s, At(i + 1))
      BY <3>3, <3>6, <3>7, <3>8, <3>9 DEF Onto
    <3>11. QED
      BY <2>2, <2>4, <3>10 DEF q, r
  <2>5. QED
    BY <2>3, <2>4
<1>4. \E e : Onto(e, g[Len(s)], s, At(Len(s)))
  <2> HIDE DEF P
  <2>1. Nat \subseteq P
    BY <1>2, <1>3, NatInd
  <2>2. Len(s) \in Nat
    OBVIOUS
  <2>3. QED
    BY <2>1, <2>2 DEF P
<1>5. At(Len(s)) = kept
  OBVIOUS
<1>6. Picked(s, kept) = g[Len(s)] /\ g[Len(s)] \in Seq(T)
  BY <1>1
<1>7. QED
  BY <1>4, <1>5, <1>6

-----------------------------------------------------------------------------
\* g[s] is the sum of f over s, taken in the order in which elements are picked.
Sums(g, S, f, pick) ==
  /\ g \in [SUBSET S -> Int] /\ g[{}] = 0
  /\ \A s \in (SUBSET S) \ {{}} : g[s] = f[pick[s]] + g[s \ {pick[s]}]

\* A choice of an element of every set.
Picks(pick, S) == pick \in [(SUBSET S) \ {{}} -> S] /\ \A s \in (SUBSET S) \ {{}} : pick[s] \in s

\* There is such a sum.
LEMMA SumsExist ==
  ASSUME NEW S, IsFiniteSet(S), NEW f \in [S -> Int], NEW pick, Picks(pick, S)
  PROVE  \E g : Sums(g, S, f, pick)
<1> DEFINE Sub(n) == {s \in SUBSET S : Cardinality(s) <= n}
           Works(g, n) ==
             /\ g \in [Sub(n) -> Int] /\ g[{}] = 0
             /\ \A s \in Sub(n) : s # {} => g[s] = f[pick[s]] + g[s \ {pick[s]}]
           P == {n \in Nat : \E g : Works(g, n)}
<1>1. \A s \in SUBSET S : IsFiniteSet(s) /\ Cardinality(s) \in Nat
  BY FS_Subset, FS_CardinalityType
<1>2. {} \in SUBSET S /\ Cardinality({}) = 0
  BY FS_EmptySet
<1>3. \A s \in SUBSET S : s # {} =>
        /\ pick[s] \in s /\ f[pick[s]] \in Int /\ s \ {pick[s]} \in SUBSET S
        /\ Cardinality(s \ {pick[s]}) = Cardinality(s) - 1
  BY <1>1, FS_RemoveElement DEF Picks
<1>4. 0 \in P
  <2> DEFINE g == [s \in Sub(0) |-> 0]
  <2>1. \A s \in Sub(0) : s = {}
    BY <1>1, FS_EmptySet
  <2>2. {} \in Sub(0)
    BY <1>2
  <2>3. Works(g, 0)
    BY <2>1, <2>2
  <2>4. QED
    BY <2>3
<1>5. ASSUME NEW n \in Nat, n \in P PROVE n + 1 \in P
  <2>1. PICK g : Works(g, n)
    BY <1>5
  <2> DEFINE h == [s \in Sub(n + 1) |->
                     IF s \in Sub(n) THEN g[s] ELSE f[pick[s]] + g[s \ {pick[s]}]]
  <2>2. \A s \in Sub(n + 1) : s # {} => s \ {pick[s]} \in Sub(n)
    BY <1>1, <1>3
  <2>3. \A s \in Sub(n) : s \in Sub(n + 1) /\ h[s] = g[s] /\ g[s] \in Int
    BY <1>1, <2>1
  <2>4. \A s \in Sub(n + 1) : h[s] \in Int
    <3> TAKE s \in Sub(n + 1)
    <3>1. CASE s \in Sub(n)
      BY <2>3, <3>1
    <3>2. CASE s \notin Sub(n)
      <4>1. s # {}
        BY <1>2, <3>2
      <4>2. g[s \ {pick[s]}] \in Int /\ f[pick[s]] \in Int
        BY <1>3, <2>2, <2>3, <4>1
      <4>3. QED
        BY <3>2, <4>2
    <3>3. QED
      BY <3>1, <3>2
  <2>5. h[{}] = 0
    <3>1. {} \in Sub(n)
      BY <1>2
    <3>2. QED
      BY <2>1, <2>3, <3>1
  <2>6. ASSUME NEW s \in Sub(n + 1), s # {} PROVE h[s] = f[pick[s]] + h[s \ {pick[s]}]
    <3>1. h[s \ {pick[s]}] = g[s \ {pick[s]}]
      BY <2>2, <2>3, <2>6
    <3>2. h[s] = f[pick[s]] + g[s \ {pick[s]}]
      BY <2>1, <2>6
    <3>3. QED
      BY <3>1, <3>2
  <2>7. Works(h, n + 1)
    <3>1. h \in [Sub(n + 1) -> Int]
      BY <2>4
    <3> HIDE DEF h
    <3>2. QED
      BY <2>5, <2>6, <3>1
  <2> HIDE DEF Works
  <2>8. QED
    BY <2>7
<1>6. Cardinality(S) \in P
  <2>1. Nat \subseteq P
    <3> HIDE DEF P
    <3>1. QED
      BY <1>4, <1>5, NatInd
  <2>2. QED
    BY <2>1, FS_CardinalityType
<1>7. PICK g : Works(g, Cardinality(S))
  BY <1>6
<1>8. Sub(Cardinality(S)) = SUBSET S
  BY FS_Subset
<1>9. Sums(g, S, f, pick)
  BY <1>7, <1>8 DEF Sums
<1>10. QED
  BY <1>9

\* h is defined by adding up.
AddsUp(h, S, f, pick) ==
  h = [s \in SUBSET S |-> IF s = {} THEN 0 ELSE f[pick[s]] + h[s \ {pick[s]}]]

\* A function that adds up in this way is that sum.
LEMMA SumsUnique ==
  ASSUME NEW S, IsFiniteSet(S), NEW f \in [S -> Int], NEW pick, Picks(pick, S),
         NEW g, Sums(g, S, f, pick), NEW h, AddsUp(h, S, f, pick)
  PROVE  h = g
<1> DEFINE P == {n \in Nat : \A s \in SUBSET S : Cardinality(s) = n => h[s] = g[s]}
<1>1. \A s \in SUBSET S : IsFiniteSet(s) /\ Cardinality(s) \in Nat
  BY FS_Subset, FS_CardinalityType
<1>2. \A s \in SUBSET S : h[s] = IF s = {} THEN 0 ELSE f[pick[s]] + h[s \ {pick[s]}]
  BY DEF AddsUp
<1>3. 0 \in P
  <2>1. \A s \in SUBSET S : Cardinality(s) = 0 => s = {}
    BY <1>1, FS_EmptySet
  <2>2. h[{}] = g[{}]
    BY <1>2 DEF Sums
  <2>3. QED
    BY <2>1, <2>2
<1>4. ASSUME NEW n \in Nat, n \in P PROVE n + 1 \in P
  <2> SUFFICES ASSUME NEW s \in SUBSET S, Cardinality(s) = n + 1 PROVE h[s] = g[s]
    OBVIOUS
  <2>1. s # {}
    BY FS_EmptySet
  <2> DEFINE x == pick[s]
             r == s \ {x}
  <2>2. x \in s /\ r \in SUBSET S
    BY <2>1 DEF Picks
  <2>3. Cardinality(r) = n
    <3>1. IsFiniteSet(s) /\ Cardinality(r) = Cardinality(s) - 1
      BY <1>1, <2>2, FS_RemoveElement
    <3>2. QED
      BY <3>1
  <2>4. h[r] = g[r]
    BY <1>4, <2>2, <2>3
  <2>5. g[s] = f[x] + g[r]
    BY <2>1 DEF Sums
  <2>6. h[s] = f[x] + h[r]
    BY <1>2, <2>1
  <2>7. QED
    BY <2>4, <2>5, <2>6
<1>5. \A s \in SUBSET S : h[s] = g[s]
  <2>1. Nat \subseteq P
    <3> HIDE DEF P
    <3>1. QED
      BY <1>3, <1>4, NatInd
  <2>2. QED
    BY <1>1, <2>1
<1>6. g = [s \in SUBSET S |-> g[s]] /\ h = [s \in SUBSET S |-> h[s]]
  BY DEF Sums, AddsUp
<1>7. QED
  BY <1>5, <1>6

\* A sum lies between its least and its greatest summand, as often as there are.
LEMMA SumBounds ==
  ASSUME NEW S, IsFiniteSet(S), NEW f \in [S -> Int], NEW pick, Picks(pick, S),
         NEW g, Sums(g, S, f, pick), NEW lo \in Int, NEW hi \in Int,
         \A x \in S : lo <= f[x] /\ f[x] <= hi
  PROVE  /\ g[S] \in Int
         /\ lo * Cardinality(S) <= g[S] /\ g[S] <= hi * Cardinality(S)
<1> DEFINE In(s) == lo * Cardinality(s) <= g[s] /\ g[s] <= hi * Cardinality(s)
           P == {n \in Nat : \A s \in SUBSET S : Cardinality(s) = n => In(s)}
<1>1. \A s \in SUBSET S : IsFiniteSet(s) /\ Cardinality(s) \in Nat /\ g[s] \in Int
  BY FS_Subset, FS_CardinalityType DEF Sums
<1>2. 0 \in P
  <2>1. \A s \in SUBSET S : Cardinality(s) = 0 => s = {}
    BY <1>1, FS_EmptySet
  <2>2. g[{}] = 0 /\ Cardinality({}) = 0 /\ lo * 0 = 0 /\ hi * 0 = 0
    BY FS_EmptySet DEF Sums
  <2>3. In({})
    BY <2>2
  <2> HIDE DEF In
  <2>4. QED
    BY <2>1, <2>3
<1>3. ASSUME NEW n \in Nat, n \in P PROVE n + 1 \in P
  <2> SUFFICES ASSUME NEW s \in SUBSET S, Cardinality(s) = n + 1 PROVE In(s)
    OBVIOUS
  <2>1. s # {}
    BY FS_EmptySet
  <2> DEFINE x == pick[s]
             r == s \ {x}
  <2>2. x \in s /\ x \in S /\ r \in SUBSET S
    BY <2>1 DEF Picks
  <2>3. Cardinality(r) = n
    <3>1. IsFiniteSet(s) /\ Cardinality(r) = Cardinality(s) - 1
      BY <1>1, <2>2, FS_RemoveElement
    <3>2. QED
      BY <3>1
  <2>4. g[s] = f[x] + g[r] /\ g[r] \in Int /\ f[x] \in Int
    BY <1>1, <2>1, <2>2 DEF Sums
  <2>5. lo <= f[x] /\ f[x] <= hi
    BY <2>2
  <2>6. lo * n <= g[r] /\ g[r] <= hi * n
    BY <1>3, <2>2, <2>3
  <2>7. lo * (n + 1) = lo * n + lo /\ hi * (n + 1) = hi * n + hi /\ lo * n \in Int /\ hi * n \in Int
    OBVIOUS
  <2> HIDE DEF x, r
  <2>8. lo * (n + 1) <= g[s] /\ g[s] <= hi * (n + 1)
    BY <2>4, <2>5, <2>6, <2>7
  <2>9. QED
    BY <2>8
<1>4. Cardinality(S) \in P /\ S \in SUBSET S
  <2>1. Nat \subseteq P
    <3> HIDE DEF P
    <3>1. QED
      BY <1>2, <1>3, NatInd
  <2>2. QED
    BY <2>1, FS_CardinalityType
<1>5. QED
  BY <1>1, <1>4
\* SumFunction is that sum.
LEMMA SumFunctionSums ==
  ASSUME NEW S, IsFiniteSet(S), NEW f \in [S -> Int]
  PROVE  \E g, pick : Picks(pick, S) /\ Sums(g, S, f, pick) /\ SumFunction(f) = g[S]
<1> DEFINE first(s) == CHOOSE x \in s : TRUE
           pick == [s \in (SUBSET S) \ {{}} |-> first(s)]
           Adds(h) == h = [s \in SUBSET S |-> IF s = {} THEN 0 ELSE f[first(s)] + h[s \ {first(s)}]]
           it == CHOOSE h : Adds(h)
<1>1. \A s \in (SUBSET S) \ {{}} : first(s) \in s
  OBVIOUS
<1>2. Picks(pick, S)
  <2> HIDE DEF first
  <2>1. QED
    BY <1>1 DEF Picks
<1>3. \A s \in (SUBSET S) \ {{}} : pick[s] = first(s)
  <2> HIDE DEF first
  <2>1. QED
    BY <1>1
<1>4. SumFunction(f) = it[S]
  BY DEF SumFunction, SumFunctionOnSet, FoldFunctionOnSet, MapThenFoldSet
<1> HIDE DEF pick, first
<1>5. PICK g : Sums(g, S, f, pick)
  BY <1>2, SumsExist
<1>6. Adds(g)
  <2>1. g = [s \in SUBSET S |-> g[s]]
    BY <1>5 DEF Sums
  <2>2. \A s \in SUBSET S : g[s] = IF s = {} THEN 0 ELSE f[first(s)] + g[s \ {first(s)}]
    BY <1>3, <1>5 DEF Sums
  <2>3. QED
    BY <2>1, <2>2
<1>7. Adds(it)
  <2> HIDE DEF Adds
  <2>1. QED
    BY <1>6
<1>8. AddsUp(it, S, f, pick)
  <2>1. it = [s \in SUBSET S |-> IF s = {} THEN 0 ELSE f[first(s)] + it[s \ {first(s)}]]
    BY <1>7
  <2> HIDE DEF it
  <2>2. QED
    BY <1>3, <2>1 DEF AddsUp
<1> HIDE DEF it
<1>9. it = g
  BY <1>2, <1>5, <1>8, SumsUnique
<1>10. QED
  BY <1>2, <1>4, <1>5, <1>9

\* Sums of nothing and of one value.
LEMMA SmallSums ==
  ASSUME NEW S, NEW f \in [S -> Int]
  PROVE  /\ IsFiniteSet(S) => SumFunction(f) \in Int
         /\ S = {} => SumFunction(f) = 0
         /\ \A x : S = {x} => SumFunction(f) = f[x]
<1>1. ASSUME IsFiniteSet(S) PROVE SumFunction(f) \in Int
  <2>1. PICK g, pick : Picks(pick, S) /\ Sums(g, S, f, pick) /\ SumFunction(f) = g[S]
    BY <1>1, SumFunctionSums
  <2>2. g \in [SUBSET S -> Int] /\ S \in SUBSET S
    BY <2>1 DEF Sums
  <2>3. QED
    BY <2>1, <2>2
<1>2. ASSUME S = {} PROVE SumFunction(f) = 0
  <2>1. IsFiniteSet(S)
    BY <1>2, FS_EmptySet
  <2>2. QED
    BY <1>2, <2>1, SumFunctionSums DEF Sums
<1>3. ASSUME NEW x, S = {x} PROVE SumFunction(f) = f[x]
  <2>1. IsFiniteSet(S)
    BY <1>3, FS_Singleton
  <2>2. PICK g, pick : Picks(pick, S) /\ Sums(g, S, f, pick) /\ SumFunction(f) = g[S]
    BY <2>1, SumFunctionSums
  <2>3. S \in (SUBSET S) \ {{}}
    BY <1>3
  <2>4. pick[S] = x
    BY <1>3, <2>2, <2>3 DEF Picks
  <2>5. g[S] = f[x] + g[{}] /\ g[{}] = 0 /\ f[x] \in Int
    <3>1. S \ {x} = {}
      BY <1>3
    <3>2. g[S] = f[pick[S]] + g[S \ {pick[S]}]
      BY <2>2, <2>3 DEF Sums
    <3>3. f[x] \in Int
      BY <1>3
    <3>4. QED
      BY <2>2, <2>4, <3>1, <3>2, <3>3 DEF Sums
  <2>6. QED
    BY <2>2, <2>5
<1>4. QED
  BY <1>1, <1>2, <1>3

\* A finite set has a greatest and a least of its values.
LEMMA Extremes ==
  ASSUME NEW S, IsFiniteSet(S), S # {}, NEW f \in [S -> Int]
  PROVE  /\ \E b \in S : \A x \in S : f[x] <= f[b]
         /\ \E a \in S : \A x \in S : f[a] <= f[x]
<1> DEFINE Bounded(s) == /\ \E b \in s : \A x \in s : f[x] <= f[b]
                         /\ \E a \in s : \A x \in s : f[a] <= f[x]
           P == {n \in Nat : \A s \in SUBSET S : Cardinality(s) = n + 1 => Bounded(s)}
<1>1. \A s \in SUBSET S : IsFiniteSet(s) /\ Cardinality(s) \in Nat
  BY FS_Subset, FS_CardinalityType
<1>2. 0 \in P
  <2> SUFFICES ASSUME NEW s \in SUBSET S, Cardinality(s) = 1 PROVE Bounded(s)
    OBVIOUS
  <2>1. PICK x : s = {x}
    BY <1>1, FS_Singleton
  <2>2. QED
    BY <2>1
<1>3. ASSUME NEW n \in Nat, n \in P PROVE n + 1 \in P
  <2> SUFFICES ASSUME NEW s \in SUBSET S, Cardinality(s) = (n + 1) + 1 PROVE Bounded(s)
    OBVIOUS
  <2>1. PICK x \in s : TRUE
    BY FS_EmptySet
  <2> DEFINE r == s \ {x}
  <2>2. r \in SUBSET S /\ Cardinality(r) = n + 1
    <3>1. IsFiniteSet(s) /\ Cardinality(r) = Cardinality(s) - 1
      BY <1>1, <2>1, FS_RemoveElement
    <3>2. QED
      BY <3>1
  <2>3. Bounded(r)
    BY <1>3, <2>2
  <2>4. PICK b \in r : \A y \in r : f[y] <= f[b]
    BY <2>3
  <2>5. PICK a \in r : \A y \in r : f[a] <= f[y]
    BY <2>3
  <2>6. \A y \in s : f[y] \in Int /\ (y \in r \/ y = x)
    OBVIOUS
  <2>7. a \in s /\ b \in s /\ x \in s
    OBVIOUS
  <2> HIDE DEF r
  <2>8. CASE f[b] <= f[x]
    BY <2>4, <2>5, <2>6, <2>7, <2>8
  <2>9. CASE f[x] <= f[b]
    BY <2>4, <2>5, <2>6, <2>7, <2>9
  <2>10. QED
    BY <2>6, <2>7, <2>8, <2>9
<1>4. \A n \in Nat : n \in P
  <2> HIDE DEF P
  <2>1. QED
    BY <1>2, <1>3, NatInd
<1>5. Cardinality(S) \in Nat /\ Cardinality(S) # 0
  BY <1>1, FS_EmptySet
<1>6. Cardinality(S) - 1 \in P
  BY <1>4, <1>5
<1>7. Bounded(S)
  BY <1>5, <1>6
<1>8. QED
  BY <1>7

\* A set of positions that has all positions after its own is a tail.
LEMMA TailOf ==
  ASSUME NEW n \in Nat, NEW K \in SUBSET (1..n),
         \A i \in K, j \in 1..n : i <= j => j \in K
  PROVE  \E m \in 0..n : K = (m + 1)..n
<1>1. CASE K = {}
  <2>1. K = (n + 1)..n
    BY <1>1
  <2>2. QED
    BY <2>1
<1>2. CASE K # {}
  <2> DEFINE k == Min(K)
  <2>1. k \in K /\ \A x \in K : k <= x
    BY <1>2, MinIs
  <2> HIDE DEF k
  <2>2. K = k..n
    <3>1. k \in 1..n /\ \A j \in K : j \in k..n
      BY <2>1
    <3>2. \A j \in k..n : j \in K
      BY <2>1, <3>1
    <3>3. QED
      BY <3>1, <3>2
  <2>3. k - 1 \in 0..n /\ (k - 1) + 1 = k
    BY <2>1
  <2>4. QED
    BY <2>2, <2>3
<1>3. QED
  BY <1>1, <1>2

\* What a filter that keeps a tail makes of a list.
LEMMA PickedTail ==
  ASSUME NEW T, NEW s \in Seq(T), NEW m \in 0..Len(s), NEW kept,
         \A i \in 1..Len(s) : i \in kept <=> m < i
  PROVE  /\ Picked(s, kept) \in Seq(T) /\ Len(Picked(s, kept)) = Len(s) - m
         /\ \A k \in 1..(Len(s) - m) : Picked(s, kept)[k] = s[m + k]
<1> DEFINE n == Len(s)
<1>0. n \in Nat
  OBVIOUS
<1>1. PICK g \in [0..n -> Seq(T)] :
           /\ g[0] = <<>> /\ Picked(s, kept) = g[n]
           /\ \A i \in 1..n : g[i] = IF i \in kept THEN Append(g[i - 1], s[i]) ELSE g[i - 1]
  BY PickedSteps, ZenonT(30)
<1>01. s \in [1..n -> T] /\ m \in 0..n /\ \A i \in 1..n : i \in kept <=> m < i
  OBVIOUS
<1> HIDE DEF n
<1> USE <1>0, <1>01
<1> DEFINE Good(i) == IF i <= m THEN g[i] = <<>>
                      ELSE Len(g[i]) = i - m /\ \A k \in 1..(i - m) : g[i][k] = s[m + k]
           P == {i \in Nat : i \in 0..n => Good(i)}
<1>2. 0 \in P
  BY <1>1
<1>3. ASSUME NEW i \in Nat, i \in P PROVE i + 1 \in P
  <2> SUFFICES ASSUME i + 1 \in 1..n PROVE Good(i + 1)
    OBVIOUS
  <2>1. Good(i) /\ i \in 0..n
    BY <1>3
  <2>2. g[i + 1] = IF i + 1 \in kept THEN Append(g[i], s[i + 1]) ELSE g[i]
    <3>1. (i + 1) - 1 = i
      OBVIOUS
    <3>2. QED
      BY <1>1, <3>1
  <2>3. g[i] \in Seq(T) /\ s[i + 1] \in T
    BY <1>1, <2>1
  <2>4. CASE i + 1 <= m
    BY <2>1, <2>2, <2>4
  <2>5. CASE i + 1 = m + 1
    <3>0. i <= m /\ i + 1 \in kept
      BY <2>1, <2>5
    <3>1. g[i] = <<>> /\ g[i + 1] = Append(<<>>, s[i + 1])
      BY <2>1, <2>2, <3>0
    <3>2. Len(g[i + 1]) = 1 /\ g[i + 1][1] = s[i + 1]
      BY <2>3, <3>1
    <3>3. QED
      BY <2>5, <3>2
  <2>6. CASE m + 1 < i + 1
    <3>1. g[i + 1] = Append(g[i], s[i + 1])
      BY <2>2, <2>6
    <3>2. Len(g[i]) = i - m /\ \A k \in 1..(i - m) : g[i][k] = s[m + k]
      BY <2>1, <2>6
    <3>3. Len(g[i + 1]) = (i + 1) - m
      <4>1. Len(g[i + 1]) = Len(g[i]) + 1
        BY <2>3, <3>1
      <4>2. QED
        BY <2>1, <3>2, <4>1
    <3>4. ASSUME NEW k \in 1..((i + 1) - m) PROVE g[i + 1][k] = s[m + k]
      <4>1. CASE k = (i + 1) - m
        <5>1. m + k = i + 1 /\ k = Len(g[i]) + 1
          BY <3>2, <4>1
        <5>2. QED
          BY <2>3, <3>1, <5>1
      <4>2. CASE k \in 1..(i - m)
        <5>1. g[i + 1][k] = g[i][k]
          BY <2>3, <3>1, <3>2, <4>2
        <5>2. QED
          BY <3>2, <4>2, <5>1
      <4>3. QED
        BY <4>1, <4>2
    <3>5. QED
      BY <2>6, <3>3, <3>4
  <2>7. QED
    BY <2>4, <2>5, <2>6
<1>4. n \in P
  <2> HIDE DEF P
  <2>1. QED
    BY <1>2, <1>3, NatInd
<1>5. Good(n)
  BY <1>4
<1>6. Picked(s, kept) = g[n] /\ g[n] \in Seq(T)
  BY <1>1
<1>7. CASE m = n
  BY <1>5, <1>6, <1>7
<1>8. CASE m < n
  BY <1>5, <1>6, <1>8
<1>9. /\ Picked(s, kept) \in Seq(T) /\ Len(Picked(s, kept)) = n - m
      /\ \A k \in 1..(n - m) : Picked(s, kept)[k] = s[m + k]
  BY <1>7, <1>8
<1>10. QED
  BY <1>9 DEF n

\* A list with no value twice, and one that grows.
Once(s) == \A i, j \in DOMAIN s : s[i] = s[j] => i = j
Rising(s) == \A i, j \in 1..Len(s) : i < j => s[i] < s[j]

\* A filter keeps what is at the positions kept, once if it was there once.
LEMMA FilterRange ==
  ASSUME NEW T, NEW s \in Seq(T), NEW kept \in SUBSET (1..Len(s))
  PROVE  LET r == Picked(s, kept)
         IN /\ r \in Seq(T) /\ Range(r) = {s[i] : i \in kept} /\ Len(r) <= Len(s)
            /\ (\A i, j \in kept : s[i] = s[j] => i = j) => Once(r)
            /\ (\A i, j \in kept : i < j => s[i] < s[j]) => Rising(r)
<1> DEFINE r == Picked(s, kept)
           m == Len(r)
           n == Len(s)
<1>1. r \in Seq(T)
  BY PickedIs
<1>2. PICK e : Onto(e, r, s, kept)
  BY PickedIs
<1>3. m \in Nat /\ DOMAIN r = 1..m /\ n \in Nat
  BY <1>1
<1> HIDE DEF r
<1>4. /\ \A j \in 1..m : e[j] \in kept /\ r[j] = s[e[j]]
      /\ \A j, k \in 1..m : j < k => e[j] < e[k]
      /\ \A i \in kept : \E j \in 1..m : e[j] = i
      /\ e \in [1..m -> kept]
  BY <1>2 DEF Onto
<1> HIDE DEF m, n
<1>5. Range(r) = {s[i] : i \in kept}
  <2>1. Range(r) = {r[j] : j \in 1..m}
    BY <1>3 DEF Range
  <2>2. ASSUME NEW j \in 1..m PROVE r[j] \in {s[i] : i \in kept}
    BY <1>4
  <2>3. ASSUME NEW i \in kept PROVE s[i] \in {r[j] : j \in 1..m}
    <3>1. PICK j \in 1..m : e[j] = i
      BY <1>4
    <3>2. QED
      BY <1>4, <3>1
  <2>4. QED
    BY <2>1, <2>2, <2>3
<1>6. \A j, k \in 1..m : e[j] = e[k] => j = k
  <2> SUFFICES ASSUME NEW j \in 1..m, NEW k \in 1..m, e[j] = e[k], j # k PROVE FALSE
    OBVIOUS
  <2>1. kept \subseteq Int
    OBVIOUS
  <2>2. e[j] \in Int
    BY <1>4, <2>1
  <2>3. j < k \/ k < j
    BY <1>3
  <2>4. e[j] < e[k] \/ e[k] < e[j]
    BY <1>4, <2>3
  <2>5. QED
    BY <2>2, <2>4
<1>7. m <= n
  <2>1. e \in Injection(1..m, 1..n)
    BY <1>4, <1>6 DEF Injection, IsInjective, n
  <2>2. IsFiniteSet(1..n) /\ Cardinality(1..n) = n /\ Cardinality(1..m) = m
    BY <1>3, FS_Interval
  <2>3. QED
    BY <2>1, <2>2, FS_Injection
<1>8. ASSUME \A i, j \in kept : s[i] = s[j] => i = j PROVE Once(r)
  <2> SUFFICES ASSUME NEW j \in 1..m, NEW k \in 1..m, r[j] = r[k] PROVE j = k
    BY <1>3 DEF Once
  <2>1. e[j] \in kept /\ e[k] \in kept /\ s[e[j]] = s[e[k]]
    BY <1>4
  <2>2. e[j] = e[k]
    BY <1>8, <2>1
  <2>3. QED
    BY <1>6, <2>2
<1>9. ASSUME \A i, j \in kept : i < j => s[i] < s[j] PROVE Rising(r)
  <2> SUFFICES ASSUME NEW i \in 1..m, NEW j \in 1..m, i < j PROVE r[i] < r[j]
    BY DEF Rising, m
  <2>1. e[i] \in kept /\ e[j] \in kept /\ e[i] < e[j] /\ r[i] = s[e[i]] /\ r[j] = s[e[j]]
    BY <1>4
  <2>2. QED
    BY <1>9, <2>1
<1>10. QED
  BY <1>1, <1>5, <1>7, <1>8, <1>9 DEF r, m, n

\* What two lists hold one after the other.
LEMMA RangeOfBoth ==
  ASSUME NEW T, NEW s \in Seq(T), NEW t \in Seq(T)
  PROVE  s \o t \in Seq(T) /\ Range(s \o t) = Range(s) \cup Range(t)
<1> DEFINE m == Len(s)
           n == Len(t)
<1>1. m \in Nat /\ n \in Nat /\ DOMAIN s = 1..m /\ DOMAIN t = 1..n /\ DOMAIN (s \o t) = 1..(m + n)
  OBVIOUS
<1>2. /\ \A i \in 1..m : (s \o t)[i] = s[i]
      /\ \A i \in 1..n : m + i \in 1..(m + n) /\ (s \o t)[m + i] = t[i]
  OBVIOUS
<1>3. \A i \in 1..(m + n) : i \in 1..m \/ \E j \in 1..n : i = m + j
  <2> HIDE DEF m, n
  <2> SUFFICES ASSUME NEW i \in 1..(m + n), i \notin 1..m PROVE \E j \in 1..n : i = m + j
    OBVIOUS
  <2>1. i - m \in 1..n /\ i = m + (i - m)
    BY <1>1
  <2>2. QED
    BY <2>1
<1>4. s \o t \in Seq(T)
  OBVIOUS
<1> DEFINE b == s \o t
<1> HIDE DEF m, n, b
<1>5. 1..m \subseteq 1..(m + n)
  BY <1>1
<1>6. Range(b) = Range(s) \cup Range(t)
  <2>1. ASSUME NEW i \in 1..(m + n) PROVE b[i] \in Range(s) \cup Range(t)
    BY <1>1, <1>2, <1>3 DEF Range, b
  <2>2. ASSUME NEW i \in 1..m PROVE s[i] \in Range(b)
    BY <1>1, <1>2, <1>5 DEF Range, b
  <2>3. ASSUME NEW i \in 1..n PROVE t[i] \in Range(b)
    BY <1>1, <1>2 DEF Range, b
  <2>4. DOMAIN b = 1..(m + n)
    BY <1>1 DEF b
  <2>5. QED
    BY <1>1, <2>1, <2>2, <2>3, <2>4 DEF Range
<1>7. QED
  BY <1>4, <1>6 DEF b

\* What a list holds is of its type; a list of no place holds nothing.
LEMMA RangeType ==
  ASSUME NEW T, NEW s \in Seq(T)
  PROVE  Range(s) \subseteq T /\ (\A U : Range(s) \subseteq U => s \in Seq(U))
<1>1. DOMAIN s = 1..Len(s) /\ Len(s) \in Nat /\ \A i \in 1..Len(s) : s[i] \in T
  OBVIOUS
<1>2. ASSUME NEW U, Range(s) \subseteq U PROVE s \in Seq(U)
  <2>1. \A i \in 1..Len(s) : s[i] \in U
    BY <1>1, <1>2 DEF Range
  <2>2. s = [i \in 1..Len(s) |-> s[i]]
    BY <1>1
  <2>3. s \in [1..Len(s) -> U]
    BY <2>1, <2>2
  <2>4. QED
    BY <1>1, <2>3
<1>3. QED
  BY <1>1, <1>2 DEF Range

\* What holds of nothing, and of a set with one more element if of the set.
LEMMA FiniteInd ==
  ASSUME NEW S, IsFiniteSet(S), NEW P, {} \in P,
         \A T \in P : \A x \in S \ T : T \in SUBSET S => T \cup {x} \in P
  PROVE  S \in P
<1> DEFINE Q == {n \in Nat : \A T \in SUBSET S : Cardinality(T) = n => T \in P}
<1>1. \A T \in SUBSET S : IsFiniteSet(T) /\ Cardinality(T) \in Nat
  BY FS_Subset, FS_CardinalityType
<1>2. 0 \in Q
  BY <1>1, FS_EmptySet
<1>3. ASSUME NEW n \in Nat, n \in Q PROVE n + 1 \in Q
  <2> SUFFICES ASSUME NEW T \in SUBSET S, Cardinality(T) = n + 1 PROVE T \in P
    OBVIOUS
  <2>1. T # {}
    <3>1. Cardinality({}) = 0
      BY FS_EmptySet
    <3>2. n + 1 # 0
      OBVIOUS
    <3> HIDE DEF Q
    <3>3. QED
      BY <3>1, <3>2
  <2>2. PICK x : x \in T
    BY <2>1
  <2> DEFINE U == T \ {x}
  <2>3. Cardinality(U) = n
    <3>1. Cardinality(U) = Cardinality(T) - 1
      BY <1>1, <2>2, FS_RemoveElement
    <3>2. QED
      BY <3>1
  <2>4. U \in P /\ U \in SUBSET S /\ x \in S \ U /\ T = U \cup {x}
    BY <1>3, <2>2, <2>3
  <2> HIDE DEF U
  <2>5. QED
    BY <2>4
<1>4. Nat \subseteq Q
  <2> HIDE DEF Q
  <2>1. QED
    BY <1>2, <1>3, NatInd
<1>5. QED
  BY <1>1, <1>4

\* A table of the sums of f over the parts of S, in whatever order.
SumTable(g, S, f) ==
  /\ g \in [SUBSET S -> Int] /\ g[{}] = 0
  /\ \A T \in SUBSET S : \A x \in T : g[T] = f[x] + g[T \ {x}]

LEMMA SumsAreTables ==
  ASSUME NEW S, IsFiniteSet(S), NEW f \in [S -> Int], NEW pick, Picks(pick, S),
         NEW g, Sums(g, S, f, pick)
  PROVE  SumTable(g, S, f)
<1> DEFINE Free(T) == \A x \in T : g[T] = f[x] + g[T \ {x}]
           Q == {n \in Nat : \A T \in SUBSET S : Cardinality(T) = n => Free(T)}
<1>1. \A T \in SUBSET S : IsFiniteSet(T) /\ Cardinality(T) \in Nat /\ g[T] \in Int
  BY FS_Subset, FS_CardinalityType DEF Sums
<1>2. 0 \in Q
  BY <1>1, FS_EmptySet
<1>3. ASSUME NEW n \in Nat, n \in Q PROVE n + 1 \in Q
  <2> SUFFICES ASSUME NEW T \in SUBSET S, Cardinality(T) = n + 1, NEW x \in T
               PROVE  g[T] = f[x] + g[T \ {x}]
    OBVIOUS
  <2> DEFINE y == pick[T]
  <2>1. y \in T /\ g[T] = f[y] + g[T \ {y}]
    BY DEF Sums, Picks
  <2> HIDE DEF y
  <2>2. CASE x = y
    BY <2>1, <2>2
  <2>3. CASE x # y
    <3> DEFINE U == T \ {y}
               V == T \ {x}
               W == T \ {x, y}
    <3>1. Cardinality(U) = n /\ Cardinality(V) = n
      <4>1. Cardinality(U) = Cardinality(T) - 1 /\ Cardinality(V) = Cardinality(T) - 1
        BY <1>1, <2>1, FS_RemoveElement
      <4>2. QED
        BY <4>1
    <3>2. x \in U /\ y \in V /\ U \ {x} = W /\ V \ {y} = W /\ U \in SUBSET S /\ V \in SUBSET S
          /\ W \in SUBSET S
      BY <2>1, <2>3
    <3> HIDE DEF U, V, W
    <3>3. g[U] = f[x] + g[W] /\ g[V] = f[y] + g[W]
      BY <1>3, <3>1, <3>2
    <3>4. f[x] \in Int /\ f[y] \in Int /\ g[W] \in Int
      BY <1>1, <2>1, <3>2
    <3>5. QED
      BY <2>1, <3>3, <3>4 DEF U, V
  <2>4. QED
    BY <2>2, <2>3
<1>4. Nat \subseteq Q
  <2> HIDE DEF Q
  <2>1. QED
    BY <1>2, <1>3, NatInd
<1>5. \A T \in SUBSET S : Free(T)
  BY <1>1, <1>4
<1>6. QED
  BY <1>5 DEF SumTable, Sums

\* Two tables agree on the parts where their functions do.
LEMMA TablesAgree ==
  ASSUME NEW S, NEW f, NEW g, SumTable(g, S, f), NEW T, IsFiniteSet(T), T \subseteq S,
         NEW U, NEW e, NEW h, SumTable(h, U, e), T \subseteq U, \A x \in T : e[x] = f[x]
  PROVE  h[T] = g[T]
<1> DEFINE P == {V \in SUBSET T : h[V] = g[V]}
<1>1. {} \in P
  BY DEF SumTable
<1>2. ASSUME NEW V \in P, NEW x \in T \ V PROVE V \cup {x} \in P
  <2> DEFINE W == V \cup {x}
  <2>1. W \ {x} = V /\ x \in W /\ W \in SUBSET S /\ W \in SUBSET U /\ h[V] = g[V] /\ e[x] = f[x]
    BY <1>2
  <2> HIDE DEF W
  <2>2. g[W] = f[x] + g[W \ {x}] /\ h[W] = e[x] + h[W \ {x}]
    BY <2>1 DEF SumTable
  <2>3. W \in SUBSET T
    BY <1>2 DEF W
  <2>4. QED
    BY <2>1, <2>2, <2>3 DEF W
<1>3. T \in P
  <2> HIDE DEF P
  <2>1. QED
    BY <1>1, <1>2, FiniteInd
<1>4. QED
  BY <1>3

\* The sum of f over the elements of T.
Total(f, T) == SumFunction(Restrict(f, T))

LEMMA TotalSteps ==
  ASSUME NEW S, IsFiniteSet(S), NEW f, \A x \in S : f[x] \in Int
  PROVE  /\ Total(f, {}) = 0
         /\ \A T \in SUBSET S : Total(f, T) \in Int
         /\ \A T \in SUBSET S : \A x \in T : Total(f, T) = f[x] + Total(f, T \ {x})
<1>1. \A T \in SUBSET S : IsFiniteSet(T) /\ Restrict(f, T) \in [T -> Int]
  BY FS_Subset DEF Restrict
<1>2. ASSUME NEW T \in SUBSET S
      PROVE  \E g : SumTable(g, T, f) /\ Total(f, T) = g[T]
  <2> DEFINE r == Restrict(f, T)
  <2>1. r \in [T -> Int] /\ \A x \in T : r[x] = f[x]
    BY <1>1 DEF Restrict
  <2> HIDE DEF r
  <2>2. PICK g, pick : Picks(pick, T) /\ Sums(g, T, r, pick) /\ SumFunction(r) = g[T]
    BY <1>1, <2>1, SumFunctionSums
  <2>3. SumTable(g, T, r)
    BY <1>1, <2>1, <2>2, SumsAreTables
  <2>4. SumTable(g, T, f)
    BY <2>1, <2>3 DEF SumTable
  <2>5. QED
    BY <2>2, <2>4 DEF Total, r
<1>3. PICK g : SumTable(g, S, f)
  BY <1>2
<1>4. ASSUME NEW T \in SUBSET S PROVE Total(f, T) = g[T]
  <2>1. PICK h : SumTable(h, T, f) /\ Total(f, T) = h[T]
    BY <1>2
  <2>2. h[T] = g[T]
    BY <1>1, <1>3, <2>1, TablesAgree
  <2>3. QED
    BY <2>1, <2>2
<1>5. \A T \in SUBSET S : \A x \in T : T \ {x} \in SUBSET S
  OBVIOUS
<1>6. g \in [SUBSET S -> Int] /\ g[{}] = 0 /\ \A T \in SUBSET S : \A x \in T : g[T] = f[x] + g[T \ {x}]
  BY <1>3 DEF SumTable
<1> HIDE DEF Total
<1>7. {} \in SUBSET S
  OBVIOUS
<1>8. QED
  BY <1>4, <1>5, <1>6, <1>7

LEMMA TotalOfAll ==
  ASSUME NEW S, NEW f \in [S -> Int]
  PROVE  SumFunction(f) = Total(f, S)
<1>1. Restrict(f, S) = f
  BY DEF Restrict
<1>2. QED
  BY <1>1 DEF Total

LEMMA TotalSame ==
  ASSUME NEW S, NEW f, NEW g, \A x \in S : f[x] = g[x]
  PROVE  Total(f, S) = Total(g, S)
<1>1. Restrict(f, S) = Restrict(g, S)
  BY DEF Restrict
<1>2. QED
  BY <1>1 DEF Total

\* Summand by summand no greater.
LEMMA TotalMono ==
  ASSUME NEW S, IsFiniteSet(S), NEW f, \A x \in S : f[x] \in Int,
         NEW g, \A x \in S : g[x] \in Int /\ f[x] <= g[x]
  PROVE  Total(f, S) <= Total(g, S)
<1> DEFINE P == {T \in SUBSET S : Total(f, T) <= Total(g, T)}
<1>1. {} \in P
  BY TotalSteps
<1>2. ASSUME NEW T \in P, NEW x \in S \ T PROVE T \cup {x} \in P
  <2> DEFINE U == T \cup {x}
  <2>1. U \ {x} = T /\ x \in U /\ U \in SUBSET S /\ T \in SUBSET S
    BY <1>2
  <2> HIDE DEF U
  <2>2. Total(f, U) = f[x] + Total(f, T) /\ Total(g, U) = g[x] + Total(g, T)
    BY <2>1, TotalSteps
  <2>3. Total(f, T) \in Int /\ Total(g, T) \in Int /\ f[x] \in Int /\ g[x] \in Int /\ f[x] <= g[x]
    BY <2>1, TotalSteps
  <2>4. Total(f, T) <= Total(g, T)
    BY <1>2
  <2>5. Total(f, U) <= Total(g, U)
    BY <2>2, <2>3, <2>4
  <2>6. QED
    BY <2>1, <2>5 DEF U
<1>3. S \in P
  <2> HIDE DEF P
  <2>1. QED
    BY <1>1, <1>2, FiniteInd
<1>4. QED
  BY <1>3

\* Sums over two sets apart.
LEMMA TotalBoth ==
  ASSUME NEW S, IsFiniteSet(S), NEW f, \A x \in S : f[x] \in Int, NEW A \in SUBSET S
  PROVE  Total(f, S) = Total(f, A) + Total(f, S \ A)
<1> DEFINE B == S \ A
           P == {T \in SUBSET B : Total(f, A \cup T) = Total(f, A) + Total(f, T)}
<1>0. Total(f, A) \in Int /\ Total(f, {}) = 0 /\ IsFiniteSet(B) /\ A \cup B = S
  BY TotalSteps, FS_Subset
<1>1. {} \in P
  <2>1. A \cup {} = A
    OBVIOUS
  <2>2. QED
    BY <1>0, <2>1
<1>2. ASSUME NEW T \in P, NEW x \in B \ T PROVE T \cup {x} \in P
  <2> DEFINE U == T \cup {x}
             V == A \cup U
             W == A \cup T
  <2>1. /\ U \ {x} = T /\ x \in U /\ U \in SUBSET S /\ T \in SUBSET S /\ U \in SUBSET B
        /\ V \ {x} = W /\ x \in V /\ V \in SUBSET S /\ W \in SUBSET S
    BY <1>2
  <2>2. Total(f, W) = Total(f, A) + Total(f, T)
    BY <1>2
  <2> HIDE DEF U, V, W
  <2>3. Total(f, U) = f[x] + Total(f, T) /\ Total(f, V) = f[x] + Total(f, W)
    BY <2>1, TotalSteps
  <2>4. Total(f, T) \in Int /\ f[x] \in Int
    BY <2>1, TotalSteps
  <2>5. Total(f, V) = Total(f, A) + Total(f, U)
    BY <1>0, <2>2, <2>3, <2>4
  <2>6. QED
    BY <2>1, <2>5 DEF U, V
<1>3. B \in P
  <2> HIDE DEF P, B
  <2>1. QED
    BY <1>0, <1>1, <1>2, FiniteInd
<1>4. QED
  BY <1>0, <1>3

LEMMA TotalNat ==
  ASSUME NEW S, IsFiniteSet(S), NEW f, \A x \in S : f[x] \in Int /\ 0 <= f[x]
  PROVE  /\ Total(f, S) \in Int /\ 0 <= Total(f, S)
         /\ \A T \in SUBSET S : 0 <= Total(f, T) /\ Total(f, T) <= Total(f, S)
<1> DEFINE P == {T \in SUBSET S : 0 <= Total(f, T)}
<1>1. {} \in P
  BY TotalSteps
<1>2. ASSUME NEW T \in SUBSET S, T \in P, NEW x \in S \ T PROVE T \cup {x} \in P
  <2> DEFINE U == T \cup {x}
  <2>1. U \ {x} = T /\ x \in U /\ U \in SUBSET S
    BY <1>2
  <2> HIDE DEF U
  <2>2. Total(f, U) = f[x] + Total(f, T) /\ Total(f, T) \in Int /\ f[x] \in Int /\ 0 <= f[x]
    BY <2>1, TotalSteps
  <2>3. QED
    BY <1>2, <2>1, <2>2 DEF U
<1>3. ASSUME NEW T \in SUBSET S PROVE T \in P
  <2>1. IsFiniteSet(T)
    BY FS_Subset
  <2>2. \A V \in P \cap SUBSET T : \A x \in T \ V : V \cup {x} \in P \cap SUBSET T
    BY <1>2
  <2> DEFINE R == P \cap SUBSET T
  <2>3. {} \in R
    BY <1>1
  <2> HIDE DEF R, P
  <2>4. T \in R
    BY <2>1, <2>2, <2>3, FiniteInd DEF R
  <2>5. QED
    BY <2>4 DEF R
<1>4. ASSUME NEW T \in SUBSET S PROVE 0 <= Total(f, T) /\ Total(f, T) <= Total(f, S)
  <2>1. T \in P /\ S \ T \in P /\ S \ T \in SUBSET S
    BY <1>3
  <2>2. Total(f, S) = Total(f, T) + Total(f, S \ T)
    BY TotalBoth
  <2>3. Total(f, T) \in Int /\ Total(f, S \ T) \in Int
    BY <2>1, TotalSteps
  <2>4. QED
    BY <2>1, <2>2, <2>3
<1>5. S \in SUBSET S
  OBVIOUS
<1>6. QED
  BY <1>4, <1>5, TotalSteps

\* A sum is the sum of the sums of its groups.
LEMMA TotalGroups ==
  ASSUME NEW S, IsFiniteSet(S), NEW f, \A x \in S : f[x] \in Int,
         NEW Q, IsFiniteSet(Q), NEW h, \A x \in S : h[x] \in Q
  PROVE  Total(f, S) = Total([q \in Q |-> Total(f, {x \in S : h[x] = q})], Q)
<1> DEFINE G(q) == {x \in S : h[x] = q}
           F(T) == {x \in S : h[x] \in T}
           t == [q \in Q |-> Total(f, G(q))]
           P == {T \in SUBSET Q : Total(f, F(T)) = Total(t, T)}
<1>1. \A q \in Q : G(q) \in SUBSET S /\ t[q] = Total(f, G(q))
  OBVIOUS
<1>2. \A q \in Q : t[q] \in Int
  <2>1. \A T \in SUBSET S : Total(f, T) \in Int
    BY TotalSteps
  <2> HIDE DEF t, G
  <2>2. QED
    BY <1>1, <2>1
<1>3. Total(f, {}) = 0 /\ Total(t, {}) = 0
  <2> HIDE DEF t
  <2>1. QED
    BY <1>2, TotalSteps
<1>4. {} \in P
  <2>1. F({}) = {}
    OBVIOUS
  <2>2. QED
    BY <1>3, <2>1
<1>5. ASSUME NEW T \in P, NEW q \in Q \ T PROVE T \cup {q} \in P
  <2> DEFINE U == T \cup {q}
  <2>1. U \ {q} = T /\ q \in U /\ U \in SUBSET Q /\ T \in SUBSET Q
    BY <1>5
  <2>2. F(U) \in SUBSET S /\ G(q) \in SUBSET F(U) /\ F(U) \ G(q) = F(T)
    BY <1>5
  <2>3. Total(f, F(T)) = Total(t, T)
    BY <1>5
  <2> HIDE DEF t, U, F, G, P
  <2>4. Total(t, U) = t[q] + Total(t, T)
    BY <1>2, <2>1, TotalSteps
  <2>5. Total(f, F(U)) = Total(f, G(q)) + Total(f, F(T))
    <3>1. IsFiniteSet(F(U)) /\ \A x \in F(U) : f[x] \in Int
      BY <2>2, FS_Subset
    <3>2. QED
      BY <2>2, <3>1, TotalBoth
  <2>6. Total(f, F(U)) = Total(t, U)
    BY <1>1, <2>3, <2>4, <2>5
  <2>7. QED
    BY <2>1, <2>6 DEF U, P
<1>6. Q \in P
  <2> HIDE DEF P
  <2>1. QED
    BY <1>4, <1>5, FiniteInd
<1>7. F(Q) = S
  OBVIOUS
<1>8. QED
  BY <1>6, <1>7

\* A sum of which one summand alone counts, and one of which none does.
LEMMA OneCounts ==
  ASSUME NEW S, IsFiniteSet(S), NEW f, \A x \in S : f[x] \in Int, NEW y, NEW b \in Int, 0 <= b,
         \A x \in S : f[x] <= IF x = y THEN b ELSE 0
  PROVE  Total(f, S) <= b
<1> DEFINE P == {T \in SUBSET S : Total(f, T) <= IF y \in T THEN b ELSE 0}
<1>1. {} \in P
  BY TotalSteps
<1>2. ASSUME NEW T \in P, NEW x \in S \ T PROVE T \cup {x} \in P
  <2> DEFINE U == T \cup {x}
  <2>1. U \ {x} = T /\ x \in U /\ U \in SUBSET S /\ T \in SUBSET S /\ (y \in U <=> y = x \/ y \in T)
    BY <1>2
  <2> HIDE DEF U
  <2>2. Total(f, U) = f[x] + Total(f, T) /\ Total(f, T) \in Int
    BY <2>1, TotalSteps
  <2>3. f[x] \in Int /\ f[x] <= IF x = y THEN b ELSE 0
    BY <1>2
  <2>4. Total(f, T) <= IF y \in T THEN b ELSE 0
    BY <1>2
  <2>5. x = y => y \notin T
    BY <1>2
  <2>6. Total(f, U) <= IF y \in U THEN b ELSE 0
    BY <2>1, <2>2, <2>3, <2>4, <2>5
  <2>7. QED
    BY <2>1, <2>6 DEF U
<1>3. S \in P
  <2> HIDE DEF P
  <2>1. QED
    BY <1>1, <1>2, FiniteInd
<1>4. Total(f, S) \in Int /\ Total(f, S) <= IF y \in S THEN b ELSE 0
  <2>1. S \in SUBSET S
    OBVIOUS
  <2>2. QED
    BY <1>3, <2>1, TotalSteps
<1>5. QED
  BY <1>4

LEMMA NoneCounts ==
  ASSUME NEW S, IsFiniteSet(S), NEW f, \A x \in S : f[x] \in Int /\ f[x] <= 0
  PROVE  Total(f, S) <= 0
<1>1. \A x \in S : f[x] <= IF x = S THEN 0 ELSE 0
  OBVIOUS
<1> DEFINE b == 0
<1>2. b \in Int /\ 0 <= b
  OBVIOUS
<1>3. \A x \in S : f[x] \in Int /\ f[x] <= IF x = S THEN b ELSE 0
  BY <1>1
<1> HIDE DEF b
<1>4. Total(f, S) <= b
  BY <1>2, <1>3, OneCounts
<1>5. QED
  BY <1>4 DEF b

\* No summand is more than a sum of which none is negative.
LEMMA TotalOfOne ==
  ASSUME NEW S, IsFiniteSet(S), NEW f, \A x \in S : f[x] \in Int /\ 0 <= f[x], NEW x \in S
  PROVE  f[x] <= Total(f, S)
<1> DEFINE U == S \ {x}
<1>1. U \in SUBSET S /\ S \in SUBSET S
  OBVIOUS
<1>2. Total(f, S) = f[x] + Total(f, S \ {x})
  BY <1>1, TotalSteps
<1> HIDE DEF U
<1>3. 0 <= Total(f, U) /\ Total(f, U) \in Int
  BY <1>1, TotalNat, TotalSteps
<1>4. QED
  BY <1>2, <1>3 DEF U

\* The sum of one summand.
LEMMA TotalOfSingle ==
  ASSUME NEW x, NEW f, f[x] \in Int
  PROVE  Total(f, {x}) = f[x]
<1> DEFINE one == {x}
           none == {}
<1>1. IsFiniteSet(one) /\ (\A y \in one : f[y] \in Int) /\ one \in SUBSET one /\ x \in one /\ one \ {x} = none
  BY FS_Singleton
<1> HIDE DEF one, none
<1>2. Total(f, one) = f[x] + Total(f, one \ {x})
  BY <1>1, TotalSteps
<1>3. Total(f, none) = 0
  BY <1>1, TotalSteps DEF none
<1>4. Total(f, one) = f[x]
  BY <1>1, <1>2, <1>3
<1>5. QED
  BY <1>4 DEF one

\* Sums whose summands are paired.
LEMMA TotalVia ==
  ASSUME NEW S, IsFiniteSet(S), NEW f, \A x \in S : f[x] \in Int,
         NEW Q, IsFiniteSet(Q), NEW g, NEW h, \A x \in S : h[x] \in Q /\ f[x] = g[h[x]],
         \A x, y \in S : h[x] = h[y] => x = y, \A q \in Q : \E x \in S : h[x] = q
  PROVE  Total(f, S) = Total(g, Q)
<1> DEFINE G(q) == {x \in S : h[x] = q}
           t == [q \in Q |-> Total(f, G(q))]
<1>1. ASSUME NEW q \in Q PROVE t[q] = g[q]
  <2>1. PICK x \in S : h[x] = q
    OBVIOUS
  <2>2. G(q) = {x} /\ f[x] = g[q] /\ f[x] \in Int
    BY <2>1
  <2>3. Total(f, {x}) = f[x]
    BY <2>2, TotalOfSingle
  <2>4. QED
    BY <2>2, <2>3
<1>2. Total(f, S) = Total(t, Q)
  <2>1. \A x \in S : h[x] \in Q
    OBVIOUS
  <2>2. Total(f, S) = Total([q \in Q |-> Total(f, {x \in S : h[x] = q})], Q)
    BY <2>1, TotalGroups
  <2>3. QED
    BY <2>2
<1> HIDE DEF t
<1>3. Total(t, Q) = Total(g, Q)
  BY <1>1, TotalSame
<1>4. QED
  BY <1>2, <1>3

\* A factor of every summand is one of the sum.
LEMMA TotalTimes ==
  ASSUME NEW S, IsFiniteSet(S), NEW f, \A x \in S : f[x] \in Int, NEW a \in Int,
         NEW g, \A x \in S : g[x] = a * f[x]
  PROVE  Total(g, S) = a * Total(f, S)
<1> DEFINE P == {T \in SUBSET S : Total(g, T) = a * Total(f, T)}
<1>0. \A x \in S : g[x] \in Int
  OBVIOUS
<1>1. {} \in P
  <2>1. Total(f, {}) = 0 /\ Total(g, {}) = 0
    BY <1>0, TotalSteps
  <2>2. QED
    BY <2>1
<1>2. ASSUME NEW T \in P, NEW x \in S \ T PROVE T \cup {x} \in P
  <2> DEFINE U == T \cup {x}
  <2>1. U \ {x} = T /\ x \in U /\ U \in SUBSET S /\ T \in SUBSET S
    BY <1>2
  <2> HIDE DEF U
  <2>2. Total(f, U) = f[x] + Total(f, T) /\ Total(g, U) = g[x] + Total(g, T)
    BY <1>0, <2>1, TotalSteps
  <2>3. Total(f, T) \in Int /\ f[x] \in Int /\ g[x] = a * f[x]
    BY <2>1, TotalSteps
  <2>4. Total(g, T) = a * Total(f, T)
    BY <1>2
  <2>5. Total(g, U) = a * Total(f, U)
    <3> DEFINE m == f[x]
               n == Total(f, T)
    <3>1. Total(g, U) = a * m + a * n /\ Total(f, U) = m + n /\ m \in Int /\ n \in Int
      BY <2>2, <2>3, <2>4
    <3> HIDE DEF m, n
    <3>2. QED
      BY <3>1
  <2>6. QED
    BY <2>1, <2>5 DEF U
<1>3. S \in P
  <2> HIDE DEF P
  <2>1. QED
    BY <1>1, <1>2, FiniteInd
<1>4. QED
  BY <1>3

\* Nothing adds up to nothing.
LEMMA TotalZero ==
  ASSUME NEW S, IsFiniteSet(S), NEW f, \A x \in S : f[x] = 0
  PROVE  Total(f, S) = 0
<1>1. \A x \in S : f[x] \in Int /\ 0 <= f[x] /\ f[x] <= 0
  OBVIOUS
<1>2. Total(f, S) \in Int /\ 0 <= Total(f, S)
  BY <1>1, TotalNat
<1>3. Total(f, S) <= 0
  BY <1>1, NoneCounts
<1>4. QED
  BY <1>2, <1>3

\* Only the summands of one sign are added up, but the sum has no others.
LEMMA TotalOfSign ==
  ASSUME NEW S, IsFiniteSet(S), NEW f, \A x \in S : f[x] \in Int, NEW sign \in {-1, 1},
         (\A x \in S : f[x] >= 0) \/ (\A x \in S : f[x] <= 0)
  PROVE  Total(f, {x \in S : f[x] * sign > 0}) = IF Total(f, S) * sign > 0 THEN Total(f, S) ELSE 0
<1> DEFINE A == {x \in S : f[x] * sign > 0}
           B == S \ A
           g == [x \in S |-> sign * f[x]]
<1>1. sign \in Int /\ \A x \in S : g[x] = sign * f[x] /\ g[x] \in Int
  OBVIOUS
<1>2. \A x \in S : f[x] * sign = g[x]
  OBVIOUS
<1>3. A = {x \in S : g[x] > 0} /\ IsFiniteSet(A) /\ IsFiniteSet(B) /\ A \in SUBSET S /\ B = S \ A
  BY <1>2, FS_Subset
<1> HIDE DEF g, A, B
<1>4. Total(g, S) = sign * Total(f, S) /\ Total(f, S) \in Int
  BY <1>1, TotalTimes, TotalSteps
<1>5. (\A x \in S : g[x] >= 0) \/ (\A x \in S : g[x] <= 0)
  BY <1>1
<1>6. CASE \A x \in S : g[x] >= 0
  <2>1. \A x \in B : f[x] = 0
    BY <1>1, <1>3, <1>6
  <2>2. Total(f, B) = 0
    BY <1>3, <2>1, TotalZero
  <2>3. Total(f, S) = Total(f, A) + Total(f, B)
    <3>1. Total(f, S) = Total(f, A) + Total(f, S \ A)
      BY <1>3, TotalBoth
    <3>2. QED
      BY <1>3, <3>1
  <2>4. 0 <= Total(g, S) /\ Total(g, S) \in Int
    BY <1>1, <1>6, TotalNat
  <2>5. Total(f, A) \in Int
    BY <1>3, TotalSteps
  <2> DEFINE a == Total(f, A)
             s == Total(f, S)
  <2>6. a = s /\ s \in Int /\ 0 <= sign * s
    BY <1>4, <2>2, <2>3, <2>4, <2>5
  <2> HIDE DEF a, s
  <2>7. a = IF s * sign > 0 THEN s ELSE 0
    BY <2>6
  <2>8. QED
    BY <2>7 DEF a, s, A
<1>7. CASE \A x \in S : g[x] <= 0
  <2>1. \A x \in A : f[x] = 0
    BY <1>1, <1>3, <1>7
  <2>2. Total(f, A) = 0
    BY <1>3, <2>1, TotalZero
  <2>3. Total(g, S) <= 0
    BY <1>1, <1>7, NoneCounts
  <2>4. ~ (Total(f, S) * sign > 0)
    BY <1>4, <2>3
  <2>5. QED
    BY <2>2, <2>4 DEF A
<1>8. QED
  BY <1>5, <1>6, <1>7
=============================================================================
