-------------------------- MODULE InductionLemmas --------------------------
(* Induction over the naturals for sets, in place of the library's theorems  *)
(* about operators, and the existence of the functions that the models       *)
(* define by recursion: one round at a time, each from the rounds before it. *)
EXTENDS Integers, WellFoundedInduction, TLAPS

LEMMA LessThan ==
  ASSUME NEW m \in Nat, NEW n \in Nat, m < n
  PROVE  <<m, n>> \in OpToRel(<, Nat)
BY Zenon DEF OpToRel

LEMMA LeastNatural ==
  ASSUME NEW T \in SUBSET Nat, T # {}
  PROVE  \E n \in T : \A m \in T : n <= m
<1>1. PICK n \in T : \A m \in T : ~(<<m, n>> \in OpToRel(<, Nat))
  BY NatLessThanWellFounded, WFMin
<1>2. ASSUME NEW m \in T PROVE ~(m < n)
  <2>1. m \in Nat /\ n \in Nat
    OBVIOUS
  <2> QED BY Zenon, <1>1, <2>1, LessThan
<1> QED BY <1>2

LEMMA NaturalInduction ==
  ASSUME NEW T, 0 \in T, \A n \in Nat : n \in T => n + 1 \in T
  PROVE  Nat \subseteq T
<1> SUFFICES ASSUME {n \in Nat : n \notin T} # {} PROVE FALSE
  OBVIOUS
<1>1. PICK n \in {x \in Nat : x \notin T} : \A m \in {x \in Nat : x \notin T} : n <= m
  BY LeastNatural
<1>2. n # 0 /\ n - 1 \in Nat
  BY <1>1
<1>3. n - 1 \in T
  BY <1>1, <1>2
<1> QED BY <1>1, <1>2, <1>3

\* A function given by its first value and one step from each value to the next.
IsIteration(f, S, first, N, step) ==
  f \in [0 .. N -> S] /\ f[0] = first /\ \A k \in 1 .. N : f[k] = step[k][f[k - 1]]

LEMMA Iteration ==
  ASSUME NEW S, NEW first \in S, NEW N \in Nat, NEW step \in [1 .. N -> [S -> S]]
  PROVE  \E f : IsIteration(f, S, first, N, step)
<1> DEFINE Good(f, m) == f[0] = first /\ \A k \in 1 .. N : k <= m => f[k] = step[k][f[k - 1]]
           T == {m \in Nat : \E f \in [0 .. N -> S] : Good(f, m)}
<1>1. 0 \in T
  <2> DEFINE g == [k \in 0 .. N |-> first]
  <2>1. g \in [0 .. N -> S] /\ Good(g, 0)
    OBVIOUS
  <2> QED BY <2>1
<1>2. ASSUME NEW m \in Nat, m \in T
      PROVE  m + 1 \in T
  <2>1. PICK f \in [0 .. N -> S] : Good(f, m)
    BY <1>2
  <2> DEFINE g == [k \in 0 .. N |-> IF k = m + 1 THEN step[k][f[k - 1]] ELSE f[k]]
  <2>2. ASSUME NEW k \in 1 .. N
        PROVE  step[k][f[k - 1]] \in S
    BY <2>2
  <2>3. g \in [0 .. N -> S]
    BY <2>2
  <2>4. g[0] = first
    BY <2>1
  <2>5. ASSUME NEW k \in 1 .. N, k <= m + 1
        PROVE  g[k] = step[k][g[k - 1]]
    <3>1. g[k - 1] = f[k - 1]
      BY <2>5
    <3>2. CASE k = m + 1
      BY <3>1, <3>2
    <3>3. CASE k <= m
      BY <2>1, <3>1, <3>3
    <3> QED BY <2>5, <3>2, <3>3
  <2>6. Good(g, m + 1)
    BY <2>4, <2>5
  <2> HIDE DEF g, Good
  <2> QED BY <2>3, <2>6
<1>3. N \in T
  <2> HIDE DEF T
  <2> QED BY <1>1, <1>2, NaturalInduction
<1>4. PICK f \in [0 .. N -> S] : Good(f, N)
  BY <1>3
<1>5. IsIteration(f, S, first, N, step)
  BY <1>4 DEF IsIteration
<1> QED BY <1>5

\* Spans of a list that are halved until one element is left (fold_bin_op).
HalfOf(i, j) == (j - i + 1) \div 2

LEMMA Halves ==
  ASSUME NEW n \in Nat, NEW i \in 1 .. n, NEW j \in 1 .. n, i < j
  PROVE  /\ HalfOf(i, j) \in 1 .. j - i
         /\ i + HalfOf(i, j) - 1 \in i .. j - 1 /\ i + HalfOf(i, j) - 1 \in 1 .. n
         /\ i + HalfOf(i, j) \in i + 1 .. j /\ i + HalfOf(i, j) \in 1 .. n
         /\ (i + HalfOf(i, j) - 1) + 1 = i + HalfOf(i, j)
         /\ (i + HalfOf(i, j) - 1) - i < j - i /\ j - (i + HalfOf(i, j)) < j - i
<1>1. HalfOf(i, j) \in 1 .. j - i
  BY DEF HalfOf
<1> QED BY <1>1

LEMMA SpanInduction ==
  ASSUME NEW n \in Nat, NEW G,
         \A i \in 1 .. n : <<i, i>> \in G,
         \A i, j \in 1 .. n :
           i < j /\ <<i, i + HalfOf(i, j) - 1>> \in G /\ <<i + HalfOf(i, j), j>> \in G => <<i, j>> \in G
  PROVE  \A i, j \in 1 .. n : i <= j => <<i, j>> \in G
<1> DEFINE T == {d \in Nat : \A i, j \in 1 .. n : i <= j /\ j - i <= d => <<i, j>> \in G}
<1>1. 0 \in T
  OBVIOUS
<1>2. ASSUME NEW d \in Nat, d \in T
      PROVE  d + 1 \in T
  <2> SUFFICES ASSUME NEW i \in 1 .. n, NEW j \in 1 .. n, i <= j, j - i <= d + 1
               PROVE  <<i, j>> \in G
    OBVIOUS
  <2>1. CASE i = j
    BY <2>1
  <2>2. CASE i < j
    <3> DEFINE m == i + HalfOf(i, j) - 1
               k == i + HalfOf(i, j)
    <3>1. m \in 1 .. n /\ k \in 1 .. n /\ i <= m /\ k <= j /\ m - i <= d /\ j - k <= d
      BY <2>2 DEF HalfOf
    <3>2. i < j /\ <<i, m>> \in G /\ <<k, j>> \in G => <<i, j>> \in G
      OBVIOUS
    <3> HIDE DEF m, k
    <3> QED BY <1>2, <2>2, <3>1, <3>2
  <2> QED BY <2>1, <2>2
<1>3. ASSUME NEW i \in 1 .. n, NEW j \in 1 .. n, i <= j
      PROVE  <<i, j>> \in G
  <2>1. j - i \in Nat
    BY <1>3
  <2>2. j - i \in T
    <3> HIDE DEF T
    <3> QED BY <1>1, <1>2, <2>1, NaturalInduction
  <2> QED BY <1>3, <2>2
<1> QED BY <1>3

Halved(f, args, join, i, j) ==
  IF i >= j THEN args[i] ELSE join[<<f[<<i, i + HalfOf(i, j) - 1>>], f[<<i + HalfOf(i, j), j>>]>>]

LEMMA HalvedRange ==
  ASSUME NEW n \in Nat, NEW S, NEW args \in [1 .. n -> S], NEW join \in [S \X S -> S],
         NEW f \in [(1 .. n) \X (1 .. n) -> S], NEW i \in 1 .. n, NEW j \in 1 .. n
  PROVE  Halved(f, args, join, i, j) \in S
<1>1. CASE i >= j
  BY <1>1 DEF Halved
<1>2. CASE i < j
  <2> DEFINE m == i + HalfOf(i, j) - 1
             k == i + HalfOf(i, j)
  <2>1. m \in 1 .. n /\ k \in 1 .. n
    BY <1>2, Halves
  <2>2. Halved(f, args, join, i, j) = join[<<f[<<i, m>>], f[<<k, j>>]>>]
    BY <1>2 DEF Halved
  <2> HIDE DEF m, k
  <2>3. f[<<i, m>>] \in S /\ f[<<k, j>>] \in S
    BY <2>1
  <2> QED BY <2>2, <2>3
<1> QED BY <1>1, <1>2

SameWithin(f, g, i, j) == \A a, b \in i .. j : b - a < j - i => f[<<a, b>>] = g[<<a, b>>]

LEMMA HalvedSame ==
  ASSUME NEW args, NEW join, NEW f, NEW g, NEW i \in Int, NEW j \in Int, SameWithin(f, g, i, j)
  PROVE  Halved(f, args, join, i, j) = Halved(g, args, join, i, j)
<1>1. CASE i >= j
  BY <1>1 DEF Halved
<1>2. CASE i < j
  <2> DEFINE m == i + HalfOf(i, j) - 1
             k == i + HalfOf(i, j)
  <2>1. m \in i .. j /\ k \in i .. j /\ m - i < j - i /\ j - k < j - i
    BY <1>2 DEF HalfOf
  <2>2. /\ Halved(f, args, join, i, j) = join[<<f[<<i, m>>], f[<<k, j>>]>>]
        /\ Halved(g, args, join, i, j) = join[<<g[<<i, m>>], g[<<k, j>>]>>]
    BY <1>2 DEF Halved
  <2> HIDE DEF m, k
  <2>3. f[<<i, m>>] = g[<<i, m>>] /\ f[<<k, j>>] = g[<<k, j>>]
    BY <2>1 DEF SameWithin
  <2> QED BY <2>2, <2>3
<1> QED BY <1>1, <1>2

SpansOf(n) == (1 .. n) \X (1 .. n)

IsHalving(f, n, args, join) == \A i, j \in 1 .. n : f[<<i, j>>] = Halved(f, args, join, i, j)

LEMMA SpanRecursion ==
  ASSUME NEW n \in Nat, NEW S, NEW args \in [1 .. n -> S], NEW join \in [S \X S -> S]
  PROVE  \E f \in [SpansOf(n) -> S] : IsHalving(f, n, args, join)
<1> DEFINE D == (1 .. n) \X (1 .. n)
           Good(f, d) == \A i, j \in 1 .. n : j - i <= d => f[<<i, j>>] = Halved(f, args, join, i, j)
           T == {d \in Nat : \E f \in [D -> S] : Good(f, d)}
<1>1. 0 \in T
  <2> DEFINE g == [p \in D |-> args[p[1]]]
  <2>1. g \in [D -> S]
    OBVIOUS
  <2>2. Good(g, 0)
    BY DEF Halved
  <2> HIDE DEF g, Good
  <2> QED BY <2>1, <2>2
<1>2. ASSUME NEW d \in Nat, d \in T
      PROVE  d + 1 \in T
  <2>1. PICK f \in [D -> S] : Good(f, d)
    BY <1>2
  <2>7. PICK g : g = [p \in D |-> Halved(f, args, join, p[1], p[2])]
    OBVIOUS
  <2>2. g \in [D -> S]
    <3>1. ASSUME NEW p \in D PROVE Halved(f, args, join, p[1], p[2]) \in S
      BY HalvedRange
    <3> QED BY <2>7, <3>1
  <2>3. ASSUME NEW i \in 1 .. n, NEW j \in 1 .. n
        PROVE  g[<<i, j>>] = Halved(f, args, join, i, j)
    BY <2>7
  <2>4. ASSUME NEW i \in 1 .. n, NEW j \in 1 .. n, j - i <= d
        PROVE  g[<<i, j>>] = f[<<i, j>>]
    BY <2>1, <2>3, <2>4
  <2>5. ASSUME NEW i \in 1 .. n, NEW j \in 1 .. n, j - i <= d + 1
        PROVE  g[<<i, j>>] = Halved(g, args, join, i, j)
    <3>1. SameWithin(g, f, i, j)
      BY <2>4, <2>5 DEF SameWithin
    <3>2. i \in Int /\ j \in Int
      OBVIOUS
    <3>3. Halved(g, args, join, i, j) = Halved(f, args, join, i, j)
      BY <3>1, <3>2, HalvedSame
    <3> QED BY <2>3, <3>3
  <2>6. Good(g, d + 1)
    BY <2>5
  <2> HIDE DEF Good
  <2> QED BY <2>2, <2>6
<1>3. n \in T
  <2> HIDE DEF T
  <2> QED BY <1>1, <1>2, NaturalInduction
<1>4. PICK f \in [D -> S] : Good(f, n)
  BY <1>3
<1>5. ASSUME NEW i \in 1 .. n, NEW j \in 1 .. n
      PROVE  f[<<i, j>>] = Halved(f, args, join, i, j)
  <2>1. j - i <= n
    OBVIOUS
  <2> QED BY <1>4, <2>1
<1> QED BY <1>5 DEF IsHalving, SpansOf
=============================================================================
