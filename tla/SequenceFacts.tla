---------------------------- MODULE SequenceFacts ----------------------------
(***************************************************************************)
(* Induction over numbers and over sequences, stated with sets, and what   *)
(* FoldLeft and FlattenSeq of SequencesExt compute, element by element.    *)
(* A fold step is a constant of the module: a proof about a fold           *)
(* instantiates the module with the step, Step <- LineStep for instance.   *)
(***************************************************************************)
EXTENDS Integers, SequencesExt, WellFoundedInduction, TLAPS

CONSTANTS
    Step(_, _),  \* one step of the fold
    Base         \* what it begins with

\* A set of numbers that is not empty has a least one.
LEMMA LeastNumber ==
  ASSUME NEW T, T \subseteq Nat, T # {}
  PROVE  \E n \in T : \A m \in T : n <= m
<1> DEFINE R == OpToRel(<, Nat)
<1>1. IsWellFoundedOn(R, Nat)
  BY NatLessThanWellFounded
<1>2. \E x \in T : \A y \in T : ~ (<<y, x>> \in R)
  <2> HIDE DEF R
  <2> QED BY <1>1, WFMin
<1>3. PICK n \in T : \A m \in T : ~ (<<m, n>> \in R)
  BY <1>2
<1>4. \A m \in T : ~ (m < n)
  BY <1>3 DEF OpToRel
<1> QED BY <1>4

\* Induction over the numbers, with a set for the predicate.
LEMMA NatSetInduction ==
  ASSUME NEW T, 0 \in T, \A n \in Nat : n \in T => n + 1 \in T
  PROVE  Nat \subseteq T
<1>1. SUFFICES ASSUME Nat \ T # {} PROVE FALSE
  OBVIOUS
<1>2. PICK n \in Nat \ T : \A m \in Nat \ T : n <= m
  BY <1>1, LeastNumber
<1>3. n # 0 /\ n - 1 \in Nat /\ n - 1 \in T
  BY <1>2
<1>4. (n - 1) + 1 = n
  BY <1>2
<1> QED BY <1>2, <1>3, <1>4

\* Every sequence is made by appending.
LEMMA SeqSetInduction ==
  ASSUME NEW C, NEW T, <<>> \in T,
         \A s \in Seq(C), c \in C : s \in T => Append(s, c) \in T
  PROVE  Seq(C) \subseteq T
<1> DEFINE U == {n \in Nat : \A s \in Seq(C) : Len(s) = n => s \in T}
<1>1. 0 \in U
  <2>1. \A s \in Seq(C) : Len(s) = 0 => s = <<>>
    OBVIOUS
  <2> QED BY <2>1
<1>2. ASSUME NEW n \in Nat, n \in U PROVE n + 1 \in U
  <2> SUFFICES ASSUME NEW s \in Seq(C), Len(s) = n + 1 PROVE s \in T
    OBVIOUS
  <2> DEFINE f == SubSeq(s, 1, n)
  <2>1. f \in Seq(C) /\ Len(f) = n /\ s[n + 1] \in C /\ s = Append(f, s[n + 1])
    BY <1>2
  <2>2. f \in T
    BY <1>2, <2>1
  <2> HIDE DEF f
  <2> QED BY <2>1, <2>2
<1>3. Nat \subseteq U
  <2> HIDE DEF U
  <2> QED BY <1>1, <1>2, NatSetInduction
<1> QED BY <1>3

-----------------------------------------------------------------------------
\* The function by which FoldLeft is defined (MapThenFoldSet), over the sets of
\* positions of a sequence of n elements.
Iter(s, n, g) ==
    g = [S \in SUBSET (1..n) |-> IF S = {} THEN Base
                                 ELSE Step(g[S \ {Max(S)}], s[Max(S)])]

\* The maximum of a set is its element that is at least every other.
LEMMA MaxOf ==
  ASSUME NEW S, S \subseteq Int, NEW m \in S, \A i \in S : i <= m
  PROVE  Max(S) = m
<1>1. \A i \in S : (\A j \in S : i >= j) => i = m
  OBVIOUS
<1>2. m \in S /\ \A j \in S : m >= j
  OBVIOUS
<1> QED BY <1>1, <1>2, Zenon DEF Max

\* There is such a function.
LEMMA IterExists ==
  ASSUME NEW s, NEW n \in Nat
  PROVE  \E g : Iter(s, n, g)
<1> DEFINE T == {k \in Nat : \E g : Iter(s, k, g)}
<1>1. 0 \in T
  <2> DEFINE g == [S \in SUBSET (1..0) |-> Base]
  <2>1. SUBSET (1..0) = {{}}
    OBVIOUS
  <2>2. Iter(s, 0, g)
    BY <2>1 DEF Iter
  <2> QED BY <2>2
<1>2. ASSUME NEW k \in Nat, k \in T PROVE k + 1 \in T
  <2>1. PICK g : Iter(s, k, g)
    BY <1>2
  <2> DEFINE h == [S \in SUBSET (1..(k + 1)) |->
                     IF k + 1 \in S THEN Step(g[S \ {k + 1}], s[k + 1]) ELSE g[S]]
  <2>2. ASSUME NEW S \in SUBSET (1..(k + 1))
        PROVE  h[S] = IF S = {} THEN Base ELSE Step(h[S \ {Max(S)}], s[Max(S)])
    <3>1. CASE k + 1 \in S
      <4>1. Max(S) = k + 1
        <5>1. S \subseteq Int /\ k + 1 \in S /\ \A i \in S : i <= k + 1
          BY <3>1
        <5> QED BY <5>1, MaxOf
      <4>2. S \ {k + 1} \in SUBSET (1..k) /\ k + 1 \notin S \ {k + 1}
        OBVIOUS
      <4>3. h[S \ {k + 1}] = g[S \ {k + 1}]
        BY <4>2
      <4> QED BY <3>1, <4>1, <4>3
    <3>2. CASE k + 1 \notin S
      <4>1. S \in SUBSET (1..k) /\ h[S] = g[S]
        BY <3>2
      <4> DEFINE R == S \ {Max(S)}
      <4>2. R \in SUBSET (1..k) /\ k + 1 \notin R
        <5>1. \A i \in S : i \in 1..k
          BY <3>2
        <5> QED BY <3>2, <5>1
      <4>3. R \in SUBSET (1..(k + 1))
        BY <4>2
      <4>4. h[R] = g[R]
        <5> HIDE DEF R
        <5> QED BY <4>2, <4>3
      <4> QED BY <2>1, <4>1, <4>4 DEF Iter
    <3> QED BY <3>1, <3>2
  <2>3. Iter(s, k + 1, h)
    BY <2>2 DEF Iter
  <2> QED BY <2>3
<1>3. Nat \subseteq T
  <2> HIDE DEF T
  <2> QED BY <1>1, <1>2, NatSetInduction
<1> QED BY <1>3

\* Its values at the sets 1..k, one after the other.
LEMMA IterStep ==
  ASSUME NEW s, NEW n \in Nat, NEW g, Iter(s, n, g), NEW k \in 0..n
  PROVE  g[1..k] = IF k = 0 THEN Base ELSE Step(g[1..(k - 1)], s[k])
<1>1. 1..k \in SUBSET (1..n) /\ (1..k = {} <=> k = 0)
  OBVIOUS
<1>2. CASE k # 0
  <2>1. Max(1..k) = k /\ (1..k) \ {k} = 1..(k - 1)
    <3>1. 1..k \subseteq Int /\ k \in 1..k /\ \A i \in 1..k : i <= k
      BY <1>2
    <3>2. Max(1..k) = k
      BY <3>1, MaxOf
    <3> QED BY <3>2
  <2> QED BY <1>1, <1>2, <2>1 DEF Iter
<1> QED BY <1>1, <1>2 DEF Iter

Fold(s) == FoldLeft(Step, Base, s)

\* FoldLeft is the value of the function at the set of all the positions.
LEMMA FoldIsIter ==
  ASSUME NEW C, NEW s \in Seq(C)
  PROVE  \E g : Iter(s, Len(s), g) /\ Fold(s) = g[1..Len(s)]
<1> DEFINE g == CHOOSE f : Iter(s, Len(s), f)
<1>1. Iter(s, Len(s), g)
  BY IterExists
<1>2. DOMAIN s = 1..Len(s)
  OBVIOUS
<1>3. Fold(s) = g[1..Len(s)]
  BY <1>2 DEF Fold, FoldLeft, MapThenFoldSet, Iter
<1> QED BY <1>1, <1>3

\* Two such functions agree where both tell of the same elements.
LEMMA IterAgrees ==
  ASSUME NEW s, NEW t, NEW m \in Nat, NEW n \in Nat, NEW g, NEW h,
         Iter(s, m, g), Iter(t, n, h), m <= n, \A i \in 1..m : s[i] = t[i]
  PROVE  \A k \in 0..m : g[1..k] = h[1..k]
<1> DEFINE T == {k \in Nat : k <= m => g[1..k] = h[1..k]}
<1>1. 0 \in T
  <2>1. 0 \in 0..m /\ 0 \in 0..n
    OBVIOUS
  <2>2. g[1..0] = Base
    BY <2>1, IterStep
  <2>3. h[1..0] = Base
    BY <2>1, IterStep
  <2> QED BY <2>2, <2>3
<1>2. ASSUME NEW k \in Nat, k \in T PROVE k + 1 \in T
  <2> SUFFICES ASSUME k + 1 <= m PROVE g[1..(k + 1)] = h[1..(k + 1)]
    OBVIOUS
  <2>1. k + 1 \in 0..m /\ k + 1 \in 0..n /\ k + 1 # 0 /\ (k + 1) - 1 = k
    OBVIOUS
  <2>2. g[1..(k + 1)] = Step(g[1..k], s[k + 1])
    BY <2>1, IterStep
  <2>3. h[1..(k + 1)] = Step(h[1..k], t[k + 1])
    BY <2>1, IterStep
  <2> QED BY <1>2, <2>1, <2>2, <2>3
<1>3. Nat \subseteq T
  <2> HIDE DEF T
  <2> QED BY <1>1, <1>2, NatSetInduction
<1> QED BY <1>3

\* FoldLeft of the empty sequence.
LEMMA FoldEmpty == Fold(<<>>) = Base
<1>1. <<>> \in Seq({}) /\ Len(<<>>) = 0
  OBVIOUS
<1>2. PICK g : Iter(<<>>, 0, g) /\ Fold(<<>>) = g[1..0]
  BY <1>1, FoldIsIter
<1> QED BY <1>2, IterStep

\* FoldLeft of a sequence with one more element.
LEMMA FoldAppend ==
  ASSUME NEW C, NEW s \in Seq(C), NEW c \in C
  PROVE  Fold(Append(s, c)) = Step(Fold(s), c)
<1> DEFINE n == Len(s)
           t == Append(s, c)
<1>1. /\ n \in Nat /\ t \in Seq(C) /\ Len(t) = n + 1 /\ t[n + 1] = c
      /\ \A i \in 1..n : s[i] = t[i]
  OBVIOUS
<1>2. PICK g : Iter(s, n, g) /\ Fold(s) = g[1..n]
  BY FoldIsIter
<1>3. PICK h : Iter(t, n + 1, h) /\ Fold(t) = h[1..(n + 1)]
  <2> HIDE DEF t
  <2> QED BY <1>1, FoldIsIter
<1> HIDE DEF n, t
<1>4. n + 1 \in Nat /\ n <= n + 1 /\ n \in 0..n /\ n + 1 \in 0..(n + 1) /\ (n + 1) - 1 = n /\ n + 1 # 0
  BY <1>1
<1>5. g[1..n] = h[1..n]
  <2>1. \A k \in 0..n : g[1..k] = h[1..k]
    BY <1>1, <1>2, <1>3, <1>4, IterAgrees, SMTT(40)
  <2> QED BY <1>4, <2>1
<1>6. h[1..(n + 1)] = Step(h[1..n], t[n + 1])
  BY <1>3, <1>4, IterStep
<1> QED BY <1>1, <1>2, <1>3, <1>5, <1>6 DEF t

-----------------------------------------------------------------------------
\* The function by which FlattenSeq is defined: the concatenations so far.
Joins(q, n, g) == g = [i \in 1..n |-> IF i = 1 THEN q[i] ELSE g[i - 1] \o q[i]]

\* There is such a function.
LEMMA JoinsExists ==
  ASSUME NEW q, NEW n \in Nat
  PROVE  \E g : Joins(q, n, g)
<1> DEFINE T == {k \in Nat : \E g : Joins(q, k, g)}
<1>1. 0 \in T
  <2> DEFINE g == [i \in 1..0 |-> <<>>]
  <2>1. Joins(q, 0, g)
    BY DEF Joins
  <2> QED BY <2>1
<1>2. ASSUME NEW k \in Nat, k \in T PROVE k + 1 \in T
  <2>1. PICK g : Joins(q, k, g)
    BY <1>2
  <2> DEFINE h == [i \in 1..(k + 1) |->
                     IF i = k + 1 THEN IF i = 1 THEN q[i] ELSE g[k] \o q[i] ELSE g[i]]
  <2>2. ASSUME NEW i \in 1..(k + 1)
        PROVE  h[i] = IF i = 1 THEN q[i] ELSE h[i - 1] \o q[i]
    <3>1. CASE i = k + 1
      <4>1. CASE i = 1
        BY <3>1, <4>1
      <4>2. CASE i # 1
        <5>1. k \in 1..(k + 1) /\ k # k + 1 /\ i - 1 = k
          BY <3>1, <4>2
        <5>2. h[k] = g[k]
          BY <5>1
        <5> QED BY <3>1, <4>2, <5>1, <5>2
      <4> QED BY <4>1, <4>2
    <3>2. CASE i # k + 1
      <4>1. i \in 1..k /\ h[i] = g[i]
        BY <3>2
      <4>2. CASE i = 1
        BY <2>1, <4>1, <4>2 DEF Joins
      <4>3. CASE i # 1
        <5>1. i - 1 \in 1..(k + 1) /\ i - 1 # k + 1
          BY <4>1, <4>3
        <5>2. h[i - 1] = g[i - 1]
          BY <5>1
        <5> HIDE DEF h
        <5> QED BY <2>1, <4>1, <4>3, <5>2 DEF Joins
      <4> QED BY <4>2, <4>3
    <3> QED BY <3>1, <3>2
  <2>3. Joins(q, k + 1, h)
    BY <2>2 DEF Joins
  <2> QED BY <2>3
<1>3. Nat \subseteq T
  <2> HIDE DEF T
  <2> QED BY <1>1, <1>2, NatSetInduction
<1> QED BY <1>3

\* What holds of the empty sequence and of concatenations holds of FlattenSeq.
LEMMA FlattenInduction ==
  ASSUME NEW T, <<>> \in T, \A s \in T, t \in T : s \o t \in T, NEW q \in Seq(T)
  PROVE  FlattenSeq(q) \in T
<1>1. CASE Len(q) = 0
  <2>1. q = <<>> /\ FlattenSeq(q) = q
    BY <1>1 DEF FlattenSeq
  <2> QED BY <2>1
<1>2. CASE Len(q) # 0
  <2> DEFINE g == CHOOSE h : Joins(q, Len(q), h)
             U == {k \in Nat : k + 1 \in 1..Len(q) => g[k + 1] \in T}
  <2>1. Joins(q, Len(q), g)
    <3>1. Len(q) \in Nat
      OBVIOUS
    <3> QED BY <3>1, JoinsExists
  <2>2. FlattenSeq(q) = g[Len(q)]
    BY <1>2 DEF FlattenSeq, Joins
  <2> HIDE DEF g
  <2>3. Len(q) \in Nat \ {0} /\ \A i \in 1..Len(q) : q[i] \in T
    BY <1>2
  <2>4. \A i \in 1..Len(q) : g[i] = IF i = 1 THEN q[i] ELSE g[i - 1] \o q[i]
    BY <2>1 DEF Joins
  <2>5. 0 \in U
    BY <2>3, <2>4
  <2>6. ASSUME NEW k \in Nat, k \in U PROVE k + 1 \in U
    <3> SUFFICES ASSUME k + 2 \in 1..Len(q) PROVE g[k + 2] \in T
      OBVIOUS
    <3>1. k + 1 \in 1..Len(q) /\ k + 2 # 1 /\ (k + 2) - 1 = k + 1
      BY <2>3
    <3>2. g[k + 2] = g[k + 1] \o q[k + 2]
      BY <2>4, <3>1
    <3>3. g[k + 1] \in T /\ q[k + 2] \in T
      BY <2>3, <2>6, <3>1
    <3> QED BY <3>2, <3>3
  <2>7. Nat \subseteq U
    <3> HIDE DEF U
    <3> QED BY <2>5, <2>6, NatSetInduction
  <2>8. Len(q) - 1 \in Nat /\ (Len(q) - 1) + 1 = Len(q)
    BY <2>3
  <2>9. g[Len(q)] \in T
    BY <2>3, <2>7, <2>8
  <2> QED BY <2>2, <2>9
<1> QED BY <1>1, <1>2

\* FlattenSeq leaves no element out.
LEMMA FlattenHas ==
  ASSUME NEW C, NEW q \in Seq(Seq(C)), NEW i \in 1..Len(q), NEW j \in 1..Len(q[i])
  PROVE  \E k \in 1..Len(FlattenSeq(q)) : FlattenSeq(q)[k] = q[i][j]
<1> DEFINE g == CHOOSE h : Joins(q, Len(q), h)
           Has(s) == s \in Seq(C) /\ \E k \in 1..Len(s) : s[k] = q[i][j]
           U == {m \in Nat : m + 1 \in 1..Len(q) =>
                    g[m + 1] \in Seq(C) /\ (i <= m + 1 => Has(g[m + 1]))}
<1>1. Len(q) \in Nat \ {0} /\ \A m \in 1..Len(q) : q[m] \in Seq(C)
  OBVIOUS
<1>2. Joins(q, Len(q), g)
  BY <1>1, JoinsExists
<1>3. FlattenSeq(q) = g[Len(q)]
  BY <1>1 DEF FlattenSeq, Joins
<1> HIDE DEF g
<1>4. \A m \in 1..Len(q) : g[m] = IF m = 1 THEN q[m] ELSE g[m - 1] \o q[m]
  BY <1>2 DEF Joins
<1>5. Has(q[i])
  BY <1>1
<1>6. ASSUME NEW s \in Seq(C), NEW t \in Seq(C), Has(s) \/ Has(t) PROVE Has(s \o t)
  <2>1. /\ s \o t \in Seq(C) /\ Len(s) \in Nat /\ Len(t) \in Nat /\ Len(s \o t) = Len(s) + Len(t)
        /\ \A k \in 1..Len(s) : (s \o t)[k] = s[k]
        /\ \A k \in 1..Len(t) : (s \o t)[k + Len(s)] = t[k]
    OBVIOUS
  <2>2. CASE Has(s)
    <3>1. PICK k \in 1..Len(s) : s[k] = q[i][j]
      BY <2>2
    <3>2. k \in 1..Len(s \o t)
      BY <2>1
    <3> QED BY <2>1, <3>1, <3>2
  <2>3. CASE Has(t)
    <3>1. PICK k \in 1..Len(t) : t[k] = q[i][j]
      BY <2>3
    <3>2. k + Len(s) \in 1..Len(s \o t)
      BY <2>1
    <3> QED BY <2>1, <3>1, <3>2
  <2> QED BY <1>6, <2>2, <2>3
<1> HIDE DEF Has
<1>7. 0 \in U
  <2>0. 1 \in 1..Len(q) /\ i \in Int /\ i >= 1
    BY <1>1
  <2>1. g[1] = q[1] /\ (i <= 1 => i = 1)
    BY <1>4, <2>0
  <2> QED BY <1>1, <1>5, <2>1
<1>8. ASSUME NEW m \in Nat, m \in U PROVE m + 1 \in U
  <2> SUFFICES ASSUME m + 2 \in 1..Len(q)
               PROVE  g[m + 2] \in Seq(C) /\ (i <= m + 2 => Has(g[m + 2]))
    OBVIOUS
  <2>1. m + 1 \in 1..Len(q) /\ m + 2 # 1 /\ (m + 2) - 1 = m + 1
    BY <1>1
  <2>2. g[m + 2] = g[m + 1] \o q[m + 2]
    BY <1>4, <2>1
  <2>3. g[m + 1] \in Seq(C) /\ q[m + 2] \in Seq(C) /\ (i <= m + 1 => Has(g[m + 1]))
    BY <1>1, <1>8, <2>1
  <2>4. g[m + 2] \in Seq(C)
    BY <2>2, <2>3
  <2>5. ASSUME i <= m + 2 PROVE Has(g[m + 2])
    <3>1. i <= m + 1 \/ i = m + 2
      BY <2>5
    <3> QED BY <1>5, <1>6, <2>2, <2>3, <3>1
  <2> QED BY <2>4, <2>5
<1>9. Nat \subseteq U
  <2> HIDE DEF U
  <2> QED BY <1>7, <1>8, NatSetInduction
<1>10. Len(q) - 1 \in Nat /\ (Len(q) - 1) + 1 = Len(q) /\ i <= Len(q)
  BY <1>1
<1>11. Has(g[Len(q)])
  <2>1. Len(q) - 1 \in U
    BY <1>9, <1>10
  <2>2. Len(q) \in 1..Len(q)
    BY <1>1
  <2> QED BY <1>10, <2>1, <2>2
<1> QED BY <1>3, <1>11 DEF Has
=============================================================================
