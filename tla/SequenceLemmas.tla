---------------------------- MODULE SequenceLemmas ----------------------------
(***************************************************************************)
(* Induction over the numbers as a statement about sets, and with it the   *)
(* facts about sums, running sums and sorted orders that the proofs about  *)
(* histograms and evaluators share.                                        *)
(***************************************************************************)
EXTENDS Integers, Sequences, SequencesExt, FiniteSetTheorems, SequenceTheorems,
        WellFoundedInduction, TLAPS

\* A set of numbers that has 0 and, with each number, the next one has them all.
LEMMA NumbersInSet ==
  ASSUME NEW T, 0 \in T, \A n \in Nat : n \in T => n + 1 \in T
  PROVE  \A n \in Nat : n \in T
<1> SUFFICES ASSUME NEW k \in Nat, k \notin T PROVE FALSE
  OBVIOUS
<1> DEFINE U == {n \in Nat : n \notin T}
           R == OpToRel(<, Nat)
<1>1. IsWellFoundedOn(R, Nat)
  BY NatLessThanWellFounded
<1>2. PICK m \in U : \A n \in U : ~(<<n, m>> \in R)
  <2>1. U \subseteq Nat /\ U # {}
    OBVIOUS
  <2> HIDE DEF U, R
  <2> QED BY <1>1, <2>1, WFMin
<1>3. m # 0 /\ m - 1 \in U
  <2> HIDE DEF R
  <2>1. m \in Nat /\ m # 0
    OBVIOUS
  <2>2. m - 1 \in Nat /\ (m - 1 \in T => (m - 1) + 1 \in T)
    BY <2>1
  <2> QED BY <2>1, <2>2
<1>4. <<m - 1, m>> \in R
  BY <1>2, <1>3 DEF OpToRel
<1> QED BY <1>2, <1>3, <1>4

\* A set of sequences that has the empty one and, with each sequence, those that are
\* one element longer has them all.
LEMMA SequencesInSet ==
  ASSUME NEW S, NEW T, << >> \in T, \A s \in Seq(S), e \in S : s \in T => Append(s, e) \in T
  PROVE  \A s \in Seq(S) : s \in T
<1> DEFINE N == {n \in Nat : \A s \in Seq(S) : Len(s) = n => s \in T}
<1>1. 0 \in N
  BY EmptySeq
<1>2. ASSUME NEW n \in Nat, n \in N PROVE n + 1 \in N
  <2> SUFFICES ASSUME NEW s \in Seq(S), Len(s) = n + 1 PROVE s \in T
    OBVIOUS
  <2>1. PICK r \in Seq(S), e \in S : s = Append(r, e)
    BY SequenceEmptyOrAppend
  <2>2. Len(s) = Len(r) + 1
    BY <2>1, AppendProperties
  <2>3. Len(r) = n
    BY <2>2
  <2> QED BY <1>2, <2>1, <2>3
<1> HIDE DEF N
<1>3. \A n \in Nat : n \in N
  BY <1>1, <1>2, NumbersInSet
<1>4. ASSUME NEW s \in Seq(S) PROVE s \in T
  <2>1. Len(s) \in N
    BY <1>3
  <2> QED BY <2>1 DEF N
<1> QED BY <1>4

-----------------------------------------------------------------------------
\* The sum of a sequence.
TotalOf(s) == FoldLeft(+, 0, s)

\* It is computed by a function on the sets
\* of its places; Adds(g, s, n) says that g is that function up to place n.
Adds(g, s, n) ==
  g = [U \in SUBSET (1..n) |-> IF U = {} THEN 0 ELSE g[U \ {Max(U)}] + s[Max(U)]]

LEMMA LastPlace ==
  ASSUME NEW n \in Nat, NEW U \in SUBSET (1..n + 1), n + 1 \in U
  PROVE  Max(U) = n + 1 /\ U \ {Max(U)} \in SUBSET (1..n)
<1>1. \A y \in U : y \in Int /\ n + 1 >= y
  OBVIOUS
<1>2. Max(U) \in U /\ \A y \in U : Max(U) >= y
  BY <1>1 DEF Max
<1>3. Max(U) \in Int /\ Max(U) >= n + 1 /\ n + 1 >= Max(U)
  BY <1>1, <1>2
<1>4. Max(U) = n + 1
  BY <1>3
<1> QED BY <1>4

LEMMA AddsExtended ==
  ASSUME NEW s, NEW n \in Nat, NEW g, Adds(g, s, n)
  PROVE  \E h : Adds(h, s, n + 1)
<1> DEFINE D == SUBSET (1..n + 1)
           h == [U \in D |-> IF n + 1 \in U THEN g[U \ {n + 1}] + s[n + 1] ELSE g[U]]
<1>1. ASSUME NEW U \in D
      PROVE  h[U] = IF U = {} THEN 0 ELSE h[U \ {Max(U)}] + s[Max(U)]
  <2>1. CASE n + 1 \in U
    <3>1. Max(U) = n + 1 /\ U \ {n + 1} \in SUBSET (1..n) /\ U # {}
      BY <2>1, LastPlace
    <3>2. U \ {n + 1} \in D /\ n + 1 \notin U \ {n + 1}
      OBVIOUS
    <3>3. h[U \ {n + 1}] = g[U \ {n + 1}] /\ h[U] = g[U \ {n + 1}] + s[n + 1]
      BY <2>1, <3>2
    <3> QED BY <3>1, <3>3
  <2>2. CASE n + 1 \notin U
    <3>1. U \in SUBSET (1..n)
      BY <2>2
    <3>2. U \ {Max(U)} \in D /\ U \ {Max(U)} \in SUBSET (1..n) /\ n + 1 \notin U \ {Max(U)}
      BY <2>2, <3>1
    <3>3. h[U] = g[U] /\ h[U \ {Max(U)}] = g[U \ {Max(U)}]
      BY <2>2, <3>2
    <3>4. g[U] = IF U = {} THEN 0 ELSE g[U \ {Max(U)}] + s[Max(U)]
      BY <3>1 DEF Adds
    <3> QED BY <3>3, <3>4
  <2> QED BY <2>1, <2>2
<1>2. h = [U \in D |-> h[U]]
  OBVIOUS
<1>3. h = [U \in D |-> IF U = {} THEN 0 ELSE h[U \ {Max(U)}] + s[Max(U)]]
  <2> HIDE DEF h
  <2> QED BY <1>1, <1>2
<1>4. Adds(h, s, n + 1)
  <2> HIDE DEF h
  <2> QED BY <1>3 DEF Adds
<1> QED BY <1>4

LEMMA AddsExists == ASSUME NEW s PROVE \A n \in Nat : \E g : Adds(g, s, n)
<1> DEFINE T == {n \in Nat : \E g : Adds(g, s, n)}
<1>1. 0 \in T
  <2> DEFINE g == [U \in SUBSET (1..0) |-> 0]
  <2>1. \A U \in SUBSET (1..0) : U = {}
    OBVIOUS
  <2>2. g = [U \in SUBSET (1..0) |-> IF U = {} THEN 0 ELSE g[U \ {Max(U)}] + s[Max(U)]]
    BY <2>1
  <2>3. Adds(g, s, 0)
    BY <2>2 DEF Adds
  <2> HIDE DEF g
  <2> QED BY <2>3
<1>2. \A n \in Nat : n \in T => n + 1 \in T
  BY AddsExtended
<1> HIDE DEF T
<1>3. \A n \in Nat : n \in T
  BY <1>1, <1>2, NumbersInSet
<1> QED BY <1>3 DEF T

\* Up to place k the function depends on the first k elements only.
LEMMA AddsAgree ==
  ASSUME NEW g, NEW s, NEW l \in Nat, Adds(g, s, l),
         NEW h, NEW t, NEW n \in Nat, Adds(h, t, n),
         l <= n, \A i \in 1..l : s[i] = t[i]
  PROVE  \A U \in SUBSET (1..l) : g[U] = h[U]
<1> DEFINE T == {k \in Nat : k <= l => \A U \in SUBSET (1..k) : g[U] = h[U]}
<1>1. \A U \in SUBSET (1..l) :
        /\ g[U] = IF U = {} THEN 0 ELSE g[U \ {Max(U)}] + s[Max(U)]
        /\ h[U] = IF U = {} THEN 0 ELSE h[U \ {Max(U)}] + t[Max(U)]
  <2>1. SUBSET (1..l) \subseteq SUBSET (1..n)
    OBVIOUS
  <2>2. \A U \in SUBSET (1..l) : g[U] = IF U = {} THEN 0 ELSE g[U \ {Max(U)}] + s[Max(U)]
    BY <2>1 DEF Adds
  <2>3. \A U \in SUBSET (1..l) : h[U] = IF U = {} THEN 0 ELSE h[U \ {Max(U)}] + t[Max(U)]
    BY <2>1 DEF Adds
  <2> QED BY <2>2, <2>3
<1>2. 0 \in T
  <2>1. \A U \in SUBSET (1..0) : U = {} /\ U \in SUBSET (1..l)
    OBVIOUS
  <2> QED BY <1>1, <2>1
<1>3. ASSUME NEW k \in Nat, k \in T, k + 1 <= l, NEW U \in SUBSET (1..k + 1) PROVE g[U] = h[U]
  <2>1. CASE k + 1 \notin U
    <3>1. U \in SUBSET (1..k) /\ k <= l
      BY <1>3, <2>1
    <3> QED BY <1>3, <3>1
  <2>2. CASE k + 1 \in U
    <3>1. Max(U) = k + 1 /\ U \ {Max(U)} \in SUBSET (1..k)
      BY <2>2, LastPlace
    <3>2. U \in SUBSET (1..l) /\ U # {} /\ k + 1 \in 1..l /\ k <= l
      BY <1>3, <2>2
    <3>3. g[U \ {Max(U)}] = h[U \ {Max(U)}] /\ s[k + 1] = t[k + 1]
      BY <1>3, <3>1, <3>2
    <3> QED BY <1>1, <3>1, <3>2, <3>3
  <2> QED BY <2>1, <2>2
<1>4. \A k \in Nat : k \in T => k + 1 \in T
  BY <1>3
<1> HIDE DEF T
<1>5. l \in T
  BY <1>2, <1>4, NumbersInSet
<1> QED BY <1>5 DEF T

LEMMA SumIsAdded ==
  ASSUME NEW s, NEW n \in Nat, DOMAIN s = 1..n
  PROVE  \E g : Adds(g, s, n) /\ TotalOf(s) = g[1..n]
<1> DEFINE g == CHOOSE h : Adds(h, s, n)
<1>1. Adds(g, s, n)
  BY AddsExists
<1>2. TotalOf(s) = g[1..n]
  BY DEF TotalOf, FoldLeft, MapThenFoldSet, Adds
<1> QED BY <1>1, <1>2

\* The sum of nothing, and what the last element adds to the sum.
LEMMA SumOfNone == ASSUME NEW s, DOMAIN s = 1..0 PROVE TotalOf(s) = 0
<1>1. PICK g : Adds(g, s, 0) /\ TotalOf(s) = g[1..0]
  BY SumIsAdded
<1>2. 1..0 = {}
  OBVIOUS
<1> QED BY <1>1, <1>2 DEF Adds

LEMMA SumOfNext ==
  ASSUME NEW n \in Nat, NEW s, DOMAIN s = 1..n, NEW t, DOMAIN t = 1..n + 1,
         \A i \in 1..n : t[i] = s[i]
  PROVE  TotalOf(t) = TotalOf(s) + t[n + 1]
<1>0. n + 1 \in Nat /\ n <= n + 1 /\ 1..n \in SUBSET (1..n)
  OBVIOUS
<1>1. PICK g : Adds(g, s, n) /\ TotalOf(s) = g[1..n]
  BY SumIsAdded
<1>2. PICK h : Adds(h, t, n + 1) /\ TotalOf(t) = h[1..n + 1]
  BY <1>0, SumIsAdded
<1>3. g[1..n] = h[1..n]
  <2>1. Adds(g, s, n) /\ Adds(h, t, n + 1) /\ \A i \in 1..n : s[i] = t[i]
    BY <1>1, <1>2
  <2>2. \A U \in SUBSET (1..n) : g[U] = h[U]
    BY <1>0, <2>1, AddsAgree
  <2> QED BY <1>0, <2>2
<1>4. n + 1 \in 1..n + 1 /\ 1..n + 1 \in SUBSET (1..n + 1) /\ (1..n + 1) \ {n + 1} = 1..n
  OBVIOUS
<1>5. Max(1..n + 1) = n + 1
  BY <1>4, LastPlace
<1>6. h[1..n + 1] = h[(1..n + 1) \ {Max(1..n + 1)}] + t[Max(1..n + 1)]
  BY <1>2, <1>4 DEF Adds
<1>7. TotalOf(t) = h[1..n] + t[n + 1]
  BY <1>2, <1>4, <1>5, <1>6
<1> QED BY <1>1, <1>3, <1>7

LEMMA TotalOfNone == TotalOf(<< >>) = 0
<1>1. DOMAIN << >> = 1..0
  OBVIOUS
<1> QED BY <1>1, SumOfNone

LEMMA TotalOfAppended ==
  ASSUME NEW S, NEW s \in Seq(S), NEW v \in S
  PROVE  TotalOf(Append(s, v)) = TotalOf(s) + v
<1>1. PICK n \in Nat : n = Len(s)
  OBVIOUS
<1>2. PICK t : t = Append(s, v)
  OBVIOUS
<1>3. /\ DOMAIN s = 1..n /\ DOMAIN t = 1..n + 1 /\ t[n + 1] = v
      /\ \A i \in 1..n : t[i] = s[i]
  <2>1. /\ t \in Seq(S) /\ Len(t) = n + 1 /\ t[n + 1] = v
        /\ \A i \in 1..n : t[i] = s[i]
    BY <1>1, <1>2, AppendProperties
  <2> QED BY <1>1, <2>1
<1>4. TotalOf(t) = TotalOf(s) + t[n + 1]
  BY <1>3, SumOfNext
<1> QED BY <1>2, <1>3, <1>4

LEMMA TotalIsNumber == \A s \in Seq(Int) : TotalOf(s) \in Int
<1> DEFINE T == {s \in Seq(Int) : TotalOf(s) \in Int}
<1>1. << >> \in T
  BY TotalOfNone
<1>2. ASSUME NEW s \in Seq(Int), NEW e \in Int, s \in T PROVE Append(s, e) \in T
  <2>1. Append(s, e) \in Seq(Int) /\ TotalOf(Append(s, e)) = TotalOf(s) + e
    BY AppendProperties, TotalOfAppended
  <2> QED BY <1>2, <2>1
<1> HIDE DEF T
<1>3. \A s \in Seq(Int) : s \in T
  BY <1>1, <1>2, SequencesInSet
<1> QED BY <1>3 DEF T

LEMMA TotalOfEqual ==
  ASSUME NEW c \in Int
  PROVE  \A s \in Seq(Int) : (\A i \in 1..Len(s) : s[i] = c) => TotalOf(s) = Len(s) * c
<1> DEFINE T == {s \in Seq(Int) : (\A i \in 1..Len(s) : s[i] = c) => TotalOf(s) = Len(s) * c}
<1>1. << >> \in T
  BY TotalOfNone
<1>2. ASSUME NEW s \in Seq(Int), NEW e \in Int, s \in T PROVE Append(s, e) \in T
  <2>1. PICK t \in Seq(Int) : /\ t = Append(s, e) /\ Len(t) = Len(s) + 1 /\ t[Len(s) + 1] = e
                              /\ \A i \in 1..Len(s) : t[i] = s[i]
    <3>1. PICK t : t = Append(s, e)
      OBVIOUS
    <3>2. /\ t \in Seq(Int) /\ Len(t) = Len(s) + 1 /\ t[Len(s) + 1] = e
          /\ \A i \in 1..Len(s) : t[i] = s[i]
      BY <3>1, AppendProperties
    <3> QED BY <3>1, <3>2
  <2>2. TotalOf(t) = TotalOf(s) + e
    BY <2>1, TotalOfAppended
  <2>3. ASSUME \A i \in 1..Len(t) : t[i] = c PROVE TotalOf(t) = Len(t) * c
    <3>1. PICK n \in Nat : n = Len(s)
      OBVIOUS
    <3>2. e = c /\ \A i \in 1..n : s[i] = c
      BY <2>1, <2>3, <3>1
    <3>3. TotalOf(s) = n * c
      BY <1>2, <3>1, <3>2
    <3>4. (n + 1) * c = n * c + c
      OBVIOUS
    <3> QED BY <2>1, <2>2, <3>1, <3>2, <3>3, <3>4
  <2> QED BY <2>1, <2>3
<1> HIDE DEF T
<1>3. \A s \in Seq(Int) : s \in T
  BY <1>1, <1>2, SequencesInSet
<1> QED BY <1>3 DEF T

-----------------------------------------------------------------------------
\* The running sums of a sequence, as a recursive function of the place.
Accumulates(c, s, n) == c = [i \in 1..n |-> s[i] + IF i = 1 THEN 0 ELSE c[i - 1]]

LEMMA RunningSums == ASSUME NEW s PROVE \A n \in Nat : \E c : Accumulates(c, s, n)
<1> DEFINE T == {n \in Nat : \E c : Accumulates(c, s, n)}
<1>1. 0 \in T
  <2> DEFINE c == [i \in 1..0 |-> 0]
  <2>1. c = [i \in 1..0 |-> s[i] + IF i = 1 THEN 0 ELSE c[i - 1]]
    OBVIOUS
  <2>2. Accumulates(c, s, 0)
    BY <2>1 DEF Accumulates
  <2> HIDE DEF c
  <2> QED BY <2>2
<1>2. ASSUME NEW n \in Nat, n \in T PROVE n + 1 \in T
  <2>1. PICK c : Accumulates(c, s, n)
    BY <1>2
  <2> DEFINE D == 1..n + 1
             e == [i \in D |-> IF i = n + 1 THEN s[i] + IF i = 1 THEN 0 ELSE c[i - 1] ELSE c[i]]
  <2>2. ASSUME NEW i \in D PROVE e[i] = s[i] + IF i = 1 THEN 0 ELSE e[i - 1]
    <3>1. CASE i = n + 1
      <4>1. CASE i = 1
        BY <3>1, <4>1
      <4>2. CASE i # 1
        <5>1. i - 1 \in D /\ i - 1 # n + 1
          BY <3>1, <4>2
        <5> QED BY <3>1, <4>2, <5>1
      <4> QED BY <4>1, <4>2
    <3>2. CASE i # n + 1
      <4>1. i \in 1..n /\ c[i] = s[i] + IF i = 1 THEN 0 ELSE c[i - 1]
        BY <2>1, <3>2 DEF Accumulates
      <4>2. CASE i = 1
        BY <3>2, <4>1, <4>2
      <4>3. CASE i # 1
        <5>1. i - 1 \in D /\ i - 1 # n + 1
          BY <4>1, <4>3
        <5> QED BY <3>2, <4>1, <4>3, <5>1
      <4> QED BY <4>2, <4>3
    <3> QED BY <3>1, <3>2
  <2>3. e = [i \in D |-> e[i]]
    OBVIOUS
  <2>4. e = [i \in D |-> s[i] + IF i = 1 THEN 0 ELSE e[i - 1]]
    <3> HIDE DEF e
    <3> QED BY <2>2, <2>3
  <2>5. Accumulates(e, s, n + 1)
    <3> HIDE DEF e
    <3> QED BY <2>4 DEF Accumulates
  <2> QED BY <2>5
<1> HIDE DEF T
<1>3. \A n \in Nat : n \in T
  BY <1>1, <1>2, NumbersInSet
<1> QED BY <1>3 DEF T

\* Larger elements have larger running sums.  The first l elements are numbers, and
\* those of s are not larger than those of t.
NoLarger(s, t, l) == \A i \in 1..l : s[i] \in Int /\ t[i] \in Int /\ s[i] <= t[i]

LEMMA RunningSumsGrow ==
  ASSUME NEW n \in Nat, NEW l \in Nat, l <= n,
         NEW s, NEW c, Accumulates(c, s, n), NEW t, NEW d, Accumulates(d, t, n),
         NoLarger(s, t, l)
  PROVE  NoLarger(c, d, l)
<1> USE DEF NoLarger
<1> DEFINE T == {k \in Nat : k + 1 \in 1..l =>
                   c[k + 1] \in Int /\ d[k + 1] \in Int /\ c[k + 1] <= d[k + 1]}
<1>1. ASSUME NEW i \in 1..l
      PROVE  /\ c[i] = s[i] + IF i = 1 THEN 0 ELSE c[i - 1]
             /\ d[i] = t[i] + IF i = 1 THEN 0 ELSE d[i - 1]
  <2>1. i \in 1..n
    OBVIOUS
  <2> QED BY <2>1 DEF Accumulates
<1>2. 0 \in T
  BY <1>1
<1>3. ASSUME NEW k \in Nat, k \in T PROVE k + 1 \in T
  <2> SUFFICES ASSUME k + 2 \in 1..l
               PROVE  c[k + 2] \in Int /\ d[k + 2] \in Int /\ c[k + 2] <= d[k + 2]
    <3>1. (k + 1) + 1 = k + 2
      OBVIOUS
    <3> QED BY <3>1
  <2>1. k + 1 \in 1..l /\ k + 2 # 1 /\ (k + 2) - 1 = k + 1
    OBVIOUS
  <2>2. c[k + 1] \in Int /\ d[k + 1] \in Int /\ c[k + 1] <= d[k + 1]
    BY <1>3, <2>1
  <2>3. c[k + 2] = s[k + 2] + c[k + 1] /\ d[k + 2] = t[k + 2] + d[k + 1]
    BY <1>1, <2>1
  <2> QED BY <2>2, <2>3
<1> HIDE DEF T
<1>4. \A k \in Nat : k \in T
  BY <1>2, <1>3, NumbersInSet
<1>5. ASSUME NEW i \in 1..l PROVE c[i] \in Int /\ d[i] \in Int /\ c[i] <= d[i]
  <2>1. i - 1 \in Nat /\ (i - 1) + 1 = i
    OBVIOUS
  <2>2. i - 1 \in T
    BY <1>4, <2>1
  <2> QED BY <2>1, <2>2 DEF T
<1> QED BY <1>5

\* The i-th sum of elements that do not exceed b does not exceed i times b.
LEMMA RunningSumsBounded ==
  ASSUME NEW n \in Nat, NEW l \in Nat, l <= n, NEW s, NEW c, Accumulates(c, s, n),
         NEW b \in Nat, \A i \in 1..l : s[i] \in Int /\ s[i] <= b
  PROVE  \A i \in 1..l : c[i] \in Int /\ c[i] <= b * i
<1> DEFINE t == [i \in 1..n |-> b]
           d == [i \in 1..n |-> b * i]
<1>1. ASSUME NEW i \in 1..n PROVE d[i] = t[i] + IF i = 1 THEN 0 ELSE d[i - 1]
  <2>1. CASE i = 1
    BY <2>1
  <2>2. CASE i # 1
    <3>1. i - 1 \in 1..n /\ b * i = b + b * (i - 1)
      BY <2>2
    <3> QED BY <2>2, <3>1
  <2> QED BY <2>1, <2>2
<1>2. Accumulates(d, t, n)
  <2>1. d = [i \in 1..n |-> d[i]]
    OBVIOUS
  <2> HIDE DEF d, t
  <2> QED BY <1>1, <2>1 DEF Accumulates
<1>3. NoLarger(s, t, l)
  BY DEF NoLarger
<1>4. \A i \in 1..l : d[i] = b * i
  OBVIOUS
<1> HIDE DEF d, t
<1>5. NoLarger(c, d, l)
  BY <1>2, <1>3, RunningSumsGrow
<1> QED BY <1>4, <1>5 DEF NoLarger
-----------------------------------------------------------------------------
\* p lists the places of s by the size of what is there.
InOrder(p, s, n) ==
  /\ p \in [1..n -> 1..n]
  /\ \A i, j \in 1..n : p[i] = p[j] => i = j
  /\ \A k \in 1..n : \E i \in 1..n : p[i] = k
  /\ \A i, j \in 1..n : i < j => s[p[i]] <= s[p[j]]

LEMMA LargestElement ==
  ASSUME NEW s
  PROVE  \A n \in Nat : (\A i \in 1..n + 1 : s[i] \in Int)
                          => \E m \in 1..n + 1 : \A i \in 1..n + 1 : s[i] <= s[m]
<1> DEFINE T == {n \in Nat : (\A i \in 1..n + 1 : s[i] \in Int)
                               => \E m \in 1..n + 1 : \A i \in 1..n + 1 : s[i] <= s[m]}
<1>1. 0 \in T
  OBVIOUS
<1>2. ASSUME NEW n \in Nat, n \in T, \A i \in 1..(n + 1) + 1 : s[i] \in Int
      PROVE  \E m \in 1..(n + 1) + 1 : \A i \in 1..(n + 1) + 1 : s[i] <= s[m]
  <2>1. PICK m \in 1..n + 1 : \A i \in 1..n + 1 : s[i] <= s[m]
    BY <1>2
  <2>2. \A i \in 1..(n + 1) + 1 : i \in 1..n + 1 \/ i = n + 2
    OBVIOUS
  <2>3. m \in 1..(n + 1) + 1 /\ n + 2 \in 1..(n + 1) + 1
    OBVIOUS
  <2>4. CASE s[n + 2] <= s[m]
    BY <2>1, <2>2, <2>3, <2>4
  <2>5. CASE ~(s[n + 2] <= s[m])
    <3>1. \A i \in 1..(n + 1) + 1 : s[i] <= s[n + 2]
      BY <1>2, <2>1, <2>2, <2>3, <2>5
    <3> QED BY <2>3, <3>1
  <2> QED BY <2>4, <2>5
<1>3. \A n \in Nat : n \in T => n + 1 \in T
  BY <1>2
<1> HIDE DEF T
<1>4. \A n \in Nat : n \in T
  BY <1>1, <1>3, NumbersInSet
<1> QED BY <1>4 DEF T

\* Put the largest element last and order the others.
LEMMA OrderExtended ==
  ASSUME NEW n \in Nat,
         \A s : (\A i \in 1..n : s[i] \in Int) => \E p : InOrder(p, s, n),
         NEW s, \A i \in 1..n + 1 : s[i] \in Int
  PROVE  \E p : InOrder(p, s, n + 1)
<1>1. PICK m \in 1..n + 1 : \A i \in 1..n + 1 : s[i] <= s[m]
  BY LargestElement
<1> DEFINE other == [i \in 1..n |-> IF i = m THEN n + 1 ELSE i]
           t == [i \in 1..n |-> s[other[i]]]
<1>2. \A i \in 1..n : other[i] \in 1..n + 1 /\ other[i] # m
  BY <1>1
<1>3. \A i, j \in 1..n : other[i] = other[j] => i = j
  OBVIOUS
<1>4. \A k \in 1..n + 1 : k # m => \E i \in 1..n : other[i] = k
  <2> SUFFICES ASSUME NEW k \in 1..n + 1, k # m PROVE \E i \in 1..n : other[i] = k
    OBVIOUS
  <2>1. CASE k = n + 1
    <3>1. m \in 1..n /\ other[m] = k
      BY <1>1, <2>1
    <3> QED BY <3>1
  <2>2. CASE k # n + 1
    <3>1. k \in 1..n /\ other[k] = k
      BY <2>2
    <3> QED BY <3>1
  <2> QED BY <2>1, <2>2
<1>5. \A i \in 1..n : t[i] \in Int /\ t[i] = s[other[i]]
  BY <1>2
<1> HIDE DEF other, t
<1>6. PICK p : InOrder(p, t, n)
  BY <1>5
<1> DEFINE q == [i \in 1..n + 1 |-> IF i = n + 1 THEN m ELSE other[p[i]]]
<1>7. \A i \in 1..n + 1 : i \in 1..n \/ i = n + 1
  OBVIOUS
<1>8. q[n + 1] = m /\ \A i \in 1..n : p[i] \in 1..n /\ q[i] = other[p[i]]
  <2>1. n + 1 \in 1..n + 1 /\ \A i \in 1..n : i \in 1..n + 1 /\ i # n + 1
    OBVIOUS
  <2>2. \A i \in 1..n : p[i] \in 1..n
    BY <1>6 DEF InOrder
  <2> QED BY <2>1, <2>2
<1>9. q \in [1..n + 1 -> 1..n + 1]
  BY <1>2, <1>7, <1>8
<1> HIDE DEF q
<1>10. \A i, j \in 1..n + 1 : q[i] = q[j] => i = j
  <2>1. \A i \in 1..n : q[i] # m
    BY <1>2, <1>8
  <2>2. \A i, j \in 1..n : q[i] = q[j] => p[i] = p[j]
    BY <1>3, <1>8
  <2>3. \A i, j \in 1..n : q[i] = q[j] => i = j
    BY <1>6, <2>2 DEF InOrder
  <2> QED BY <1>7, <1>8, <2>1, <2>3
<1>11. ASSUME NEW k \in 1..n + 1 PROVE \E i \in 1..n + 1 : q[i] = k
  <2>1. CASE k = m
    <3>1. n + 1 \in 1..n + 1
      OBVIOUS
    <3> QED BY <1>8, <2>1, <3>1
  <2>2. CASE k # m
    <3>1. PICK j \in 1..n : other[j] = k
      BY <1>4, <2>2
    <3>2. PICK i \in 1..n : p[i] = j
      BY <1>6 DEF InOrder
    <3>3. i \in 1..n + 1 /\ q[i] = k
      BY <1>8, <3>1, <3>2
    <3> QED BY <3>3
  <2> QED BY <2>1, <2>2
<1>12. ASSUME NEW i \in 1..n + 1, NEW j \in 1..n + 1, i < j PROVE s[q[i]] <= s[q[j]]
  <2>1. i \in 1..n
    BY <1>12
  <2>2. CASE j = n + 1
    BY <1>1, <1>8, <1>9, <2>2
  <2>3. CASE j # n + 1
    <3>1. j \in 1..n
      BY <2>3
    <3>2. t[p[i]] <= t[p[j]]
      BY <1>6, <1>12, <2>1, <3>1 DEF InOrder
    <3> QED BY <1>5, <1>8, <2>1, <3>1, <3>2
  <2> QED BY <2>2, <2>3
<1> QED BY <1>9, <1>10, <1>11, <1>12 DEF InOrder

\* Every sequence of integers can be sorted.
LEMMA SortedOrderExists ==
  ASSUME NEW n \in Nat, NEW s, \A i \in 1..n : s[i] \in Int
  PROVE  \E p : InOrder(p, s, n)
<1> DEFINE T == {k \in Nat : \A r : (\A i \in 1..k : r[i] \in Int) => \E p : InOrder(p, r, k)}
<1>1. 0 \in T
  <2>1. ASSUME NEW r PROVE InOrder([i \in 1..0 |-> 0], r, 0)
    BY DEF InOrder
  <2> QED BY <2>1
<1>2. ASSUME NEW k \in Nat, k \in T PROVE k + 1 \in T
  <2>1. \A t : (\A i \in 1..k : t[i] \in Int) => \E p : InOrder(p, t, k)
    BY <1>2
  <2>2. ASSUME NEW t, \A i \in 1..k + 1 : t[i] \in Int PROVE \E p : InOrder(p, t, k + 1)
    BY <2>1, <2>2, OrderExtended
  <2> QED BY <2>2
<1> HIDE DEF T
<1>3. n \in T
  BY <1>1, <1>2, NumbersInSet
<1> QED BY <1>3 DEF T

\* How many of the first n elements are smaller than x, and how many not larger.
Below(s, n, x) == Cardinality({m \in 1..n : s[m] < x})
NotAbove(s, n, x) == Cardinality({m \in 1..n : s[m] <= x})

\* The element at rank r: fewer than r elements are smaller, and at least r are
\* not larger.
LEMMA RankedElement ==
  ASSUME NEW n \in Nat, NEW s, \A i \in 1..n : s[i] \in Int,
         NEW p, InOrder(p, s, n), NEW r \in 1..n
  PROVE  /\ Below(s, n, s[p[r]]) \in Nat /\ Below(s, n, s[p[r]]) < r
         /\ NotAbove(s, n, s[p[r]]) \in Nat /\ r <= NotAbove(s, n, s[p[r]])
<1> DEFINE smaller == {m \in 1..n : s[m] < s[p[r]]}
           upTo == {m \in 1..n : s[m] <= s[p[r]]}
           image == {p[i] : i \in 1..r - 1}
           f == [i \in 1..r - 1 |-> p[i]]
           g == [i \in 1..r |-> p[i]]
<1>1. /\ IsFiniteSet(1..n) /\ IsFiniteSet(1..r - 1) /\ IsFiniteSet(1..r)
      /\ Cardinality(1..r - 1) = r - 1 /\ Cardinality(1..r) = r
  BY FS_Interval
<1>2. \A i \in 1..n : p[i] \in 1..n /\ s[p[i]] \in Int
  BY DEF InOrder
<1>3. IsFiniteSet(smaller) /\ IsFiniteSet(upTo)
  <2>1. smaller \in SUBSET (1..n) /\ upTo \in SUBSET (1..n)
    OBVIOUS
  <2> HIDE DEF smaller, upTo
  <2> QED BY <1>1, <2>1, FS_Subset
<1>4. smaller \subseteq image
  <2> SUFFICES ASSUME NEW m \in 1..n, s[m] < s[p[r]] PROVE \E i \in 1..r - 1 : m = p[i]
    OBVIOUS
  <2>1. PICK i \in 1..n : p[i] = m
    BY DEF InOrder
  <2>2. s[p[i]] \in Int /\ s[p[r]] \in Int /\ s[p[i]] < s[p[r]]
    BY <1>2, <2>1
  <2>3. r < i => s[p[r]] <= s[p[i]]
    BY DEF InOrder
  <2>4. i \in 1..r - 1
    BY <2>2, <2>3
  <2> QED BY <2>1, <2>4
<1>5. f \in Surjection(1..r - 1, image)
  BY DEF Surjection
<1>6. IsFiniteSet(image) /\ Cardinality(image) <= r - 1
  <2> HIDE DEF f, image
  <2> QED BY <1>1, <1>5, FS_Surjection
<1>7. Cardinality(smaller) \in Nat /\ Cardinality(smaller) <= r - 1
  <2> HIDE DEF smaller, image
  <2>1. Cardinality(smaller) <= Cardinality(image)
    BY <1>4, <1>6, FS_Subset
  <2>2. Cardinality(smaller) \in Nat /\ Cardinality(image) \in Nat
    BY <1>3, <1>6, FS_CardinalityType
  <2> QED BY <1>6, <2>1, <2>2
<1>8. g \in Injection(1..r, upTo)
  <2>1. \A i \in 1..r : i \in 1..n /\ p[i] \in upTo
    <3> SUFFICES ASSUME NEW i \in 1..r PROVE i \in 1..n /\ s[p[i]] <= s[p[r]]
      BY <1>2
    <3>1. i \in 1..n /\ (i < r \/ i = r)
      OBVIOUS
    <3>2. s[p[i]] \in Int /\ s[p[r]] \in Int
      BY <1>2, <3>1
    <3>3. i < r => s[p[i]] <= s[p[r]]
      BY <3>1 DEF InOrder
    <3> QED BY <3>1, <3>2, <3>3
  <2>2. \A i, j \in 1..r : p[i] = p[j] => i = j
    BY <2>1 DEF InOrder
  <2> HIDE DEF upTo
  <2>3. g \in [1..r -> upTo]
    BY <2>1
  <2>4. \A i, j \in 1..r : g[i] = g[j] => i = j
    BY <2>2
  <2> HIDE DEF g
  <2> QED BY <2>3, <2>4 DEF Injection, IsInjective
<1>9. Cardinality(upTo) \in Nat /\ r <= Cardinality(upTo)
  <2> HIDE DEF g, upTo
  <2>1. Cardinality(1..r) <= Cardinality(upTo)
    BY <1>3, <1>8, FS_Injection
  <2> QED BY <1>1, <1>3, <2>1, FS_CardinalityType
<1> HIDE DEF smaller, upTo
<1>10. Cardinality(smaller) < r
  BY <1>7
<1> QED BY <1>7, <1>9, <1>10 DEF smaller, upTo, Below, NotAbove
===============================================================================
