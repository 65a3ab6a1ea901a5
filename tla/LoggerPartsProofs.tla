----------------------------- MODULE LoggerPartsProofs -----------------------------
(***************************************************************************)
(* The parts of a logger that threads and tasks use at once.  First how    *)
(* far the unlocked buffer of the no-op transport can stray from its       *)
(* bound, for any number of threads and any max_size; then traces and      *)
(* spans, for any number of tasks, ids and nested spans.                   *)
(***************************************************************************)
EXTENDS NoopTransport, TraceContext, SequenceTheorems, FiniteSetTheorems, TLAPS

\* A thread past the length test stays owed a place: places taken plus places
\* owed never fall below max_size again once the test has found it full.
StaysFull == (raised \/ \E t \in Threads : step[t] = "pop")
               => Len(buffer) + Cardinality(Appending) >= OverflowMax

IInv == TypeOK /\ NearlyBounded /\ KeepsNewest /\ Len(buffer) <= appended
          /\ StaysFull /\ PopRaisesOnlyWhenOutnumbered

\* One thread starts or ends an append.
LEMMA Counting ==
  ASSUME NoopAssumption, TypeOK
  PROVE  /\ IsFiniteSet(Appending) /\ Cardinality(Appending) \in Nat
         /\ Cardinality(Threads) \in Nat
         /\ Cardinality(Appending) <= Cardinality(Threads)
         /\ \A t \in Threads : step[t] # "append"
              => Cardinality(Appending) < Cardinality(Threads)
<1>1. Appending \subseteq Threads /\ IsFiniteSet(Threads)
  BY DEF Appending, NoopAssumption
<1>2. /\ IsFiniteSet(Appending) /\ Cardinality(Appending) <= Cardinality(Threads)
      /\ Cardinality(Threads) \in Nat /\ Cardinality(Appending) \in Nat
  BY <1>1, FS_Subset, FS_CardinalityType
<1>3. ASSUME NEW t \in Threads, step[t] # "append"
      PROVE  Cardinality(Appending) < Cardinality(Threads)
  <2>1. t \notin Appending /\ t \in Threads
    BY <1>3 DEF Appending
  <2>2. Appending # Threads
    BY <2>1
  <2> QED BY <1>1, <1>2, <2>2, FS_Subset
<1> QED BY <1>2, <1>3

LEMMA StartAppend ==
  ASSUME NoopAssumption, TypeOK, NEW t \in Threads, step[t] # "append",
         step' = [step EXCEPT ![t] = "append"]
  PROVE  Cardinality(Appending') = Cardinality(Appending) + 1
<1>1. Appending' = Appending \cup {t} /\ t \notin Appending
  BY DEF Appending, TypeOK
<1> QED BY <1>1, Counting, FS_AddElement

LEMMA EndAppend ==
  ASSUME NoopAssumption, TypeOK, NEW t \in Threads, step[t] = "append",
         step' = [step EXCEPT ![t] = "idle"]
  PROVE  Cardinality(Appending') = Cardinality(Appending) - 1
<1>1. Appending' = Appending \ {t} /\ t \in Appending
  BY DEF Appending, TypeOK
<1> QED BY <1>1, Counting, FS_RemoveElement

LEMMA SameAppend ==
  ASSUME TypeOK, NEW t \in Threads, NEW s \in {"idle", "pop"}, step[t] # "append",
         step' = [step EXCEPT ![t] = s]
  PROVE  Appending' = Appending
BY DEF Appending, TypeOK

LEMMA InitIInv == NoopAssumption /\ Init => IInv
<1> SUFFICES ASSUME NoopAssumption, Init PROVE IInv
  OBVIOUS
<1>1. Len(buffer) = 0 /\ buffer \in Seq(Nat) /\ OverflowMax \in Nat /\ OverflowMax > 0
  BY EmptySeq DEF Init, NoopAssumption
<1>2. TypeOK
  BY <1>1 DEF Init, TypeOK
<1>3. Appending = {}
  BY DEF Init, Appending
<1>4. Cardinality(Appending) = 0 /\ Cardinality(Threads) \in Nat
  BY <1>2, <1>3, FS_EmptySet, Counting
<1> QED BY <1>1, <1>2, <1>4 DEF Init, IInv, NearlyBounded, KeepsNewest, StaysFull,
                                  PopRaisesOnlyWhenOutnumbered

LEMMA TestIInv == ASSUME NoopAssumption, IInv, NEW t \in Threads, Test(t) PROVE IInv'
<1>1. /\ TypeOK /\ Len(buffer) \in Nat /\ OverflowMax \in Nat /\ appended \in Nat
      /\ buffer' = buffer /\ appended' = appended /\ raised' = raised /\ step[t] # "append"
  BY LenProperties DEF IInv, TypeOK, Test, NoopAssumption
<1>2. /\ Cardinality(Appending) \in Nat /\ Cardinality(Threads) \in Nat
      /\ Cardinality(Appending) < Cardinality(Threads)
  BY <1>1, Counting
<1>3. TypeOK' /\ KeepsNewest' /\ Len(buffer') <= appended' /\ PopRaisesOnlyWhenOutnumbered'
  BY <1>1 DEF IInv, TypeOK, Test, KeepsNewest, PopRaisesOnlyWhenOutnumbered
<1>4. CASE Full
  <2>1. step' = [step EXCEPT ![t] = "pop"]
    BY <1>4 DEF Test
  <2>2. Appending' = Appending
    BY <2>1, <1>1, SameAppend
  <2>3. StaysFull'
    BY <2>2, <1>1, <1>2, <1>4 DEF StaysFull, Full
  <2>4. NearlyBounded'
    BY <2>2, <1>1 DEF IInv, NearlyBounded
  <2> QED BY <2>3, <2>4, <1>3 DEF IInv
<1>5. CASE ~Full
  <2>1. step' = [step EXCEPT ![t] = "append"]
    BY <1>5 DEF Test
  <2>2. Cardinality(Appending') = Cardinality(Appending) + 1
    BY <2>1, <1>1, StartAppend
  <2>3. (\E u \in Threads : step'[u] = "pop") => \E u \in Threads : step[u] = "pop"
    BY <2>1, <1>1 DEF TypeOK
  <2>4. StaysFull'
    BY <2>2, <2>3, <1>1, <1>2 DEF IInv, StaysFull
  <2>5. Len(buffer) < OverflowMax
    BY <1>1, <1>5 DEF Full
  <2>6. NearlyBounded'
    BY <2>2, <2>5, <1>1, <1>2 DEF NearlyBounded
  <2> QED BY <2>4, <2>6, <1>3 DEF IInv
<1> QED BY <1>4, <1>5

LEMMA PopIInv == ASSUME NoopAssumption, IInv, NEW t \in Threads, Pop(t) PROVE IInv'
<1>1. /\ TypeOK /\ Len(buffer) \in Nat /\ OverflowMax \in Nat /\ appended \in Nat
      /\ appended' = appended /\ step[t] = "pop" /\ buffer \in Seq(Nat)
      /\ Len(buffer) <= appended
  BY LenProperties DEF IInv, TypeOK, Pop, NoopAssumption
<1>2. /\ Cardinality(Appending) \in Nat /\ Cardinality(Threads) \in Nat
      /\ Cardinality(Appending) < Cardinality(Threads)
  BY <1>1, Counting
<1>3. Len(buffer) + Cardinality(Appending) >= OverflowMax
  BY <1>1 DEF IInv, StaysFull
<1>4. CASE buffer = << >>
  <2>1. step' = [step EXCEPT ![t] = "idle"] /\ raised' = TRUE /\ buffer' = buffer
    BY <1>4 DEF Pop
  <2>2. Appending' = Appending
    BY <2>1, <1>1, SameAppend
  <2>3. Cardinality(Threads) > OverflowMax
    BY <1>2, <1>3, <1>4, <1>1, EmptySeq
  <2>4. TypeOK' /\ KeepsNewest' /\ Len(buffer') <= appended' /\ PopRaisesOnlyWhenOutnumbered'
    BY <2>1, <2>3, <1>1 DEF IInv, TypeOK, Pop, KeepsNewest, PopRaisesOnlyWhenOutnumbered
  <2>5. StaysFull' /\ NearlyBounded'
    BY <2>1, <2>2, <1>3 DEF IInv, StaysFull, NearlyBounded
  <2> QED BY <2>4, <2>5 DEF IInv
<1>5. CASE buffer # << >>
  <2>1. step' = [step EXCEPT ![t] = "append"] /\ raised' = raised /\ buffer' = Tail(buffer)
    BY <1>5 DEF Pop
  <2>2. /\ buffer' \in Seq(Nat) /\ Len(buffer') = Len(buffer) - 1
        /\ \A i \in 1..Len(buffer') : buffer'[i] = buffer[i + 1]
    BY <2>1, <1>1, <1>5, HeadTailProperties
  <2>3. Cardinality(Appending') = Cardinality(Appending) + 1
    BY <2>1, <1>1, StartAppend
  <2>4. Len(buffer') + Cardinality(Appending') = Len(buffer) + Cardinality(Appending)
    BY <2>2, <2>3, <1>1, <1>2
  <2>5. StaysFull' /\ NearlyBounded'
    BY <2>4, <1>3 DEF IInv, StaysFull, NearlyBounded
  <2>6. KeepsNewest'
    <3> SUFFICES ASSUME NEW i \in 1..Len(buffer')
                 PROVE  buffer'[i] = appended - Len(buffer') + i
      BY <1>1 DEF KeepsNewest
    <3>1. buffer'[i] = buffer[i + 1] /\ i + 1 \in 1..Len(buffer)
      BY <2>2, <1>1
    <3>2. buffer[i + 1] = appended - Len(buffer) + (i + 1)
      BY <3>1 DEF IInv, KeepsNewest
    <3> QED BY <3>1, <3>2, <2>2, <1>1
  <2>7. TypeOK' /\ Len(buffer') <= appended' /\ PopRaisesOnlyWhenOutnumbered'
    BY <2>1, <2>2, <1>1 DEF IInv, TypeOK, Pop, PopRaisesOnlyWhenOutnumbered
  <2> QED BY <2>5, <2>6, <2>7 DEF IInv
<1> QED BY <1>4, <1>5

LEMMA StoreIInv == ASSUME NoopAssumption, IInv, NEW t \in Threads, Store(t) PROVE IInv'
<1>1. /\ TypeOK /\ Len(buffer) \in Nat /\ OverflowMax \in Nat /\ appended \in Nat
      /\ appended' = appended + 1 /\ step[t] = "append" /\ buffer \in Seq(Nat)
      /\ Len(buffer) <= appended /\ raised' = raised
      /\ step' = [step EXCEPT ![t] = "idle"] /\ buffer' = Append(buffer, appended + 1)
  BY LenProperties DEF IInv, TypeOK, Store, NoopAssumption
<1>2. Cardinality(Appending) \in Nat /\ Cardinality(Appending') = Cardinality(Appending) - 1
  BY <1>1, Counting, EndAppend
<1>3. appended + 1 \in Nat
  BY <1>1
<1>4. /\ buffer' \in Seq(Nat) /\ Len(buffer') = Len(buffer) + 1
      /\ \A i \in 1..Len(buffer) : buffer'[i] = buffer[i]
      /\ buffer'[Len(buffer) + 1] = appended + 1
  BY <1>1, <1>3, AppendProperties
<1>5. Len(buffer') + Cardinality(Appending') = Len(buffer) + Cardinality(Appending)
  BY <1>1, <1>2, <1>4
<1>6. (\E u \in Threads : step'[u] = "pop") => \E u \in Threads : step[u] = "pop"
  BY <1>1 DEF TypeOK
<1>7. StaysFull' /\ NearlyBounded'
  BY <1>1, <1>5, <1>6 DEF IInv, StaysFull, NearlyBounded
<1>8. KeepsNewest'
  <2> SUFFICES ASSUME NEW i \in 1..Len(buffer) + 1
               PROVE  buffer'[i] = appended + 1 - (Len(buffer) + 1) + i
    BY <1>1, <1>4 DEF KeepsNewest
  <2>1. CASE i \in 1..Len(buffer)
    <3>1. buffer'[i] = buffer[i] /\ buffer[i] = appended - Len(buffer) + i
      BY <2>1, <1>4 DEF IInv, KeepsNewest
    <3> QED BY <3>1, <1>1
  <2>2. CASE i = Len(buffer) + 1
    BY <2>2, <1>1, <1>4
  <2> QED BY <2>1, <2>2, <1>1
<1>9. TypeOK' /\ Len(buffer') <= appended' /\ PopRaisesOnlyWhenOutnumbered'
  BY <1>1, <1>3, <1>4 DEF IInv, TypeOK, Store, PopRaisesOnlyWhenOutnumbered
<1> QED BY <1>7, <1>8, <1>9 DEF IInv

\* The inductive invariant holds throughout.
THEOREM Invariance == Spec => []IInv
<1>1. Init => IInv
  BY InitIInv, NoopAssumption
<1>2. IInv /\ [Next]_vars => IInv'
  <2> SUFFICES ASSUME IInv, [Next]_vars PROVE IInv'
    OBVIOUS
  <2>1. ASSUME NEW t \in Threads, Test(t) \/ Pop(t) \/ Store(t) PROVE IInv'
    BY <2>1, TestIInv, PopIInv, StoreIInv, NoopAssumption
  <2>2. CASE UNCHANGED vars
    BY <2>2 DEF vars, IInv, TypeOK, NearlyBounded, KeepsNewest, StaysFull, Appending,
                PopRaisesOnlyWhenOutnumbered
  <2> QED BY <2>1, <2>2 DEF Next
<1> QED BY <1>1, <1>2, PTL DEF Spec

\* The unlocked buffer exceeds max_size by at most the number of threads less one.
THEOREM NoopNearlyBounded == Spec => []NearlyBounded
<1>1. IInv => NearlyBounded
  BY DEF IInv
<1> QED BY <1>1, Invariance, PTL

\* What it keeps is always the newest events, in the order of their append.
THEOREM NoopKeepsNewest == Spec => []KeepsNewest
<1>1. IInv => KeepsNewest
  BY DEF IInv
<1> QED BY <1>1, Invariance, PTL

\* A log call raises only when more threads than max_size log at once.
THEOREM NoopPopRaises == Spec => []PopRaisesOnlyWhenOutnumbered
<1>1. IInv => PopRaisesOnlyWhenOutnumbered
  BY DEF IInv
<1> QED BY <1>1, Invariance, PTL

-----------------------------------------------------------------------------
\* The trace around a task's i-th span.
Around(t, i) == IF i = 1 THEN home[t] ELSE open[t][i - 1].ids.trace

\* It is what leaving the span restores, and a span always has one.
Nested ==
  \A t \in Tasks : \A i \in 1..Len(open[t]) :
    open[t][i].was.trace = Around(t, i) /\ open[t][i].ids.trace # NoId

\* TraceStays says so of the place behind the innermost span.
Innermost(t) == ctx[t].trace = Around(t, Len(open[t]) + 1)

TraceInv == TraceTypeOK /\ Nested /\ \A t \in Tasks : Innermost(t)

\* The ids that tasks have, or will have again.
Has(p) == \E t \in Tasks : \/ p = ctx[t]
                           \/ \E i \in 1..Len(open[t]) : p = open[t][i].ids \/ p = open[t][i].was

SpanInv ==
  /\ TraceTypeOK /\ NoId \in given
  /\ \A p \in Ids : Has(p) => p.span <= lastId /\ (p.trace = NoId => p.span \in given)
  /\ \A p, q \in Ids :
       (Has(p) /\ Has(q) /\ p.span = q.span /\ p.span \notin given) => p.trace = q.trace

-----------------------------------------------------------------------------
LEMMA Given ==
  ASSUME TraceTypeOK, NEW t \in Tasks
  PROVE  /\ lastId \in Nat /\ ctx[t] \in Ids /\ ctx[t].trace \in Nat /\ ctx[t].span \in Nat
         /\ TraceIdOf(t) \in Nat /\ LastWithTrace(t) \in Nat
         /\ LastWithTrace(t) >= lastId /\ LastWithTrace(t) <= lastId + 1
         /\ TraceIdOf(t) # NoId
         /\ HomeWithTrace(t) \in [Tasks -> Nat]
         /\ open[t] \in Seq([ids : Ids, was : Ids]) /\ Len(open[t]) \in Nat
<1>1. lastId \in Nat /\ ctx[t] \in Ids /\ home \in [Tasks -> Nat]
      /\ open[t] \in Seq([ids : Ids, was : Ids])
  BY DEF TraceTypeOK
<1>2. ctx[t].trace \in Nat /\ ctx[t].span \in Nat
  BY <1>1 DEF Ids
<1>3. Len(open[t]) \in Nat
  BY <1>1, LenProperties
<1> QED BY <1>1, <1>2, <1>3 DEF TraceIdOf, LastWithTrace, HomeWithTrace, NewTrace, NoId

\* Entering a span.
LEMMA Entered ==
  ASSUME TraceTypeOK, NEW t \in Tasks, NEW found \in Ids, NEW ids \in Ids, Enter(t, found, ids)
  PROVE  /\ ctx' \in [Tasks -> Ids] /\ ctx'[t] = ids
         /\ open' \in [Tasks -> Seq([ids : Ids, was : Ids])]
         /\ Len(open'[t]) = Len(open[t]) + 1
         /\ open'[t][Len(open[t]) + 1] = [ids |-> ids, was |-> found]
         /\ \A i \in 1..Len(open[t]) : open'[t][i] = open[t][i]
         /\ \A u \in Tasks \ {t} : ctx'[u] = ctx[u] /\ open'[u] = open[u]
<1> DEFINE e == [ids |-> ids, was |-> found]
<1>1. e \in [ids : Ids, was : Ids] /\ open[t] \in Seq([ids : Ids, was : Ids])
  BY DEF TraceTypeOK
<1>2. /\ Append(open[t], e) \in Seq([ids : Ids, was : Ids])
      /\ Len(Append(open[t], e)) = Len(open[t]) + 1
      /\ Append(open[t], e)[Len(open[t]) + 1] = e
      /\ \A i \in 1..Len(open[t]) : Append(open[t], e)[i] = open[t][i]
  BY <1>1, AppendProperties
<1>3. open' = [open EXCEPT ![t] = Append(open[t], e)] /\ ctx' = [ctx EXCEPT ![t] = ids]
  BY DEF Enter
<1>4. open'[t] = Append(open[t], e) /\ ctx'[t] = ids
  BY <1>3 DEF TraceTypeOK
<1> HIDE DEF e
<1>5. open' \in [Tasks -> Seq([ids : Ids, was : Ids])] /\ ctx' \in [Tasks -> Ids]
  BY <1>2, <1>3 DEF TraceTypeOK
<1>6. \A u \in Tasks \ {t} : ctx'[u] = ctx[u] /\ open'[u] = open[u]
  BY <1>3 DEF TraceTypeOK
<1> QED BY <1>2, <1>4, <1>5, <1>6 DEF e

\* Leaving one.
LEMMA Left ==
  ASSUME TraceTypeOK, NEW t \in Tasks, Exit(t)
  PROVE  /\ ctx' \in [Tasks -> Ids] /\ ctx'[t] = open[t][Len(open[t])].was
         /\ open' \in [Tasks -> Seq([ids : Ids, was : Ids])]
         /\ Len(open[t]) \in Nat \ {0} /\ Len(open'[t]) = Len(open[t]) - 1
         /\ \A i \in 1..Len(open[t]) - 1 : open'[t][i] = open[t][i]
         /\ \A u \in Tasks \ {t} : ctx'[u] = ctx[u] /\ open'[u] = open[u]
<1> DEFINE s == open[t]
<1>1. s \in Seq([ids : Ids, was : Ids]) /\ s # << >>
  BY DEF TraceTypeOK, Exit
<1>2. Len(s) \in Nat \ {0} /\ s \in [1..Len(s) -> [ids : Ids, was : Ids]]
  BY <1>1, LenProperties, EmptySeq
<1>3. s[Len(s)].was \in Ids
  <2>1. Len(s) \in 1..Len(s)
    BY <1>2
  <2>2. s[Len(s)] \in [ids : Ids, was : Ids]
    BY <1>2, <2>1
  <2> QED BY <2>2
<1>4. /\ SubSeq(s, 1, Len(s) - 1) \in Seq([ids : Ids, was : Ids])
      /\ Len(SubSeq(s, 1, Len(s) - 1)) = Len(s) - 1
      /\ \A i \in 1..Len(s) - 1 : SubSeq(s, 1, Len(s) - 1)[i] = s[i]
  <2> DEFINE n == Len(s) - 1
  <2>1. n \in Nat /\ n \in Int /\ 1 \in Int
    BY <1>2
  <2>2. \A i \in 1..n : s[i] \in [ids : Ids, was : Ids]
    BY <1>2, <2>1
  <2> HIDE DEF n
  <2>3. /\ SubSeq(s, 1, n) \in Seq([ids : Ids, was : Ids])
        /\ Len(SubSeq(s, 1, n)) = IF 1 <= n THEN n - 1 + 1 ELSE 0
        /\ \A i \in 1..n - 1 + 1 : SubSeq(s, 1, n)[i] = s[1 + i - 1]
    BY <2>1, <2>2, SubSeqProperties
  <2>4. /\ Len(SubSeq(s, 1, n)) = n
        /\ \A i \in 1..n : SubSeq(s, 1, n)[i] = s[i]
    BY <2>1, <2>3
  <2> QED BY <2>3, <2>4 DEF n
<1>5. /\ open' = [open EXCEPT ![t] = SubSeq(s, 1, Len(s) - 1)]
      /\ ctx' = [ctx EXCEPT ![t] = s[Len(s)].was]
  BY DEF Exit, Leave
<1>6. open'[t] = SubSeq(s, 1, Len(s) - 1) /\ ctx'[t] = s[Len(s)].was
  BY <1>5 DEF TraceTypeOK
<1>7. \A u \in Tasks \ {t} : ctx'[u] = ctx[u] /\ open'[u] = open[u]
  BY <1>5 DEF TraceTypeOK
<1>8. open' \in [Tasks -> Seq([ids : Ids, was : Ids])] /\ ctx' \in [Tasks -> Ids]
  BY <1>3, <1>4, <1>5 DEF TraceTypeOK
<1> QED BY <1>2, <1>4, <1>6, <1>7, <1>8

\* The trace of the innermost span, in the words of TraceStays.
LEMMA InvImpliesStays == TraceInv => TraceStays
<1> SUFFICES ASSUME TraceInv, NEW t \in Tasks
             PROVE  ctx[t].trace = IF open[t] = << >> THEN home[t]
                                   ELSE open[t][Len(open[t])].ids.trace
  BY DEF TraceStays
<1>1. ctx[t].trace = Around(t, Len(open[t]) + 1) /\ Len(open[t]) \in Nat
      /\ open[t] \in Seq([ids : Ids, was : Ids])
  BY Given DEF TraceInv, Innermost
<1>2. CASE open[t] = << >>
  <2>1. Len(open[t]) = 0
    BY <1>2
  <2> QED BY <1>1, <1>2, <2>1 DEF Around
<1>3. CASE open[t] # << >>
  <2>1. Len(open[t]) \in Nat \ {0}
    BY <1>1, <1>3, EmptySeq
  <2>2. Len(open[t]) + 1 # 1 /\ Len(open[t]) + 1 - 1 = Len(open[t])
    BY <2>1
  <2> QED BY <1>1, <1>3, <2>2 DEF Around
<1> QED BY <1>2, <1>3

\* A task without a trace is in no span.
LEMMA NoTraceNoSpan ==
  ASSUME TraceInv, NEW t \in Tasks, ctx[t].trace = NoId
  PROVE  Len(open[t]) = 0
<1>1. Len(open[t]) \in Nat /\ ctx[t].trace = Around(t, Len(open[t]) + 1)
  BY Given DEF TraceInv, Innermost
<1>2. CASE Len(open[t]) # 0
  <2>1. Len(open[t]) \in 1..Len(open[t]) /\ Len(open[t]) + 1 # 1
        /\ Len(open[t]) + 1 - 1 = Len(open[t])
    BY <1>1, <1>2
  <2>2. open[t][Len(open[t])].ids.trace # NoId
    BY <2>1 DEF TraceInv, Nested
  <2> QED BY <1>1, <2>1, <2>2 DEF Around
<1> QED BY <1>2

\* A step that leaves the spans alone keeps TraceInv if a task whose trace
\* changes is in no span and the trace becomes its home.
LEMMA SameSpans ==
  ASSUME TraceInv, open' = open, lastId' \in Nat, given' \subseteq Nat,
         ctx' \in [Tasks -> Ids], home' \in [Tasks -> Nat],
         \A u \in Tasks : \/ ctx'[u].trace = ctx[u].trace /\ home'[u] = home[u]
                          \/ Len(open[u]) = 0 /\ ctx'[u].trace = home'[u]
  PROVE  TraceInv'
<1>1. TraceTypeOK'
  BY DEF TraceInv, TraceTypeOK
<1>2. \A u \in Tasks : Len(open[u]) \in Nat
  BY Given DEF TraceInv
<1>3. ASSUME NEW u \in Tasks, NEW i \in 1..Len(open[u])
      PROVE  open[u][i].was.trace = Around(u, i)' /\ open[u][i].ids.trace # NoId
  <2>1. Len(open[u]) # 0
    BY <1>2, <1>3
  <2>2. home'[u] = home[u]
    BY <2>1
  <2> QED BY <1>3, <2>2 DEF TraceInv, Nested, Around
<1>4. ASSUME NEW u \in Tasks PROVE Innermost(u)'
  <2>1. CASE ctx'[u].trace = ctx[u].trace /\ home'[u] = home[u]
    BY <2>1 DEF TraceInv, Innermost, Around
  <2>2. CASE Len(open[u]) = 0 /\ ctx'[u].trace = home'[u]
    BY <2>2 DEF Innermost, Around
  <2> QED BY <2>1, <2>2
<1> QED BY <1>1, <1>3, <1>4 DEF TraceInv, Nested

\* Entering a span keeps TraceInv if the trace found is that of the place.
LEMMA EnterInv ==
  ASSUME TraceInv, NEW t \in Tasks, NEW found \in Ids, NEW ids \in Ids, Enter(t, found, ids),
         lastId' \in Nat, given' \subseteq Nat, home' \in [Tasks -> Nat], ids.trace # NoId,
         \A u \in Tasks : home'[u] = home[u] \/ (u = t /\ Len(open[t]) = 0),
         found.trace = IF Len(open[t]) = 0 THEN home'[t] ELSE ctx[t].trace
  PROVE  TraceInv'
<1>1. /\ ctx' \in [Tasks -> Ids] /\ ctx'[t] = ids
      /\ open' \in [Tasks -> Seq([ids : Ids, was : Ids])]
      /\ Len(open'[t]) = Len(open[t]) + 1
      /\ open'[t][Len(open[t]) + 1] = [ids |-> ids, was |-> found]
      /\ \A i \in 1..Len(open[t]) : open'[t][i] = open[t][i]
      /\ \A u \in Tasks \ {t} : ctx'[u] = ctx[u] /\ open'[u] = open[u]
  BY Entered DEF TraceInv
<1>2. TraceTypeOK'
  BY <1>1 DEF TraceTypeOK
<1>3. \A u \in Tasks : Len(open[u]) \in Nat
  BY Given DEF TraceInv
<1>4. ASSUME NEW u \in Tasks \ {t}
      PROVE  /\ Innermost(u)'
             /\ \A i \in 1..Len(open'[u]) :
                  open'[u][i].was.trace = Around(u, i)' /\ open'[u][i].ids.trace # NoId
  <2>1. ctx'[u] = ctx[u] /\ open'[u] = open[u] /\ home'[u] = home[u] /\ u \in Tasks
    BY <1>1, <1>4
  <2> QED BY <2>1 DEF TraceInv, Nested, Innermost, Around
<1>5. ASSUME NEW i \in 1..Len(open[t])
      PROVE  open'[t][i].was.trace = Around(t, i)' /\ open'[t][i].ids.trace # NoId
  <2>0. Len(open[t]) # 0
    BY <1>3, <1>5
  <2>1. home'[t] = home[t] /\ open'[t][i] = open[t][i]
    BY <1>1, <1>5, <2>0
  <2>2. i # 1 => i - 1 \in 1..Len(open[t])
    BY <1>3, <1>5
  <2>3. i # 1 => open'[t][i - 1] = open[t][i - 1]
    BY <1>1, <2>2
  <2> QED BY <1>5, <2>1, <2>3, SMTT(20) DEF TraceInv, Nested, Around
<1>6. PICK n \in Nat : n = Len(open[t])
  BY <1>3
<1>7. open'[t][n + 1].was.trace = Around(t, n + 1)' /\ open'[t][n + 1].ids.trace # NoId
  <2>1. CASE n = 0
    BY <1>1, <1>6, <2>1 DEF Around
  <2>2. CASE n # 0
    <3>1. n \in 1..Len(open[t]) /\ n + 1 # 1 /\ n + 1 - 1 = n
      BY <1>6, <2>2
    <3>2. found.trace = open[t][n].ids.trace
      BY <1>6, <2>2, <3>1 DEF TraceInv, Innermost, Around
    <3>3. open'[t][n] = open[t][n]
      BY <1>1, <3>1
    <3> QED BY <1>1, <1>6, <3>1, <3>2, <3>3 DEF Around
  <2> QED BY <2>1, <2>2
<1>8. Innermost(t)'
  <2>1. Len(open'[t]) + 1 # 1 /\ Len(open'[t]) + 1 - 1 = n + 1
    BY <1>1, <1>6
  <2> QED BY <1>1, <1>6, <2>1 DEF Innermost, Around
<1>10. ASSUME NEW i \in 1..Len(open'[t])
       PROVE  open'[t][i].was.trace = Around(t, i)' /\ open'[t][i].ids.trace # NoId
  <2>1. i \in 1..Len(open[t]) \/ i = n + 1
    BY <1>1, <1>6, <1>10
  <2> QED BY <1>5, <1>7, <2>1
<1>9. Nested'
  BY <1>4, <1>10 DEF Nested
<1> QED BY <1>2, <1>4, <1>8, <1>9 DEF TraceInv

LEMMA ExitInv == ASSUME TraceInv, NEW t \in Tasks, Exit(t) PROVE TraceInv'
<1> DEFINE n == Len(open[t])
<1>1. /\ ctx' \in [Tasks -> Ids] /\ ctx'[t] = open[t][n].was
      /\ open' \in [Tasks -> Seq([ids : Ids, was : Ids])]
      /\ n \in Nat \ {0} /\ Len(open'[t]) = n - 1
      /\ \A i \in 1..n - 1 : open'[t][i] = open[t][i]
      /\ \A u \in Tasks \ {t} : ctx'[u] = ctx[u] /\ open'[u] = open[u]
  BY Left DEF TraceInv
<1>2. lastId' = lastId /\ home' = home /\ given' = given
  BY DEF Exit
<1>3. TraceTypeOK'
  BY <1>1, <1>2 DEF TraceInv, TraceTypeOK
<1>4. ASSUME NEW u \in Tasks \ {t}
      PROVE  /\ Innermost(u)'
             /\ \A i \in 1..Len(open'[u]) :
                  open'[u][i].was.trace = Around(u, i)' /\ open'[u][i].ids.trace # NoId
  <2>1. ctx'[u] = ctx[u] /\ open'[u] = open[u] /\ home'[u] = home[u] /\ u \in Tasks
    BY <1>1, <1>2, <1>4
  <2> QED BY <2>1 DEF TraceInv, Nested, Innermost, Around
<1>5. ASSUME NEW i \in 1..n
      PROVE  Around(t, i)' = Around(t, i)
  <2>1. i # 1 => i - 1 \in 1..n - 1
    BY <1>1, <1>5
  <2> QED BY <1>1, <1>2, <2>1 DEF Around
<1>6. \A i \in 1..Len(open'[t]) :
        open'[t][i].was.trace = Around(t, i)' /\ open'[t][i].ids.trace # NoId
  <2> SUFFICES ASSUME NEW i \in 1..Len(open'[t])
               PROVE  open'[t][i].was.trace = Around(t, i)' /\ open'[t][i].ids.trace # NoId
    OBVIOUS
  <2>1. i \in 1..n - 1 /\ i \in 1..n
    BY <1>1
  <2>2. open'[t][i] = open[t][i]
    BY <1>1, <2>1
  <2> QED BY <1>5, <2>1, <2>2 DEF TraceInv, Nested
<1>7. Innermost(t)'
  <2>1. n \in 1..n /\ Len(open'[t]) + 1 = n
    BY <1>1
  <2>2. open[t][n].was.trace = Around(t, n)
    BY <2>1 DEF TraceInv, Nested
  <2> QED BY <1>1, <1>5, <2>1, <2>2 DEF Innermost
<1> QED BY <1>3, <1>4, <1>6, <1>7 DEF TraceInv, Nested

-----------------------------------------------------------------------------
LEMMA InitTraceInv == TraceInit => TraceInv
<1> SUFFICES ASSUME TraceInit PROVE TraceInv
  OBVIOUS
<1>1. Empty \in Ids /\ 0 \in Nat /\ NoId \in Nat /\ Empty.trace = NoId
  BY DEF Empty, Ids, NoId
<1>2. << >> \in Seq([ids : Ids, was : Ids]) /\ \A t \in Tasks : Len(open[t]) = 0
  BY EmptySeq DEF TraceInit
<1>3. TraceTypeOK
  BY <1>1, <1>2 DEF TraceInit, TraceTypeOK
<1>4. Nested
  BY <1>2 DEF Nested
<1>5. ASSUME NEW t \in Tasks PROVE Innermost(t)
  <2>1. Len(open[t]) + 1 = 1 /\ ctx[t].trace = NoId /\ home[t] = NoId
    BY <1>1, <1>2 DEF TraceInit
  <2> QED BY <2>1 DEF Innermost, Around
<1> QED BY <1>3, <1>4, <1>5 DEF TraceInv

\* What get_trace_id() does to a task's trace and its home.
LEMMA WithTrace ==
  ASSUME TraceInv, NEW t \in Tasks
  PROVE  /\ \A u \in Tasks \ {t} : HomeWithTrace(t)[u] = home[u]
         /\ IF ctx[t].trace = NoId THEN HomeWithTrace(t)[t] = TraceIdOf(t) /\ Len(open[t]) = 0
            ELSE HomeWithTrace(t) = home /\ TraceIdOf(t) = ctx[t].trace
BY NoTraceNoSpan DEF HomeWithTrace, TraceIdOf, NewTrace, TraceInv, TraceTypeOK

LEMMA EnsureIdsInv == ASSUME TraceInv, NEW t \in Tasks, EnsureIds(t) PROVE TraceInv'
<1>1. /\ TraceTypeOK /\ lastId \in Nat /\ ctx[t].span \in Nat /\ TraceIdOf(t) \in Nat
      /\ LastWithTrace(t) \in Nat /\ HomeWithTrace(t) \in [Tasks -> Nat]
  BY Given DEF TraceInv
<1>2. PICK sp \in Nat : ctx' = [ctx EXCEPT ![t] = [trace |-> TraceIdOf(t), span |-> sp]]
  <2> DEFINE s == IF ctx[t].span = NoId THEN LastWithTrace(t) + 1 ELSE ctx[t].span
  <2>1. s \in Nat
    BY <1>1
  <2>2. ctx' = [ctx EXCEPT ![t] = [trace |-> TraceIdOf(t), span |-> s]]
    BY DEF EnsureIds
  <2> QED BY <2>1, <2>2
<1>3. [trace |-> TraceIdOf(t), span |-> sp] \in Ids
  BY <1>1 DEF Ids
<1>4. ctx' \in [Tasks -> Ids] /\ ctx'[t].trace = TraceIdOf(t)
      /\ \A u \in Tasks \ {t} : ctx'[u] = ctx[u]
  BY <1>1, <1>2, <1>3 DEF TraceTypeOK
<1>5. lastId' \in Nat /\ open' = open /\ home' = HomeWithTrace(t) /\ given' \subseteq Nat
  BY <1>1 DEF EnsureIds, TraceInv, TraceTypeOK
<1> QED BY <1>1, <1>4, <1>5, WithTrace, SameSpans

LEMMA EnsureTraceInv == ASSUME TraceInv, NEW t \in Tasks, EnsureTrace(t) PROVE TraceInv'
<1>1. /\ TraceTypeOK /\ ctx[t].span \in Nat /\ TraceIdOf(t) \in Nat /\ ctx[t] \in Ids
      /\ LastWithTrace(t) \in Nat /\ HomeWithTrace(t) \in [Tasks -> Nat]
  BY Given DEF TraceInv
<1>2. [ctx[t] EXCEPT !.trace = TraceIdOf(t)] \in Ids
      /\ [ctx[t] EXCEPT !.trace = TraceIdOf(t)].trace = TraceIdOf(t)
  BY <1>1 DEF Ids
<1>3. ctx' = [ctx EXCEPT ![t] = [ctx[t] EXCEPT !.trace = TraceIdOf(t)]]
  BY DEF EnsureTrace
<1>4. ctx' \in [Tasks -> Ids] /\ ctx'[t].trace = TraceIdOf(t)
      /\ \A u \in Tasks \ {t} : ctx'[u] = ctx[u]
  BY <1>1, <1>2, <1>3 DEF TraceTypeOK
<1>5. lastId' \in Nat /\ open' = open /\ home' = HomeWithTrace(t) /\ given' \subseteq Nat
  BY <1>1 DEF EnsureTrace, TraceInv, TraceTypeOK
<1> QED BY <1>1, <1>4, <1>5, WithTrace, SameSpans

LEMMA NewSpanInv == ASSUME TraceInv, NEW t \in Tasks, NewSpan(t) PROVE TraceInv'
<1> DEFINE ids == [trace |-> TraceIdOf(t), span |-> LastWithTrace(t) + 1]
<1>1. /\ TraceIdOf(t) \in Nat /\ LastWithTrace(t) \in Nat /\ TraceIdOf(t) # NoId
      /\ HomeWithTrace(t) \in [Tasks -> Nat] /\ Len(open[t]) \in Nat
  BY Given DEF TraceInv
<1>2. ids \in Ids /\ ids.trace = TraceIdOf(t) /\ ids.span \in Nat
  BY <1>1 DEF Ids
<1>3. Enter(t, ids, ids) /\ lastId' = ids.span /\ home' = HomeWithTrace(t)
  BY DEF NewSpan
<1> HIDE DEF ids
<1>4. ids.trace = IF Len(open[t]) = 0 THEN home'[t] ELSE ctx[t].trace
  <2>1. CASE ctx[t].trace = NoId
    BY <1>2, <1>3, <2>1, WithTrace
  <2>2. CASE ctx[t].trace # NoId
    <3>1. home'[t] = home[t] /\ TraceIdOf(t) = ctx[t].trace
      BY <1>3, <2>2, WithTrace
    <3>2. Len(open[t]) = 0 => ctx[t].trace = home[t]
      BY DEF TraceInv, Innermost, Around
    <3> QED BY <1>2, <3>1, <3>2
  <2> QED BY <2>1, <2>2
<1>5. ASSUME NEW u \in Tasks PROVE home'[u] = home[u] \/ (u = t /\ Len(open[t]) = 0)
  <2>1. CASE u # t
    BY <1>3, <1>5, <2>1, WithTrace
  <2>2. CASE u = t
    BY <1>3, <1>5, <2>2, WithTrace
  <2> QED BY <2>1, <2>2
<1>6. given' \subseteq Nat
  BY DEF NewSpan, TraceInv, TraceTypeOK
<1> QED BY <1>1, <1>2, <1>3, <1>4, <1>5, <1>6, EnterInv

LEMMA ChildSpanInv ==
  ASSUME TraceInv, NEW t \in Tasks, NEW i \in 1..Len(open[t]), ChildSpan(t, i)
  PROVE  TraceInv'
<1> DEFINE ids == [trace |-> open[t][i].ids.trace, span |-> lastId + 1]
<1>1. /\ lastId \in Nat /\ ctx[t] \in Ids /\ open[t] \in Seq([ids : Ids, was : Ids])
      /\ Len(open[t]) \in Nat /\ home \in [Tasks -> Nat]
  BY Given DEF TraceInv, TraceTypeOK
<1>2. open[t][i].ids.trace \in Nat
  <2>1. open[t][i] \in [ids : Ids, was : Ids]
    BY <1>1, ElementOfSeq
  <2>2. open[t][i].ids \in Ids
    BY <2>1
  <2> QED BY <2>2 DEF Ids
<1>3. ids \in Ids /\ ids.trace = open[t][i].ids.trace /\ ids.span \in Nat
  BY <1>1, <1>2 DEF Ids
<1>4. Enter(t, ctx[t], ids) /\ lastId' = ids.span /\ home' = home
  BY DEF ChildSpan
<1> HIDE DEF ids
<1>5. ids.trace # NoId
  BY <1>3 DEF TraceInv, Nested
<1>6. ctx[t].trace = IF Len(open[t]) = 0 THEN home'[t] ELSE ctx[t].trace
  BY <1>4 DEF TraceInv, Innermost, Around
<1>7. lastId' \in Nat /\ home' \in [Tasks -> Nat] /\ \A u \in Tasks : home'[u] = home[u]
  BY <1>1, <1>3, <1>4
<1>8. PICK found \in Ids, in \in Ids : found = ctx[t] /\ in = ids
  BY <1>1, <1>3
<1>9. Enter(t, found, in)
  BY <1>4, <1>8 DEF Enter
<1>10. given' \subseteq Nat
  BY DEF ChildSpan, TraceInv, TraceTypeOK
<1> QED BY <1>1, <1>3, <1>4, <1>5, <1>6, <1>7, <1>8, <1>9, <1>10, EnterInv

\* The ids of a remote span.
LEMMA RemoteIds ==
  ASSUME lastId \in Nat, NEW t \in Tasks, NEW trace \in Nat, NEW span \in Nat,
         RemoteSpan(t, trace, span)
  PROVE  \E ids \in Ids :
           /\ Enter(t, ctx[t], ids) /\ ids.trace # NoId
           /\ lastId' \in Nat /\ lastId' >= lastId /\ ids.span <= lastId'
           /\ ids.span \in given' \/ ids.span > lastId
           /\ given' = given \cup {span} /\ home' = home
<1> DEFINE first == IF trace = NoId THEN lastId + 1 ELSE trace
           new == Later(first, lastId) + 1
           second == IF span = NoId THEN new ELSE span
           ids == [trace |-> first, span |-> second]
<1>1. first \in Nat /\ first # NoId
  BY DEF NoId
<1>2. Later(first, lastId) \in Nat /\ Later(first, lastId) >= lastId
  BY <1>1 DEF Later
<1>3. second \in Nat /\ (span = NoId => second > lastId) /\ (span # NoId => second = span)
  BY <1>2
<1>4. /\ Enter(t, ctx[t], ids) /\ lastId' = Later(second, Later(first, lastId))
      /\ given' = given \cup {span} /\ home' = home
  BY DEF RemoteSpan
<1> HIDE DEF first, new, second
<1>5. lastId' \in Nat /\ lastId' >= lastId /\ second <= lastId'
  BY <1>2, <1>3, <1>4 DEF Later
<1>6. ids \in Ids /\ ids.trace = first /\ ids.span = second
  BY <1>1, <1>3 DEF Ids
<1>7. ids.span \in given' \/ ids.span > lastId
  BY <1>3, <1>4, <1>6
<1> HIDE DEF ids
<1> QED BY <1>1, <1>4, <1>5, <1>6, <1>7

LEMMA RemoteSpanInv ==
  ASSUME TraceInv, NEW t \in Tasks, NEW trace \in Nat, NEW span \in Nat,
         RemoteSpan(t, trace, span)
  PROVE  TraceInv'
<1>1. lastId \in Nat /\ ctx[t] \in Ids /\ Len(open[t]) \in Nat /\ home \in [Tasks -> Nat]
      /\ given \subseteq Nat
  BY Given DEF TraceInv, TraceTypeOK
<1>2. PICK ids \in Ids :
        /\ Enter(t, ctx[t], ids) /\ ids.trace # NoId /\ lastId' \in Nat
        /\ given' = given \cup {span} /\ home' = home
  BY <1>1, RemoteIds
<1>3. ctx[t].trace = IF Len(open[t]) = 0 THEN home'[t] ELSE ctx[t].trace
  BY <1>2 DEF TraceInv, Innermost, Around
<1>4. home' \in [Tasks -> Nat] /\ given' \subseteq Nat /\ \A u \in Tasks : home'[u] = home[u]
  BY <1>1, <1>2
<1>5. PICK found \in Ids : found = ctx[t]
  BY <1>1
<1>6. Enter(t, found, ids)
  BY <1>2, <1>5
<1> QED BY <1>1, <1>2, <1>3, <1>4, <1>5, <1>6, EnterInv

LEMMA ResetInv == ASSUME TraceInv, NEW t \in Tasks, Reset(t) PROVE TraceInv'
<1>1. Empty \in Ids /\ Empty.trace = NoId /\ NoId \in Nat
  BY DEF Empty, Ids, NoId
<1>2. Len(open[t]) = 0 /\ open' = open /\ lastId' \in Nat /\ given' \subseteq Nat
  BY DEF Reset, TraceInv, TraceTypeOK
<1>3. ctx' \in [Tasks -> Ids] /\ home' \in [Tasks -> Nat] /\ ctx'[t].trace = home'[t]
      /\ \A u \in Tasks \ {t} : ctx'[u] = ctx[u] /\ home'[u] = home[u]
  BY <1>1 DEF Reset, TraceInv, TraceTypeOK
<1> QED BY <1>2, <1>3, SameSpans

\* And those that set_trace_context() sets.
LEMMA SetIds ==
  ASSUME lastId \in Nat, NEW t \in Tasks, NEW trace \in Nat, NEW span \in Nat,
         SetContext(t, trace, span)
  PROVE  \E ids \in Ids :
           /\ ids.trace = trace /\ ids.span = span /\ ctx' = [ctx EXCEPT ![t] = ids]
           /\ lastId' \in Nat /\ lastId' >= lastId /\ span <= lastId'
<1> DEFINE ids == [trace |-> trace, span |-> span]
<1>1. ids \in Ids /\ ids.trace = trace /\ ids.span = span
  BY DEF Ids
<1>2. ctx' = [ctx EXCEPT ![t] = ids] /\ lastId' = Later(span, Later(trace, lastId))
  BY DEF SetContext
<1>3. Later(trace, lastId) \in Nat /\ Later(trace, lastId) >= lastId
  BY DEF Later
<1>4. lastId' \in Nat /\ lastId' >= lastId /\ span <= lastId'
  BY <1>2, <1>3 DEF Later
<1> HIDE DEF ids
<1> QED BY <1>1, <1>2, <1>4

LEMMA SetContextInv ==
  ASSUME TraceInv, NEW t \in Tasks, NEW trace \in Nat, NEW span \in Nat,
         SetContext(t, trace, span)
  PROVE  TraceInv'
<1>1. lastId \in Nat /\ given \subseteq Nat
  BY DEF TraceInv, TraceTypeOK
<1>2. PICK ids \in Ids :
        ids.trace = trace /\ ctx' = [ctx EXCEPT ![t] = ids] /\ lastId' \in Nat
  BY <1>1, SetIds
<1>3. /\ home' = [home EXCEPT ![t] = trace] /\ Len(open[t]) = 0 /\ open' = open
      /\ given' \subseteq Nat
  BY <1>1 DEF SetContext
<1>4. ctx' \in [Tasks -> Ids] /\ home' \in [Tasks -> Nat] /\ ctx'[t].trace = home'[t]
      /\ \A u \in Tasks \ {t} : ctx'[u] = ctx[u] /\ home'[u] = home[u]
  BY <1>2, <1>3 DEF TraceInv, TraceTypeOK
<1> QED BY <1>2, <1>3, <1>4, SameSpans

LEMMA SpawnInv ==
  ASSUME TraceInv, NEW t \in Tasks, NEW u \in Tasks, Spawn(t, u)
  PROVE  TraceInv'
<1>1. ctx[t] \in Ids /\ ctx[t].trace \in Nat
  BY Given DEF TraceInv
<1>2. Len(open[u]) = 0 /\ open' = open /\ lastId' \in Nat /\ given' \subseteq Nat
  BY DEF Spawn, TraceInv, TraceTypeOK
<1>3. ctx' \in [Tasks -> Ids] /\ home' \in [Tasks -> Nat] /\ ctx'[u].trace = home'[u]
      /\ \A x \in Tasks \ {u} : ctx'[x] = ctx[x] /\ home'[x] = home[x]
  BY <1>1 DEF Spawn, TraceInv, TraceTypeOK
<1> QED BY <1>2, <1>3, SameSpans

LEMMA NextTraceInv == TraceInv /\ [TraceNext]_traceVars => TraceInv'
<1> SUFFICES ASSUME TraceInv, [TraceNext]_traceVars PROVE TraceInv'
  OBVIOUS
<1>1. CASE UNCHANGED traceVars
  BY <1>1 DEF traceVars, TraceInv, TraceTypeOK, Nested, Innermost, Around
<1>2. ASSUME NEW t \in Tasks, EnsureIds(t) PROVE TraceInv'
  BY <1>2, EnsureIdsInv
<1>3. ASSUME NEW t \in Tasks, EnsureTrace(t) PROVE TraceInv'
  BY <1>3, EnsureTraceInv
<1>4. ASSUME NEW t \in Tasks, TraceStep(t) PROVE TraceInv'
  BY <1>4, NewSpanInv, ChildSpanInv, RemoteSpanInv, ExitInv, ResetInv, SetContextInv
     DEF TraceStep
<1>5. ASSUME NEW t \in Tasks, NEW u \in Tasks, Spawn(t, u) PROVE TraceInv'
  BY <1>5, SpawnInv
<1> QED BY <1>1, <1>2, <1>3, <1>4, <1>5 DEF TraceNext

\* However spans are nested, entered, left and copied to other tasks, what a task
\* logs carries the trace of the innermost span it is in (get_trace_id(),
\* context.py:12, under SpanContext, context.py:58).
THEOREM TraceContinuity == TraceSpec => []TraceStays
<1> QED BY InitTraceInv, NextTraceInv, InvImpliesStays, PTL DEF TraceSpec

-----------------------------------------------------------------------------
LEMMA SpanImplies == SpanInv => SpanHasOneTrace
BY DEF SpanInv, SpanHasOneTrace, Has, TraceTypeOK

\* SpanInv is kept by a step after which tasks have no ids but those they had and,
\* maybe, some whose span is new, or named from outside, or none.
LEMMA NewIds ==
  ASSUME SpanInv, TraceTypeOK', NEW new \in Ids, lastId' >= lastId, given \subseteq given',
         \A p \in Ids : Has(p)' => Has(p) \/ p = new,
         Has(new) \/ new.span \in given' \/ (new.span > lastId /\ new.trace # NoId),
         new.span <= lastId'
  PROVE  SpanInv'
<1>1. lastId \in Nat /\ lastId' \in Nat /\ \A p \in Ids : p.span \in Nat
  BY DEF SpanInv, TraceTypeOK, Ids
<1>2. ASSUME NEW p \in Ids, Has(p)'
      PROVE  p.span <= lastId' /\ (p.trace = NoId => p.span \in given')
  <2>1. CASE Has(p)
    BY <1>1, <2>1 DEF SpanInv
  <2>2. CASE p = new /\ ~Has(new)
    BY <1>1, <2>2
  <2> QED BY <1>2, <2>1, <2>2
<1>3. ASSUME NEW p \in Ids, NEW q \in Ids, Has(p)', Has(q)', p.span = q.span,
             p.span \notin given'
      PROVE  p.trace = q.trace
  <2>1. Has(p) => p.span <= lastId
    BY DEF SpanInv
  <2>2. Has(q) => q.span <= lastId
    BY DEF SpanInv
  <2>3. CASE Has(p) /\ Has(q)
    BY <1>3, <2>3 DEF SpanInv
  <2>4. CASE ~Has(p) \/ ~Has(q)
    BY <1>1, <1>3, <2>1, <2>2, <2>4
  <2> QED BY <2>3, <2>4
<1> QED BY <1>2, <1>3 DEF SpanInv

\* The ids after a step that leaves the spans alone and changes those of one task.
LEMMA HasSame ==
  ASSUME TraceTypeOK, open' = open, NEW t \in Tasks,
         \A u \in Tasks \ {t} : ctx'[u] = ctx[u],
         NEW p, Has(p)'
  PROVE  Has(p) \/ p = ctx'[t]
<1>1. PICK u \in Tasks : \/ p = ctx'[u]
                         \/ \E i \in 1..Len(open[u]) : p = open[u][i].ids \/ p = open[u][i].was
  BY DEF Has
<1> QED BY <1>1 DEF Has

LEMMA HasEntered ==
  ASSUME TraceTypeOK, NEW t \in Tasks, NEW found \in Ids, NEW ids \in Ids, Enter(t, found, ids),
         NEW p, Has(p)'
  PROVE  Has(p) \/ p = ids \/ p = found
<1>1. /\ ctx'[t] = ids /\ Len(open'[t]) = Len(open[t]) + 1 /\ Len(open[t]) \in Nat
      /\ open'[t][Len(open[t]) + 1] = [ids |-> ids, was |-> found]
      /\ \A i \in 1..Len(open[t]) : open'[t][i] = open[t][i]
      /\ \A u \in Tasks \ {t} : ctx'[u] = ctx[u] /\ open'[u] = open[u]
  BY Entered, Given
<1>2. PICK u \in Tasks : \/ p = ctx'[u]
                         \/ \E i \in 1..Len(open'[u]) : p = open'[u][i].ids \/ p = open'[u][i].was
  BY DEF Has
<1>3. CASE u # t
  <2>1. ctx'[u] = ctx[u] /\ open'[u] = open[u]
    BY <1>1, <1>3
  <2>2. CASE p = ctx'[u]
    BY <2>1, <2>2 DEF Has
  <2>3. CASE \E i \in 1..Len(open'[u]) : p = open'[u][i].ids \/ p = open'[u][i].was
    BY <2>1, <2>3 DEF Has
  <2> QED BY <1>2, <2>2, <2>3
<1>4. CASE u = t
  <2>1. CASE p = ctx'[t]
    BY <1>1, <2>1
  <2>2. ASSUME NEW i \in 1..Len(open'[t]), p = open'[t][i].ids \/ p = open'[t][i].was
        PROVE  Has(p) \/ p = ids \/ p = found
    <3>1. i \in 1..Len(open[t]) \/ i = Len(open[t]) + 1
      BY <1>1, <2>2
    <3>2. CASE i = Len(open[t]) + 1
      BY <1>1, <2>2, <3>2
    <3>3. CASE i \in 1..Len(open[t])
      BY <1>1, <2>2, <3>3 DEF Has
    <3> QED BY <3>1, <3>2, <3>3
  <2> QED BY <1>2, <1>4, <2>1, <2>2
<1> QED BY <1>3, <1>4

LEMMA HasLeft ==
  ASSUME TraceTypeOK, NEW t \in Tasks, Exit(t), NEW p, Has(p)'
  PROVE  Has(p)
<1>1. /\ ctx'[t] = open[t][Len(open[t])].was
      /\ Len(open[t]) \in Nat \ {0} /\ Len(open'[t]) = Len(open[t]) - 1
      /\ \A i \in 1..Len(open[t]) - 1 : open'[t][i] = open[t][i]
      /\ \A u \in Tasks \ {t} : ctx'[u] = ctx[u] /\ open'[u] = open[u]
  BY Left
<1>2. PICK u \in Tasks : \/ p = ctx'[u]
                         \/ \E i \in 1..Len(open'[u]) : p = open'[u][i].ids \/ p = open'[u][i].was
  BY DEF Has
<1>3. CASE u # t
  <2>1. ctx'[u] = ctx[u] /\ open'[u] = open[u]
    BY <1>1, <1>3
  <2>2. CASE p = ctx'[u]
    BY <2>1, <2>2 DEF Has
  <2>3. CASE \E i \in 1..Len(open'[u]) : p = open'[u][i].ids \/ p = open'[u][i].was
    BY <2>1, <2>3 DEF Has
  <2> QED BY <1>2, <2>2, <2>3
<1>4. CASE u = t
  <2>1. CASE p = ctx'[t]
    <3>1. Len(open[t]) \in 1..Len(open[t])
      BY <1>1
    <3> QED BY <1>1, <2>1, <3>1 DEF Has
  <2>2. ASSUME NEW i \in 1..Len(open'[t]), p = open'[t][i].ids \/ p = open'[t][i].was
        PROVE  Has(p)
    <3>1. i \in 1..Len(open[t]) - 1 /\ i \in 1..Len(open[t])
      BY <1>1, <2>2
    <3> QED BY <1>1, <2>2, <3>1 DEF Has
  <2> QED BY <1>2, <1>4, <2>1, <2>2
<1> QED BY <1>3, <1>4

LEMMA InitSpanInv == TraceInit => SpanInv
<1> SUFFICES ASSUME TraceInit PROVE SpanInv
  OBVIOUS
<1>1. TraceTypeOK /\ lastId = 0
  BY InitTraceInv DEF TraceInv, TraceInit
<1>2. \A t \in Tasks : ctx[t] = Empty /\ Len(open[t]) = 0
  BY DEF TraceInit
<1>3. ASSUME NEW p, Has(p) PROVE p = Empty
  BY <1>2, <1>3 DEF Has
<1>4. given = {NoId}
  BY DEF TraceInit
<1> QED BY <1>1, <1>3, <1>4 DEF SpanInv, Empty, NoId

\* A span that a task has belongs to a trace.
LEMMA SpanOfTrace ==
  ASSUME SpanInv, NEW t \in Tasks
  PROVE  Has(ctx[t]) /\ ctx[t] \in Ids /\ (ctx[t].trace = NoId => ctx[t].span \in given)
<1>1. Has(ctx[t]) /\ ctx[t] \in Ids
  BY DEF Has, SpanInv, TraceTypeOK
<1> QED BY <1>1 DEF SpanInv

LEMMA EnsureIdsSpan ==
  ASSUME SpanInv, TraceTypeOK', NEW t \in Tasks, EnsureIds(t) PROVE SpanInv'
<1>1. /\ TraceTypeOK /\ lastId \in Nat /\ ctx[t] \in Ids /\ TraceIdOf(t) \in Nat
      /\ LastWithTrace(t) \in Nat /\ LastWithTrace(t) >= lastId /\ TraceIdOf(t) # NoId
  BY Given DEF SpanInv
<1>2. PICK new \in Ids : new = ctx'[t]
  BY DEF TraceTypeOK
<1>3. /\ new.trace = TraceIdOf(t)
      /\ new.span = IF ctx[t].span = NoId THEN LastWithTrace(t) + 1 ELSE ctx[t].span
      /\ lastId' = IF ctx[t].span = NoId THEN LastWithTrace(t) + 1 ELSE LastWithTrace(t)
      /\ open' = open /\ \A u \in Tasks \ {t} : ctx'[u] = ctx[u]
  BY <1>1, <1>2 DEF EnsureIds, TraceTypeOK
<1>4. ctx[t].span \notin given => new = ctx[t] \/ ctx[t].span = NoId
  <2> SUFFICES ASSUME ctx[t].span \notin given, ctx[t].span # NoId PROVE new = ctx[t]
    OBVIOUS
  <2>1. ctx[t].trace # NoId
    BY SpanOfTrace
  <2>2. new.trace = ctx[t].trace /\ new.span = ctx[t].span
    BY <1>3, <2>1 DEF TraceIdOf, NewTrace
  <2> QED BY <1>1, <2>2 DEF Ids
<1>5. \A p \in Ids : Has(p)' => Has(p) \/ p = new
  BY <1>1, <1>2, <1>3, HasSame
<1>6. given' = given /\ ctx[t].span <= lastId /\ Has(ctx[t])
  BY SpanOfTrace DEF SpanInv, EnsureIds
<1>7. lastId' >= lastId /\ new.span <= lastId'
  <2>1. CASE ctx[t].span = NoId
    BY <1>1, <1>3, <2>1
  <2>2. CASE ctx[t].span # NoId
    <3>1. new.span \in Nat
      BY <1>2 DEF Ids
    <3> QED BY <1>1, <1>3, <1>6, <2>2, <3>1
  <2> QED BY <2>1, <2>2
<1>8. Has(new) \/ new.span \in given' \/ (new.span > lastId /\ new.trace # NoId)
  <2>1. CASE ctx[t].span = NoId
    BY <1>1, <1>3, <2>1
  <2>2. CASE ctx[t].span # NoId
    BY <1>3, <1>4, <1>6, <2>2
  <2> QED BY <2>1, <2>2
<1> QED BY <1>5, <1>6, <1>7, <1>8, NewIds

LEMMA EnsureTraceSpan ==
  ASSUME SpanInv, TraceTypeOK', NEW t \in Tasks, EnsureTrace(t) PROVE SpanInv'
<1>1. /\ TraceTypeOK /\ lastId \in Nat /\ ctx[t] \in Ids
      /\ LastWithTrace(t) \in Nat /\ LastWithTrace(t) >= lastId
  BY Given DEF SpanInv
<1>2. PICK new \in Ids : new = ctx'[t]
  BY DEF TraceTypeOK
<1>3. /\ new.trace = TraceIdOf(t) /\ new.span = ctx[t].span /\ lastId' = LastWithTrace(t)
      /\ open' = open /\ \A u \in Tasks \ {t} : ctx'[u] = ctx[u]
  BY <1>1, <1>2 DEF EnsureTrace, TraceTypeOK, Ids
<1>4. ctx[t].trace # NoId => new = ctx[t]
  BY <1>1, <1>3 DEF TraceIdOf, NewTrace, Ids
<1>5. \A p \in Ids : Has(p)' => Has(p) \/ p = new
  BY <1>1, <1>2, <1>3, HasSame
<1>6. given' = given /\ (Has(new) \/ new.span \in given')
  BY <1>3, <1>4, SpanOfTrace DEF EnsureTrace
<1>7. new.span <= lastId
  BY <1>3, SpanOfTrace DEF SpanInv
<1>8. lastId' >= lastId /\ new.span <= lastId' /\ new.span \in Nat
  <2>1. new.span \in Nat
    BY DEF Ids
  <2> QED BY <1>1, <1>3, <1>7, <2>1
<1> QED BY <1>5, <1>6, <1>8, NewIds

LEMMA NewSpanSpan ==
  ASSUME SpanInv, TraceTypeOK', NEW t \in Tasks, NewSpan(t) PROVE SpanInv'
<1> DEFINE ids == [trace |-> TraceIdOf(t), span |-> LastWithTrace(t) + 1]
<1>1. /\ TraceTypeOK /\ lastId \in Nat /\ TraceIdOf(t) \in Nat /\ TraceIdOf(t) # NoId
      /\ LastWithTrace(t) \in Nat /\ LastWithTrace(t) >= lastId
  BY Given DEF SpanInv
<1>2. /\ ids \in Ids /\ ids.trace # NoId /\ ids.span > lastId /\ ids.span \in Nat
  BY <1>1 DEF Ids
<1>3. lastId' = ids.span /\ given' = given
  BY DEF NewSpan
<1>4. PICK new \in Ids : new = ids
  BY <1>2
<1>5. Enter(t, new, new)
  BY <1>4 DEF NewSpan, Enter
<1>6. \A p \in Ids : Has(p)' => Has(p) \/ p = new
  BY <1>1, <1>5, HasEntered
<1>7. new.span > lastId /\ new.trace # NoId /\ lastId' = new.span /\ new.span \in Nat
  BY <1>2, <1>3, <1>4
<1> QED BY <1>1, <1>3, <1>6, <1>7, NewIds

LEMMA ChildSpanSpan ==
  ASSUME SpanInv, TraceInv, TraceTypeOK', NEW t \in Tasks, NEW i \in 1..Len(open[t]),
         ChildSpan(t, i)
  PROVE  SpanInv'
<1> DEFINE ids == [trace |-> open[t][i].ids.trace, span |-> lastId + 1]
<1>1. /\ TraceTypeOK /\ lastId \in Nat /\ ctx[t] \in Ids /\ Has(ctx[t])
      /\ open[t] \in Seq([ids : Ids, was : Ids]) /\ Len(open[t]) \in Nat
  BY Given, SpanOfTrace DEF SpanInv
<1>2. open[t][i].ids \in Ids
  <2>1. open[t][i] \in [ids : Ids, was : Ids]
    BY <1>1, ElementOfSeq
  <2> QED BY <2>1
<1>3. open[t][i].ids.trace \in Nat
  BY <1>2 DEF Ids
<1>4. ids \in Ids /\ ids.span = lastId + 1
  BY <1>1, <1>3 DEF Ids
<1>5. lastId' = lastId + 1 /\ given' = given
  BY DEF ChildSpan
<1>6. PICK new \in Ids, found \in Ids : new = ids /\ found = ctx[t]
  BY <1>1, <1>4
<1>7. Enter(t, found, new)
  BY <1>6 DEF ChildSpan, Enter
<1>8. \A p \in Ids : Has(p)' => Has(p) \/ p = new
  BY <1>1, <1>6, <1>7, HasEntered
<1>9. new.span = lastId + 1 /\ new.trace = open[t][i].ids.trace
  BY <1>6
<1>10. new.trace # NoId
  BY <1>9 DEF TraceInv, Nested
<1> QED BY <1>1, <1>5, <1>8, <1>9, <1>10, NewIds

LEMMA RemoteSpanSpan ==
  ASSUME SpanInv, TraceTypeOK', NEW t \in Tasks, NEW trace \in Nat, NEW span \in Nat,
         RemoteSpan(t, trace, span)
  PROVE  SpanInv'
<1>1. TraceTypeOK /\ lastId \in Nat /\ ctx[t] \in Ids /\ Has(ctx[t])
  BY SpanOfTrace DEF SpanInv, TraceTypeOK
<1>2. PICK new \in Ids :
        /\ Enter(t, ctx[t], new) /\ new.trace # NoId
        /\ lastId' >= lastId /\ new.span <= lastId'
        /\ new.span \in given' \/ new.span > lastId
        /\ given' = given \cup {span}
  BY <1>1, RemoteIds
<1>3. PICK found \in Ids : found = ctx[t]
  BY <1>1
<1>4. Enter(t, found, new)
  BY <1>2, <1>3
<1>5. \A p \in Ids : Has(p)' => Has(p) \/ p = new
  BY <1>1, <1>3, <1>4, HasEntered
<1> QED BY <1>2, <1>5, NewIds

LEMMA ExitSpan == ASSUME SpanInv, TraceTypeOK', NEW t \in Tasks, Exit(t) PROVE SpanInv'
<1>1. TraceTypeOK /\ lastId \in Nat /\ lastId' = lastId /\ ctx[t] \in Ids /\ Has(ctx[t])
      /\ ctx[t].span <= lastId /\ given' = given
  BY SpanOfTrace DEF SpanInv, TraceTypeOK, Exit
<1>2. PICK new \in Ids : new = ctx[t]
  BY <1>1
<1>3. \A p \in Ids : Has(p)' => Has(p) \/ p = new
  BY <1>1, HasLeft
<1> QED BY <1>1, <1>2, <1>3, NewIds

LEMMA ResetSpan == ASSUME SpanInv, TraceTypeOK', NEW t \in Tasks, Reset(t) PROVE SpanInv'
<1>1. TraceTypeOK /\ lastId \in Nat /\ lastId' = lastId /\ open' = open /\ given' = given
      /\ ctx'[t] = Empty /\ \A u \in Tasks \ {t} : ctx'[u] = ctx[u]
  BY DEF SpanInv, TraceTypeOK, Reset
<1>2. PICK new \in Ids : new = Empty /\ new.span = NoId /\ NoId <= lastId /\ NoId \in given
  BY <1>1 DEF Ids, Empty, NoId, SpanInv
<1>3. \A p \in Ids : Has(p)' => Has(p) \/ p = new
  BY <1>1, <1>2, HasSame
<1> QED BY <1>1, <1>2, <1>3, NewIds

LEMMA SetContextSpan ==
  ASSUME SpanInv, TraceTypeOK', NEW t \in Tasks, NEW trace \in Nat, NEW span \in Nat,
         SetContext(t, trace, span)
  PROVE  SpanInv'
<1>1. TraceTypeOK /\ lastId \in Nat
  BY DEF SpanInv, TraceTypeOK
<1>2. PICK new \in Ids :
        /\ new.span = span /\ ctx' = [ctx EXCEPT ![t] = new]
        /\ lastId' >= lastId /\ span <= lastId'
  BY <1>1, SetIds
<1>3. open' = open /\ given \subseteq given' /\ span \in given'
  BY DEF SetContext
<1>4. ctx'[t] = new /\ \A u \in Tasks \ {t} : ctx'[u] = ctx[u]
  BY <1>1, <1>2 DEF TraceTypeOK
<1>5. \A p \in Ids : Has(p)' => Has(p) \/ p = new
  BY <1>1, <1>3, <1>4, HasSame
<1> QED BY <1>2, <1>3, <1>5, NewIds

LEMMA SpawnSpan ==
  ASSUME SpanInv, TraceTypeOK', NEW t \in Tasks, NEW u \in Tasks, Spawn(t, u)
  PROVE  SpanInv'
<1>1. TraceTypeOK /\ lastId \in Nat /\ lastId' = lastId /\ open' = open /\ given' = given
      /\ ctx[t] \in Ids /\ Has(ctx[t]) /\ ctx[t].span <= lastId
      /\ ctx'[u] = ctx[t] /\ \A x \in Tasks \ {u} : ctx'[x] = ctx[x]
  BY SpanOfTrace DEF SpanInv, TraceTypeOK, Spawn
<1>2. PICK new \in Ids : new = ctx[t]
  BY <1>1
<1>3. \A p \in Ids : Has(p)' => Has(p) \/ p = new
  BY <1>1, <1>2, HasSame
<1> QED BY <1>1, <1>2, <1>3, NewIds

LEMMA NextSpanInv == TraceInv /\ SpanInv /\ [TraceNext]_traceVars => SpanInv'
<1> SUFFICES ASSUME TraceInv, SpanInv, [TraceNext]_traceVars PROVE SpanInv'
  OBVIOUS
<1>0. TraceTypeOK'
  BY NextTraceInv DEF TraceInv
<1>1. CASE UNCHANGED traceVars
  <2>1. ctx' = ctx /\ open' = open /\ lastId' = lastId /\ given' = given
    BY <1>1 DEF traceVars
  <2>2. ASSUME NEW p PROVE Has(p)' <=> Has(p)
    BY <2>1 DEF Has
  <2> QED BY <1>0, <2>1, <2>2 DEF SpanInv
<1>2. ASSUME NEW t \in Tasks, EnsureIds(t) PROVE SpanInv'
  BY <1>0, <1>2, EnsureIdsSpan
<1>3. ASSUME NEW t \in Tasks, EnsureTrace(t) PROVE SpanInv'
  BY <1>0, <1>3, EnsureTraceSpan
<1>4. ASSUME NEW t \in Tasks, TraceStep(t) PROVE SpanInv'
  BY <1>0, <1>4, NewSpanSpan, ChildSpanSpan, RemoteSpanSpan, ExitSpan, ResetSpan, SetContextSpan
     DEF TraceStep
<1>5. ASSUME NEW t \in Tasks, NEW u \in Tasks, Spawn(t, u) PROVE SpanInv'
  BY <1>0, <1>5, SpawnSpan
<1> QED BY <1>1, <1>2, <1>3, <1>4, <1>5 DEF TraceNext

\* A span that this process made is never logged under two traces, although
\* new_span() (context.py:28) leaves its ids behind, tasks copy each other's
\* contexts at any moment, and headers name any ids in any combination.
THEOREM SpansKeepTheirTrace == TraceSpec => []SpanHasOneTrace
<1> QED BY InitTraceInv, NextTraceInv, InitSpanInv, NextSpanInv, SpanImplies, PTL DEF TraceSpec
=============================================================================
