---------------------------- MODULE EvaluatorsProofs ---------------------------
(***************************************************************************)
(* Evaluators keep to their types; the absence rule fires only for silence *)
(* that is real; the rate rule fires only if it is evaluated often enough; *)
(* an outlier needs a window that is large enough, and then it fires.      *)
(***************************************************************************)
EXTENDS Evaluators, SequenceLemmas

USE EvaluatorsAssumption DEF EvaluatorsAssumption

LEMMA OlderType ==
  ASSUME NEW n \in 0..MaxAge
  PROVE  Older(n) \in 0..MaxAge
BY DEF Older

LEMMA NewestType ==
  ASSUME NEW s \in Seq(Values), NEW n \in Nat \ {0}
  PROVE  Newest(s, n) \in Seq(Values) /\ Len(Newest(s, n)) <= n
<1> DEFINE m == IF Len(s) > n THEN Len(s) - n + 1 ELSE 1
<1>1. m \in Nat /\ m >= 1 /\ m <= Len(s) + 1 /\ Len(s) - m + 1 <= n /\ Len(s) \in Nat
  OBVIOUS
<1>2. \A i \in m..Len(s) : s[i] \in Values
  BY <1>1, ElementOfSeq
<1>3. SubSeq(s, m, Len(s)) \in Seq(Values)
      /\ Len(SubSeq(s, m, Len(s))) = (IF m <= Len(s) THEN Len(s) - m + 1 ELSE 0)
  BY <1>1, <1>2, SubSeqProperties
<1> HIDE DEF m
<1>4. Len(SubSeq(s, m, Len(s))) <= n
  BY <1>1, <1>3
<1> QED BY <1>3, <1>4 DEF Newest, m

\* The timestamps that remain after those that are too old have been dropped.
LEMMA Remaining ==
  ASSUME timestamps \in Seq(0..MaxAge), NEW n \in 1..Len(Append(timestamps, 0)),
         timestamps' = SubSeq(Append(timestamps, 0), n, Len(Append(timestamps, 0)))
  PROVE  /\ timestamps' \in Seq(0..MaxAge)
         /\ Len(timestamps') = Len(timestamps) + 2 - n
         /\ \A i \in 1..Len(timestamps') :
              /\ n + i - 1 \in 1..Len(timestamps) + 1
              /\ timestamps'[i] = Append(timestamps, 0)[n + i - 1]
<1>1. PICK s \in Seq(0..MaxAge) : s = Append(timestamps, 0) /\ Len(s) = Len(timestamps) + 1
  <2>1. 0 \in 0..MaxAge
    OBVIOUS
  <2>2. Append(timestamps, 0) \in Seq(0..MaxAge)
        /\ Len(Append(timestamps, 0)) = Len(timestamps) + 1
    BY <2>1, AppendProperties
  <2> QED BY <2>2
<1>2. n \in Nat /\ n >= 1 /\ n <= Len(s) /\ Len(s) \in Nat /\ Len(timestamps) \in Nat
  <2>1. Len(s) \in Nat /\ Len(timestamps) \in Nat /\ n \in 1..Len(s)
    BY <1>1, LenProperties
  <2> QED BY <2>1
<1>3. \A i \in n..Len(s) : s[i] \in 0..MaxAge
  <2> SUFFICES ASSUME NEW i \in n..Len(s) PROVE s[i] \in 0..MaxAge
    OBVIOUS
  <2>1. i \in 1..Len(s)
    BY <1>2
  <2> QED BY <2>1, ElementOfSeq
<1>4. PICK l \in Nat : l = Len(s)
  BY <1>2
<1>5. PICK r : r = SubSeq(s, n, l)
  OBVIOUS
<1>6. /\ r \in Seq(0..MaxAge) /\ Len(r) = IF n <= l THEN l - n + 1 ELSE 0
      /\ \A i \in 1..l - n + 1 : r[i] = s[n + i - 1]
  BY <1>2, <1>3, <1>4, <1>5, SubSeqProperties
<1>7. Len(r) = l - n + 1 /\ l = Len(timestamps) + 1 /\ timestamps' = r
  BY <1>1, <1>2, <1>4, <1>5, <1>6
<1>8. \A i \in 1..Len(r) : n + i - 1 \in 1..l
  BY <1>2, <1>4, <1>7
<1>9. Len(r) = Len(timestamps) + 2 - n
  BY <1>2, <1>7
<1> QED BY <1>1, <1>6, <1>7, <1>8, <1>9

LEMMA InitTypeOK == Init => TypeOK
<1> SUFFICES ASSUME Init PROVE TypeOK
  OBVIOUS
<1>1. /\ << >> \in Seq(0..MaxAge) /\ << >> \in Seq(Values) /\ Len(<< >>) <= WindowSize
      /\ 0 \in 0..MaxAge /\ MaxAge \in 0..MaxAge
  OBVIOUS
<1>2. /\ timestamps \in Seq(0..MaxAge) /\ window \in Seq(Values) /\ Len(window) <= WindowSize
      /\ silent \in 0..MaxAge /\ evaluated \in 0..MaxAge
  BY <1>1 DEF Init
<1> QED BY <1>2 DEF Init, TypeOK

\* The anomaly evaluator answers yes or no, however numbers are rounded.
LEMMA OutlierIsBoolean == ASSUME NEW v, NEW s PROVE Outlier(v, s) \subseteq BOOLEAN
<1>1. ASSUME NEW x, NEW y PROVE Exceeds(x, y) \subseteq BOOLEAN
  <2>1. (x > y) \in BOOLEAN
    OBVIOUS
  <2> QED BY <2>1, Zenon DEF Exceeds
<1>2. (1 >= ZThreshold) = (ZThreshold <= 1) /\ (ZThreshold <= 1) \in BOOLEAN
  BY EvaluatorsAssumption
<1> QED BY <1>1, <1>2, Zenon DEF Outlier

LEMMA NextTypeOK ==
  ASSUME TypeOK, [Next]_vars
  PROVE  TypeOK'
<1> USE DEF Never
<1>1. CASE UNCHANGED vars
  BY <1>1 DEF vars, memory, history, TypeOK
<1>2. ASSUME EvaluateAbsence PROVE TypeOK'
  <2>1. fires' \in BOOLEAN
    <3>1. PICK c : LookForEvents(c)
      BY <1>2 DEF EvaluateAbsence
    <3>2. CASE c > 0 \/ lastSeen = Never
      BY <3>1, <3>2, Zenon DEF LookForEvents
    <3>3. CASE ~(c > 0 \/ lastSeen = Never)
      <4>1. fires' = (lastSeen > Absence)
        BY <3>1, <3>3, Zenon DEF LookForEvents
      <4>2. (lastSeen > Absence) \in BOOLEAN
        OBVIOUS
      <4> QED BY <4>1, <4>2, Zenon
    <3> QED BY <3>2, <3>3
  <2>2. covered' \in BOOLEAN
    BY <1>2, Zenon DEF EvaluateAbsence
  <2>3. lastSeen' = 0 \/ lastSeen' = lastSeen
    <3>1. PICK c : LookForEvents(c)
      BY <1>2 DEF EvaluateAbsence
    <3> QED BY <3>1, Zenon DEF LookForEvents
  <2>4. evaluated' = 0 /\ UNCHANGED <<kind, timestamps, window, silent, spaced>>
    BY <1>2 DEF EvaluateAbsence
  <2> QED BY <2>1, <2>2, <2>3, <2>4 DEF TypeOK
<1>3. ASSUME EvaluateRate PROVE TypeOK'
  <2>1. PICK n \in 1..Len(Append(timestamps, 0)) :
          timestamps' = SubSeq(Append(timestamps, 0), n, Len(Append(timestamps, 0)))
    BY <1>3 DEF EvaluateRate
  <2>2. timestamps' \in Seq(0..MaxAge)
    BY <2>1, Remaining DEF TypeOK
  <2>3. fires' \in BOOLEAN /\ spaced' \in BOOLEAN
    BY <1>3 DEF EvaluateRate, TypeOK
  <2> QED BY <1>3, <2>2, <2>3 DEF EvaluateRate, TypeOK
<1>4. ASSUME NEW v \in Values, EvaluateAnomaly(v) PROVE TypeOK'
  <2>1. Append(window, v) \in Seq(Values)
    BY AppendProperties DEF TypeOK
  <2>2. window' \in Seq(Values) /\ Len(window') <= WindowSize
    BY <1>4, <2>1, NewestType DEF EvaluateAnomaly
  <2>3. fires' \in BOOLEAN
    BY <1>4, OutlierIsBoolean, Zenon DEF EvaluateAnomaly
  <2> QED BY <1>4, <2>2, <2>3 DEF EvaluateAnomaly, TypeOK, history
<1>5. ASSUME NEW op \in Ops, NEW v \in Values, EvaluateThreshold(op, v) PROVE TypeOK'
  <2>1. Compare(op, v) \in BOOLEAN
    BY Zenon DEF Compare
  <2> QED BY <1>5, <2>1 DEF EvaluateThreshold, TypeOK, memory, history
<1>6. ASSUME RefuseValue PROVE TypeOK'
  BY <1>6 DEF RefuseValue, TypeOK, memory, history
<1>7. ASSUME Event PROVE TypeOK'
  BY <1>7 DEF Event, TypeOK, memory, history
<1>8. ASSUME Tick PROVE TypeOK'
  <2>1. timestamps' \in Seq(0..MaxAge)
    <3>1. \A i \in 1..Len(timestamps) : timestamps[i] \in 0..MaxAge
      BY ElementOfSeq DEF TypeOK
    <3>2. \A i \in 1..Len(timestamps) : timestamps[i] + 1 \in 0..MaxAge
      BY <1>8, <3>1 DEF Tick
    <3>3. timestamps' = [i \in 1..Len(timestamps) |-> timestamps[i] + 1]
      BY <1>8 DEF Tick
    <3>4. Len(timestamps) \in Nat
      BY DEF TypeOK
    <3> QED BY <3>2, <3>3, <3>4
  <2>2. lastSeen' \in {Never} \cup 0..MaxAge
    BY <1>8, OlderType DEF Tick, TypeOK
  <2>3. silent' \in 0..MaxAge /\ evaluated' \in 0..MaxAge
    BY <1>8, OlderType DEF Tick, TypeOK
  <2> QED BY <1>8, <2>1, <2>2, <2>3 DEF Tick, TypeOK
<1> QED BY <1>1, <1>2, <1>3, <1>4, <1>5, <1>6, <1>7, <1>8 DEF Next, Evaluate

\* Every evaluator's memory keeps its type; the anomaly evaluator's window its
\* bound (anomaly.py:16, deque(maxlen=window_size)).
THEOREM EvaluatorTypes == Spec => []TypeOK
<1> QED BY InitTypeOK, NextTypeOK, PTL DEF Spec

-----------------------------------------------------------------------------
\* The last event did not come before the last evaluation, or not after lastSeen.
SeenInv == covered /\ lastSeen # Never => silent <= evaluated \/ silent >= lastSeen

\* What an evaluation of the absence rule says when it looks for events.
LEMMA Looked ==
  ASSUME TypeOK, SeenInv, EvaluateAbsence, covered', lastSeen' # 0
  PROVE  /\ lastSeen' = lastSeen /\ lastSeen # Never
         /\ silent > Lookback /\ silent >= lastSeen /\ silent' = silent
<1>1. PICK c \in {0, 1} : LookForEvents(c) /\ (c = 0 => silent > Lookback)
                         /\ covered /\ (lastSeen = Never \/ evaluated <= Lookback)
  <2>1. CASE LookForEvents(0) /\ covered' = FALSE
    BY <2>1
  <2>2. CASE /\ LookForEvents(IF silent <= Lookback THEN 1 ELSE 0)
             /\ covered' = (covered /\ (lastSeen = Never \/ evaluated <= Lookback))
    <3>1. covered /\ (lastSeen = Never \/ evaluated <= Lookback)
      BY <2>2, Zenon
    <3>2. PICK c \in {0, 1} : c = IF silent <= Lookback THEN 1 ELSE 0
      OBVIOUS
    <3>3. c = 0 => silent > Lookback
      BY <3>2 DEF TypeOK
    <3> QED BY <2>2, <3>1, <3>2, <3>3
  <2> QED BY <2>1, <2>2 DEF EvaluateAbsence
<1>2. lastSeen # Never /\ c = 0 /\ lastSeen' = lastSeen
  BY <1>1 DEF LookForEvents
<1>3. silent >= lastSeen
  BY <1>1, <1>2 DEF SeenInv, TypeOK, Never
<1>4. silent' = silent
  BY DEF EvaluateAbsence
<1> QED BY <1>1, <1>2, <1>3, <1>4

LEMMA NextSeenInv ==
  ASSUME TypeOK, SeenInv, [Next]_vars
  PROVE  SeenInv'
<1>1. CASE UNCHANGED vars
  BY <1>1 DEF vars, memory, history, SeenInv
<1>2. ASSUME EvaluateAbsence PROVE SeenInv'
  <2> SUFFICES ASSUME covered', lastSeen' # Never
               PROVE  silent' <= evaluated' \/ silent' >= lastSeen'
    BY DEF SeenInv
  <2>1. CASE lastSeen' = 0
    BY <1>2, <2>1 DEF EvaluateAbsence, TypeOK
  <2>2. CASE lastSeen' # 0
    BY <1>2, <2>2, Looked
  <2> QED BY <2>1, <2>2
<1>3. ASSUME EvaluateRate PROVE SeenInv'
  BY <1>3 DEF EvaluateRate, SeenInv
<1>4. ASSUME NEW v \in Values, EvaluateAnomaly(v) PROVE SeenInv'
  BY <1>4 DEF EvaluateAnomaly, SeenInv, history
<1>5. ASSUME NEW op \in Ops, NEW v \in Values, EvaluateThreshold(op, v) PROVE SeenInv'
  BY <1>5 DEF EvaluateThreshold, SeenInv, memory, history
<1>6. ASSUME RefuseValue PROVE SeenInv'
  BY <1>6 DEF RefuseValue, SeenInv, memory, history
<1>7. ASSUME Event PROVE SeenInv'
  <2>1. /\ lastSeen' = lastSeen /\ evaluated' = evaluated /\ covered' = covered /\ silent' = 0
    BY <1>7 DEF Event, memory, history
  <2> QED BY <2>1 DEF SeenInv, TypeOK, Never
<1>8. ASSUME Tick PROVE SeenInv'
  BY <1>8 DEF Tick, Older, SeenInv, TypeOK, Never
<1> QED BY <1>1, <1>2, <1>3, <1>4, <1>5, <1>6, <1>7, <1>8 DEF Next, Evaluate

\* An absence alert is true unless the rule was evaluated less often than its
\* query looks back, or its query answered with something else (absence.py:24).
THEOREM AbsenceAlertsAreTrue == Spec => AbsenceIsReal
<1>1. Init => SeenInv
  BY DEF Init, SeenInv
<1>2. TypeOK /\ SeenInv /\ [Next]_vars => SeenInv'
  BY NextSeenInv
<1>3. TypeOK /\ SeenInv /\ [Next]_vars
      => [EvaluateAbsence /\ fires' /\ covered' => silent > Absence]_vars
  <2> SUFFICES ASSUME TypeOK, SeenInv, EvaluateAbsence, fires', covered'
               PROVE  silent > Absence
    OBVIOUS
  <2>1. PICK c : LookForEvents(c)
    BY DEF EvaluateAbsence
  <2>2. lastSeen' = lastSeen /\ lastSeen # Never /\ lastSeen > Absence
    BY <2>1, Zenon DEF LookForEvents
  <2>3. lastSeen' # 0
    BY <2>2 DEF TypeOK, Never
  <2> QED BY <2>2, <2>3, Looked DEF TypeOK, Never
<1> QED BY <1>1, <1>2, <1>3, EvaluatorTypes, PTL DEF Spec, AbsenceIsReal

-----------------------------------------------------------------------------
\* Timestamps of evaluations that lie Interval apart, and what a firing rule says.
Spread(s) ==
  \A i \in 1..Len(s) : s[i] >= s[Len(s)] + (Len(s) - i) * Interval
RateInv ==
  /\ kind = "rate" /\ spaced => Spread(timestamps)
  /\ RateNeedsEvaluations

LEMMA SpreadAppended ==
  ASSUME NEW s \in Seq(0..MaxAge), Spread(s), s = << >> \/ s[Len(s)] >= Interval,
         NEW i \in 1..Len(s) + 1
  PROVE  Append(s, 0)[i] >= (Len(s) + 1 - i) * Interval
<1>0. Len(s) \in Nat
  OBVIOUS
<1>1. CASE i = Len(s) + 1
  <2>1. Append(s, 0)[i] = 0
    BY <1>1, AppendProperties
  <2>2. Len(s) + 1 - i = 0
    BY <1>0, <1>1
  <2>3. 0 * Interval = 0
    BY EvaluatorsAssumption
  <2>4. (Len(s) + 1 - i) * Interval = 0
    BY <2>2, <2>3, Zenon
  <2>5. 0 >= 0
    OBVIOUS
  <2> QED BY <2>1, <2>4, <2>5, Zenon
<1>2. CASE i \in 1..Len(s)
  <2>1. Append(s, 0)[i] = s[i]
    BY <1>2, AppendProperties
  <2>2. s[Len(s)] >= Interval
    BY <1>0, <1>2
  <2>3. s[i] \in Nat /\ s[Len(s)] \in Nat
    BY <1>2, ElementOfSeq
  <2>4. PICK d \in Nat : d = Len(s) - i
    BY <1>0, <1>2
  <2>5. s[i] >= s[Len(s)] + d * Interval
    BY <1>2, <2>4 DEF Spread
  <2>6. (d + 1) * Interval = d * Interval + Interval /\ d * Interval \in Nat
    BY <2>4
  <2>7. Len(s) + 1 - i = d + 1
    BY <1>0, <1>2, <2>4
  <2>8. s[i] >= (d + 1) * Interval
    BY <2>2, <2>3, <2>5, <2>6
  <2> QED BY <2>1, <2>7, <2>8
<1> QED BY <1>0, <1>1, <1>2

LEMMA NextRateInv ==
  ASSUME TypeOK, RateInv, [Next]_vars
  PROVE  RateInv'
<1>1. CASE UNCHANGED vars
  BY <1>1 DEF vars, memory, history, RateInv, RateNeedsEvaluations, Spread
<1>2. ASSUME EvaluateAbsence \/ Event PROVE RateInv'
  BY <1>2 DEF EvaluateAbsence, Event, memory, history, RateInv, RateNeedsEvaluations
<1>3. ASSUME EvaluateRate PROVE RateInv'
  <2>1. PICK n \in 1..Len(Append(timestamps, 0)) :
          /\ FirstRecent(Append(timestamps, 0), n)
          /\ timestamps' = SubSeq(Append(timestamps, 0), n, Len(Append(timestamps, 0)))
    BY <1>3 DEF EvaluateRate
  <2>2. PICK s \in Seq(0..MaxAge) : s = timestamps
    BY DEF TypeOK
  <2>3. PICK r : r = timestamps'
    OBVIOUS
  <2>4. PICK l \in Nat : l = Len(s)
    OBVIOUS
  <2>5. n \in 1..l + 1
    BY <2>1, <2>2, <2>4, AppendProperties
  <2>6. /\ r \in Seq(0..MaxAge) /\ Len(r) = l + 2 - n
        /\ \A i \in 1..Len(r) : n + i - 1 \in 1..l + 1 /\ r[i] = Append(s, 0)[n + i - 1]
    BY <2>1, <2>2, <2>3, <2>4, Remaining
  <2>7. kind = "rate" /\ kind' = "rate"
    BY <1>3 DEF EvaluateRate
  <2>8. ASSUME spaced' PROVE \A i \in 1..Len(r) : r[i] >= (Len(r) - i) * Interval
    <3>1. spaced /\ (s = << >> \/ s[l] >= Interval)
      BY <1>3, <2>2, <2>4, <2>8, Zenon DEF EvaluateRate
    <3>2. Spread(s)
      BY <2>2, <2>7, <3>1 DEF RateInv
    <3> SUFFICES ASSUME NEW i \in 1..Len(r) PROVE r[i] >= (Len(r) - i) * Interval
      OBVIOUS
    <3>3. PICK j \in 1..l + 1 : j = n + i - 1
      BY <2>6
    <3>4. Append(s, 0)[j] >= (l + 1 - j) * Interval
      BY <2>4, <3>1, <3>2, SpreadAppended
    <3>5. l + 1 - j = Len(r) - i
      BY <2>5, <2>6, <3>3
    <3> QED BY <2>6, <3>3, <3>4, <3>5
  <2>9. ASSUME spaced' PROVE Spread(r)
    <3>1. r[Len(r)] = 0
      <4>1. Len(r) \in 1..Len(r) /\ n + Len(r) - 1 = l + 1
        BY <2>5, <2>6
      <4>2. Append(s, 0)[l + 1] = 0
        BY <2>4, AppendProperties
      <4> QED BY <2>6, <4>1, <4>2
    <3> SUFFICES ASSUME NEW i \in 1..Len(r) PROVE r[i] >= r[Len(r)] + (Len(r) - i) * Interval
      BY DEF Spread
    <3>2. PICK d : d = (Len(r) - i) * Interval /\ d \in Int
      BY <2>6
    <3>3. r[i] \in 0..MaxAge /\ r[i] >= d
      BY <2>6, <2>8, <2>9, <3>2, ElementOfSeq
    <3> QED BY <3>1, <3>2, <3>3
  <2>10. ASSUME spaced', fires' PROVE RateLimit * Interval <= Window
    <3>1. Len(r) > RateLimit
      BY <1>3, <2>3, <2>10, Zenon DEF EvaluateRate
    <3>2. PICK d \in Nat : d = Len(r) - 1 /\ d >= RateLimit
      BY <2>6, <3>1
    <3>3. 1 \in 1..Len(r) /\ n + 1 - 1 = n
      BY <2>5, <2>6
    <3>4. r[1] >= d * Interval
      BY <2>8, <2>10, <3>2, <3>3
    <3>5. r[1] \in 0..MaxAge /\ r[1] <= Window
      BY <2>1, <2>2, <2>6, <3>3, ElementOfSeq DEF FirstRecent
    <3>6. PICK e \in Nat : e = d - RateLimit
      <4>1. RateLimit \in Nat /\ d >= RateLimit
        BY <3>2
      <4>2. d - RateLimit \in Nat
        BY <4>1
      <4> QED BY <4>2
    <3>7. d * Interval = RateLimit * Interval + e * Interval
      BY <3>6
    <3>8. PICK x \in Nat, y \in Nat, z \in Nat :
            x = d * Interval /\ y = RateLimit * Interval /\ z = e * Interval
      OBVIOUS
    <3>9. x = y + z
      BY <3>7, <3>8
    <3>10. PICK a \in Nat : a = r[1] /\ a <= Window /\ a >= x
      BY <3>4, <3>5, <3>8
    <3>11. y <= Window
      <4>1. a <= Window /\ a >= y + z /\ Window \in Nat
        BY <3>9, <3>10
      <4> QED BY <4>1
    <3> QED BY <3>8, <3>11
  <2>11. spaced' => Spread(timestamps')
    BY <2>3, <2>9
  <2>12. spaced' /\ fires' => RateLimit * Interval <= Window
    BY <2>10
  <2> QED BY <2>11, <2>12 DEF RateInv, RateNeedsEvaluations, Spread
<1>4. ASSUME NEW v \in Values, EvaluateAnomaly(v) PROVE RateInv'
  BY <1>4 DEF EvaluateAnomaly, RateInv, RateNeedsEvaluations
<1>5. ASSUME NEW op \in Ops, NEW v \in Values, EvaluateThreshold(op, v) PROVE RateInv'
  BY <1>5 DEF EvaluateThreshold, RateInv, RateNeedsEvaluations
<1>6. ASSUME RefuseValue PROVE RateInv'
  BY <1>6 DEF RefuseValue, RateInv, RateNeedsEvaluations
<1>7. ASSUME Tick PROVE RateInv'
  <2>1. PICK s \in Seq(0..MaxAge) : s = timestamps
    BY DEF TypeOK
  <2>2. PICK l \in Nat : l = Len(s)
    OBVIOUS
  <2>3. PICK r : r = timestamps'
    OBVIOUS
  <2>4. r = [i \in 1..l |-> s[i] + 1] /\ Len(r) = l
    BY <1>7, <2>1, <2>2, <2>3 DEF Tick
  <2>5. ASSUME Spread(s) PROVE Spread(r)
    <3> SUFFICES ASSUME NEW i \in 1..l PROVE r[i] >= r[l] + (l - i) * Interval
      BY <2>4 DEF Spread
    <3>1. PICK d \in Int : d = (l - i) * Interval
      OBVIOUS
    <3>2. s[i] \in Nat /\ s[l] \in Nat
      BY <2>2, ElementOfSeq
    <3>3. s[i] >= s[l] + d
      BY <2>2, <2>5, <3>1 DEF Spread
    <3>4. r[i] = s[i] + 1 /\ r[l] = s[l] + 1
      BY <2>4
    <3>5. \A a, b \in Nat : a >= b + d => a + 1 >= b + 1 + d
      BY <3>1
    <3> QED BY <3>1, <3>2, <3>3, <3>4, <3>5
  <2>6. Spread(timestamps) => Spread(timestamps')
    BY <2>1, <2>3, <2>5
  <2>7. kind' = kind /\ spaced' = spaced /\ fires' = fires
    BY <1>7 DEF Tick
  <2> QED BY <2>6, <2>7 DEF RateInv, RateNeedsEvaluations, Spread
<1> QED BY <1>1, <1>2, <1>3, <1>4, <1>5, <1>6, <1>7 DEF Next, Evaluate

\* A rate rule that is evaluated every Interval fires only if RateLimit intervals
\* fit into its window, since it counts evaluations (rate.py:19).
THEOREM RateCountsEvaluations == Spec => []RateNeedsEvaluations
<1>1. Init => RateInv
  <2> SUFFICES ASSUME Init PROVE RateInv
    OBVIOUS
  <2>1. timestamps = << >> /\ fires = FALSE
    BY DEF Init
  <2>2. Spread(timestamps)
    BY <2>1 DEF Spread
  <2> QED BY <2>1, <2>2 DEF RateInv, RateNeedsEvaluations
<1>2. TypeOK /\ RateInv /\ [Next]_vars => RateInv'
  BY NextRateInv
<1>3. RateInv => RateNeedsEvaluations
  BY DEF RateInv
<1> QED BY <1>1, <1>2, <1>3, EvaluatorTypes, PTL DEF Spec

\* The rule that rules.py:53 ships, at most 3 a minute in a window of 300 s under
\* an engine that evaluates every 30 s, never fires while it is evaluated so.
THEOREM ReconnectRuleIsSilent ==
  ASSUME RateLimit = 15, Interval = 30, Window = 300
  PROVE  Spec => [](kind = "rate" /\ spaced => ~fires)
<1>1. RateNeedsEvaluations => (kind = "rate" /\ spaced => ~fires)
  BY DEF RateNeedsEvaluations
<1> QED BY <1>1, RateCountsEvaluations, PTL

-----------------------------------------------------------------------------
\* The sums of a window, and of the same window with a value v behind it.
LEMMA WindowSums ==
  ASSUME NEW s \in Seq(Int), NEW v \in Int
  PROVE  /\ Squares(s) \in Seq(Int) /\ Total(s) \in Int /\ Total(Squares(s)) \in Int
         /\ Append(s, v) \in Seq(Int) /\ Len(Append(s, v)) = Len(s) + 1
         /\ Total(Append(s, v)) = Total(s) + v
         /\ Total(Squares(Append(s, v))) = Total(Squares(s)) + v * v
<1>1. PICK n \in Nat : n = Len(s)
  OBVIOUS
<1>2. PICK t \in Seq(Int) : /\ t = Append(s, v) /\ Len(t) = n + 1 /\ t[n + 1] = v
                            /\ \A i \in 1..n : t[i] = s[i]
  <2>1. PICK t : t = Append(s, v)
    OBVIOUS
  <2>2. t \in Seq(Int) /\ Len(t) = n + 1 /\ t[n + 1] = v /\ \A i \in 1..n : t[i] = s[i]
    BY <1>1, <2>1, AppendProperties
  <2> QED BY <2>1, <2>2
<1>3. PICK q : q = Squares(s)
  OBVIOUS
<1>4. q \in Seq(Int) /\ Len(q) = n /\ \A i \in 1..n : q[i] = s[i] * s[i]
  <2>1. q = [i \in 1..n |-> s[i] * s[i]]
    BY <1>1, <1>3 DEF Squares
  <2>2. \A i \in 1..n : s[i] * s[i] \in Int
    BY <1>1, ElementOfSeq
  <2> QED BY <2>1, <2>2
<1>5. PICK w \in Int : w = v * v
  OBVIOUS
<1>6. Squares(t) = Append(q, w)
  <2>1. Append(q, w) = [i \in 1..n + 1 |-> IF i = n + 1 THEN w ELSE q[i]]
    <3>1. PICK u : u = Append(q, w)
      OBVIOUS
    <3>2. u \in Seq(Int) /\ Len(u) = n + 1 /\ u[n + 1] = w /\ \A i \in 1..n : u[i] = q[i]
      BY <1>4, <3>1, AppendProperties
    <3>3. u = [i \in 1..n + 1 |-> u[i]]
      BY <3>2
    <3>4. \A i \in 1..n + 1 : u[i] = IF i = n + 1 THEN w ELSE q[i]
      BY <3>2
    <3> QED BY <3>1, <3>3, <3>4
  <2>2. Squares(t) = [i \in 1..n + 1 |-> t[i] * t[i]]
    BY <1>2 DEF Squares
  <2>3. \A i \in 1..n + 1 : t[i] * t[i] = IF i = n + 1 THEN w ELSE q[i]
    <3> SUFFICES ASSUME NEW i \in 1..n + 1 PROVE t[i] * t[i] = IF i = n + 1 THEN w ELSE q[i]
      OBVIOUS
    <3>1. CASE i = n + 1
      BY <1>2, <1>5, <3>1
    <3>2. CASE i # n + 1
      <4>1. i \in 1..n
        BY <3>2
      <4> QED BY <1>2, <1>4, <3>2, <4>1
    <3> QED BY <3>1, <3>2
  <2> QED BY <2>1, <2>2, <2>3
<1>7. TotalOf(s) \in Int /\ TotalOf(q) \in Int
  BY <1>4, TotalIsNumber
<1>8. TotalOf(t) = TotalOf(s) + v /\ TotalOf(Append(q, w)) = TotalOf(q) + w
  BY <1>2, <1>4, TotalOfAppended
<1>9. \A x : Total(x) = TotalOf(x)
  BY DEF Total, TotalOf
<1> QED BY <1>1, <1>2, <1>3, <1>4, <1>5, <1>6, <1>7, <1>8, <1>9

LEMMA SquareIsNatural == \A x \in Int : x * x >= 0
OBVIOUS

\* The sum of the squares of a * s[i] - b, multiplied out, with one more value.
LEMMA OneSquareMore ==
  ASSUME NEW a \in Int, NEW b \in Int, NEW q \in Int, NEW t \in Int, NEW n \in Int, NEW v \in Int,
         a * a * q - 2 * a * b * t + b * b * n >= 0
  PROVE  a * a * (q + v * v) - 2 * a * b * (t + v) + b * b * (n + 1) >= 0
<1>1. PICK x \in Int : x = a * v - b
  OBVIOUS
<1>2. x * x >= 0
  BY SquareIsNatural
<1>3. x * x = a * a * (v * v) - 2 * a * b * v + b * b
  BY <1>1
<1>4. a * a * (q + v * v) - 2 * a * b * (t + v) + b * b * (n + 1)
        = (a * a * q - 2 * a * b * t + b * b * n) + x * x
  BY <1>3
<1> QED BY <1>2, <1>4

Deviations(s, a, b) == a * a * Total(Squares(s)) - 2 * a * b * Total(s) + b * b * Len(s)

LEMMA DeviationsAreNatural == \A s \in Seq(Int) : \A a, b \in Int : Deviations(s, a, b) >= 0
<1> DEFINE T == {s \in Seq(Int) : \A a, b \in Int : Deviations(s, a, b) >= 0}
<1>1. << >> \in T
  <2>1. << >> \in Seq(Int) /\ Len(<< >>) = 0 /\ Squares(<< >>) = << >>
    BY DEF Squares
  <2>2. Total(<< >>) = 0
    BY TotalOfNone DEF Total, TotalOf
  <2>3. ASSUME NEW a \in Int, NEW b \in Int PROVE Deviations(<< >>, a, b) >= 0
    BY <2>1, <2>2 DEF Deviations
  <2> QED BY <2>1, <2>3
<1>2. ASSUME NEW s \in Seq(Int), NEW v \in Int, s \in T PROVE Append(s, v) \in T
  <2>1. PICK q \in Int, t \in Int, n \in Int : q = Total(Squares(s)) /\ t = Total(s) /\ n = Len(s)
    BY WindowSums
  <2>2. /\ Total(Squares(Append(s, v))) = q + v * v /\ Total(Append(s, v)) = t + v
        /\ Len(Append(s, v)) = n + 1 /\ Append(s, v) \in Seq(Int)
    BY <2>1, WindowSums
  <2>3. ASSUME NEW a \in Int, NEW b \in Int PROVE Deviations(Append(s, v), a, b) >= 0
    <3>1. a * a * q - 2 * a * b * t + b * b * n >= 0
      BY <1>2, <2>1 DEF Deviations
    <3> QED BY <2>2, <3>1, OneSquareMore DEF Deviations
  <2> QED BY <2>2, <2>3
<1> HIDE DEF T
<1>3. \A s \in Seq(Int) : s \in T
  BY <1>1, <1>2, SequencesInSet
<1> QED BY <1>3 DEF T

\* Cauchy: the spread of a window is not negative.
LEMMA SpreadIsNatural ==
  ASSUME NEW s \in Seq(Int)
  PROVE  Len(s) * Total(Squares(s)) >= Total(s) * Total(s)
<1>1. PICK q \in Int, t \in Int, n \in Nat : q = Total(Squares(s)) /\ t = Total(s) /\ n = Len(s)
  BY WindowSums
<1>2. CASE n = 0
  <2>1. s = << >>
    BY <1>1, <1>2, EmptySeq
  <2>2. t = 0
    BY <1>1, <2>1, TotalOfNone DEF Total, TotalOf
  <2> QED BY <1>1, <1>2, <2>2
<1>3. CASE n > 0
  <2>1. n * n * q - 2 * n * t * t + t * t * n >= 0
    <3>1. Deviations(s, n, t) >= 0
      BY DeviationsAreNatural
    <3> QED BY <1>1, <3>1 DEF Deviations
  <2>2. PICK x \in Int : x = n * q - t * t
    OBVIOUS
  <2>3. n * x = n * n * q - 2 * n * t * t + t * t * n
    BY <2>2
  <2>4. x >= 0
    BY <1>3, <2>1, <2>3
  <2> QED BY <1>1, <2>2, <2>4
<1> QED BY <1>1, <1>2, <1>3

\* Samuelson: no value of a sample of m + 1 is further from its mean than m ^ (1/2)
\* standard deviations; multiplied out, with the sums t and q of the other values.
LEMMA OutlierIsBounded ==
  ASSUME NEW m \in Nat, NEW t \in Int, NEW q \in Int, NEW v \in Int, m * q >= t * t,
         NEW spread \in Int, spread = (m + 1) * (q + v * v) - (t + v) * (t + v),
         NEW distance \in Int, distance = (m + 1) * v - (t + v)
  PROVE  distance * distance <= m * spread
<1>1. PICK x \in Int : x = m * q - t * t /\ x >= 0
  OBVIOUS
<1>2. (m + 1) * x >= 0
  BY <1>1
<1>3. m * spread = distance * distance + (m + 1) * x
  BY <1>1
<1>4. PICK y \in Int, z \in Int : y = distance * distance /\ z = (m + 1) * x
  BY <1>1
<1> QED BY <1>2, <1>3, <1>4

\* Where the window ends.
LEMMA NewestEnds ==
  ASSUME NEW s \in Seq(Values), NEW v \in Values, NEW n \in Nat \ {0}
  PROVE  \E r \in Seq(Values) : Newest(Append(s, v), n) = Append(r, v)
<1>1. PICK l \in Nat : l = Len(s)
  OBVIOUS
<1>2. PICK t \in Seq(Values) : t = Append(s, v) /\ Len(t) = l + 1 /\ t[l + 1] = v
  <2>1. /\ Append(s, v) \in Seq(Values) /\ Len(Append(s, v)) = Len(s) + 1
        /\ Append(s, v)[Len(s) + 1] = v
    BY AppendProperties
  <2> QED BY <1>1, <2>1
<1>3. PICK m \in Nat, k \in Nat : /\ m = IF l + 1 > n THEN l + 1 - n + 1 ELSE 1
                                  /\ m >= 1 /\ m <= l + 1 /\ k = l + 1 - m + 1 /\ k >= 1
  <2>1. CASE l + 1 > n
    <3>1. PICK m \in Nat : m = l + 1 - n + 1 /\ m >= 1 /\ m <= l + 1
      BY <2>1
    <3>2. l + 1 - m + 1 \in Nat /\ l + 1 - m + 1 >= 1
      BY <3>1
    <3> QED BY <2>1, <3>1, <3>2
  <2>2. CASE ~(l + 1 > n)
    <3>1. 1 \in Nat /\ l + 1 - 1 + 1 \in Nat /\ l + 1 - 1 + 1 >= 1 /\ 1 <= l + 1
      OBVIOUS
    <3> QED BY <2>2, <3>1
  <2> QED BY <2>1, <2>2
<1>4. PICK w : w = SubSeq(t, m, l + 1)
  OBVIOUS
<1>5. w = Newest(t, n)
  BY <1>2, <1>3, <1>4 DEF Newest
<1>6. w \in Seq(Values) /\ Len(w) = k /\ \A i \in 1..k : w[i] = t[m + i - 1]
  <2>1. \A i \in m..l + 1 : t[i] \in Values
    BY <1>2, <1>3, ElementOfSeq
  <2>2. l + 1 \in Nat /\ k = IF m <= l + 1 THEN l + 1 - m + 1 ELSE 0
    BY <1>1, <1>3
  <2>3. /\ w \in Seq(Values) /\ Len(w) = k
        /\ \A i \in 1..l + 1 - m + 1 : w[i] = t[m + i - 1]
    BY <1>4, <2>1, <2>2, SubSeqProperties
  <2> QED BY <1>3, <2>3
<1>7. w[k] = v /\ w # << >>
  <2>1. k \in 1..k /\ m + k - 1 = l + 1
    BY <1>3
  <2> QED BY <1>2, <1>6, <2>1
<1>8. PICK r \in Seq(Values), e \in Values : w = Append(r, e)
  BY <1>6, <1>7, SequenceEmptyOrAppend
<1>9. e = v
  <2>1. Len(w) = Len(r) + 1 /\ w[Len(r) + 1] = e
    BY <1>8, AppendProperties
  <2> QED BY <1>6, <1>7, <2>1
<1> QED BY <1>2, <1>5, <1>8, <1>9

LEMMA IntegerValues ==
  ASSUME NEW s \in Seq(Values)
  PROVE  s \in Seq(Int)
BY SeqMonotonic

\* What the evaluator computes of a window that ends with v, from the number m of
\* the other values and their sums t and q.
SpreadWith(v, m, t, q) == (m + 1) * (q + v * v) - (t + v) * (t + v)
DistanceWith(v, m, t) == (m + 1) * v - (t + v)

LEMMA OutlierOfWindow ==
  ASSUME NEW r \in Seq(Int), NEW v \in Int, NEW m \in Nat, m = Len(r),
         NEW t \in Int, t = Total(r), NEW q \in Int, q = Total(Squares(r))
  PROVE  /\ Len(Append(r, v)) = m + 1
         /\ Outlier(v, Append(r, v))
              = IF SpreadWith(v, m, t, q) > 0
                THEN Exceeds(DistanceWith(v, m, t) * DistanceWith(v, m, t),
                             ZThreshold * ZThreshold * SpreadWith(v, m, t, q))
                ELSE {FALSE, m + 1 > 1 /\ ZThreshold <= 1}
<1>1. PICK s : s = Append(r, v)
  OBVIOUS
<1>2. Len(s) = m + 1 /\ Total(s) = t + v /\ Total(Squares(s)) = q + v * v
  BY <1>1, WindowSums
<1>3. Outlier(v, s) = IF SpreadWith(v, m, t, q) > 0
                      THEN Exceeds(DistanceWith(v, m, t) * DistanceWith(v, m, t),
                                   ZThreshold * ZThreshold * SpreadWith(v, m, t, q))
                      ELSE {FALSE, m + 1 > 1 /\ ZThreshold <= 1}
  BY <1>2, Zenon DEF Outlier, SpreadWith, DistanceWith
<1> QED BY <1>1, <1>2, <1>3

\* A product that is larger because of its first factor.
LEMMA LargerFactor ==
  ASSUME NEW m \in Nat, NEW z \in Nat, NEW x \in Int, x > 0
  PROVE  m * x > z * x <=> m > z
<1>1. CASE m > z
  <2>1. PICK e \in Nat : m = z + e /\ e >= 1
    <3>1. m - z \in Nat /\ m = z + (m - z) /\ m - z >= 1
      BY <1>1
    <3> QED BY <3>1
  <2>2. (z + e) * x = z * x + e * x /\ e * x > 0
    BY <2>1
  <2> QED BY <1>1, <2>1, <2>2
<1>2. CASE ~(m > z)
  <2>1. PICK e \in Nat : z = m + e
    <3>1. z - m \in Nat /\ z = m + (z - m)
      BY <1>2
    <3> QED BY <3>1
  <2>2. (m + e) * x = m * x + e * x /\ e * x >= 0
    OBVIOUS
  <2> QED BY <1>2, <2>1, <2>2
<1> QED BY <1>1, <1>2

\* Rounding does not decide between factors that differ.
LEMMA PreciseEnough ==
  ASSUME NEW m \in Nat, NEW z \in Nat, Precision \in Nat, Precision > z,
         NEW s \in Nat, s > 0, NEW x \in Int, NEW y \in Int, y = z * s
  PROVE  /\ m < z /\ x <= m * s => ~(x > y) /\ ~(Precision * (x - y) \in -y .. y)
         /\ m > z /\ x = m * s => x > y /\ ~(Precision * (x - y) \in -y .. y)
<1>1. PICK p \in Nat, w \in Int : p = Precision /\ w = p * s /\ w > y
  <2>1. Precision * s > z * s
    BY LargerFactor
  <2> QED BY <2>1
<1>2. ASSUME m < z, x <= m * s PROVE ~(x > y) /\ ~(Precision * (x - y) \in -y .. y)
  <2>1. PICK e \in Nat : z = m + 1 + e
    <3>1. z - m - 1 \in Nat /\ z = m + 1 + (z - m - 1)
      BY <1>2
    <3> QED BY <3>1
  <2>2. (m + 1 + e) * s = m * s + s + e * s /\ e * s >= 0 /\ m * s \in Int /\ e * s \in Int
    OBVIOUS
  <2>3. PICK d \in Nat : x - y = -s - d
    <3>1. x <= y - s
      BY <1>2, <2>1, <2>2
    <3>2. -s - (x - y) \in Nat /\ x - y = -s - (-s - (x - y))
      BY <3>1
    <3> QED BY <3>2
  <2>4. p * (-s - d) = -w - p * d /\ p * d >= 0 /\ p * d \in Int
    BY <1>1
  <2> QED BY <1>1, <2>3, <2>4
<1>3. ASSUME m > z, x = m * s PROVE x > y /\ ~(Precision * (x - y) \in -y .. y)
  <2>1. PICK e \in Nat : m = z + 1 + e
    <3>1. m - z - 1 \in Nat /\ m = z + 1 + (m - z - 1)
      BY <1>3
    <3> QED BY <3>1
  <2>2. (z + 1 + e) * s = z * s + s + e * s /\ e * s >= 0 /\ z * s \in Int /\ e * s \in Int
    OBVIOUS
  <2>3. PICK d \in Nat : x - y = s + d
    <3>1. x - y = s + e * s
      BY <1>3, <2>1, <2>2
    <3> QED BY <2>2, <3>1
  <2>4. p * (s + d) = w + p * d /\ p * d >= 0 /\ p * d \in Int
    BY <1>1
  <2> QED BY <1>1, <2>3, <2>4
<1> QED BY <1>2, <1>3

LEMMA OutlierWindow ==
  ASSUME NEW r \in Seq(Int), NEW v \in Int, TRUE \in Outlier(v, Append(r, v))
  PROVE  Len(Append(r, v)) - 1 >= ZThreshold * ZThreshold
<1>1. PICK m \in Nat, t \in Int, q \in Int : m = Len(r) /\ t = Total(r) /\ q = Total(Squares(r))
  BY WindowSums
<1>2. PICK spread \in Int, distance \in Int :
        spread = SpreadWith(v, m, t, q) /\ distance = DistanceWith(v, m, t)
  BY DEF SpreadWith, DistanceWith
<1>3. /\ Len(Append(r, v)) = m + 1
      /\ TRUE \in IF spread > 0
                  THEN Exceeds(distance * distance, ZThreshold * ZThreshold * spread)
                  ELSE {FALSE, m + 1 > 1 /\ ZThreshold <= 1}
  <2>1. /\ Len(Append(r, v)) = m + 1
        /\ Outlier(v, Append(r, v))
             = IF SpreadWith(v, m, t, q) > 0
               THEN Exceeds(DistanceWith(v, m, t) * DistanceWith(v, m, t),
                            ZThreshold * ZThreshold * SpreadWith(v, m, t, q))
               ELSE {FALSE, m + 1 > 1 /\ ZThreshold <= 1}
    BY <1>1, OutlierOfWindow
  <2> QED BY <1>2, <2>1, Zenon
<1>4. PICK z \in Nat : z = ZThreshold * ZThreshold /\ Precision \in Nat /\ Precision > z
  BY EvaluatorsAssumption
<1>5. CASE spread > 0
  <2>1. m * q >= t * t
    BY <1>1, SpreadIsNatural
  <2>2. distance * distance <= m * spread
    BY <1>2, <2>1, OutlierIsBounded DEF SpreadWith, DistanceWith
  <2>3. PICK x \in Int, y \in Int : x = distance * distance /\ y = z * spread
    OBVIOUS
  <2>4. x > y \/ Precision * (x - y) \in -y .. y
    <3>1. TRUE \in Exceeds(x, y)
      BY <1>3, <1>4, <1>5, <2>3
    <3> QED BY <3>1, Zenon DEF Exceeds
  <2>5. ~(m < z)
    BY <1>4, <1>5, <2>2, <2>3, <2>4, PreciseEnough
  <2> QED BY <1>3, <1>4, <2>5
<1>6. CASE ~(spread > 0)
  <2>1. m + 1 > 1 /\ ZThreshold <= 1
    BY <1>3, <1>6, Zenon
  <2>2. ZThreshold \in {0, 1}
    BY <2>1, EvaluatorsAssumption
  <2>3. ZThreshold * ZThreshold <= 1
    BY <2>2
  <2> QED BY <1>3, <1>4, <2>1, <2>3
<1> QED BY <1>5, <1>6

\* After m values c the window's spread and distance are simple, and it fires if m
\* is larger than the threshold's square.
LEMMA OutlierAfterEqual ==
  ASSUME NEW r \in Seq(Int), NEW c \in Int, \A i \in 1..Len(r) : r[i] = c, Len(r) > 0,
         NEW v \in Int, v # c, Len(Append(r, v)) - 1 > ZThreshold * ZThreshold
  PROVE  Outlier(v, Append(r, v)) = {TRUE}
<1>1. PICK m \in Nat, t \in Int, q \in Int : m = Len(r) /\ t = Total(r) /\ q = Total(Squares(r))
  BY WindowSums
<1>2. t = m * c /\ q = m * (c * c)
  <2>1. TotalOf(r) = m * c
    BY <1>1, TotalOfEqual
  <2>2. Squares(r) \in Seq(Int) /\ Len(Squares(r)) = m /\ \A i \in 1..m : Squares(r)[i] = c * c
    BY <1>1, WindowSums DEF Squares
  <2>3. PICK d \in Int : d = c * c
    OBVIOUS
  <2>4. TotalOf(Squares(r)) = m * d
    BY <2>2, <2>3, TotalOfEqual
  <2> QED BY <1>1, <2>1, <2>3, <2>4 DEF Total, TotalOf
<1>3. PICK z \in Nat, x \in Nat, y \in Int :
        z = ZThreshold * ZThreshold /\ x = (v - c) * (v - c) /\ y = m * x
  BY SquareIsNatural
<1>4. x > 0 /\ y > 0
  <2>1. PICK e \in Int : e = v - c /\ e # 0
    OBVIOUS
  <2>2. e * e > 0
    BY <2>1
  <2>3. x > 0
    BY <1>3, <2>1, <2>2
  <2> QED BY <1>1, <1>3, <2>3
<1>5. SpreadWith(v, m, t, q) = y
  BY <1>2, <1>3 DEF SpreadWith
<1>6. DistanceWith(v, m, t) * DistanceWith(v, m, t) = m * y
  BY <1>2, <1>3 DEF DistanceWith
<1>7. Len(Append(r, v)) = m + 1 /\ Outlier(v, Append(r, v)) = Exceeds(m * y, z * y)
  <2>1. /\ Len(Append(r, v)) = m + 1
        /\ Outlier(v, Append(r, v))
             = IF SpreadWith(v, m, t, q) > 0
               THEN Exceeds(DistanceWith(v, m, t) * DistanceWith(v, m, t),
                            ZThreshold * ZThreshold * SpreadWith(v, m, t, q))
               ELSE {FALSE, m + 1 > 1 /\ ZThreshold <= 1}
    BY <1>1, OutlierOfWindow
  <2> QED BY <1>3, <1>4, <1>5, <1>6, <2>1
<1>8. m > z /\ Precision \in Nat /\ Precision > z
  BY <1>3, <1>7, EvaluatorsAssumption
<1>9. PICK a \in Int, b \in Int : a = m * y /\ b = z * y
  OBVIOUS
<1>10. a > b /\ ~(Precision * (a - b) \in -b .. b)
  <2>1. y \in Nat /\ y > 0
    BY <1>4
  <2> QED BY <1>8, <1>9, <2>1, PreciseEnough
<1>11. Exceeds(a, b) = {TRUE}
  BY <1>10, Zenon DEF Exceeds
<1> QED BY <1>7, <1>9, <1>11

\* What the anomaly evaluator keeps ends with the value it was given.
LEMMA AnomalyWindow ==
  ASSUME TypeOK, NEW v \in Values, EvaluateAnomaly(v)
  PROVE  \E r \in Seq(Int) : /\ v \in Int /\ window' = Append(r, v)
                             /\ fires' \in IF Len(window') >= MinSamples
                                            THEN Outlier(v, window') ELSE {FALSE}
<1>1. PICK r \in Seq(Values) : Newest(Append(window, v), WindowSize) = Append(r, v)
  BY NewestEnds DEF TypeOK
<1>2. r \in Seq(Int) /\ v \in Int
  BY IntegerValues
<1>3. /\ window' = Newest(Append(window, v), WindowSize)
      /\ fires' \in IF Len(window') >= MinSamples THEN Outlier(v, window') ELSE {FALSE}
  BY DEF EvaluateAnomaly
<1> QED BY <1>1, <1>2, <1>3, Zenon

\* An anomaly rule fires only if its window holds more than z_threshold ^ 2 values,
\* since a value is compared with a sample that it is part of (anomaly.py:23),
\* however the floats are rounded.
THEOREM OutliersNeedWindows == Spec => []OutlierNeedsWindow
<1>1. Init => OutlierNeedsWindow
  BY DEF Init, OutlierNeedsWindow
<1>2. TypeOK /\ OutlierNeedsWindow /\ [Next]_vars => OutlierNeedsWindow'
  <2> SUFFICES ASSUME TypeOK, OutlierNeedsWindow, [Next]_vars PROVE OutlierNeedsWindow'
    OBVIOUS
  <2>1. CASE UNCHANGED vars
    BY <2>1 DEF vars, memory, history, OutlierNeedsWindow
  <2>2. ASSUME NEW v \in Values, EvaluateAnomaly(v) PROVE OutlierNeedsWindow'
    <3>1. PICK r \in Seq(Int) : /\ v \in Int /\ window' = Append(r, v)
                                /\ fires' \in IF Len(window') >= MinSamples
                                              THEN Outlier(v, window') ELSE {FALSE}
      BY <2>2, AnomalyWindow
    <3>2. ASSUME fires' PROVE Len(window') - 1 >= ZThreshold * ZThreshold
      <4>1. TRUE \in Outlier(v, window')
        BY <3>1, <3>2, OutlierIsBoolean, Zenon
      <4> QED BY <3>1, <4>1, OutlierWindow, Zenon
    <3> QED BY <3>2 DEF OutlierNeedsWindow
  <2>3. ASSUME EvaluateAbsence \/ EvaluateRate \/ Event PROVE OutlierNeedsWindow'
    BY <2>3 DEF EvaluateAbsence, EvaluateRate, Event, OutlierNeedsWindow
  <2>4. ASSUME NEW op \in Ops, NEW v \in Values, EvaluateThreshold(op, v)
        PROVE  OutlierNeedsWindow'
    BY <2>4 DEF EvaluateThreshold, OutlierNeedsWindow
  <2>5. ASSUME RefuseValue \/ Tick PROVE OutlierNeedsWindow'
    BY <2>5 DEF RefuseValue, Tick, memory, OutlierNeedsWindow
  <2> QED BY <2>1, <2>2, <2>3, <2>4, <2>5 DEF Next, Evaluate
<1> QED BY <1>1, <1>2, EvaluatorTypes, PTL DEF Spec

\* After equal values any other value, large or small, fires if they were more than
\* z_threshold ^ 2 and does not if they were fewer (anomaly.py:31).
THEOREM JumpsFire == Spec => JumpFires
<1> DEFINE Needed == fires' => /\ Len(window') >= MinSamples
                               /\ Len(window') - 1 >= ZThreshold * ZThreshold
           Enough == /\ Len(window') >= MinSamples
                     /\ Len(window') - 1 > ZThreshold * ZThreshold
<1>1. TypeOK /\ [Next]_vars
      => [window' # window /\ Jump(window') => Needed /\ (Enough => fires')]_vars
  <2> SUFFICES ASSUME TypeOK, Next, window' # window, Jump(window')
               PROVE  Needed /\ (Enough => fires')
    BY DEF vars, memory
  <2>1. PICK v \in Values : EvaluateAnomaly(v)
    BY DEF Next, Evaluate, EvaluateAbsence, EvaluateRate, EvaluateThreshold, RefuseValue, Event,
           Tick, memory
  <2>2. PICK r \in Seq(Int) : /\ v \in Int /\ window' = Append(r, v)
                              /\ fires' \in IF Len(window') >= MinSamples
                                            THEN Outlier(v, window') ELSE {FALSE}
    BY <2>1, AnomalyWindow
  <2>3. PICK m, w : /\ m \in Nat /\ m = Len(r) /\ w = window'
                    /\ Len(w) = m + 1 /\ w[m + 1] = v /\ \A i \in 1..m : w[i] = r[i]
    <3>1. Len(r) \in Nat
      BY <2>2, LenProperties
    <3>2. PICK w : w = Append(r, v)
      OBVIOUS
    <3>3. Len(w) = Len(r) + 1 /\ w[Len(r) + 1] = v /\ \A i \in 1..Len(r) : w[i] = r[i]
      BY <2>2, <3>2, AppendProperties
    <3> QED BY <2>2, <3>1, <3>2, <3>3
  <2>4. m > 0 /\ v # w[1] /\ \A i \in 1..m : w[i] = w[1]
    <3>1. Jump(w)
      BY <2>3
    <3> QED BY <2>3, <3>1 DEF Jump
  <2>5. PICK c \in Int : c = w[1] /\ \A i \in 1..m : r[i] = c
    <3>1. 1 \in 1..m
      BY <2>3, <2>4
    <3>2. w[1] = r[1] /\ r[1] \in Int
      BY <2>3, <3>1, ElementOfSeq
    <3> QED BY <2>3, <2>4, <3>2
  <2>6. Needed
    <3> SUFFICES ASSUME fires' PROVE /\ Len(window') >= MinSamples
                                     /\ Len(window') - 1 >= ZThreshold * ZThreshold
      OBVIOUS
    <3>1. Len(window') >= MinSamples /\ TRUE \in Outlier(v, window')
      BY <2>2, OutlierIsBoolean, Zenon
    <3> QED BY <2>2, <3>1, OutlierWindow, Zenon
  <2>7. ASSUME Enough PROVE fires'
    <3>1. Outlier(v, Append(r, v)) = {TRUE}
      BY <2>2, <2>3, <2>4, <2>5, <2>7, OutlierAfterEqual
    <3> QED BY <2>2, <2>7, <3>1, Zenon
  <2> QED BY <2>6, <2>7
<1> QED BY <1>1, EvaluatorTypes, PTL DEF Spec, JumpFires
=============================================================================
