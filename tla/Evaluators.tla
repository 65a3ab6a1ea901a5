----------------------------- MODULE Evaluators ------------------------------
(***************************************************************************)
(* alerting/evaluators: what the evaluator of a rule remembers from one    *)
(* evaluation to the next and when it fires.  A behaviour is the life of   *)
(* one rule, which has one evaluator; the engine evaluates it whenever the *)
(* rule is neither silenced nor cooling down and its query was answered,   *)
(* so at any time or not at all.  Times are ages; numbers are integers.    *)
(***************************************************************************)
EXTENDS Integers, Sequences, FiniteSets, FiniteSetsExt, SequencesExt

CONSTANTS
  Absence,     \* AbsenceEvaluator: absence_seconds
  Lookback,    \* external: how far back the rule's query looks for events
  Window,      \* RateOfChangeEvaluator: window_seconds
  RateLimit,   \* max_rate * window_seconds / 60: timestamps that are not too many
  Interval,    \* the time the engine lets pass between two evaluations
  WindowSize,  \* AnomalyEvaluator: window_size
  MinSamples,  \* the values it waits for, 10 in the code
  ZThreshold,  \* z_threshold
  Precision,   \* floats give the square of z_score to less than one part in this
  Threshold,   \* ThresholdEvaluator: threshold
  Values,      \* numbers a query returns
  MaxAge,      \* bound: ages are counted up to here
  MaxStamps    \* bound: timestamps of a rule

ASSUME EvaluatorsAssumption ==
  /\ Absence \in Nat /\ Lookback \in Nat /\ Window \in Nat
  /\ RateLimit \in Nat \ {0} /\ Interval \in Nat
  /\ WindowSize \in Nat \ {0} /\ MinSamples \in Nat /\ ZThreshold \in Nat
  /\ Precision \in Nat /\ Precision > ZThreshold * ZThreshold
  /\ Threshold \in Int /\ Values \subseteq Int
  /\ MaxAge \in Nat /\ MaxStamps \in Nat /\ Absence < MaxAge /\ Lookback < MaxAge

Never == -1

VARIABLES
  kind,       \* which evaluator the rule has
  fires,      \* what evaluate() returned last
  lastSeen,   \* AbsenceEvaluator: age of _last_seen, Never if that is 0
  timestamps, \* RateOfChangeEvaluator: ages of _timestamps
  window,     \* AnomalyEvaluator: _values
  silent,     \* environment: how long ago the last event happened
  evaluated,  \* history: how long ago the rule was evaluated last
  covered,    \* history: no evaluation came later than the query looks back
  spaced      \* history: evaluations were at least Interval apart

memory == <<lastSeen, timestamps, window>>
history == <<evaluated, covered, spaced>>
vars == <<kind, fires, memory, silent, history>>

Init == /\ kind \in {"absence", "rate", "anomaly", "threshold"}
        /\ fires = FALSE
        /\ lastSeen = Never /\ timestamps = << >> /\ window = << >>
        /\ silent = MaxAge /\ evaluated = 0 /\ covered = TRUE /\ spaced = TRUE

Older(n) == IF n < MaxAge THEN n + 1 ELSE n

-----------------------------------------------------------------------------
\* AbsenceEvaluator.evaluate().

\* Slips: the first evaluation is treated like any other; every evaluation sets
\* _last_seen.
LookForEventsAtOnce(count) ==
  IF count > 0 THEN lastSeen' = 0 /\ fires' = FALSE
  ELSE UNCHANGED lastSeen /\ fires' = (lastSeen > Absence \/ lastSeen = Never)

LookForEventsAndStamp(count) ==
  lastSeen' = 0 /\ fires' = (count = 0 /\ lastSeen > Absence)

LookForEvents(count) ==
  IF count > 0 \/ lastSeen = Never
  THEN lastSeen' = 0 /\ fires' = FALSE
  ELSE UNCHANGED lastSeen /\ fires' = (lastSeen > Absence)

\* The query counts the events it looks back at, or its answer is no number,
\* which evaluate() takes for 0.
EvaluateAbsence ==
  /\ kind = "absence"
  /\ \/ /\ LookForEvents(IF silent <= Lookback THEN 1 ELSE 0)
        /\ covered' = (covered /\ (lastSeen = Never \/ evaluated <= Lookback))
     \/ /\ LookForEvents(0)
        /\ covered' = FALSE
  /\ evaluated' = 0
  /\ UNCHANGED <<kind, timestamps, window, silent, spaced>>

\* An event of those the rule is about: its query counts it.
Event ==
  /\ kind \in {"absence", "rate"} /\ silent' = 0
  /\ UNCHANGED <<kind, fires, memory, history>>

-----------------------------------------------------------------------------
\* RateOfChangeEvaluator.evaluate(): the data is not looked at.

\* `while self._timestamps[0] < cutoff: popleft()` ends at the n-th timestamp; the
\* newest is never too old.  Slip: the window is longer than it should be.
FirstRecentTooLong(stamps, n) ==
  stamps[n] <= Window + 1 /\ \A i \in 1..n - 1 : stamps[i] > Window + 1

FirstRecent(stamps, n) ==
  stamps[n] <= Window /\ \A i \in 1..n - 1 : stamps[i] > Window

EvaluateRate ==
  /\ kind = "rate" /\ Len(timestamps) < MaxStamps
  /\ LET stamps == Append(timestamps, 0) IN
       \E n \in 1..Len(stamps) : /\ FirstRecent(stamps, n)
                                 /\ timestamps' = SubSeq(stamps, n, Len(stamps))
  /\ fires' = (Len(timestamps') >= 2 /\ Len(timestamps') > RateLimit)
  /\ spaced' = (spaced /\ (timestamps = << >> \/ timestamps[Len(timestamps)] >= Interval))
  /\ UNCHANGED <<kind, lastSeen, window, silent, evaluated, covered>>

-----------------------------------------------------------------------------
\* AnomalyEvaluator.evaluate().

Total(s) == FoldLeft(+, 0, s)
Squares(s) == [i \in 1..Len(s) |-> s[i] * s[i]]
Newest(s, n) == SubSeq(s, IF Len(s) > n THEN Len(s) - n + 1 ELSE 1, Len(s))

\* x > y if mean, variance, square root and quotient are rounded: close to equality
\* the rounding decides.
Exceeds(x, y) == IF Precision * (x - y) \in -y .. y THEN BOOLEAN ELSE {x > y}

\* What z_score > z_threshold may be, multiplied out: the mean is Total / n and the
\* variance spread / n ^ 2.  The variance of equal values is 0, or all rounding:
\* z_score is then 1.
\* Slip: the variance of a sample, over n - 1.
OutlierOfSample(v, s) ==
  LET n == Len(s)  spread == n * Total(Squares(s)) - Total(s) * Total(s)
      distance == n * v - Total(s)
  IN  IF spread > 0
      THEN Exceeds(distance * distance * (n - 1), ZThreshold * ZThreshold * spread * n)
      ELSE {FALSE, n > 1 /\ ZThreshold <= 1}

Outlier(v, s) ==
  LET n == Len(s)  spread == n * Total(Squares(s)) - Total(s) * Total(s)
      distance == n * v - Total(s)
  IN  IF spread > 0 THEN Exceeds(distance * distance, ZThreshold * ZThreshold * spread)
      ELSE {FALSE, n > 1 /\ ZThreshold <= 1}

\* Slip: the value is compared with those before it.
EvaluateAnomalyBefore(v) ==
  /\ kind = "anomaly"
  /\ window' = Newest(Append(window, v), WindowSize)
  /\ fires' \in IF Len(window) >= MinSamples THEN Outlier(v, window) ELSE {FALSE}
  /\ UNCHANGED <<kind, lastSeen, timestamps, silent, history>>

EvaluateAnomaly(v) ==
  /\ kind = "anomaly"
  /\ window' = Newest(Append(window, v), WindowSize)
  /\ fires' \in IF Len(window') >= MinSamples THEN Outlier(v, window') ELSE {FALSE}
  /\ UNCHANGED <<kind, lastSeen, timestamps, silent, history>>

-----------------------------------------------------------------------------
\* ThresholdEvaluator.evaluate(): `op` is the evaluator's, of six it knows.
Ops == {">", ">=", "<", "<=", "==", "!="}

Compare(op, v) ==
  \/ op = ">" /\ v > Threshold
  \/ op = ">=" /\ v >= Threshold
  \/ op = "<" /\ v < Threshold
  \/ op = "<=" /\ v <= Threshold
  \/ op = "==" /\ v = Threshold
  \/ op = "!=" /\ v # Threshold

EvaluateThreshold(op, v) ==
  /\ kind = "threshold"
  /\ fires' = Compare(op, v)
  /\ UNCHANGED <<kind, memory, silent, history>>

\* A value that float() refuses fires neither of the last two and is not remembered.
RefuseValue ==
  /\ kind \in {"anomaly", "threshold"}
  /\ fires' = FALSE
  /\ UNCHANGED <<kind, memory, silent, history>>

-----------------------------------------------------------------------------
Tick ==
  /\ \A i \in 1..Len(timestamps) : timestamps[i] < MaxAge
  /\ timestamps' = [i \in 1..Len(timestamps) |-> timestamps[i] + 1]
  /\ lastSeen' = IF lastSeen = Never THEN Never ELSE Older(lastSeen)
  /\ silent' = Older(silent) /\ evaluated' = Older(evaluated)
  /\ UNCHANGED <<kind, fires, window, covered, spaced>>

Evaluate == \/ EvaluateAbsence \/ EvaluateRate
            \/ \E v \in Values : EvaluateAnomaly(v)
            \/ \E op \in Ops, v \in Values : EvaluateThreshold(op, v)
            \/ RefuseValue

Next == Evaluate \/ Event \/ Tick

Spec == Init /\ [][Next]_vars

\* Time passes, and an engine that runs evaluates the rule again and again.
FairSpec == Spec /\ WF_vars(Tick) /\ WF_vars(Evaluate)

-----------------------------------------------------------------------------
TypeOK ==
  /\ kind \in {"absence", "rate", "anomaly", "threshold"}
  /\ fires \in BOOLEAN /\ covered \in BOOLEAN /\ spaced \in BOOLEAN
  /\ lastSeen \in {Never} \cup 0..MaxAge
  /\ silent \in 0..MaxAge /\ evaluated \in 0..MaxAge
  /\ timestamps \in Seq(0..MaxAge)
  /\ window \in Seq(Values) /\ Len(window) <= WindowSize

\* An absence alert is true, "No order events received for 60 seconds"
\* (rules.py:77), as long as no silence, cooldown or failed query makes the
\* evaluations lie further apart than the query looks back.
AbsenceIsReal ==
  [][EvaluateAbsence /\ fires' /\ covered' => silent > Absence]_vars

\* When the events stop for good the rule fires in the end, and stays so.
AbsenceIsFound == kind = "absence" /\ <>[](silent = MaxAge) => <>[]fires

\* The rate rule counts its evaluations and not what its query finds: an engine that
\* evaluates every Interval never sees it fire, however fast the events come,
\* unless Interval is short enough for the limit; and if it is, RateIsReal fails.
RateNeedsEvaluations ==
  kind = "rate" /\ fires /\ spaced => RateLimit * Interval <= Window

\* "WebSocket reconnect rate too high" (rules.py:59): a rate alert is about events,
\* at least one in the window.
RateIsReal ==
  [][EvaluateRate /\ fires' /\ spaced' => silent <= Window]_vars

\* An outlier needs a window of more than z_threshold ^ 2 values, itself included,
\* whatever their sizes; in one of z_threshold ^ 2 + 1 rounding decides.
OutlierNeedsWindow ==
  kind = "anomaly" /\ fires => Len(window) - 1 >= ZThreshold * ZThreshold

\* After values that are all equal, any other value fires if they were more than
\* z_threshold ^ 2, and none does if they were fewer: its size does not matter.  If
\* they were as many, rounding decides.
Jump(s) == LET m == Len(s) - 1 IN
  m > 0 /\ s[m + 1] # s[1] /\ \A i \in 1..m : s[i] = s[1]
JumpFires ==
  [][window' # window /\ Jump(window') =>
       LET m == Len(window') - 1 IN
       /\ fires' => Len(window') >= MinSamples /\ m >= ZThreshold * ZThreshold
       /\ Len(window') >= MinSamples /\ m > ZThreshold * ZThreshold => fires']_vars
=============================================================================
