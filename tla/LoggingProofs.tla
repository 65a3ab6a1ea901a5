----------------------------- MODULE LoggingProofs -----------------------------
(***************************************************************************)
(* The logger keeps what its parts promise (the no-op transport, the trace *)
(* context), gives wrapped functions' results back, and measures them.     *)
(***************************************************************************)
EXTENDS Logging, LoggerPartsProofs

LEMMA LoggingInitParts == LoggingInit => Init /\ TraceInit
BY DEF LoggingInit

\* A step of the logger is a step of the transport's buffer, or none.
LEMMA BufferStep == [LoggingNext]_loggingVars => [Next]_vars
<1> SUFFICES ASSUME [LoggingNext]_loggingVars PROVE [Next]_vars
  OBVIOUS
<1>1. CASE UNCHANGED loggingVars
  BY <1>1 DEF loggingVars, sendVars
<1>2. ASSUME NEW t \in Threads, Test(t) \/ Pop(t) \/ Store(t) PROVE [Next]_vars
  BY <1>2 DEF Next
<1>3. ASSUME NEW t \in Threads, NEW w, NEW level, NEW added, Emit(t, w, level, added)
      PROVE  [Next]_vars
  BY <1>2, <1>3 DEF Emit
<1>4. ASSUME NEW t \in Threads, NEW level, NEW added, Log(t, level, added) PROVE [Next]_vars
  BY <1>3, <1>4 DEF Log
<1>5. ASSUME NEW t \in Threads, Metric(t) PROVE [Next]_vars
  BY <1>2, <1>5 DEF Metric
<1>6. ASSUME NEW t \in Threads, LogCall(t) PROVE [Next]_vars
  BY <1>2, <1>6 DEF LogCall, Emit
<1>7. ASSUME NEW t \in Threads, PopOldest(t) \/ StoreEntry(t) PROVE [Next]_vars
  BY <1>2, <1>7 DEF PopOldest, StoreEntry
<1>8. ASSUME NEW t \in Threads,
             \/ \E by \in Wrappers : Call(t, by)
             \/ FlaskResponds(t) \/ FastapiResponds(t) \/ ClientResponds(t) \/ RequestRaises(t)
             \/ FunctionReturns(t) \/ FunctionRaises(t)
             \/ GetHistogram(t) \/ Register(t) \/ ObserveLatency(t)
             \/ Construct(t) \/ Assign(t) \/ Configured(t) \/ Trace(t)
      PROVE  UNCHANGED vars
  BY <1>8 DEF Call, FlaskResponds, FastapiResponds, ClientResponds, Responds, RequestRaises,
              FunctionReturns, FunctionRaises, GetHistogram, Register, ObserveLatency,
              Construct, Assign, Configured, Trace, sendVars
<1> QED BY <1>1, <1>4, <1>5, <1>6, <1>7, <1>8 DEF LoggingNext

\* And a step of the trace context, or none.
LEMMA ContextStep == [LoggingNext]_loggingVars => [TraceNext]_traceVars
<1> SUFFICES ASSUME [LoggingNext]_loggingVars PROVE [TraceNext]_traceVars
  OBVIOUS
<1>0. Tasks = Threads
  BY LoggingAssumption DEF LoggingAssumption
<1>1. CASE UNCHANGED loggingVars
  BY <1>1 DEF loggingVars, sendVars
<1>2. ASSUME NEW t \in Threads, EnsureIds(t) \/ EnsureTrace(t) PROVE [TraceNext]_traceVars
  BY <1>0, <1>2 DEF TraceNext
<1>3. ASSUME NEW t \in Threads, NEW level, NEW added, Log(t, level, added)
      PROVE  [TraceNext]_traceVars
  BY <1>2, <1>3 DEF Log, Emit
<1>4. ASSUME NEW t \in Threads, Metric(t) PROVE [TraceNext]_traceVars
  BY <1>2, <1>4 DEF Metric
<1>5. ASSUME NEW t \in Threads, LogCall(t) PROVE [TraceNext]_traceVars
  BY <1>2, <1>5 DEF LogCall, Emit
<1>6. ASSUME NEW t \in Threads, Trace(t) PROVE [TraceNext]_traceVars
  BY <1>0, <1>6 DEF Trace, TraceNext
<1>7. ASSUME NEW t \in Threads,
             \/ \E by \in Wrappers : Call(t, by)
             \/ FlaskResponds(t) \/ FastapiResponds(t) \/ ClientResponds(t) \/ RequestRaises(t)
             \/ FunctionReturns(t) \/ FunctionRaises(t)
             \/ GetHistogram(t) \/ Register(t) \/ ObserveLatency(t)
             \/ PopOldest(t) \/ StoreEntry(t)
             \/ Construct(t) \/ Assign(t) \/ Configured(t)
      PROVE  UNCHANGED traceVars
  BY <1>7 DEF Call, FlaskResponds, FastapiResponds, ClientResponds, Responds, RequestRaises,
              FunctionReturns, FunctionRaises, GetHistogram, Register, ObserveLatency,
              PopOldest, StoreEntry, Construct, Assign, Configured, sendVars
<1> QED BY <1>1, <1>3, <1>4, <1>5, <1>6, <1>7 DEF LoggingNext

\* The logger's buffer is the no-op transport, its ids the trace context: what is
\* proved of each holds of the logger (core.py:49, _emit).
THEOREM LoggingComposes == LoggingSpec => Spec /\ TraceSpec
<1> QED BY LoggingInitParts, BufferStep, ContextStep, PTL DEF LoggingSpec, Spec, TraceSpec

\* Entries of the logger carry the trace of the innermost span.
THEOREM LoggingTraceStays == LoggingSpec => []TraceStays
<1> QED BY LoggingComposes, TraceContinuity, PTL

THEOREM LoggingSpansKeepTrace == LoggingSpec => []SpanHasOneTrace
<1> QED BY LoggingComposes, SpansKeepTheirTrace, PTL

\* An exception out of pop(0) is the only way to lose a result.
LEMMA LostOnlyByPop == LoggingSpec => [](lost => raised)
<1>1. LoggingInit => (lost => raised)
  BY DEF LoggingInit
<1>2. (lost => raised) /\ [LoggingNext]_loggingVars => (lost => raised)'
  <2> SUFFICES ASSUME lost => raised, [LoggingNext]_loggingVars PROVE (lost => raised)'
    OBVIOUS
  <2>1. raised => raised'
    BY BufferStep DEF Next, vars, Test, Pop, Store
  <2>2. CASE UNCHANGED loggingVars
    BY <2>1, <2>2 DEF loggingVars, wrapVars
  <2>3. ASSUME NEW t \in Threads, PopOldest(t) PROVE (lost => raised)'
    BY <2>1, <2>3 DEF PopOldest, Pop
  <2>4. ASSUME NEW t \in Threads, NEW level, NEW added, Log(t, level, added) PROVE lost' = lost
    BY <2>4 DEF Log, wrapVars
  <2>5. ASSUME NEW t \in Threads,
               \/ Metric(t) \/ \E by \in Wrappers : Call(t, by)
               \/ FlaskResponds(t) \/ FastapiResponds(t) \/ ClientResponds(t) \/ RequestRaises(t)
               \/ FunctionReturns(t) \/ FunctionRaises(t)
               \/ GetHistogram(t) \/ Register(t) \/ ObserveLatency(t) \/ LogCall(t)
               \/ StoreEntry(t) \/ Construct(t) \/ Assign(t) \/ Configured(t) \/ Trace(t)
        PROVE  lost' = lost
    BY <2>5 DEF Metric, Call, FlaskResponds, FastapiResponds, ClientResponds, Responds,
                RequestRaises, FunctionReturns, FunctionRaises, GetHistogram, Register,
                ObserveLatency, LogCall, StoreEntry, Construct, Assign, Configured, Trace,
                wrapVars
  <2> QED BY <2>1, <2>2, <2>3, <2>4, <2>5 DEF LoggingNext
<1> QED BY <1>1, <1>2, PTL DEF LoggingSpec

\* The result of a wrapped function is replaced by an exception of the logger
\* (latency.py:27, flask.py:27, requests.py:24) only if more threads send at once
\* than the buffer has places.
THEOREM ResultsComeBack == LoggingSpec => []ResultsReturned
<1>1. (lost => raised) /\ PopRaisesOnlyWhenOutnumbered => ResultsReturned
  BY DEF PopRaisesOnlyWhenOutnumbered, ResultsReturned
<1> QED BY <1>1, LoggingComposes, LostOnlyByPop, NoopPopRaises, PTL

-----------------------------------------------------------------------------
\* Where threads are inside the registry's and inside configure()'s lock.
InRegistry == {"measuring", "registering", "observing"}
InConfigure == {"making", "made"}

\* A thread inside send() is at a log call.
SendInv ==
  /\ work \in [Threads -> WorkType]
  /\ \A t \in Threads : step[t] # "idle" <=> work[t].phase = "sending"

ConfigInv ==
  /\ current \in Nat /\ made \in Nat /\ current <= made
  /\ \A t \in Threads : work[t].phase = "making" => work[t].own = made
  /\ \A t, u \in Threads : work[t].phase = "making" /\ work[u].phase = "making" => t = u
  /\ \A t \in Threads : work[t].phase = "made" => work[t].own <= current

\* Only one histogram is ever constructed.
MetricInv ==
  /\ succeeded \in Nat /\ registered \in {0, 1}
  /\ histograms \in Seq(Nat) /\ Len(histograms) = registered
  /\ \A t, u \in Threads :
       work[t].phase = "registering" /\ work[u].phase = "registering" => t = u
  /\ \A t \in Threads : work[t].phase = "registering" => registered = 0
  /\ \A t \in Threads : work[t].phase = "observing" => work[t].own = 1 /\ registered = 1
  /\ SuccessesMeasured

FrontInv == SendInv /\ ConfigInv /\ MetricInv

\* One thread goes to another phase.
LEMMA WorkChanges ==
  ASSUME work \in [Threads -> WorkType], NEW t \in Threads, NEW w \in WorkType,
         work' = [work EXCEPT ![t] = w]
  PROVE  /\ work' \in [Threads -> WorkType] /\ work'[t] = w
         /\ \A u \in Threads \ {t} : work'[u] = work[u]
OBVIOUS

LEMMA ConfigSame ==
  ASSUME SendInv, ConfigInv, NEW t \in Threads, NEW w \in WorkType,
         work' = [work EXCEPT ![t] = w], w.phase \notin InConfigure, UNCHANGED configVars
  PROVE  ConfigInv'
<1>1. /\ work'[t] = w /\ \A u \in Threads \ {t} : work'[u] = work[u]
      /\ current' = current /\ made' = made
  BY WorkChanges DEF SendInv, configVars
<1>2. w.phase # "making" /\ w.phase # "made"
  BY DEF InConfigure
<1>3. \A u \in Threads : work'[u] = work[u] \/ (u = t /\ work'[u] = w)
  BY <1>1
<1> QED BY <1>1, <1>2, <1>3 DEF ConfigInv

LEMMA MeasuringFinite ==
  ASSUME SendInv
  PROVE  IsFiniteSet(Measuring) /\ Cardinality(Measuring) \in Nat
<1>1. Measuring \subseteq Threads /\ IsFiniteSet(Threads)
  BY NoopAssumption DEF Measuring, NoopAssumption
<1> QED BY <1>1, FS_Subset, FS_CardinalityType

LEMMA MetricSame ==
  ASSUME SendInv, MetricInv, NEW t \in Threads, NEW w \in WorkType,
         work' = [work EXCEPT ![t] = w], w.phase \notin InRegistry,
         work[t].phase \notin InRegistry, succeeded' = succeeded, UNCHANGED metricVars
  PROVE  MetricInv'
<1>1. /\ work'[t] = w /\ \A u \in Threads \ {t} : work'[u] = work[u]
      /\ histograms' = histograms /\ registered' = registered /\ succeeded' = succeeded
  BY WorkChanges DEF SendInv, metricVars
<1>2. w.phase # "registering" /\ w.phase # "observing"
  BY DEF InRegistry
<1>3. \A u \in Threads : work'[u] = work[u] \/ (u = t /\ work'[u] = w)
  BY <1>1
<1>4. Measuring' = Measuring
  BY <1>1, <1>3 DEF Measuring, InRegistry
<1>5. SuccessesMeasured'
  BY <1>1, <1>4 DEF MetricInv, SuccessesMeasured
<1> QED BY <1>1, <1>2, <1>3, <1>5 DEF MetricInv

\* A step that leaves both locks alone.
LEMMA Quiet ==
  ASSUME FrontInv, SendInv', NEW t \in Threads, NEW w \in WorkType,
         work' = [work EXCEPT ![t] = w], w.phase \notin InConfigure \cup InRegistry,
         work[t].phase \notin InRegistry,
         succeeded' = succeeded, UNCHANGED metricVars, UNCHANGED configVars
  PROVE  FrontInv'
BY ConfigSame, MetricSame DEF FrontInv

LEMMA SendChanges ==
  ASSUME SendInv, NEW t \in Threads, NEW w \in WorkType, work' = [work EXCEPT ![t] = w],
         \A u \in Threads \ {t} : step'[u] = step[u],
         step'[t] # "idle" <=> w.phase = "sending"
  PROVE  SendInv'
<1>1. /\ work' \in [Threads -> WorkType] /\ work'[t] = w
      /\ \A u \in Threads \ {t} : work'[u] = work[u]
  BY WorkChanges DEF SendInv
<1>2. ASSUME NEW u \in Threads PROVE step'[u] # "idle" <=> work'[u].phase = "sending"
  <2>1. CASE u = t
    BY <1>1, <2>1
  <2>2. CASE u # t
    <3>1. u \in Threads \ {t}
      BY <1>2, <2>2
    <3>2. step'[u] = step[u] /\ work'[u] = work[u]
      BY <1>1, <3>1
    <3> QED BY <3>1, <3>2 DEF SendInv
  <2> QED BY <2>1, <2>2
<1> QED BY <1>1, <1>2 DEF SendInv

LEMMA IdleType ==
  /\ Idle \in WorkType /\ Idle.phase = "none"
  /\ Plain \in WorkType
<1>1. 0 \in 0..2 /\ 1 \in 0..2 /\ 0 \in Nat /\ TRUE \in BOOLEAN
  OBVIOUS
<1>2. Idle \in WorkType /\ Idle.phase = "none"
  BY <1>1 DEF Idle, WorkType
<1>3. [Idle EXCEPT !.by = "plain"] \in WorkType
  BY <1>2 DEF WorkType
<1>4. PICK w \in WorkType : w = [Idle EXCEPT !.by = "plain"]
  BY <1>3
<1>5. [w EXCEPT !.left = 1] \in WorkType
  BY <1>1 DEF WorkType
<1>6. Plain = [w EXCEPT !.left = 1]
  BY <1>4 DEF Plain
<1> QED BY <1>2, <1>5, <1>6

LEMMA OnwardType ==
  ASSUME NEW w \in WorkType
  PROVE  Onward(w) \in WorkType /\ Onward(w).phase \in {"none", "logging"}
<1>1. CASE w.left > 1
  <2>1. w.left - 1 \in 0..2
    BY <1>1 DEF WorkType
  <2>2. [w EXCEPT !.phase = "logging", !.left = @ - 1] \in WorkType
        /\ [w EXCEPT !.phase = "logging", !.left = @ - 1].phase = "logging"
    BY <2>1 DEF WorkType
  <2> QED BY <1>1, <2>2 DEF Onward
<1>2. CASE ~(w.left > 1)
  BY <1>2, IdleType DEF Onward
<1> QED BY <1>1, <1>2

\* Steps that have nothing to do with the transport.
LEMMA QuietStep ==
  ASSUME FrontInv, TypeOK, NEW t \in Threads, NEW w \in WorkType,
         work' = [work EXCEPT ![t] = w], UNCHANGED vars,
         w.phase \notin InConfigure \cup InRegistry \cup {"sending"},
         work[t].phase \notin InRegistry \cup {"sending"},
         succeeded' = succeeded, UNCHANGED metricVars, UNCHANGED configVars
  PROVE  FrontInv'
<1>1. step' = step /\ step[t] = "idle"
  BY DEF vars, FrontInv, SendInv
<1>2. SendInv'
  BY <1>1, SendChanges DEF FrontInv
<1> QED BY <1>2, Quiet

\* An entry is built, filtered and handed to send().
LEMMA EmitInv ==
  ASSUME FrontInv, TypeOK, NEW t \in Threads, NEW w \in WorkType,
         \/ Test(t) /\ work' = [work EXCEPT ![t] = [w EXCEPT !.phase = "sending"]]
         \/ UNCHANGED vars /\ work' = [work EXCEPT ![t] = Onward(w)],
         work[t].phase \in {"none", "logging"},
         succeeded' = succeeded, UNCHANGED metricVars, UNCHANGED configVars
  PROVE  FrontInv'
<1>0. work[t].phase \notin InRegistry \cup {"sending"}
  BY DEF InRegistry
<1>1. CASE Test(t) /\ work' = [work EXCEPT ![t] = [w EXCEPT !.phase = "sending"]]
  <2>1. /\ step' \in [Threads -> {"idle", "pop", "append"}] /\ step'[t] # "idle"
        /\ \A u \in Threads \ {t} : step'[u] = step[u]
    BY <1>1 DEF Test, TypeOK
  <2>2. [w EXCEPT !.phase = "sending"] \in WorkType
        /\ [w EXCEPT !.phase = "sending"].phase = "sending"
    BY DEF WorkType
  <2>3. PICK x \in WorkType : x.phase = "sending" /\ work' = [work EXCEPT ![t] = x]
    BY <1>1, <2>2
  <2>4. SendInv'
    BY <2>1, <2>3, SendChanges DEF FrontInv
  <2> QED BY <1>0, <2>3, <2>4, Quiet DEF InConfigure, InRegistry
<1>2. CASE UNCHANGED vars /\ work' = [work EXCEPT ![t] = Onward(w)]
  <2>1. PICK x \in WorkType : x.phase \in {"none", "logging"} /\ work' = [work EXCEPT ![t] = x]
    BY <1>2, OnwardType
  <2> QED BY <1>0, <1>2, <2>1, QuietStep DEF InConfigure, InRegistry
<1> QED BY <1>1, <1>2

LEMMA LogInv ==
  ASSUME FrontInv, TypeOK, NEW t \in Threads, NEW level, NEW added, Log(t, level, added)
  PROVE  FrontInv'
<1>1. work[t].phase = "none" /\ Plain \in WorkType
  BY IdleType DEF Log
<1>2. \/ Test(t) /\ work' = [work EXCEPT ![t] = [Plain EXCEPT !.phase = "sending"]]
      \/ UNCHANGED vars /\ work' = [work EXCEPT ![t] = Onward(Plain)]
  BY DEF Log, Emit
<1>3. succeeded' = succeeded /\ UNCHANGED metricVars /\ UNCHANGED configVars
  BY DEF Log, wrapVars
<1> QED BY <1>1, <1>2, <1>3, EmitInv

LEMMA MetricEntryInv ==
  ASSUME FrontInv, TypeOK, NEW t \in Threads, Metric(t)
  PROVE  FrontInv'
<1>1. work[t].phase = "none" /\ Plain \in WorkType
  BY IdleType DEF Metric
<1>2. Test(t) /\ work' = [work EXCEPT ![t] = [Plain EXCEPT !.phase = "sending"]]
  BY DEF Metric
<1>3. succeeded' = succeeded /\ UNCHANGED metricVars /\ UNCHANGED configVars
  BY DEF Metric, wrapVars
<1> QED BY <1>1, <1>2, <1>3, EmitInv

LEMMA LogCallInv ==
  ASSUME FrontInv, TypeOK, NEW t \in Threads, LogCall(t)
  PROVE  FrontInv'
<1>1. work[t].phase = "logging" /\ work[t] \in WorkType
  BY DEF LogCall, FrontInv, SendInv
<1>2. \/ Test(t) /\ work' = [work EXCEPT ![t] = [work[t] EXCEPT !.phase = "sending"]]
      \/ UNCHANGED vars /\ work' = [work EXCEPT ![t] = Onward(work[t])]
  BY DEF LogCall, Emit
<1>3. succeeded' = succeeded /\ UNCHANGED metricVars /\ UNCHANGED configVars
  BY DEF LogCall, wrapVars
<1>4. PICK w \in WorkType : w = work[t]
  BY <1>1
<1> QED BY <1>1, <1>2, <1>3, <1>4, EmitInv

LEMMA PopOldestInv ==
  ASSUME FrontInv, TypeOK, NEW t \in Threads, PopOldest(t)
  PROVE  FrontInv'
<1>1. /\ step[t] = "pop" /\ \A u \in Threads \ {t} : step'[u] = step[u]
      /\ step'[t] = IF buffer = << >> THEN "idle" ELSE "append"
  BY DEF PopOldest, Pop, TypeOK
<1>2. work[t].phase = "sending" /\ work[t] \in WorkType /\ work \in [Threads -> WorkType]
  BY <1>1 DEF FrontInv, SendInv
<1>3. PICK w \in WorkType : w = IF buffer = << >> THEN Idle ELSE work[t]
  BY <1>2, IdleType
<1>4. work' = [work EXCEPT ![t] = w]
  BY <1>2, <1>3 DEF PopOldest
<1>5. w.phase \in {"none", "sending"} /\ (step'[t] # "idle" <=> w.phase = "sending")
  BY <1>1, <1>2, <1>3, IdleType
<1>6. SendInv'
  BY <1>1, <1>4, <1>5, SendChanges DEF FrontInv
<1>7. succeeded' = succeeded /\ UNCHANGED metricVars /\ UNCHANGED configVars
  BY DEF PopOldest
<1> QED BY <1>2, <1>4, <1>5, <1>6, <1>7, Quiet DEF InConfigure, InRegistry

LEMMA StoreEntryInv ==
  ASSUME FrontInv, TypeOK, NEW t \in Threads, StoreEntry(t)
  PROVE  FrontInv'
<1>1. /\ step[t] = "append" /\ step'[t] = "idle"
      /\ \A u \in Threads \ {t} : step'[u] = step[u]
  BY DEF StoreEntry, Store, TypeOK
<1>2. work[t].phase = "sending" /\ work[t] \in WorkType
  BY <1>1 DEF FrontInv, SendInv
<1>3. PICK w \in WorkType : w.phase \in {"none", "logging"} /\ w = Onward(work[t])
  BY <1>2, OnwardType
<1>4. work' = [work EXCEPT ![t] = w]
  BY <1>3 DEF StoreEntry
<1>5. SendInv'
  BY <1>1, <1>3, <1>4, SendChanges DEF FrontInv
<1>6. succeeded' = succeeded /\ UNCHANGED metricVars /\ UNCHANGED configVars
  BY DEF StoreEntry, wrapVars
<1> QED BY <1>2, <1>3, <1>4, <1>5, <1>6, Quiet DEF InConfigure, InRegistry

\* The wrappers' steps around the function.
LEMMA WrapperInv ==
  ASSUME FrontInv, TypeOK, NEW t \in Threads,
         \/ \E by \in Wrappers : Call(t, by)
         \/ FlaskResponds(t) \/ FastapiResponds(t) \/ ClientResponds(t) \/ RequestRaises(t)
         \/ FunctionRaises(t)
  PROVE  FrontInv'
<1>1. work[t] \in WorkType
  BY DEF FrontInv, SendInv
<1>2. ASSUME NEW by \in Wrappers, Call(t, by) PROVE FrontInv'
  <2>1. PICK w \in WorkType : w.phase = "running" /\ work' = [work EXCEPT ![t] = w]
    <3>1. PICK x \in WorkType : x = Idle
      BY IdleType
    <3>2. /\ [x EXCEPT !.by = by, !.phase = "running"] \in WorkType
          /\ [x EXCEPT !.by = by, !.phase = "running"].phase = "running"
      BY <1>2 DEF WorkType
    <3> QED BY <1>2, <3>1, <3>2 DEF Call
  <2>2. /\ work[t].phase = "none" /\ UNCHANGED vars
        /\ succeeded' = succeeded /\ UNCHANGED metricVars /\ UNCHANGED configVars
    BY <1>2, IdleType DEF Call, sendVars
  <2> QED BY <2>1, <2>2, QuietStep DEF InConfigure, InRegistry
<1>3. ASSUME NEW n \in 1..2, work[t].phase = "running", Responds(t, n) PROVE FrontInv'
  <2>1. PICK w \in WorkType : w.phase = "logging" /\ work' = [work EXCEPT ![t] = w]
    <3>1. PICK x \in WorkType : x = work[t]
      BY <1>1
    <3>2. n \in 0..2
      BY <1>3
    <3>3. /\ [x EXCEPT !.phase = "logging", !.left = n] \in WorkType
          /\ [x EXCEPT !.phase = "logging", !.left = n].phase = "logging"
      BY <3>2 DEF WorkType
    <3>4. work' = [work EXCEPT ![t] = [x EXCEPT !.phase = "logging", !.left = n]]
      BY <1>3, <3>1 DEF Responds, FrontInv, SendInv
    <3> QED BY <3>3, <3>4
  <2>2. /\ UNCHANGED vars /\ succeeded' = succeeded
        /\ UNCHANGED metricVars /\ UNCHANGED configVars
    BY <1>3 DEF Responds, sendVars, wrapVars
  <2> QED BY <1>3, <2>1, <2>2, QuietStep DEF InConfigure, InRegistry
<1>4. ASSUME RequestRaises(t) PROVE FrontInv'
  <2>1. /\ work' = [work EXCEPT ![t] = Idle] /\ work[t].phase = "running"
        /\ UNCHANGED vars /\ succeeded' = succeeded
        /\ UNCHANGED metricVars /\ UNCHANGED configVars
    BY <1>4 DEF RequestRaises, sendVars, wrapVars
  <2> QED BY <2>1, IdleType, QuietStep DEF InConfigure, InRegistry
<1>5. ASSUME FunctionRaises(t) PROVE FrontInv'
  <2>1. PICK w \in WorkType : w.phase = "logging" /\ work' = [work EXCEPT ![t] = w]
    <3>1. PICK x \in WorkType : x = work[t]
      BY <1>1
    <3>2. 1 \in 0..2 /\ FALSE \in BOOLEAN
      OBVIOUS
    <3>3. /\ [x EXCEPT !.phase = "logging", !.left = 1, !.ok = FALSE] \in WorkType
          /\ [x EXCEPT !.phase = "logging", !.left = 1, !.ok = FALSE].phase = "logging"
      BY <3>2 DEF WorkType
    <3>4. work' = [work EXCEPT ![t] = [x EXCEPT !.phase = "logging", !.left = 1, !.ok = FALSE]]
      BY <1>5, <3>1 DEF FunctionRaises, FrontInv, SendInv
    <3> QED BY <3>3, <3>4
  <2>2. /\ work[t].phase = "running" /\ UNCHANGED vars /\ succeeded' = succeeded
        /\ UNCHANGED metricVars /\ UNCHANGED configVars
    BY <1>5 DEF FunctionRaises, sendVars, wrapVars
  <2> QED BY <2>1, <2>2, QuietStep DEF InConfigure, InRegistry
<1>6. 1 \in 1..2 /\ 2 \in 1..2
  OBVIOUS
<1> QED BY <1>2, <1>3, <1>4, <1>5, <1>6 DEF FlaskResponds, FastapiResponds, ClientResponds

-----------------------------------------------------------------------------
LEMMA FunctionReturnsInv ==
  ASSUME FrontInv, TypeOK, NEW t \in Threads, FunctionReturns(t)
  PROVE  FrontInv'
<1>1. PICK w \in WorkType : w.phase = "measuring" /\ work' = [work EXCEPT ![t] = w]
  <2>1. PICK x \in WorkType : x = work[t]
    BY DEF FrontInv, SendInv
  <2>2. 1 \in 0..2
    OBVIOUS
  <2>3. /\ [x EXCEPT !.phase = "measuring", !.left = 1] \in WorkType
        /\ [x EXCEPT !.phase = "measuring", !.left = 1].phase = "measuring"
    BY <2>2 DEF WorkType
  <2>4. work' = [work EXCEPT ![t] = [x EXCEPT !.phase = "measuring", !.left = 1]]
    BY <2>1 DEF FunctionReturns, FrontInv, SendInv
  <2> QED BY <2>3, <2>4
<1>2. /\ work[t].phase = "running" /\ succeeded' = succeeded + 1 /\ UNCHANGED vars
      /\ histograms' = histograms /\ registered' = registered /\ UNCHANGED configVars
  BY DEF FunctionReturns, sendVars, metricVars
<1>3. SendInv'
  <2>1. step' = step /\ step[t] = "idle"
    BY <1>2 DEF vars, FrontInv, SendInv
  <2> QED BY <1>1, <2>1, SendChanges DEF FrontInv
<1>4. ConfigInv'
  BY <1>1, <1>2, ConfigSame DEF FrontInv, InConfigure
<1>5. work'[t] = w /\ \A u \in Threads : u # t => work'[u] = work[u]
  BY <1>1, WorkChanges DEF FrontInv, SendInv
<1>6. SuccessesMeasured'
  <2>1. Measuring' = Measuring \cup {t} /\ t \notin Measuring
    BY <1>1, <1>2, <1>5 DEF Measuring
  <2>2. PICK m : m = Measuring
    OBVIOUS
  <2>3. IsFiniteSet(m) /\ Cardinality(m) \in Nat
    BY <2>2, MeasuringFinite DEF FrontInv
  <2>4. Cardinality(m \cup {t}) = Cardinality(m) + 1
    BY <2>1, <2>2, <2>3, FS_AddElement
  <2>5. Cardinality(Measuring') = Cardinality(m) + 1
    BY <2>1, <2>2, <2>4
  <2>6. succeeded = (IF registered = 0 THEN 0 ELSE histograms[registered]) + Cardinality(m)
    BY <2>2 DEF FrontInv, MetricInv, SuccessesMeasured
  <2>7. (IF registered = 0 THEN 0 ELSE histograms[registered]) \in Nat
    BY DEF FrontInv, MetricInv
  <2>8. succeeded' = (IF registered' = 0 THEN 0 ELSE histograms'[registered'])
                     + Cardinality(Measuring')
    BY <1>2, <2>3, <2>5, <2>6, <2>7
  <2> QED BY <2>8 DEF SuccessesMeasured, Measuring
<1>7. MetricInv'
  BY <1>1, <1>2, <1>5, <1>6 DEF FrontInv, MetricInv
<1> QED BY <1>3, <1>4, <1>7 DEF FrontInv

LEMMA GetHistogramInv ==
  ASSUME FrontInv, TypeOK, NEW t \in Threads, GetHistogram(t)
  PROVE  FrontInv'
<1>0. registered \in {0, 1} /\ registered \in Nat /\ work[t].phase = "measuring"
  BY DEF FrontInv, MetricInv, GetHistogram
<1>1. PICK w \in WorkType : /\ w.phase = (IF registered = 0 THEN "registering" ELSE "observing")
                            /\ w.own = registered
                            /\ work' = [work EXCEPT ![t] = w]
  <2>1. PICK x \in WorkType : x = work[t]
    BY DEF FrontInv, SendInv
  <2>2. PICK p \in {"registering", "observing"} :
          p = (IF registered = 0 THEN "registering" ELSE "observing")
    OBVIOUS
  <2>3. /\ [x EXCEPT !.phase = p, !.own = registered] \in WorkType
        /\ [x EXCEPT !.phase = p, !.own = registered].phase = p
        /\ [x EXCEPT !.phase = p, !.own = registered].own = registered
    BY <1>0 DEF WorkType
  <2>4. work' = [work EXCEPT ![t] = [x EXCEPT !.phase = p, !.own = registered]]
    BY <2>1, <2>2 DEF GetHistogram, FrontInv, SendInv
  <2> QED BY <2>2, <2>3, <2>4
<1>2. /\ RegistryFree /\ UNCHANGED vars /\ succeeded' = succeeded
      /\ histograms' = histograms /\ registered' = registered /\ UNCHANGED configVars
  BY DEF GetHistogram, sendVars, metricVars, wrapVars
<1>3. SendInv'
  <2>1. step' = step /\ step[t] = "idle"
    BY <1>0, <1>2 DEF vars, FrontInv, SendInv
  <2> QED BY <1>1, <2>1, SendChanges DEF FrontInv
<1>4. ConfigInv'
  BY <1>1, <1>2, ConfigSame DEF FrontInv, InConfigure
<1>5. work'[t] = w /\ \A u \in Threads : u # t => work'[u] = work[u]
  BY <1>1, WorkChanges DEF FrontInv, SendInv
<1>6. Measuring' = Measuring
  BY <1>0, <1>1, <1>5 DEF Measuring
<1>7. SuccessesMeasured'
  BY <1>2, <1>6 DEF FrontInv, MetricInv, SuccessesMeasured
<1>8. \A u \in Threads : work'[u].phase = "registering" => u = t /\ registered' = 0
  BY <1>1, <1>2, <1>5 DEF RegistryFree
<1>9. \A u \in Threads :
        work'[u].phase = "observing" => work'[u].own = 1 /\ registered' = 1
  BY <1>0, <1>1, <1>2, <1>5 DEF FrontInv, MetricInv
<1>10. MetricInv'
  BY <1>2, <1>7, <1>8, <1>9 DEF FrontInv, MetricInv
<1> QED BY <1>3, <1>4, <1>10 DEF FrontInv

LEMMA RegisterInv ==
  ASSUME FrontInv, TypeOK, NEW t \in Threads, Register(t)
  PROVE  FrontInv'
<1>0. /\ work[t].phase = "registering" /\ registered = 0
      /\ histograms \in Seq(Nat) /\ Len(histograms) = 0
  BY DEF FrontInv, MetricInv, Register
<1>1. histograms' = <<0>> /\ registered' = 1 /\ Len(histograms') = 1
  <2>1. histograms = << >>
    BY <1>0
  <2>2. histograms' = <<0>>
    BY <2>1 DEF Register
  <2> QED BY <2>2 DEF Register
<1>2. PICK w \in WorkType : /\ w.phase = "observing" /\ w.own = 1
                            /\ work' = [work EXCEPT ![t] = w]
  <2>1. PICK x \in WorkType : x = work[t]
    BY DEF FrontInv, SendInv
  <2>2. /\ [x EXCEPT !.phase = "observing", !.own = 1] \in WorkType
        /\ [x EXCEPT !.phase = "observing", !.own = 1].phase = "observing"
        /\ [x EXCEPT !.phase = "observing", !.own = 1].own = 1
    BY DEF WorkType
  <2>3. work' = [work EXCEPT ![t] = [x EXCEPT !.phase = "observing", !.own = 1]]
    BY <1>1, <2>1 DEF Register, FrontInv, SendInv
  <2> QED BY <2>2, <2>3
<1>3. UNCHANGED vars /\ succeeded' = succeeded /\ UNCHANGED configVars
  BY DEF Register, sendVars, wrapVars
<1>4. SendInv'
  <2>1. step' = step /\ step[t] = "idle"
    BY <1>0, <1>3 DEF vars, FrontInv, SendInv
  <2> QED BY <1>2, <2>1, SendChanges DEF FrontInv
<1>5. ConfigInv'
  BY <1>2, <1>3, ConfigSame DEF FrontInv, InConfigure
<1>6. work'[t] = w /\ \A u \in Threads : u # t => work'[u] = work[u]
  BY <1>2, WorkChanges DEF FrontInv, SendInv
<1>7. SuccessesMeasured'
  <2>1. Measuring' = Measuring
    BY <1>0, <1>2, <1>6 DEF Measuring
  <2>2. PICK n : n = Cardinality(Measuring)
    OBVIOUS
  <2>3. n \in Nat /\ succeeded = n
    BY <1>0, <2>2, MeasuringFinite DEF FrontInv, MetricInv, SuccessesMeasured
  <2>4. succeeded' = n /\ Cardinality(Measuring') = n
    BY <1>3, <2>1, <2>2, <2>3
  <2>5. histograms'[registered'] = 0 /\ registered' # 0
    BY <1>1
  <2>6. succeeded' = (IF registered' = 0 THEN 0 ELSE histograms'[registered'])
                     + Cardinality(Measuring')
    BY <2>3, <2>4, <2>5
  <2> QED BY <2>6 DEF SuccessesMeasured, Measuring
<1>8. \A u \in Threads : work'[u].phase # "registering"
  BY <1>0, <1>2, <1>6 DEF FrontInv, MetricInv
<1>9. \A u \in Threads : work'[u].phase = "observing" => work'[u].own = 1
  BY <1>0, <1>2, <1>6 DEF FrontInv, MetricInv
<1>10. histograms' \in Seq(Nat)
  BY <1>1
<1>11. MetricInv'
  BY <1>1, <1>3, <1>7, <1>8, <1>9, <1>10 DEF FrontInv, MetricInv
<1> QED BY <1>4, <1>5, <1>11 DEF FrontInv

LEMMA ObserveLatencyInv ==
  ASSUME FrontInv, TypeOK, NEW t \in Threads, ObserveLatency(t)
  PROVE  FrontInv'
<1>0. /\ work[t].phase = "observing" /\ work[t].own = 1 /\ registered = 1
      /\ histograms \in Seq(Nat) /\ Len(histograms) = 1
  BY DEF FrontInv, MetricInv, ObserveLatency
<1>1. PICK w \in WorkType : w.phase = "logging" /\ work' = [work EXCEPT ![t] = w]
  <2>1. PICK x \in WorkType : x = work[t]
    BY DEF FrontInv, SendInv
  <2>2. 0 \in Nat
    OBVIOUS
  <2>3. /\ [x EXCEPT !.phase = "logging", !.own = 0] \in WorkType
        /\ [x EXCEPT !.phase = "logging", !.own = 0].phase = "logging"
    BY <2>2 DEF WorkType
  <2>4. work' = [work EXCEPT ![t] = [x EXCEPT !.phase = "logging", !.own = 0]]
    BY <2>1 DEF ObserveLatency, FrontInv, SendInv
  <2> QED BY <2>3, <2>4
<1>2. UNCHANGED vars /\ succeeded' = succeeded /\ registered' = registered
      /\ UNCHANGED configVars
  BY DEF ObserveLatency, sendVars, wrapVars
<1>3. /\ histograms' = [histograms EXCEPT ![1] = @ + 1]
      /\ histograms[1] \in Nat /\ histograms'[1] = histograms[1] + 1
      /\ histograms' \in Seq(Nat) /\ Len(histograms') = 1
  <2>1. histograms' = [histograms EXCEPT ![1] = @ + 1]
    BY <1>0 DEF ObserveLatency
  <2>2. 1 \in 1..Len(histograms)
    BY <1>0
  <2>3. histograms[1] \in Nat
    BY <1>0, <2>2, ElementOfSeq
  <2> QED BY <1>0, <2>1, <2>2, <2>3
<1>4. SendInv'
  <2>1. step' = step /\ step[t] = "idle"
    BY <1>0, <1>2 DEF vars, FrontInv, SendInv
  <2> QED BY <1>1, <2>1, SendChanges DEF FrontInv
<1>5. ConfigInv'
  BY <1>1, <1>2, ConfigSame DEF FrontInv, InConfigure
<1>6. work'[t] = w /\ \A u \in Threads : u # t => work'[u] = work[u]
  BY <1>1, WorkChanges DEF FrontInv, SendInv
<1>7. SuccessesMeasured'
  <2>1. Measuring' = Measuring \ {t} /\ t \in Measuring
    BY <1>0, <1>1, <1>6 DEF Measuring
  <2>2. PICK m : m = Measuring
    OBVIOUS
  <2>3. IsFiniteSet(m) /\ Cardinality(m) \in Nat
    BY <2>2, MeasuringFinite DEF FrontInv
  <2>4. Cardinality(m \ {t}) = Cardinality(m) - 1
    BY <2>1, <2>2, <2>3, FS_RemoveElement
  <2>5. Cardinality(Measuring') = Cardinality(m) - 1
    BY <2>1, <2>2, <2>4
  <2>6. succeeded = histograms[1] + Cardinality(m)
    BY <1>0, <2>2 DEF FrontInv, MetricInv, SuccessesMeasured
  <2>7. succeeded' = (IF registered' = 0 THEN 0 ELSE histograms'[registered'])
                     + Cardinality(Measuring')
    BY <1>0, <1>2, <1>3, <2>3, <2>5, <2>6
  <2> QED BY <2>7 DEF SuccessesMeasured, Measuring
<1>8. \A u \in Threads : work'[u].phase # "registering"
  BY <1>0, <1>1, <1>6 DEF FrontInv, MetricInv
<1>9. \A u \in Threads : work'[u].phase = "observing" => work'[u].own = 1
  BY <1>0, <1>1, <1>6 DEF FrontInv, MetricInv
<1>10. MetricInv'
  BY <1>0, <1>2, <1>3, <1>7, <1>8, <1>9 DEF FrontInv, MetricInv
<1> QED BY <1>4, <1>5, <1>10 DEF FrontInv

-----------------------------------------------------------------------------
\* configure(): under the lock, loggers are assigned in the order of their making.
LEMMA ConstructInv ==
  ASSUME FrontInv, TypeOK, NEW t \in Threads, Construct(t)
  PROVE  FrontInv'
<1>0. work[t].phase = "none" /\ made \in Nat /\ current \in Nat /\ current <= made
  BY IdleType DEF FrontInv, ConfigInv, Construct
<1>1. PICK w \in WorkType : /\ w.phase = "making" /\ w.own = made + 1
                            /\ work' = [work EXCEPT ![t] = w]
  <2>1. PICK x \in WorkType : x = Idle
    BY IdleType
  <2>2. PICK n \in Nat : n = made + 1
    BY <1>0
  <2>3. /\ [x EXCEPT !.by = "configure", !.phase = "making", !.own = n] \in WorkType
        /\ [x EXCEPT !.by = "configure", !.phase = "making", !.own = n].phase = "making"
        /\ [x EXCEPT !.by = "configure", !.phase = "making", !.own = n].own = n
    BY DEF WorkType
  <2>4. work' = [work EXCEPT ![t] =
                   [x EXCEPT !.by = "configure", !.phase = "making", !.own = n]]
    BY <2>1, <2>2 DEF Construct
  <2> QED BY <2>2, <2>3, <2>4
<1>2. /\ ConfigureFree /\ made' = made + 1 /\ current' = current /\ UNCHANGED vars
      /\ succeeded' = succeeded /\ UNCHANGED metricVars
  BY DEF Construct, sendVars, wrapVars
<1>3. SendInv'
  <2>1. step' = step /\ step[t] = "idle"
    BY <1>0, <1>2 DEF vars, FrontInv, SendInv
  <2> QED BY <1>1, <2>1, SendChanges DEF FrontInv
<1>4. MetricInv'
  BY <1>0, <1>1, <1>2, MetricSame DEF FrontInv, InRegistry
<1>5. work'[t] = w /\ \A u \in Threads : u # t => work'[u] = work[u]
  BY <1>1, WorkChanges DEF FrontInv, SendInv
<1>6. \A u \in Threads : work'[u].phase = "making" => u = t
  BY <1>2, <1>5 DEF ConfigureFree
<1>7. \A u \in Threads : work'[u].phase = "made" => work'[u].own <= current
  BY <1>1, <1>5 DEF FrontInv, ConfigInv
<1>8. ConfigInv'
  BY <1>0, <1>1, <1>2, <1>5, <1>6, <1>7 DEF ConfigInv
<1> QED BY <1>3, <1>4, <1>8 DEF FrontInv

LEMMA AssignInv ==
  ASSUME FrontInv, TypeOK, NEW t \in Threads, Assign(t)
  PROVE  FrontInv'
<1>0. /\ work[t].phase = "making" /\ work[t].own = made
      /\ made \in Nat /\ current \in Nat /\ current <= made
  BY DEF FrontInv, ConfigInv, Assign
<1>1. PICK w \in WorkType : /\ w.phase = "made" /\ w.own = made
                            /\ work' = [work EXCEPT ![t] = w]
  <2>1. PICK x \in WorkType : x = work[t]
    BY DEF FrontInv, SendInv
  <2>2. /\ [x EXCEPT !.phase = "made"] \in WorkType
        /\ [x EXCEPT !.phase = "made"].phase = "made"
        /\ [x EXCEPT !.phase = "made"].own = x.own
    BY DEF WorkType
  <2>3. work' = [work EXCEPT ![t] = [x EXCEPT !.phase = "made"]]
    BY <2>1 DEF Assign, FrontInv, SendInv
  <2> QED BY <1>0, <2>1, <2>2, <2>3
<1>2. /\ current' = made /\ made' = made /\ UNCHANGED vars
      /\ succeeded' = succeeded /\ UNCHANGED metricVars
  BY <1>0 DEF Assign, sendVars, wrapVars
<1>3. SendInv'
  <2>1. step' = step /\ step[t] = "idle"
    BY <1>0, <1>2 DEF vars, FrontInv, SendInv
  <2> QED BY <1>1, <2>1, SendChanges DEF FrontInv
<1>4. MetricInv'
  BY <1>0, <1>1, <1>2, MetricSame DEF FrontInv, InRegistry
<1>5. work'[t] = w /\ \A u \in Threads : u # t => work'[u] = work[u]
  BY <1>1, WorkChanges DEF FrontInv, SendInv
<1>6. \A u \in Threads : work'[u].phase # "making"
  BY <1>0, <1>1, <1>5 DEF FrontInv, ConfigInv
<1>7. \A u \in Threads : work'[u].phase = "made" => work'[u].own <= made
  <2> SUFFICES ASSUME NEW u \in Threads, work'[u].phase = "made"
               PROVE  work'[u].own <= made
    OBVIOUS
  <2>1. CASE u = t
    BY <1>0, <1>1, <1>5, <2>1
  <2>2. CASE u # t
    <3>1. work[u] \in WorkType /\ work'[u] = work[u]
      BY <1>5, <2>2 DEF FrontInv, SendInv
    <3>2. PICK n \in Nat : n = work[u].own
      BY <3>1 DEF WorkType
    <3>3. n <= current
      BY <3>1, <3>2 DEF FrontInv, ConfigInv
    <3> QED BY <1>0, <3>1, <3>2, <3>3
  <2> QED BY <2>1, <2>2
<1>8. ConfigInv'
  BY <1>0, <1>2, <1>6, <1>7 DEF ConfigInv
<1> QED BY <1>3, <1>4, <1>8 DEF FrontInv

LEMMA ConfiguredInv ==
  ASSUME FrontInv, TypeOK, NEW t \in Threads, Configured(t)
  PROVE  FrontInv'
<1>1. /\ work' = [work EXCEPT ![t] = Idle] /\ work[t].phase = "made" /\ UNCHANGED vars
      /\ succeeded' = succeeded /\ UNCHANGED metricVars /\ UNCHANGED configVars
  BY DEF Configured, sendVars, wrapVars
<1> QED BY <1>1, IdleType, QuietStep DEF InConfigure, InRegistry

\* Steps that leave the threads where they are.
LEMMA StillInv ==
  ASSUME FrontInv, UNCHANGED <<vars, work, wrapVars, metricVars, configVars>>
  PROVE  FrontInv'
<1>1. /\ step' = step /\ work' = work /\ current' = current /\ made' = made
      /\ succeeded' = succeeded /\ registered' = registered /\ histograms' = histograms
  BY DEF vars, wrapVars, metricVars, configVars
<1>2. SendInv'
  BY <1>1 DEF FrontInv, SendInv
<1>3. ConfigInv'
  BY <1>1 DEF FrontInv, ConfigInv
<1>4. Measuring' = Measuring
  BY <1>1 DEF Measuring
<1>5. SuccessesMeasured'
  BY <1>1, <1>4 DEF FrontInv, MetricInv, SuccessesMeasured
<1>6. MetricInv'
  BY <1>1, <1>5 DEF FrontInv, MetricInv
<1> QED BY <1>2, <1>3, <1>6 DEF FrontInv

LEMMA NextFrontInv ==
  ASSUME FrontInv, TypeOK, [LoggingNext]_loggingVars
  PROVE  FrontInv'
<1>1. CASE UNCHANGED loggingVars
  BY <1>1, StillInv DEF loggingVars, sendVars
<1>2. ASSUME NEW t \in Threads, NEW level, NEW added, Log(t, level, added) PROVE FrontInv'
  BY <1>2, LogInv
<1>3. ASSUME NEW t \in Threads, Metric(t) PROVE FrontInv'
  BY <1>3, MetricEntryInv
<1>4. ASSUME NEW t \in Threads,
             \/ \E by \in Wrappers : Call(t, by)
             \/ FlaskResponds(t) \/ FastapiResponds(t) \/ ClientResponds(t) \/ RequestRaises(t)
             \/ FunctionRaises(t)
      PROVE  FrontInv'
  BY <1>4, WrapperInv
<1>5. ASSUME NEW t \in Threads, FunctionReturns(t) PROVE FrontInv'
  BY <1>5, FunctionReturnsInv
<1>6. ASSUME NEW t \in Threads, GetHistogram(t) PROVE FrontInv'
  BY <1>6, GetHistogramInv
<1>7. ASSUME NEW t \in Threads, Register(t) PROVE FrontInv'
  BY <1>7, RegisterInv
<1>8. ASSUME NEW t \in Threads, ObserveLatency(t) PROVE FrontInv'
  BY <1>8, ObserveLatencyInv
<1>9. ASSUME NEW t \in Threads, LogCall(t) PROVE FrontInv'
  BY <1>9, LogCallInv
<1>10. ASSUME NEW t \in Threads, PopOldest(t) PROVE FrontInv'
  BY <1>10, PopOldestInv
<1>11. ASSUME NEW t \in Threads, StoreEntry(t) PROVE FrontInv'
  BY <1>11, StoreEntryInv
<1>12. ASSUME NEW t \in Threads, Construct(t) PROVE FrontInv'
  BY <1>12, ConstructInv
<1>13. ASSUME NEW t \in Threads, Assign(t) PROVE FrontInv'
  BY <1>13, AssignInv
<1>14. ASSUME NEW t \in Threads, Configured(t) PROVE FrontInv'
  BY <1>14, ConfiguredInv
<1>15. ASSUME NEW t \in Threads, Trace(t) PROVE FrontInv'
  BY <1>15, StillInv DEF Trace
<1> QED BY <1>1, <1>2, <1>3, <1>4, <1>5, <1>6, <1>7, <1>8, <1>9, <1>10, <1>11, <1>12, <1>13,
           <1>14, <1>15 DEF LoggingNext

LEMMA InitFrontInv == LoggingInit => FrontInv
<1> SUFFICES ASSUME LoggingInit PROVE FrontInv
  OBVIOUS
<1>1. /\ work = [t \in Threads |-> Idle] /\ step = [t \in Threads |-> "idle"]
      /\ succeeded = 0 /\ histograms = << >> /\ registered = 0 /\ current = 0 /\ made = 0
  BY DEF LoggingInit, Init
<1>2. SendInv
  BY <1>1, IdleType DEF SendInv
<1>3. ConfigInv
  BY <1>1, IdleType DEF ConfigInv
<1>4. Measuring = {}
  BY <1>1, IdleType DEF Measuring
<1>5. SuccessesMeasured
  <2>1. Cardinality(Measuring) = 0
    BY <1>4, FS_EmptySet
  <2> QED BY <1>1, <2>1 DEF SuccessesMeasured
<1>6. MetricInv
  BY <1>1, <1>5, IdleType DEF MetricInv
<1> QED BY <1>2, <1>3, <1>6 DEF FrontInv

LEMMA FrontInvariance == LoggingSpec => []FrontInv
<1>1. IInv => TypeOK
  BY DEF IInv
<1>2. FrontInv /\ TypeOK /\ [LoggingNext]_loggingVars => FrontInv'
  BY NextFrontInv
<1> QED BY <1>1, <1>2, InitFrontInv, LoggingComposes, Invariance, PTL DEF LoggingSpec

\* The registered histogram of the latency decorator has one observation for
\* every call that returned, but for those about to be made (latency.py:22-26,
\* metrics.py:257): calls that race to register it make one histogram.
THEOREM EverySuccessIsMeasured == LoggingSpec => []SuccessesMeasured
<1>1. FrontInv => SuccessesMeasured
  BY DEF FrontInv, MetricInv
<1> QED BY <1>1, FrontInvariance, PTL

\* configure() returns the logger it constructed or one that was constructed
\* after it, never an older one (core.py:138-142).
THEOREM ConfigureReturnsNoOlder == LoggingSpec => []ConfigureNotStale
<1>1. FrontInv => ConfigureNotStale
  <2> SUFFICES ASSUME FrontInv, NEW t \in Threads, work[t].phase = "made"
               PROVE  current >= work[t].own
    BY DEF ConfigureNotStale
  <2>1. work[t] \in WorkType /\ work[t].own <= current /\ current \in Nat
    BY DEF FrontInv, SendInv, ConfigInv
  <2>2. PICK n \in Nat : n = work[t].own
    BY <2>1 DEF WorkType
  <2> QED BY <2>1, <2>2
<1> QED BY <1>1, FrontInvariance, PTL

\* And the buffer under the logger is as bounded as the transport's, and in order.
THEOREM LoggingNearlyBounded == LoggingSpec => []NearlyBounded
<1> QED BY LoggingComposes, NoopNearlyBounded, PTL

THEOREM LoggingKeepsNewest == LoggingSpec => []KeepsNewest
<1> QED BY LoggingComposes, NoopKeepsNewest, PTL
=============================================================================
