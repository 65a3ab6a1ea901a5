------------------------------- MODULE Logging -------------------------------
(***************************************************************************)
(* The logger's front end: agent/fluxwatch/core.py, filters.py, latency.py *)
(* and middleware/.  A thread logs an entry, or calls a function wrapped   *)
(* by the latency decorator, a web framework's middleware or the logging   *)
(* http client, which log in its place.  The ids come from the context     *)
(* variables (TraceContext); an entry that passes the filters is sent to   *)
(* the unlocked buffer of NoopTransport, by a thread that goes on only     *)
(* when send() has returned, or raises what send() raised.                 *)
(***************************************************************************)
EXTENDS NoopTransport, TraceContext

CONSTANTS MinLevel,    \* config.min_level, by its place in _LEVEL_ORDER
          Sampled,     \* whether config.sample_rate is below one
          Allow, Deny, \* config.field_allowlist and field_denylist
          MaxCalls,    \* bound: wrapped calls in one behaviour
          MaxLoggers   \* bound: configure() calls in one behaviour

ASSUME LoggingAssumption == /\ Tasks = Threads
                            /\ MinLevel \in 0..5 /\ Sampled \in BOOLEAN
                            /\ MaxCalls \in Nat /\ MaxLoggers \in Nat

VARIABLES
  work,       \* what each thread is doing
  functions,  \* history: wrapped calls begun
  succeeded,  \* history: calls under the latency decorator whose function returned
  histograms, \* the counts of the histograms constructed for the decorator's name
  registered, \* the one of them in the registry, 0 for none
  lost,       \* history: a function returned and its caller got an exception
  current,    \* _global_logger, loggers numbered by their construction
  made        \* loggers constructed

wrapVars == <<functions, succeeded, lost>>
metricVars == <<histograms, registered>>
configVars == <<current, made>>
sendVars == <<vars, traceVars>>
loggingVars == <<sendVars, work, wrapVars, metricVars, configVars>>

Wrappers == {"latency", "flask", "fastapi", "client"}

\* `own` is the logger or the histogram the thread has in hand.
Idle == [by |-> "none", phase |-> "none", left |-> 0, ok |-> TRUE, own |-> 0]

LoggingInit == /\ Init /\ TraceInit
               /\ work = [t \in Threads |-> Idle]
               /\ functions = 0 /\ succeeded = 0 /\ lost = FALSE
               /\ histograms = << >> /\ registered = 0
               /\ current = 0 /\ made = 0

-----------------------------------------------------------------------------
\* The keys of an entry that the filters see.  What the caller adds is one level
\* further down, under "extra", but for the latency.
Keys(added) == {"timestamp_ns", "service", "env", "level", "message", "trace_id",
                "span_id"} \cup added

LevelPasses(level) == level >= MinLevel
FieldsPass(keys) == /\ Allow # {} => Allow \cap keys # {}
                    /\ Deny \cap keys = {}

\* should_emit() of all the filters; what is sampled is left to chance.
MayPass(level, added) == LevelPasses(level) /\ FieldsPass(Keys(added))
MayDrop(level, added) == Sampled \/ ~MayPass(level, added)

\* What a thread does when its entry is sent or dropped.
Onward(w) == IF w.left > 1 THEN [w EXCEPT !.phase = "logging", !.left = @ - 1] ELSE Idle

\* _emit(), for a thread in the midst of w: ids, filters, and the beginning of send().
Emit(t, w, level, added) ==
  /\ EnsureIds(t)
  /\ \/ /\ MayPass(level, added) /\ Test(t)
        /\ work' = [work EXCEPT ![t] = [w EXCEPT !.phase = "sending"]]
     \/ /\ MayDrop(level, added) /\ UNCHANGED vars
        /\ work' = [work EXCEPT ![t] = Onward(w)]

Plain == [Idle EXCEPT !.by = "plain", !.left = 1]

\* logger.info() and the like.
Log(t, level, added) ==
  /\ work[t] = Idle
  /\ Emit(t, Plain, level, added)
  /\ UNCHANGED <<wrapVars, metricVars, configVars>>

\* logger.metric(), which asks no filter and needs no span.
Metric(t) ==
  /\ work[t] = Idle
  /\ EnsureTrace(t) /\ Test(t)
  /\ work' = [work EXCEPT ![t] = [Plain EXCEPT !.phase = "sending"]]
  /\ UNCHANGED <<wrapVars, metricVars, configVars>>

-----------------------------------------------------------------------------
\* A wrapped function is called.
Call(t, by) ==
  /\ work[t] = Idle /\ functions < MaxCalls
  /\ functions' = functions + 1
  /\ work' = [work EXCEPT ![t] = [Idle EXCEPT !.by = by, !.phase = "running"]]
  /\ UNCHANGED <<sendVars, succeeded, lost, metricVars, configVars>>

Responds(t, entries) ==
  /\ work' = [work EXCEPT ![t].phase = "logging", ![t].left = entries]
  /\ UNCHANGED <<sendVars, wrapVars, metricVars, configVars>>

\* after_request(), which Flask also calls when it has made a response of an exception.
FlaskResponds(t) ==
  work[t].phase = "running" /\ work[t].by = "flask" /\ Responds(t, 1)

\* dispatch(), after call_next()
FastapiResponds(t) ==
  work[t].phase = "running" /\ work[t].by = "fastapi" /\ Responds(t, 1)

\* The http client's transport logs the request, and so does its session.
ClientResponds(t) ==
  work[t].phase = "running" /\ work[t].by = "client" /\ Responds(t, 2)

\* The decorated function has returned.
FunctionReturns(t) ==
  /\ work[t].phase = "running" /\ work[t].by = "latency"
  /\ work' = [work EXCEPT ![t].phase = "measuring", ![t].left = 1]
  /\ succeeded' = succeeded + 1
  /\ UNCHANGED <<sendVars, functions, lost, metricVars, configVars>>

\* It has raised: an error is logged, nothing is observed.
FunctionRaises(t) ==
  /\ work[t].phase = "running" /\ work[t].by = "latency"
  /\ work' = [work EXCEPT ![t].phase = "logging", ![t].left = 1, ![t].ok = FALSE]
  /\ UNCHANGED <<sendVars, wrapVars, metricVars, configVars>>

\* A request that raises passes the middleware and the client without an entry, and
\* so does a cancellation the decorator, which catches Exception only.
RequestRaises(t) ==
  /\ work[t].phase = "running" /\ work[t].by \in {"latency", "fastapi", "client"}
  /\ work' = [work EXCEPT ![t] = Idle]
  /\ UNCHANGED <<sendVars, wrapVars, metricVars, configVars>>

\* Slip: a lock is not taken.
Anyway == TRUE
RegistryFree == \A u \in Threads : work[u].phase # "registering"

\* registry.histogram(name): look for it under the lock, ...
GetHistogram(t) ==
  /\ work[t].phase = "measuring" /\ RegistryFree
  /\ work' = [work EXCEPT ![t].phase = IF registered = 0 THEN "registering" ELSE "observing",
                          ![t].own = registered]
  /\ UNCHANGED <<sendVars, wrapVars, metricVars, configVars>>

\* ... construct and keep it if there is none.
Register(t) ==
  /\ work[t].phase = "registering"
  /\ histograms' = Append(histograms, 0)
  /\ registered' = Len(histograms')
  /\ work' = [work EXCEPT ![t].phase = "observing", ![t].own = Len(histograms')]
  /\ UNCHANGED <<sendVars, wrapVars, configVars>>

\* hist.observe(float(elapsed))
ObserveLatency(t) ==
  /\ work[t].phase = "observing"
  /\ histograms' = [histograms EXCEPT ![work[t].own] = @ + 1]
  /\ work' = [work EXCEPT ![t].phase = "logging", ![t].own = 0]
  /\ UNCHANGED <<sendVars, wrapVars, registered, configVars>>

\* `logger.info(...)` or `logger.error(...)` about the call.
LogCall(t) ==
  /\ work[t].phase = "logging"
  /\ Emit(t, work[t], IF work[t].ok THEN 2 ELSE 4,
          IF work[t].by = "latency" /\ work[t].ok THEN {"latency_ns"}
          ELSE {"latency_ns", "extra"})
  /\ UNCHANGED <<wrapVars, metricVars, configVars>>

\* The thread goes on inside send(): what pop(0) raises ends whatever it was in.
PopOldest(t) ==
  /\ Pop(t)
  /\ work' = IF buffer = << >> THEN [work EXCEPT ![t] = Idle] ELSE work
  /\ lost' = (lost \/ (buffer = << >> /\ work[t].by \in Wrappers /\ work[t].ok))
  /\ UNCHANGED <<traceVars, functions, succeeded, metricVars, configVars>>

StoreEntry(t) ==
  /\ Store(t)
  /\ work' = [work EXCEPT ![t] = Onward(@)]
  /\ UNCHANGED <<traceVars, wrapVars, metricVars, configVars>>

-----------------------------------------------------------------------------
ConfigureFree == \A u \in Threads : work[u].phase # "making"

\* configure(): `with _lock: _global_logger = FluxWatchLogger(config)`, ...
Construct(t) ==
  /\ work[t] = Idle /\ made < MaxLoggers /\ ConfigureFree
  /\ made' = made + 1
  /\ work' = [work EXCEPT ![t] = [Idle EXCEPT !.by = "configure", !.phase = "making",
                                              !.own = made + 1]]
  /\ UNCHANGED <<sendVars, wrapVars, metricVars, current>>

Assign(t) ==
  /\ work[t].phase = "making"
  /\ current' = work[t].own
  /\ work' = [work EXCEPT ![t].phase = "made"]
  /\ UNCHANGED <<sendVars, wrapVars, metricVars, made>>

\* ... and, after the lock, `return _global_logger`.
Configured(t) ==
  /\ work[t].phase = "made"
  /\ work' = [work EXCEPT ![t] = Idle]
  /\ UNCHANGED <<sendVars, wrapVars, metricVars, configVars>>

\* Spans and tasks, between the calls to the logger.
Trace(t) == /\ work[t] = Idle
            /\ TraceStep(t) \/ \E u \in Tasks : work[u] = Idle /\ Spawn(t, u)
            /\ UNCHANGED <<vars, work, wrapVars, metricVars, configVars>>

LoggingNext ==
  \E t \in Threads :
    \/ \E level \in {1, 2, 4}, added \in {{}, {"extra"}} : Log(t, level, added)
    \/ Metric(t)
    \/ \E by \in Wrappers : Call(t, by)
    \/ FlaskResponds(t) \/ FastapiResponds(t) \/ ClientResponds(t) \/ RequestRaises(t)
    \/ FunctionReturns(t) \/ FunctionRaises(t)
    \/ GetHistogram(t) \/ Register(t) \/ ObserveLatency(t) \/ LogCall(t)
    \/ PopOldest(t) \/ StoreEntry(t)
    \/ Construct(t) \/ Assign(t) \/ Configured(t)
    \/ Trace(t)

LoggingSpec == LoggingInit /\ [][LoggingNext]_loggingVars

-----------------------------------------------------------------------------
WorkType ==
  [by : Wrappers \cup {"none", "plain", "configure"},
   phase : {"none", "running", "measuring", "registering", "observing", "logging", "sending",
            "making", "made"},
   left : 0..2, ok : BOOLEAN, own : Nat]

LoggingTypeOK ==
  /\ TypeOK /\ TraceTypeOK /\ work \in [Threads -> WorkType]
  /\ functions \in Nat /\ succeeded \in Nat /\ lost \in BOOLEAN
  /\ histograms \in Seq(Nat) /\ registered \in Nat
  /\ current \in Nat /\ made \in Nat

\* A wrapped function's result reaches its caller in spite of the logging around
\* it, unless more threads send at once than the buffer has places.
ResultsReturned == lost => Cardinality(Threads) > OverflowMax

\* Threads whose function has returned and whose measurement is still to come.
Measuring == {t \in Threads : work[t].phase \in {"measuring", "registering", "observing"}}

\* No call that returned goes without its measurement in the registered histogram,
\* though first calls race to register it and whatever becomes of the entry.
SuccessesMeasured ==
  succeeded = (IF registered = 0 THEN 0 ELSE histograms[registered]) + Cardinality(Measuring)

\* What configure() returns is the logger it made or one made later, though it
\* looks for it after leaving the lock.
ConfigureNotStale ==
  \A t \in Threads : work[t].phase = "made" => current >= work[t].own
=============================================================================
