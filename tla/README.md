# FluxWatch in TLA+

FluxWatch carries structured logs and metrics of trading processes through a
Redis stream to a collector, and evaluates alert rules on the collected data.
These modules model the parts whose correctness depends on interleaving,
failure and time, check them with TLC on small instances, and prove their main
safety properties with TLAPS for every value of the constants. Paths below are
those of the repository.

## The system

| Component | State | Operations | What makes it correct |
|---|---|---|---|
| Redis transport (`agent/fluxwatch/transport.py`) | buffer, lock, running flag, drop counter; a flusher thread | `send`, `flush`, `_flush_loop`, `close` | no event is lost silently or written twice, the order of `send` is kept, memory is bounded, `close` leaves nothing behind |
| No-op transport (same file) | buffer | `send` | bounded, keeps the newest events |
| Logger (`core.py`), configuration, filters, formatters | global logger, filter list | `configure`, `_emit`, `metric`, `shutdown` | no caller gets a logger older than its own; logging takes no result away from the program |
| Callers of the logger: latency decorator, middleware (`latency.py`, `middleware/`) | - | a wrapped call, a request | each success is measured once, what the wrapped function returned reaches its caller |
| Trace context (`context.py`) | context variables of each task | `get_trace_id`, `new_span`, `SpanContext`, `reset_context` | leaving a span restores the trace; a span made here belongs to one trace |
| Metrics and exposition (`metrics.py`, `prometheus.py`) | registry, counters, gauges, histograms, summaries; a server thread | `inc`, `set`, `observe`, `render_metrics`, `start`, `stop` | locked readers see whole observations, a page is nearly consistent and never goes back, `stop` returns unless a client stalls |
| Redis (external) | stream, consumer group, pending entries | `XADD`, `XREADGROUP`, `XACK`, `XGROUP CREATE` | - |
| Collector pipeline (`collector/pipeline.py`, `buffer.py`, `enricher.py`, `router.py`) | running flag, reply in progress, buffer | `start`, `_run`, `_flush_buffer`, `stop` | entries are indexed at most once, what a crash or a stop can lose is bounded, a bad entry does not stop the loop |
| Collector health (`collector/health.py`) | counters nothing updates | - | - |
| Alert engine, rules, silences (`alerting/engine.py`, `rules.py`, `silence.py`) | running flag, last firings, active alerts, silences | `start`, `stop`, `_evaluate_rule`, `add_silence`, `enter_maintenance`, `remove_silence` | cooldowns and silences hold, channels learn what the engine knows, no rule starves another |
| Evaluators (`alerting/evaluators/`) | windows of samples, times | `evaluate` | they fire only when what they claim is so, and in the end if it stays so |
| Channels, command line, demo | - | I/O | - |

Program threads call the logger, directly or through a decorator, a middleware or
an http client; the logger takes the ids from the context variables, asks its
filters and calls its transport. The same threads observe metrics, which the
exporter's thread renders. The transport
appends to the Redis stream; the collector's event loop reads from it through a
consumer group, buffers in memory and posts bulk requests to Elasticsearch. The
alert engine is a coroutine of its own over a data source. Threads share the
transport's buffer; coroutines share the collector's buffer, and the engine's
cooldowns and alerts; Redis outlives every process.

What is hard: threads that flush at the same time and a lock held over a network
call; a shutdown that waits only two seconds; a length test without a lock; an
acknowledgement before the work is done; crashes and restarts with entries
pending; a stop that runs between two awaits of the loop it stops; state read
before an await and used after it; one of several sends, entries or rules that
fails; a page rendered from data that changes meanwhile; ids made lazily in contexts
that tasks copy; evaluators that remember when they were called rather than what
happened. `PROJECT.json` lists each place with the properties that watch it.

## Modules

| Module | What it is |
|---|---|
| `RedisStream` | what Redis answers to the commands the code issues (external) |
| `LossyFifo` | abstract: what the transport promises the program |
| `AgentTransport` | `RedisTransport` with the thread that shuts down |
| `AgentTransportProofs` | its theorems |
| `NoopTransport` | `_NoopTransport` |
| `TraceContext` | the context variables |
| `LoggerPartsProofs` | the theorems of these two |
| `Logging`, `MCLogging` | the logger's front end and its callers, composed of the two above; the boxes for TLC |
| `LoggingProofs` | its theorems |
| `Histogram` | a histogram, its readers and its rendering |
| `Exposition`, `MCExposition` | the exporter around it; the buckets for TLC |
| `HistogramProofs` | the theorems of both |
| `Delivery` | abstract: at-most-once hand-over of stream entries |
| `CollectorPipeline` | `Pipeline` with buffer, enricher, router and the consumer group |
| `CollectorPipelineProofs` | its theorems |
| `AlertEngine`, `MCAlertEngine` | `AlertEngine` and `SilenceManager`; rules for TLC |
| `AlertEngineProofs` | its theorems |
| `Evaluators`, `EvaluatorsProofs` | the memory of the evaluators and its theorems |
| `SequenceLemmas` | induction, sums, running sums and sorted orders, for the proofs about histograms and evaluators |

`Logging` extends `NoopTransport` and `TraceContext` and steps them together;
`Exposition` extends `Histogram`. Some definitions have a variant next to them marked *Slip*, which no
specification uses: the same code with a plausible mistake. Each property was
checked to fail when its slip takes the definition's place.

### AgentTransport

A critical section of the code is two steps: the part in memory (`FlushLocked`
within `Send`, `TimedFlush`, `ShutdownFlush` or `CloseFlush`) and `Execute`, the
pipeline call, with the lock held in between. `lock` names the holder. Senders
are not told apart: any number of threads may be about to call `send`, and what
they do is atomic under the lock. An event is the number of its place in the
order in which `send` took it. `Execute` may leave any prefix of the batch in
the stream, since the connection can break after any command of a pipeline
without a transaction; the rest is dropped, as the handler does, and counted
only in the history variable `lost`. `ExecuteWrites` is FALSE for the call as it
is written (`pipe.execute(disable_decoding=True)` on an asyncio pipeline raises
before it sends anything) and TRUE for a call that works, so that the design can
be studied too. The join timeout appears as the absence of a guard: `CloseFlush`
does not require the flusher to have exited. The un-awaited `aclose()` is left
out, it does nothing. `batchSize` is chosen from `BatchSizes` once and for all, so
that one run has batches smaller and larger than the buffer.

### NoopTransport

`send` takes no lock, so its test, its `pop(0)` and its `append` are separate
steps of each thread; every list operation is atomic under the interpreter lock.

### TraceContext

Tasks and threads each have a context; `ctx` is what it holds. A span that is
entered is a record of its ids and of what its tokens restore, so `Exit` does what
`reset(token)` does. `child()` may be called on any open span, not only on the
innermost. `Enter` is told what the variables held when `__enter__` ran, which for
`new_span()` are the span's own ids, because the function has set them already.
Only `with` statements are modelled, so spans are left innermost first, and
`reset_context()` and `set_trace_context()` are called outside of spans. The
headers of `from_headers()` are taken each by itself: either id may be missing, seen
before, or new from another process, and `set_trace_context()` accepts as much, an
empty id included. The history variable `given` has the span ids that came in that
way; `SpanHasOneTrace` is about all others. `Spawn` is
what `contextvars` does for a task, `asyncio.to_thread` included; a thread started
otherwise begins with `Empty`, as every task does in `TraceInit`. The history
variable `home` is the trace a task has outside of its spans.

### Logging

`work` says what each thread is doing: running a wrapped function, measuring it,
logging about it (`left` entries are still to come), inside `send()`, or inside
`configure()`. `Emit` is `_emit()`: the ids are made whether or not the entry passes,
then the filters, then the first step of `send()`; `PopOldest` and `StoreEntry` are
the rest of it. What `pop(0)` raises ends the wrapper too, so that the
caller gets an exception for a result (`lost`). The filters see the keys of the
entry only: what a caller adds is one level down, under `extra`. Sampling is
chance. The registry's get-or-create is two steps under its lock, so that the lock
matters; `configure()` is three, because it reads the global after the lock. The
decorated function may be a coroutine function; both wrappers do the same. The
middleware logs once for a response, the http client twice, transport and session;
an exception passes all of them without an entry, but for the decorator, which
logs an error for it. A call of `Flask` always ends in a response. `MCLogging`
confines each behaviour to one of three boxes, nested spans, one span with more
ids, or entries and calls without spans, since one box for all is too large for TLC.

### Histogram and Exposition

One read or write of a field is one step of `observe()`; the lock is held as long
as the thread is in `observing`. The order is the code's: count, then sum and values
in one step (whoever reads the values holds the lock), then the buckets one by one. The smallest and the largest value are left out,
nobody reads them. Methods that read under the lock see what `LockedReadsAgree` and
`PercentileIsQuantile` say of a free lock (for seven percentages; the theorem is
about all). `CopySeries` is `all_data()`, after which
`ReadField` reads without the lock, series by series, in the order of
`render_metrics()`; `page` is what it has read, `lastPage` the page before. What is
printed is another matter, since the renderer sums the buckets once more
(`Rendered`): `ScrapeOrdered` speaks of both, `SkewAtMostOne` of the fields read,
`ScrapesMonotone` of the numbers printed. The exporter serves one client at a time,
without a timeout: `ClientArrives`, `RequestRead` and `ResponseTaken` are the
client's steps, before and after which the one thread waits, possibly for ever.
`stop()` blocks until the loop has ended.
Values are natural numbers: floating point, whose sums round, is not modelled.

### Evaluators

A behaviour is the life of one rule, which has one evaluator (`kind`). The engine
calls `evaluate()` at any time or not at all, since silences, cooldowns and failed
queries keep it away; `AlertEngine` has the engine's side. Times are ages. The
query of an absence rule counts the events of the last `Lookback` units, an
assumption about the data source, which is not in the repository; `covered` says
whether all evaluations were that close together, `spaced` whether they were at
least `Interval` apart. Rates and z-scores are compared multiplied out. Mean,
variance, root and quotient of the code are floating-point numbers: `Outlier` gives
the outcomes that rounding admits, both when the square of the z-score is closer to
that of the threshold than one part in `Precision` (`Exceeds`), and one otherwise. In
the code `Precision` is astronomical; the theorems need it to exceed the square of
the threshold, and the run takes the least such number. Equal values whose mean is
rounded have a z-score of 1. `EvaluateThreshold` is one comparison without memory:
no property is about it.

### CollectorPipeline

One action per stretch between two awaits. `pc` is where `start()`/`_run()` is,
`stopPc` where `stop()` is; a coroutine moves on only while the other is at an
await (`AtAwait`). `KeyboardInterrupt` inside the loop makes `run_pipeline()`
call `stop()` (`Interrupt`); a cancellation or a kill ends the process without
it (`Crash`), and `Start` is then the restart. The consumer group (`cursor`,
`pending`) and the stream are Redis's and survive; `EvictKey` is Redis under
`allkeys-lru`. Entries are numbered by their place in the stream and have a kind:
what matters about the data is whether it is absent, not JSON, JSON that
`dict()` refuses, a log or a metric. A bulk request may index any subset of its
entries (`Post`), because the router swallows every failure and never looks at
item results. `xgroup_create` failing ends the process and is a `Crash`. Buffer
and batches are sets: a bulk request has no observable order. `max_size` of the
buffer and `flush_if_ready()` have no caller.

### AlertEngine

Loops are calls of `start()`. Nothing prevents a second one, and `stop()`
followed by `start()` during the sleep revives the first, so there may be
several. They share one event loop: `Fetch` to the answer, and each send, are
awaits; everything else up to the next await runs alone (`AtAwait`). Time is
kept as ages that `Tick` increments, so runs are unbounded in time while ages
saturate at `MaxAge`, which is at least every cooldown. A rule is due if it is
not silenced and its cooldown is over; `since` is the age of the clock reading
that `_last_fires` will get. A channel is told when its send starts; `view` is
what it was told last, `missed` who missed the last notification. The alert's
dict is shared: resolving it changes what another loop, still sending it, says
to its next channels (`note`). Evaluators are abstract: the environment
variable `bad` says whether the rule's condition holds in the data. Rules have
different names and at least one channel; a rule without channels sends nothing
and differs in nothing else. `Rule.enabled` is not read anywhere in the code.
The wall clock is assumed not to go back.

## Runs

| Run | Question | Bounds |
|---|---|---|
| `Agent` | accounting, order, what is kept on overflow, bounds, draining on close, refinement of `LossyFifo`; buffered events leave, shutdown ends | buffer 3, 5 events; batch 2: two full batches and a rest, so senders, flusher and closer can all hold batches in turn; batch 5: overflows |
| `Logging` | traces of spans and tasks; the unlocked buffer; results, measurements and loggers under races | 2 threads that are also the tasks; boxes of 2 nested spans with 2 ids, of 1 span each with 3 ids, and of `MaxWork` = 5 entries and calls without spans: 2 places and 4 entries, so that both threads pop and overshoot, 2 wrapped calls and 2 `configure()` calls, so that each race goes both ways |
| `PipelineFaults` | at most once, refinement of `Delivery`, what a crash can lose | batch 2, 3 entries of any kind, 2 faults: a crash, a restart and a failure in the second life, or two restarts |
| `PipelineLive` | waiting entries are accepted, a stop ends; until the first fault acknowledged entries are safe, but for less than a batch at a stop | batch 2, 3 entries: a full batch and a rest; 1 fault |
| `AlertOneLoop` | channels agree with the engine, cooldowns, a failing rule starves no other | 2 rules (cooldowns 2 and 1), 2 channels, sends fail, the first rule flaky and unformattable |
| `AlertTwoLoops` | silences, a running engine has a loop, stopped loops end | 2 loops, 1 rule, silences of up to 2 ticks |
| `Exposition` | locked readers, pages rendered without the lock, percentiles, `stop()` returns unless a client stalls | 2 threads, 2 series, 2 bounds, a value below both and one above, 3 observations: two scrapes with an observation inside and one between |
| `Evaluators` | absence, rate and outliers are what they claim; a lasting absence is found | absence 3 > look-back 2; limit 4 in a window of 3, one short of firing; windows up to 6 > 2 ^ 2 + 1 values of three sizes; `Precision` 5 > 2 ^ 2 |

Bounds on histories (`MaxEvents`, `MaxMsgs`, `MaxFaults`, `SilenceIds`,
`MaxSilence`, `MaxIds`, `MaxOpen`, `MaxCalls`, `MaxLoggers`, `MaxObservations`,
`MaxStamps`) are in the guards of the actions that need them, `MaxWork` and the
boxes in `MCLogging`. The threads, the
batch and the buffer are what the behaviours turn on; more events only repeat
batches. For safety the proofs remove the bounds altogether. Deadlock is not checked
where a program may really stop: when the events, ids or calls of a behaviour are used up, and the transport is closed, the
collector has ended or the exporter has stopped. Type invariants are proved, for
every value of the constants, and not repeated in the runs; a type error in a
reachable expression would end a run anyway.

These runs show where the code departs from what the repository says;
`findings` in `PROJECT.json` quotes the lines:

| Run | The code |
|---|---|
| `AgentShipped` | the pipeline call raises, nothing reaches the stream |
| `PipelineTail` | a buffer short of a batch is never flushed |
| `AlertTemplate` | the default template raises after the firing was noted |
| `EvaluatorsRate` | the rate evaluator counts its own evaluations (`rate.py:19`): it fires with no event at all, and the default rule `ws_reconnect_rate`, evaluated every 30 seconds, never fires (`ReconnectRuleIsSilent`) |

Departures that the models also contain, with no run of their own:

- an entry is acknowledged when it is buffered, so a crash before it is routed
  loses it (`pipeline.py:91`; README line 7 says streams "survive collector
  restarts"). `LossWindow` and its theorem say how much can be
  lost. Without a fault a clean stop loses what `_run()` still accepts, and
  acknowledges, after `stop()` has drained the buffer (`pipeline.py:52-58`, `85-91`):
  less than a batch (`AckedIsSafeInCalm`);
- an entry that is JSON but that `dict()` refuses raises in `enrich()`; the rest of its
  reply is given up, pending for ever (`pipeline.py:85-97`; `EveryEntryAccepted`
  excepts it);
- `stop(); start()` while a loop sleeps leaves two loops (`engine.py:31`), each of
  which checks the cooldown before it awaits its data, so both fire within it
  (README line 93). `CooldownKept` and `ChannelsAgree` are checked and proved for one
  loop only, `AlertsRaised` and `AlertsResolve` checked for one;
- leaving a span made by `new_span()` restores the span and not its parent
  (`context.py:28`), so that entries after it carry its id; the trace is right;
- two requests with one `X-Span-Id` and no `X-Trace-Id` give one span two traces
  (`context.py:94-99`);
- without a lock the no-op transport may raise out of a logging call, if more
  threads log at once than its buffer has places, and the
  latency decorator then replaces the function's result by that exception;
- each request of the http client is logged twice;
- an outlier is compared with a window that holds it: with the default `z_threshold`
  of 3 the tenth evaluation, the first that is answered, fires by rounding if at all;
  otherwise eleven values are needed;
- buckets that `observe()` has already made cumulative (tests/test_metrics.py:57)
  are summed again when rendered (`prometheus.py:72-76`), so that the i-th bucket
  on the page may be i times +Inf; `Rendered` does the same;
- a client that connects and sends nothing, or does not read its answer, blocks the
  exporter and `stop()` with it, since nothing has a timeout;
- `exporter.stop()` does not close the socket, so that a second `start()` fails.

Others lie in what is not modelled: `FluxWatchConfig.from_env` splits an unset
allowlist into `[""]` (`config.py:45`), so a logger configured from the environment
drops every entry; the middleware for FastAPI is registered as an object where
Starlette wants a class (`fastapi.py:40`); `Counter.dec` exists.

And in the transports and the collector: entries
trimmed by MAXLEN are not counted (README line 74); a batch whose flush fails is
dropped and not kept in memory (line 76); without a lock the no-op transport
exceeds its bound (line 76; `NearlyBounded` says by how much); entries pending
at a crash are never read again, since only `">"` is read; a silence does not
stop an evaluation whose data is being awaited (`SilenceSettles` says what
holds); `Rule.enabled` is never read; a stop between `start()` and the creation
of the group is undone.

### Fairness

- `AgentTransport`: weak fairness of the pipeline call (it returns or raises), of
  the flusher's steps and of a `close()` that has begun. The flusher competes for
  the lock with senders, but sends are bounded in a behaviour. No fairness of
  `send` or of the start of a shutdown.
- `CollectorPipeline`: weak fairness of `_run()`; strong fairness of `stop()`,
  which needs `_run()` to be at an await. The event loop is first-in first-out,
  so a coroutine whose call has returned runs at the next await of the other.
- `AlertEngine`: weak fairness of time, strong fairness of each loop, for the
  same reason as in the collector. Nothing forces `start`, `stop`, silences or changes of the data.
- `Exposition`: weak fairness of a thread inside `observe()` and of the server's own
  steps. `threading.Lock` is not fair, so nothing stronger is assumed: the server
  gets the lock because the threads observe finitely often, and under observations
  without end it might not. Nothing forces a client to connect, to send its request
  or to take its answer, nor observations or `stop()`.
- `Evaluators`: weak fairness of time and of evaluations, which a running engine
  repeats; nothing forces events.

## Proofs

All theorems hold for every value of the constants that satisfies the module's
`ASSUME`.

- `AgentTransportProofs`. The inductive invariant is that stream, batch and
  buffer are consecutive, increasing runs of accepted numbers (the buffer being
  the newest ones without a gap), that the counts add up, that a batch exists only
  while the lock is held, and how `mark` relates to what is in memory at each
  stage of closing. `StreamInSendOrder` alone is not inductive: an append keeps
  it only because every number in memory is at most `accepted`. From it:
  `TypeCorrect`, `NoEventUnaccounted`, `BufferStaysBounded`, `BufferStaysNewest`,
  `StreamStaysOrdered`, `CloseLeavesNothing`, and `ImplementsChannel`: each step
  is a step of `LossyFifo` or a stutter.
- `LoggerPartsProofs`, trace context. Both theorems need to know what the tokens hold:
  `TraceInv` says that the trace that each token restores is that of the span below
  or, at the bottom, the task's own. `SpanHasOneTrace` is not
  inductive on contexts alone, because leaving a span brings an old pair of ids
  back and `child()` makes a new one of any open span: `SpanInv` says that all
  pairs, in contexts, in spans and in tokens, agree on the trace of a span that is
  not in `given`, that no span in them is beyond
  `lastId`, and that a span without a trace is in `given`.
- `LoggerPartsProofs`, no-op transport. The bound counts the threads that passed the test:
  a thread about to append takes a place, one about to pop will free one.
- `LoggingProofs`. `LoggingComposes` shows that a step of the front end is a step or a
  stutter of each part, which brings the theorems of `NoopTransport` and
  `TraceContext` over without proving them again. `ResultsReturned` follows from the
  bound of the unlocked buffer: `pop(0)` finds it empty only if more threads passed
  the test than it has places. `SuccessesMeasured` needs that whoever is about to
  observe holds the registered histogram (`MetricInv`), `ConfigureNotStale` that
  loggers are assigned in the order they are made (`ConfigInv`).
- `HistogramProofs`. `DataInv` says that one thread observes at a time, and how far
  its series has come: the fields it has written count its value, the others do
  not yet. So a bucket lags behind the values by one at most and the count never
  does. `PageInv` adds that no sample read exceeds what its field is now, which
  is all that the next sample has to be compared with; with it the order of the
  fields read (`ReadOrdered`) and `SkewAtMostOne` are inductive. The rest of
  `ScrapeOrdered` follows: a sum of i numbers is at most i times their bound
  (`RunningSumsBounded`). `ScrapesMonotone` and `SumIsOfPrefix` need
  `ScrapeInv` besides: a series' sum is that of its values; a sample read is not
  beyond its field and not below the last page's; the sum read is that of a prefix of
  the values, which is at most one shorter than the count read before it and no longer
  than the one read after it. Larger buckets have larger running sums
  (`RunningSumsGrow`), so what is cumulated twice does not go back either.
  `QuantileAt(p)`, for each p from 0 to 100, comes down to `RankedElement`: fewer than r values lie below
  the one at rank r of a sorted order, and at least r do not exceed it. `Sorted`
  chooses an order, which exists for every sequence (`SortedOrderExists`).
- `EvaluatorsProofs`. `AbsenceIsReal` needs `SeenInv`: while evaluations cover the
  time, an event younger than `_last_seen` came after the last evaluation, which
  would have found it. `RateNeedsEvaluations` needs `RateInv`: timestamps are `Interval` apart, so n
  of them span n - 1 intervals, and only a window that long holds them.
  `OutlierNeedsWindow` is Samuelson's inequality: no value is further from the mean
  of n values, itself among them, than the square root of n - 1 standard
  deviations. It follows from Cauchy's inequality for the other n - 1 values, which
  the lemmas prove by induction on the sequence, and is proved multiplied out, as
  the evaluator is modelled. Rounding cannot carry a smaller window over the
  threshold, because the squares of the two differ by one part in z ^ 2 at least, which
  is more than one in `Precision` (`PreciseEnough`). `JumpFires` is the inequality's
  case of equality.
- `SequenceLemmas`. An induction over data cannot be cited from the library, whose
  induction theorems take an operator. It can be stated about sets, though: a set
  that has 0 and, with each number, the next has all numbers (`NumbersInSet`), and the
  same for sequences that grow at their end (`SequencesInSet`). Both follow from
  the library's `WFMin`: the set of the missing ones would have a smallest element. A
  fold is defined by a recursive function, which the provers take as a choice
  among the functions that satisfy its equation; the lemmas show that one exists and
  that all agree, and then what a further element adds to the sum.
- `CollectorPipelineProofs`. `AtMostOnce` is not inductive. It follows from
  the places of an entry being disjoint (reply, buffer, the two batches), from
  everything in hand lying at or below the high-water mark of what was handed
  out or trimmed, and from nothing in hand or beyond the mark having been indexed.
  The last conjunct, that a missing group has cursor 0, is what keeps a recreated
  group from handing out old entries: the stream was trimmed with it. The same
  invariant gives `ImplementsDelivery`. `LossWindow` needs another one, `Window`:
  a batch exists only while it is routed and the buffer is empty then, and each
  place holds less than a batch apart from the entry that filled it; from that
  `CrashLosesLittle` counts what can be acknowledged and in memory only.
  `CalmKeepsAcked` assumes `PostsSucceed` and rests on `CalmInv`: without a fault
  the entries still to be handled are unacknowledged, and a log or metric that is
  being handled or is acknowledged is indexed, buffered or in a batch. What is left
  behind is therefore in the buffer (`LeftInBuffer`), which never holds a whole batch
  between two awaits. That
  stop() finds its own batch empty when it drains the buffer (`StopIdle`), and
  `_run()` its own when the next entry arrives (`Window`), is what keeps one
  coroutine from overwriting what the other is about to route.
- `AlertEngineProofs`. `RunningHasLoop` is inductive. `SilenceSettles` follows from
  `SilenceInv`: a rule that is not silenced has been silenced for no time, so the
  clock that `Fetch` reads is at least as old as any silence that begins later.
  Two theorems assume `OneLoop`, that start() was called once, and would be false
  without it. `OneLoopKeepsCooldown` rests on `CooldownInv`: while the data is awaited the rule stays
  cooled down, because nothing else can fire it. `OneLoopAgrees` rests on
  `ChannelInv`: a loop that is sending has told the channels up to `chan`
  what the engine holds and its note still says it. With two loops and two
  channels a restart breaks that too: both loops raise the alert, one resolves it,
  and the other, still sending its own, tells the second channel of it afterwards.

Only model-checked: the liveness properties, since the prover has no rule for
fairness and ENABLED. `RateIsReal` is refuted by its run, and
nothing is proved of it. Every safety and action property of a passing run is proved, for
those of `OneLoop` and `PostsSucceed` under the assumptions that their runs make.

## Plan

1. Done: transports, collector pipeline, alert engine; logger front end with
   trace context, filters, latency and middleware; histogram and exporter;
   evaluators; the proofs of each.
   Every safety and action property that a run checks has its theorem.
2. Next: agent, stream and collector in one module (`AgentTransport` and
   `CollectorPipeline` share only `RedisStream` so far; `LossyFifo` and `Delivery` are
   the interfaces that would be put together), with the statement that an event
   is indexed at most once and which losses are possible; a histogram whose
   `observe()` is one step as the abstract specification of the locked one; the
   alert engine with concrete evaluators.

## Not modelled

- Formatting and field layout, reading the configuration, HTTP and Redis protocols,
  authentication: conversions without state. Counter, Gauge and Summary: each
  method is one step under one lock, and they are rendered from a copy made under
  it, so there is nothing to interleave.
- Code that nothing calls: `Buffer.flush_if_ready` and the buffer's `max_size`,
  `Router.close`, `AbsenceEvaluator.reset`, the counters of the health endpoint.
- Dashboards, the command line and the demo's load generator; the bodies of the
  alert channels, which only do I/O and swallow their errors (`Tell` covers both
  outcomes).
- The asynchronous Redis client as such: only the calls the code makes, and how
  they can end.
- The list of values of a histogram grows without bound in the code; memory is not
  a state of the models.
