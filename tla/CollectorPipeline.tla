-------------------------- MODULE CollectorPipeline --------------------------
(***************************************************************************)
(* collector/pipeline.py, class Pipeline, with the buffer, the enricher    *)
(* and the router it calls.                                                *)
(*                                                                         *)
(* The collector is one event loop.  _run() reads a reply of stream        *)
(* entries, handles them one by one and acknowledges each; stop() is a     *)
(* second coroutine that can run whenever _run() waits at an await.  The   *)
(* consumer group (last delivered entry, pending entries) is in Redis and  *)
(* outlives the process; the reply, the buffer and the batches do not.     *)
(* Entries are numbered by their place in the stream.  Bulk requests and   *)
(* the buffer are sets: the order inside a request is not observable.      *)
(***************************************************************************)
EXTENDS Integers, Sequences, FiniteSets, RedisStream

CONSTANTS
  BatchSize,     \* self._batch_size: XREADGROUP count and flush threshold
  StreamMaxLen,  \* MAXLEN of the agents' XADD
  PostsSucceed,  \* TRUE: Elasticsearch indexes every item of every request
  MaxMsgs,       \* bound: entries published
  MaxFaults      \* bound: crashes, evictions and failed Redis commands

ASSUME PipelineAssumption ==
  /\ BatchSize \in Nat \ {0} /\ StreamMaxLen \in Nat
  /\ PostsSucceed \in BOOLEAN
  /\ MaxMsgs \in Nat /\ MaxFaults \in Nat

Ids == 1..MaxMsgs

\* What an entry's "data" field can be to the collector: a log or metric object,
\* text that is not JSON, JSON that dict() refuses, and nothing.
Kinds == {"log", "metric", "notjson", "notdict", "empty"}

VARIABLES
  log,        \* the kinds of the entries ever added
  trimmed,    \* entries 1..trimmed are gone from the stream
  group,      \* whether the consumer group exists
  cursor,     \* its last delivered entry
  pending,    \* its delivered, unacknowledged entries
  pc,         \* where the coroutine start() / _run() is
  running,    \* self._running
  next, last, \* the entries next..last of the reply are still to be handled
  current,    \* the entry whose handling awaits something, 0 if none
  buffer,     \* self._buffer
  batch,      \* what _run() drained and has not routed
  stopPc,     \* where the coroutine stop() is
  stopBatch,  \* what stop() drained and has not routed
  indexed,    \* how often Elasticsearch has indexed each entry
  faults      \* faults so far

stream == <<log, trimmed>>
redis == <<group, cursor, pending>>
reply == <<next, last>>
stopping == <<running, stopPc, stopBatch>>
vars == <<stream, redis, reply, stopping, pc, current, buffer, batch, indexed, faults>>

Init == /\ log = << >> /\ trimmed = 0
        /\ group = FALSE /\ cursor = 0 /\ pending = {}
        /\ pc = "off" /\ running = FALSE
        /\ next = 1 /\ last = 0 /\ current = 0
        /\ buffer = {} /\ batch = {} /\ stopPc = "none" /\ stopBatch = {}
        /\ indexed = [i \in Ids |-> 0] /\ faults = 0

-----------------------------------------------------------------------------
\* The agents and the Redis server.
Publish(kind) ==
  /\ Len(log) < MaxMsgs
  /\ log' = Append(log, kind)
  /\ trimmed' \in TrimChoices(Len(log) + 1, trimmed, StreamMaxLen)
  /\ UNCHANGED <<redis, reply, stopping, pc, current, buffer, batch, indexed, faults>>

\* Redis runs with allkeys-lru: under memory pressure the whole key goes, the
\* group with it.
EvictKey ==
  /\ faults < MaxFaults /\ faults' = faults + 1
  /\ trimmed' = Len(log)
  /\ group' = FALSE /\ cursor' = 0 /\ pending' = {}
  /\ UNCHANGED <<log, reply, stopping, pc, current, buffer, batch, indexed>>

Available == LastEntry(Len(log), trimmed, cursor, BatchSize) >= NextEntry(trimmed, cursor)

\* XREADGROUP ">" as the server executes it.
HandOut ==
  /\ group /\ Available
  /\ cursor' = LastEntry(Len(log), trimmed, cursor, BatchSize)
  /\ pending' = pending \cup (NextEntry(trimmed, cursor) .. cursor')
  /\ UNCHANGED <<stream, group>>

-----------------------------------------------------------------------------
\* start(): XGROUP CREATE ... id=0 MKSTREAM (BUSYGROUP is no error), then _run().
Start ==
  /\ pc = "off"
  /\ pc' = "creating"
  /\ UNCHANGED <<stream, redis, reply, stopping, current, buffer, batch, indexed, faults>>

\* Slip: the group is made anew instead of BUSYGROUP being ignored.
GroupCreatedAnew ==
  /\ pc = "creating"
  /\ group' = TRUE /\ cursor' = 0
  /\ running' = TRUE
  /\ pc' = "poll"
  /\ UNCHANGED <<stream, pending, reply, stopPc, stopBatch, current, buffer, batch,
                 indexed, faults>>

GroupCreated ==
  /\ pc = "creating"
  /\ group' = TRUE
  /\ cursor' = IF group THEN cursor ELSE 0
  /\ running' = TRUE
  /\ pc' = "poll"
  /\ UNCHANGED <<stream, pending, reply, stopPc, stopBatch, current, buffer, batch,
                 indexed, faults>>

\* Slip: `while True` in place of `while self._running`.
PollForever ==
  /\ pc = "poll"
  /\ pc' = "reading"
  /\ UNCHANGED <<stream, redis, reply, stopping, current, buffer, batch, indexed, faults>>

Poll ==
  /\ pc = "poll"
  /\ pc' = IF running THEN "reading" ELSE "ended"
  /\ UNCHANGED <<stream, redis, reply, stopping, current, buffer, batch, indexed, faults>>

ReadReply ==
  /\ pc = "reading" /\ HandOut
  /\ next' = NextEntry(trimmed, cursor) /\ last' = cursor'
  /\ pc' = "entry"
  /\ UNCHANGED <<stopping, current, buffer, batch, indexed, faults>>

\* BLOCK ran out.
ReadNothing ==
  /\ pc = "reading" /\ group /\ ~Available
  /\ pc' = "poll"
  /\ UNCHANGED <<stream, redis, reply, stopping, current, buffer, batch, indexed, faults>>

\* The command fails (always, with NOGROUP, once the group is gone), or the
\* server has executed it but the reply is lost.
ReadBreaks ==
  /\ pc = "reading"
  /\ HandOut \/ UNCHANGED <<stream, redis>>
  /\ pc' = "backoff"
  /\ UNCHANGED <<reply, current>>

ReadFails ==
  /\ ReadBreaks
  /\ IF group THEN faults < MaxFaults /\ faults' = faults + 1
              ELSE UNCHANGED faults
  /\ UNCHANGED <<stopping, buffer, batch, indexed>>

-----------------------------------------------------------------------------
\* The for loop over the entries of a reply.
Handling(kinds) == pc = "entry" /\ next <= last /\ log[next] \in kinds

ReplyDone ==
  /\ pc = "entry" /\ next > last
  /\ pc' = "poll"
  /\ UNCHANGED <<stream, redis, reply, stopping, current, buffer, batch, indexed, faults>>

\* `if not raw: continue`: not even acknowledged.
SkipEmpty ==
  /\ Handling({"empty"})
  /\ next' = next + 1
  /\ UNCHANGED <<stream, redis, last, stopping, pc, current, buffer, batch, indexed, faults>>

\* Slip: a malformed entry ends the loop instead of being acknowledged.
RejectNotJsonBreaks ==
  /\ Handling({"notjson"})
  /\ next' = last + 1
  /\ pc' = "ended"
  /\ UNCHANGED <<stream, redis, last, stopping, current, buffer, batch, indexed, faults>>

RejectNotJson ==
  /\ Handling({"notjson"})
  /\ current' = next /\ next' = next + 1
  /\ pc' = "ack"
  /\ UNCHANGED <<stream, redis, last, stopping, buffer, batch, indexed, faults>>

\* enrich() raises: the handler around the whole reply swallows it.
EnrichFails ==
  /\ Handling({"notdict"})
  /\ next' = last + 1
  /\ pc' = "backoff"
  /\ UNCHANGED <<stream, redis, last, stopping, current, buffer, batch, indexed, faults>>

Logs(entries) == {i \in entries : log[i] = "log"}
Metrics(entries) == {i \in entries : log[i] = "metric"}
FirstPost(entries) == IF Logs(entries) # {} THEN "logs" ELSE "metrics"

\* Slip: the buffer is flushed one entry too late.
AcceptLate ==
  /\ Handling({"log", "metric"})
  /\ current' = next /\ next' = next + 1
  /\ IF Cardinality(buffer \cup {next}) > BatchSize
     THEN /\ batch' = buffer \cup {next} /\ buffer' = {}
          /\ pc' = FirstPost(batch')
     ELSE /\ buffer' = buffer \cup {next} /\ UNCHANGED batch
          /\ pc' = "ack"
  /\ UNCHANGED <<stream, redis, last, stopping, indexed, faults>>

Accept ==
  /\ Handling({"log", "metric"})
  /\ current' = next /\ next' = next + 1
  /\ IF Cardinality(buffer \cup {next}) >= BatchSize
     THEN /\ batch' = buffer \cup {next} /\ buffer' = {}
          /\ pc' = FirstPost(batch')
     ELSE /\ buffer' = buffer \cup {next} /\ UNCHANGED batch
          /\ pc' = "ack"
  /\ UNCHANGED <<stream, redis, last, stopping, indexed, faults>>

\* A bulk request: whatever goes wrong in it, on the way or item by item, the
\* router swallows, so any subset may end up indexed.
Post(entries) ==
  \E done \in IF PostsSucceed THEN {entries} ELSE SUBSET entries :
    indexed' = [i \in Ids |-> indexed[i] + IF i \in done THEN 1 ELSE 0]

\* Slip: a batch that holds logs does not get to its metrics.
RouteLogsOnly ==
  /\ pc = "logs"
  /\ Post(Logs(batch))
  /\ batch' = {}
  /\ pc' = "ack"
  /\ UNCHANGED <<stream, redis, reply, stopping, current, buffer, faults>>

RouteLogs ==
  /\ pc = "logs"
  /\ Post(Logs(batch))
  /\ batch' = Metrics(batch)
  /\ pc' = IF Metrics(batch) # {} THEN "metrics" ELSE "ack"
  /\ UNCHANGED <<stream, redis, reply, stopping, current, buffer, faults>>

RouteMetrics ==
  /\ pc = "metrics"
  /\ Post(batch)
  /\ batch' = {}
  /\ pc' = "ack"
  /\ UNCHANGED <<stream, redis, reply, stopping, current, buffer, faults>>

XAck == pending' = pending \ {current}

Ack ==
  /\ pc = "ack"
  /\ XAck
  /\ current' = 0
  /\ pc' = "entry"
  /\ UNCHANGED <<stream, group, cursor, reply, stopping, buffer, batch, indexed, faults>>

\* XACK fails, executed or not: the rest of the reply is given up.
AckBreaks ==
  /\ pc = "ack"
  /\ XAck \/ UNCHANGED pending
  /\ current' = 0 /\ next' = last + 1
  /\ pc' = "backoff"
  /\ UNCHANGED <<stream, group, cursor, last>>

AckFails ==
  /\ AckBreaks
  /\ faults < MaxFaults /\ faults' = faults + 1
  /\ UNCHANGED <<stopping, buffer, batch, indexed>>

\* await asyncio.sleep(1.0)
BackoffEnds ==
  /\ pc = "backoff"
  /\ pc' = "poll"
  /\ UNCHANGED <<stream, redis, reply, stopping, current, buffer, batch, indexed, faults>>

-----------------------------------------------------------------------------
AtAwait == pc \in {"creating", "reading", "logs", "metrics", "ack", "backoff", "ended"}

\* Slip: stop() copies the buffer without clearing it.
BeginStopKeepsBuffer ==
  /\ stopPc = "none"
  /\ running' = FALSE
  /\ stopBatch' = buffer /\ UNCHANGED buffer
  /\ stopPc' = IF buffer = {} THEN "close" ELSE FirstPost(buffer)

\* stop() up to its first await: clear _running and drain the buffer.
BeginStop ==
  /\ stopPc = "none"
  /\ running' = FALSE
  /\ stopBatch' = buffer /\ buffer' = {}
  /\ stopPc' = IF buffer = {} THEN "close" ELSE FirstPost(buffer)

Stop ==
  /\ AtAwait /\ BeginStop
  /\ UNCHANGED <<stream, redis, reply, pc, current, batch, indexed, faults>>

\* KeyboardInterrupt inside _run(): run_pipeline() calls stop() in its place.
Interrupt ==
  /\ pc \in {"poll", "entry"} /\ BeginStop
  /\ pc' = "ended" /\ next' = last + 1
  /\ UNCHANGED <<stream, redis, last, current, batch, indexed, faults>>

StopRouteLogs ==
  /\ AtAwait /\ stopPc = "logs"
  /\ Post(Logs(stopBatch))
  /\ stopBatch' = Metrics(stopBatch)
  /\ stopPc' = IF Metrics(stopBatch) # {} THEN "metrics" ELSE "close"
  /\ UNCHANGED <<stream, redis, reply, running, pc, current, buffer, batch, faults>>

StopRouteMetrics ==
  /\ AtAwait /\ stopPc = "metrics"
  /\ Post(stopBatch)
  /\ stopBatch' = {}
  /\ stopPc' = "close"
  /\ UNCHANGED <<stream, redis, reply, running, pc, current, buffer, batch, faults>>

\* The last call of stop(), aclose(): a command _run() has in flight is cut off,
\* unless it got its reply first.
CloseRedis ==
  /\ AtAwait /\ stopPc = "close"
  /\ stopPc' = "done"
  /\ ReadBreaks \/ AckBreaks \/ UNCHANGED <<stream, redis, reply, pc, current>>
  /\ UNCHANGED <<running, stopBatch, buffer, batch, indexed, faults>>

\* The process ends: killed, or asyncio.run() cancelled by SIGINT (CancelledError
\* only breaks the loop, stop() is not called), or done.  Memory is gone.
Crash ==
  /\ pc # "off" /\ faults < MaxFaults /\ faults' = faults + 1
  /\ pc' = "off" /\ running' = FALSE
  /\ next' = 1 /\ last' = 0 /\ current' = 0
  /\ buffer' = {} /\ batch' = {} /\ stopPc' = "none" /\ stopBatch' = {}
  /\ UNCHANGED <<stream, redis, indexed>>

RunStep == \/ GroupCreated \/ Poll \/ ReadReply \/ ReadNothing \/ ReadFails
           \/ ReplyDone \/ SkipEmpty \/ RejectNotJson \/ EnrichFails \/ Accept
           \/ RouteLogs \/ RouteMetrics \/ Ack \/ AckFails \/ BackoffEnds

StopStep == StopRouteLogs \/ StopRouteMetrics \/ CloseRedis

Next == \/ \E kind \in Kinds : Publish(kind)
        \/ EvictKey \/ Start \/ Stop \/ Interrupt \/ Crash
        \/ RunStep \/ StopStep

Spec == Init /\ [][Next]_vars

\* Redis and HTTP calls return, fail or time out, and a coroutine whose call has
\* returned runs when the other one waits: stop() needs _run() to be at an await,
\* which it is again and again, hence the strong fairness.
FairSpec == Spec /\ WF_vars(RunStep) /\ SF_vars(StopStep)

-----------------------------------------------------------------------------
TypeOK ==
  /\ log \in Seq(Kinds) /\ Len(log) <= MaxMsgs
  /\ trimmed \in 0..Len(log) /\ cursor \in 0..Len(log)
  /\ group \in BOOLEAN /\ running \in BOOLEAN
  /\ pending \subseteq Ids /\ buffer \subseteq Ids
  /\ batch \subseteq Ids /\ stopBatch \subseteq Ids
  /\ pc \in {"off", "creating", "poll", "reading", "entry", "logs", "metrics",
             "ack", "backoff", "ended"}
  /\ stopPc \in {"none", "logs", "metrics", "close", "done"}
  /\ next \in 1..MaxMsgs + 1 /\ last \in 0..MaxMsgs /\ current \in 0..MaxMsgs
  /\ indexed \in [Ids -> Nat] /\ faults \in 0..MaxFaults

Inbox == next..last
InHand == Inbox \cup buffer \cup batch \cup stopBatch
HighWater == Larger(cursor, trimmed)

\* No entry is indexed twice, though it may be unacknowledged when it is
\* routed, two coroutines route at the same time, and Redis keeps the
\* unacknowledged entries of a crashed collector.
AtMostOnce == \A i \in Ids : indexed[i] <= 1

\* What a crash can lose for good (acknowledged, not yet routed) is less than one
\* batch, and less than one more while a stop() is under way.
AtRisk == (buffer \cup batch \cup stopBatch) \ (pending \cup {current})
LossWindow ==
  /\ Cardinality(AtRisk) <= 2 * (BatchSize - 1)
  /\ stopBatch = {} => Cardinality(AtRisk) < BatchSize

\* Acknowledged logs and metrics still in the stream; the entries a coroutine is
\* sure to route (the buffer is _run()'s and stop()'s until stop() has drained it,
\* which it does once and first); the former that are neither indexed nor these.
Acked == {i \in 1..Len(log) : /\ trimmed < i /\ i <= cursor /\ i \notin pending
                              /\ log[i] \in {"log", "metric"}}
ToRoute == batch \cup stopBatch \cup IF stopPc = "none" THEN buffer ELSE {}
LeftBehind == {i \in Acked : indexed[i] = 0} \ ToRoute

\* The README's streams that "survive collector restarts", as long as nothing
\* crashes, fails or is evicted: an acknowledged log or metric is indexed or a
\* coroutine will route it, whatever stop() and _run() drain, route and acknowledge
\* at the same time.  The exception is what _run() still accepts, and acknowledges,
\* after stop() drained the buffer: less than a batch, which a clean stop loses.
AckedIsSafeInCalm ==
  faults = 0 => LeftBehind \subseteq buffer /\ Cardinality(LeftBehind) < BatchSize

\* The collector hands entries on at most once, whatever fails.
Handover == INSTANCE Delivery
  WITH published <- Len(log), waiting <- HighWater + 1 .. Len(log),
       taken <- InHand, copies <- indexed
HandoverSpec == Handover!Spec

\* A log or metric waiting in the stream is taken into the buffer, whatever
\* malformed entries come before it, unless stop() is called, something crashes,
\* fails or is evicted, the entry is trimmed first, or an entry before it in the
\* same reply is JSON that dict() refuses: the rest of that reply is given up.
BehindRefused(i) ==
  \E j \in 1..Len(log) : i - BatchSize < j /\ j < i /\ log[j] = "notdict"
Accepted(i) == i \in buffer \cup batch \cup stopBatch \/ indexed[i] = 1
EveryEntryAccepted ==
  \A i \in Ids, n \in 0..MaxFaults :
    (/\ HighWater < i /\ i <= Len(log) /\ log[i] \in {"log", "metric"}
     /\ pc # "off" /\ group /\ stopPc = "none" /\ faults = n)
      ~> \/ Accepted(i) \/ BehindRefused(i)
         \/ stopPc # "none" \/ faults # n \/ (i <= trimmed /\ i \notin Inbox)

\* A run that has been told to stop ends, and so does the flush in stop().
StopEndsRun ==
  /\ (~running /\ pc \notin {"off", "creating"}) ~> pc \in {"ended", "off"}
  /\ stopPc # "none" ~> stopPc \in {"done", "none"}

\* The README's "configurable flush intervals": what is buffered is routed even
\* if no more entries arrive.
BufferIsFlushed == \A i \in Ids : i \in buffer ~> i \notin buffer
=============================================================================
