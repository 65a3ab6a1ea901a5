--------------------------- MODULE AgentTransport ---------------------------
(***************************************************************************)
(* agent/fluxwatch/transport.py, class RedisTransport, with the logger     *)
(* that owns it (core.py).                                                 *)
(*                                                                         *)
(* Any number of application threads call send(); a daemon thread runs     *)
(* _flush_loop(); one thread calls FluxWatchLogger.shutdown().  They share *)
(* the buffer under self._lock.  A critical section is two steps: the      *)
(* memory part, then the pipeline call to Redis during which the lock      *)
(* stays held.  An event is named by its place in the order in which       *)
(* send() calls obtained the lock.                                         *)
(***************************************************************************)
EXTENDS Integers, Sequences, RedisStream

CONSTANTS
  BatchSizes,     \* what config.batch_size may be
  OverflowMax,    \* config.buffer_max_size
  StreamMaxLen,   \* config.redis_max_len
  ExecuteWrites,  \* whether pipe.execute(disable_decoding=True) sends the batch
  MaxEvents       \* bound: events accepted in one behaviour

ASSUME TransportAssumption ==
  /\ BatchSizes \subseteq Nat
  /\ OverflowMax \in Nat \ {0}
  /\ StreamMaxLen \in Nat
  /\ ExecuteWrites \in BOOLEAN
  /\ MaxEvents \in Nat

VARIABLES
  batchSize,  \* config.batch_size, which nothing changes
  lock,       \* holder of self._lock while it talks to Redis, or "free"
  buffer,     \* self._buffer
  batch,      \* the copy _flush_locked() is writing
  running,    \* self._running
  dropCount,  \* self._drop_count
  flusher,    \* where the flusher thread is
  closer,     \* where the thread calling shutdown() is
  log,        \* every event ever added to the stream, in order
  trimmed,    \* how many of them MAXLEN has removed
  accepted,   \* history: events that entered the buffer
  lost,       \* history: events whose write failed (the code keeps no count)
  mark        \* history: accepted when close() cleared _running

memory == <<lock, buffer, batch>>
stream == <<log, trimmed>>
vars == <<batchSize, memory, stream, running, dropCount, flusher, closer,
          accepted, lost, mark>>

Init == /\ batchSize \in BatchSizes
        /\ lock = "free" /\ buffer = << >> /\ batch = << >>
        /\ running = TRUE /\ dropCount = 0
        /\ flusher = "check" /\ closer = "open"
        /\ log = << >> /\ trimmed = 0
        /\ accepted = 0 /\ lost = 0 /\ mark = 0

-----------------------------------------------------------------------------
\* Slip: the copy is taken but the buffer is not cleared.
FlushLockedKeepsBuffer(thread, items) ==
  /\ buffer' = items
  /\ IF items = << >> THEN UNCHANGED <<lock, batch>>
                      ELSE lock' = thread /\ batch' = items

\* The memory part of a critical section that leaves `items` in the buffer
\* and flushes: copy, clear, and start the pipeline, lock held.
FlushLocked(thread, items) ==
  /\ buffer' = << >>
  /\ IF items = << >> THEN UNCHANGED <<lock, batch>>
                      ELSE lock' = thread /\ batch' = items

\* Slips: notice the overflow one event late; drop the newest event.
OverflowingLate == Len(buffer) > OverflowMax
Overflowing == Len(buffer) >= OverflowMax
MakeRoomNewest == IF Overflowing THEN SubSeq(buffer, 1, Len(buffer) - 1) ELSE buffer
MakeRoom == IF Overflowing THEN Tail(buffer) ELSE buffer
CountDrop == dropCount' = IF Overflowing THEN dropCount + 1 ELSE dropCount

AfterAppend == Append(MakeRoom, accepted + 1)

\* send(): drop the oldest if full, append, flush a full batch.
Send ==
  /\ lock = "free" /\ accepted < MaxEvents
  /\ accepted' = accepted + 1
  /\ CountDrop
  /\ IF Len(AfterAppend) >= batchSize
     THEN FlushLocked("sender", AfterAppend)
     ELSE buffer' = AfterAppend /\ UNCHANGED <<lock, batch>>
  /\ UNCHANGED <<batchSize, stream, running, flusher, closer, lost, mark>>

\* How much of a batch a pipeline call leaves in the stream: the connection
\* may break after any prefix; a call that raises before it sends leaves none.
Written == IF ExecuteWrites THEN 0..Len(batch) ELSE {0}

\* Slip: a batch that failed half way goes back to the buffer whole.
ExecuteRetriesAll ==
  /\ lock # "free"
  /\ \E k \in Written :
       /\ log' = log \o SubSeq(batch, 1, k)
       /\ trimmed' \in IF k = 0 THEN {trimmed}
                       ELSE TrimChoices(Len(log'), trimmed, StreamMaxLen)
       /\ buffer' = IF k < Len(batch) THEN batch ELSE buffer
  /\ lock' = "free" /\ batch' = << >>
  /\ UNCHANGED <<batchSize, running, dropCount, flusher, closer, accepted, lost, mark>>

\* pipe.execute() returns or raises; the rest of the batch is dropped with a
\* warning either way, and `with self._lock` ends.
Execute ==
  /\ lock # "free"
  /\ \E k \in Written :
       /\ log' = log \o SubSeq(batch, 1, k)
       /\ trimmed' \in IF k = 0 THEN {trimmed}
                       ELSE TrimChoices(Len(log'), trimmed, StreamMaxLen)
       /\ lost' = lost + (Len(batch) - k)
  /\ lock' = "free" /\ batch' = << >>
  /\ UNCHANGED <<batchSize, buffer, running, dropCount, flusher, closer, accepted, mark>>

-----------------------------------------------------------------------------
\* Slip: the loop does not look at _running.
CheckRunningNever ==
  /\ flusher = "check" /\ lock # "flusher"
  /\ flusher' = "sleep"
  /\ UNCHANGED <<batchSize, memory, stream, running, dropCount, closer, accepted, lost, mark>>

\* _flush_loop().  A thread inside execute() does nothing else.
CheckRunning ==
  /\ flusher = "check" /\ lock # "flusher"
  /\ flusher' = IF running THEN "sleep" ELSE "exited"
  /\ UNCHANGED <<batchSize, memory, stream, running, dropCount, closer, accepted, lost, mark>>

\* Slip: the timer wakes up and flushes nothing.
TimedFlushIdle ==
  /\ flusher = "sleep" /\ lock = "free"
  /\ flusher' = "check"
  /\ UNCHANGED <<batchSize, memory, stream, running, dropCount, closer, accepted, lost, mark>>

TimedFlush ==
  /\ flusher = "sleep" /\ lock = "free"
  /\ flusher' = "check"
  /\ FlushLocked("flusher", buffer)
  /\ UNCHANGED <<batchSize, stream, running, dropCount, closer, accepted, lost, mark>>

\* shutdown(): flush(), then close(): clear _running, join the flusher for at
\* most two seconds (it may still be alive afterwards), flush() again.
ShutdownFlush ==
  /\ closer = "open" /\ lock = "free"
  /\ closer' = "flushed"
  /\ FlushLocked("closer", buffer)
  /\ UNCHANGED <<batchSize, stream, running, dropCount, flusher, accepted, lost, mark>>

StopFlusher ==
  /\ closer = "flushed" /\ lock # "closer"
  /\ closer' = "joining"
  /\ running' = FALSE
  /\ mark' = accepted
  /\ UNCHANGED <<batchSize, memory, stream, dropCount, flusher, accepted, lost>>

\* Slip: close() trusts the flush that shutdown() has already done.
CloseWithoutFlush ==
  /\ closer = "joining" /\ lock = "free"
  /\ closer' = "closed"
  /\ UNCHANGED <<batchSize, memory, stream, running, dropCount, flusher, accepted, lost, mark>>

CloseFlush ==
  /\ closer = "joining" /\ lock = "free"
  /\ closer' = "closed"
  /\ FlushLocked("closer", buffer)
  /\ UNCHANGED <<batchSize, stream, running, dropCount, flusher, accepted, lost, mark>>

Next == \/ Send \/ Execute
        \/ CheckRunning \/ TimedFlush
        \/ ShutdownFlush \/ StopFlusher \/ CloseFlush

Spec == Init /\ [][Next]_vars

\* The flusher thread and a shutdown() under way keep running, and a call to
\* Redis returns or raises.  Nobody has to send or to shut down.
Fairness == /\ WF_vars(Execute)
            /\ WF_vars(CheckRunning) /\ WF_vars(TimedFlush)
            /\ WF_vars(StopFlusher) /\ WF_vars(CloseFlush)

FairSpec == Spec /\ Fairness

-----------------------------------------------------------------------------
TypeOK ==
  /\ batchSize \in BatchSizes
  /\ lock \in {"free", "sender", "flusher", "closer"}
  /\ buffer \in Seq(Nat) /\ batch \in Seq(Nat) /\ log \in Seq(Nat)
  /\ running \in BOOLEAN
  /\ flusher \in {"check", "sleep", "exited"}
  /\ closer \in {"open", "flushed", "joining", "closed"}
  /\ {dropCount, trimmed, accepted, lost, mark} \subseteq Nat

\* Every event that send() took is in the stream, waiting, in a failed write
\* or counted in _drop_count: threads that flush at the same time lose none,
\* count none twice and write none twice.
EveryEventAccounted ==
  accepted = Len(log) + Len(batch) + Len(buffer) + lost + dropCount

Increasing(s) == \A i, j \in 1..Len(s) : i < j => s[i] < s[j]
Before(s, t) == \A i \in 1..Len(s), j \in 1..Len(t) : s[i] < t[j]

\* The stream, the batch being written and the buffer, one after the other,
\* hold events in the order in which send() took them, whichever threads
\* flushed and whatever was dropped (the lock is held over the network call).
StreamInSendOrder ==
  /\ Increasing(log) /\ Increasing(batch) /\ Increasing(buffer)
  /\ Before(log, batch) /\ Before(log, buffer) /\ Before(batch, buffer)

\* The buffer always holds the newest events, with no gap: overflow discards
\* from the old end only and a flush leaves nothing behind.
BufferIsNewest ==
  \A i \in 1..Len(buffer) : buffer[i] = accepted - Len(buffer) + i

\* Both limits hold at once, and with a batch size within the buffer size the
\* overflow branch of send() cannot be reached: _drop_count stays 0.
BufferBounded ==
  /\ Len(buffer) <= OverflowMax
  /\ buffer # << >> => Len(buffer) < batchSize
  /\ batchSize <= OverflowMax => dropCount = 0

\* When close() returns, nothing that had been accepted when it cleared
\* _running is still in memory: not in the buffer, and not in the hands of a
\* flusher that outlived the join, which would be killed with the process.
CloseDrains ==
  (closer = "closed" /\ lock # "closer") =>
    /\ \A i \in 1..Len(buffer) : buffer[i] > mark
    /\ \A i \in 1..Len(batch) : batch[i] > mark

\* An event still in the buffer while the transport runs leaves it, by the
\* timer, by a full batch or by the flush in close().
BufferedEventLeaves ==
  \A n \in 1..MaxEvents :
    (running /\ \E i \in 1..Len(buffer) : buffer[i] = n)
      ~> ~ \E i \in 1..Len(buffer) : buffer[i] = n

\* shutdown() returns and the flusher thread ends once it has been asked to.
CloseCompletes ==
  ~running ~> (closer = "closed" /\ lock # "closer" /\ flusher = "exited")

\* The transport is a lossy FIFO channel.
Channel == INSTANCE LossyFifo WITH delivered <- log
ChannelSpec == Channel!Spec

\* What the logger's docstring says: what is flushed gets to the stream, at
\* least when no write fails half way.
FlushReachesStream ==
  [][(lock # "free" /\ lock' = "free") => log' # log]_vars
=============================================================================
