------------------------ MODULE AgentTransportProofs ------------------------
(***************************************************************************)
(* Safety of the agent's transport for every batch size, buffer size,      *)
(* stream length and number of events.                                     *)
(***************************************************************************)
EXTENDS AgentTransport, SequenceTheorems, TLAPS

Threads == {"sender", "flusher", "closer"}

\* The lock is held exactly while a batch is being written; nothing is added to
\* the buffer meanwhile.
LockInv == /\ (lock = "free") <=> (batch = << >>)
           /\ lock # "free" => buffer = << >>
\* What is written or in the stream is older than what is in the buffer.
OlderThanBuffer(s) == \A i \in 1..Len(s) : 1 <= s[i] /\ s[i] <= accepted - Len(buffer)

OrderInv == /\ Len(buffer) <= accepted
            /\ BufferIsNewest
            /\ OlderThanBuffer(log) /\ OlderThanBuffer(batch)
            /\ Increasing(log) /\ Increasing(batch) /\ Before(log, batch)

Closed == closer = "closed" /\ lock # "closer"
MarkInv == /\ mark <= accepted
           /\ Closed => mark <= accepted - Len(buffer)
           /\ Closed => \A i \in 1..Len(batch) : batch[i] > mark

IInv == TypeOK /\ LockInv /\ OrderInv /\ EveryEventAccounted /\ BufferBounded /\ MarkInv

\* items is what send() or flush() finds in the buffer after `total` events:
\* the youngest Len(items) of them, within the configured size.
Newest(items, total) ==
  /\ items \in Seq(Nat)
  /\ Len(items) <= total
  /\ \A i \in 1..Len(items) : items[i] = total - Len(items) + i

-----------------------------------------------------------------------------
\* Flushing under a free lock keeps the order.
LEMMA FlushKeepsOrder ==
  ASSUME IInv, lock = "free", NEW thread \in Threads, NEW items,
         NEW total \in Nat, accepted' = total, log' = log,
         Newest(items, total),
         total - Len(items) >= accepted - Len(buffer),
         FlushLocked(thread, items)
  PROVE  /\ lock' \in {"free"} \cup Threads
         /\ buffer' = << >> /\ buffer' \in Seq(Nat) /\ Len(buffer') = 0
         /\ batch' \in Seq(Nat) /\ batch' = items
         /\ LockInv' /\ OrderInv'
<1>1. /\ batch = << >> /\ Len(buffer) \in Nat /\ accepted \in Nat /\ Len(items) \in Nat
      /\ log \in Seq(Nat) /\ Len(log) \in Nat /\ accepted' \in Nat
  BY LenProperties DEF IInv, TypeOK, LockInv, Newest
<1>2. buffer' = << >> /\ buffer' \in Seq(Nat) /\ Len(buffer') = 0
  BY EmptySeq DEF FlushLocked
<1>3. lock' \in {"free"} \cup Threads /\ batch' = items /\ LockInv'
  BY <1>1 DEF FlushLocked, LockInv, Threads
<1>4. BufferIsNewest' /\ Len(buffer') <= accepted'
  BY <1>2 DEF BufferIsNewest
<1>5. OlderThanBuffer(log)'
  <2> SUFFICES ASSUME NEW i \in 1..Len(log) PROVE 1 <= log[i] /\ log[i] <= accepted'
    BY <1>2, <1>1, log' = log DEF OlderThanBuffer
  <2>1. 1 <= log[i] /\ log[i] <= accepted - Len(buffer) /\ log[i] \in Nat
    BY ElementOfSeq, <1>1 DEF IInv, OrderInv, OlderThanBuffer
  <2> QED BY <2>1, <1>1
<1>6. OlderThanBuffer(batch)'
  BY <1>1, <1>2, <1>3 DEF OlderThanBuffer, Newest
<1>7. Increasing(log)'
  BY DEF IInv, OrderInv, Increasing
<1>8. Increasing(batch)'
  BY <1>1, <1>3 DEF Increasing, Newest
<1>9. Before(log, batch)'
  <2> SUFFICES ASSUME NEW i \in 1..Len(log), NEW j \in 1..Len(items)
               PROVE  log[i] < items[j]
    BY <1>3, log' = log DEF Before
  <2>1. log[i] <= accepted - Len(buffer) /\ log[i] \in Nat
    BY ElementOfSeq, <1>1 DEF IInv, OrderInv, OlderThanBuffer
  <2>2. items[j] = total - Len(items) + j
    BY DEF Newest
  <2> QED BY <2>1, <2>2, <1>1
<1>10. items \in Seq(Nat)
  BY DEF Newest
<1> QED BY <1>2, <1>3, <1>4, <1>5, <1>6, <1>7, <1>8, <1>9, <1>10 DEF OrderInv

\* What the buffer holds is what flush() would write.
LEMMA BufferNewest ==
  ASSUME IInv PROVE Newest(buffer, accepted)
BY DEF IInv, TypeOK, OrderInv, BufferIsNewest, Newest

\* send() makes room from the old end and appends: the items are again the
\* youngest, within the limit, and the drop is counted exactly once.
LEMMA SendItems ==
  ASSUME TransportAssumption, IInv, CountDrop
  PROVE  /\ Newest(AfterAppend, accepted + 1)
         /\ AfterAppend # << >> /\ Len(AfterAppend) \in Nat
         /\ Len(AfterAppend) <= OverflowMax
         /\ dropCount' \in Nat
         /\ Len(AfterAppend) + dropCount' = Len(buffer) + 1 + dropCount
         /\ accepted + 1 - Len(AfterAppend) >= accepted - Len(buffer)
         /\ ~Overflowing => dropCount' = dropCount
<1>1. /\ buffer \in Seq(Nat) /\ accepted \in Nat /\ dropCount \in Nat
      /\ Len(buffer) \in Nat /\ Len(buffer) <= accepted /\ Len(buffer) <= OverflowMax
      /\ \A i \in 1..Len(buffer) : buffer[i] = accepted - Len(buffer) + i
      /\ OverflowMax \in Nat /\ OverflowMax > 0
  BY LenProperties
     DEF IInv, TypeOK, OrderInv, BufferIsNewest, BufferBounded, TransportAssumption
<1>2. /\ MakeRoom \in Seq(Nat) /\ Len(MakeRoom) \in Nat
      /\ Len(MakeRoom) < OverflowMax /\ Len(MakeRoom) <= accepted
      /\ Len(MakeRoom) + dropCount' = Len(buffer) + dropCount
      /\ dropCount' \in Nat
      /\ Len(MakeRoom) <= Len(buffer)
      /\ \A i \in 1..Len(MakeRoom) : MakeRoom[i] = accepted - Len(MakeRoom) + i
  <2>1. CASE Overflowing
    <3>1. buffer # << >>
      BY <2>1, <1>1, EmptySeq DEF Overflowing
    <3>2. /\ Tail(buffer) \in Seq(Nat) /\ Len(Tail(buffer)) = Len(buffer) - 1
          /\ \A i \in 1..Len(Tail(buffer)) : Tail(buffer)[i] = buffer[i + 1]
      BY <3>1, <1>1, HeadTailProperties
    <3>3. MakeRoom = Tail(buffer) /\ dropCount' = dropCount + 1
      BY <2>1 DEF MakeRoom, CountDrop
    <3>4. Len(buffer) > 0
      BY <2>1, <1>1 DEF Overflowing
    <3> QED BY <3>2, <3>3, <3>4, <1>1
  <2>2. CASE ~Overflowing
    BY <2>2, <1>1 DEF MakeRoom, CountDrop, Overflowing
  <2> QED BY <2>1, <2>2
<1>3. /\ AfterAppend \in Seq(Nat) /\ AfterAppend # << >> /\ Len(AfterAppend) = Len(MakeRoom) + 1
      /\ \A i \in 1..Len(MakeRoom) : AfterAppend[i] = MakeRoom[i]
      /\ AfterAppend[Len(MakeRoom) + 1] = accepted + 1
  <2>1. accepted + 1 \in Nat
    BY <1>1
  <2>2. MakeRoom \in Seq(Nat)
    BY <1>2
  <2> QED BY <2>1, <2>2, AppendProperties DEF AfterAppend
<1>4. ASSUME NEW i \in 1..Len(AfterAppend) PROVE AfterAppend[i] = accepted + 1 - Len(AfterAppend) + i
  <2>1. CASE i \in 1..Len(MakeRoom)
    <3>1. AfterAppend[i] = MakeRoom[i] /\ MakeRoom[i] = accepted - Len(MakeRoom) + i
      BY <2>1, <1>2, <1>3
    <3> QED BY <3>1, <1>1, <1>2, <1>3
  <2>2. CASE i = Len(MakeRoom) + 1
    <3>1. AfterAppend[i] = accepted + 1
      BY <2>2, <1>3
    <3> QED BY <3>1, <2>2, <1>1, <1>2, <1>3
  <2> QED BY <2>1, <2>2, <1>2, <1>3
<1>5. /\ Len(AfterAppend) \in Nat /\ Len(AfterAppend) <= OverflowMax /\ Len(AfterAppend) <= accepted + 1
      /\ Len(AfterAppend) + dropCount' = Len(buffer) + 1 + dropCount
      /\ accepted + 1 - Len(AfterAppend) >= accepted - Len(buffer)
  <2>1. Len(AfterAppend) = Len(MakeRoom) + 1
    BY <1>3
  <2>2. /\ Len(MakeRoom) \in Nat /\ Len(MakeRoom) < OverflowMax /\ Len(MakeRoom) <= accepted
        /\ Len(MakeRoom) + dropCount' = Len(buffer) + dropCount /\ dropCount' \in Nat
        /\ Len(MakeRoom) <= Len(buffer)
    BY <1>2
  <2>3. accepted \in Nat /\ dropCount \in Nat /\ Len(buffer) \in Nat /\ OverflowMax \in Nat
    BY <1>1
  <2> QED BY <2>1, <2>2, <2>3
<1>6. Newest(AfterAppend, accepted + 1)
  BY <1>1, <1>3, <1>4, <1>5 DEF Newest
<1>7. ~Overflowing => dropCount' = dropCount
  BY Zenon DEF CountDrop
<1> QED BY <1>2, <1>3, <1>5, <1>6, <1>7

-----------------------------------------------------------------------------
LEMMA InitIInv == TransportAssumption /\ Init => IInv
<1> SUFFICES ASSUME TransportAssumption, Init PROVE IInv
  OBVIOUS
<1>1. /\ Len(buffer) = 0 /\ Len(batch) = 0 /\ Len(log) = 0
      /\ buffer \in Seq(Nat) /\ batch \in Seq(Nat) /\ log \in Seq(Nat)
  BY EmptySeq DEF Init
<1>2. TypeOK
  BY <1>1 DEF Init, TypeOK
<1>3. LockInv /\ EveryEventAccounted /\ BufferBounded
  BY <1>1 DEF Init, LockInv, EveryEventAccounted, BufferBounded, TransportAssumption
<1>4. OrderInv
  BY <1>1 DEF Init, OrderInv, BufferIsNewest, OlderThanBuffer, Increasing, Before
<1>5. MarkInv
  BY <1>1 DEF Init, MarkInv, Closed
<1> QED BY <1>2, <1>3, <1>4, <1>5 DEF IInv

\* The facts about one state that the step lemmas start from.
LEMMA Facts ==
  ASSUME IInv
  PROVE  /\ Len(buffer) \in Nat /\ Len(batch) \in Nat /\ Len(log) \in Nat
         /\ dropCount \in Nat /\ trimmed \in Nat /\ accepted \in Nat /\ lost \in Nat /\ mark \in Nat
         /\ Len(buffer) <= accepted /\ mark <= accepted
         /\ accepted = Len(log) + Len(batch) + Len(buffer) + lost + dropCount
         /\ lock = "free" => Len(batch) = 0
BY LenProperties, EmptySeq DEF IInv, TypeOK, OrderInv, MarkInv, EveryEventAccounted, LockInv

LEMMA SendIInv == ASSUME TransportAssumption, IInv, Send PROVE IInv'
<1>0. /\ Len(buffer) \in Nat /\ Len(batch) \in Nat /\ Len(log) \in Nat
      /\ dropCount \in Nat /\ accepted \in Nat /\ lost \in Nat /\ mark \in Nat
      /\ accepted = Len(log) + Len(batch) + Len(buffer) + lost + dropCount
  BY Facts
<1>1. /\ CountDrop /\ accepted' = accepted + 1 /\ accepted' \in Nat /\ lock = "free"
      /\ log' = log /\ trimmed' = trimmed /\ running' = running /\ lost' = lost
      /\ flusher' = flusher /\ closer' = closer /\ mark' = mark /\ batchSize' = batchSize
  BY Facts DEF Send, stream
<1>2. /\ Newest(AfterAppend, accepted + 1)
      /\ AfterAppend # << >> /\ Len(AfterAppend) \in Nat
      /\ Len(AfterAppend) <= OverflowMax /\ dropCount' \in Nat
      /\ Len(AfterAppend) + dropCount' = Len(buffer) + 1 + dropCount
      /\ accepted + 1 - Len(AfterAppend) >= accepted - Len(buffer)
      /\ ~Overflowing => dropCount' = dropCount
  BY <1>1, SendItems
<1>3. /\ mark' <= accepted' /\ mark' \in Nat /\ mark \in Nat
      /\ accepted \in Nat /\ mark <= accepted /\ Len(buffer) \in Nat
  BY <1>1, Facts
<1>4. AfterAppend \in Seq(Nat) /\ batchSize \in Nat /\ OverflowMax \in Nat /\ OverflowMax > 0
  BY <1>2 DEF Newest, TransportAssumption, IInv, TypeOK
<1>5. dropCount' \in Nat /\ Len(AfterAppend) \in Nat
  BY <1>2
<1>5a. batchSize <= OverflowMax => dropCount' = 0
  <2> SUFFICES ASSUME batchSize <= OverflowMax PROVE dropCount' = 0
    OBVIOUS
  <2>1. ~Overflowing
    <3>1. CASE buffer = << >>
      BY <3>1, <1>4, EmptySeq DEF Overflowing
    <3>2. CASE buffer # << >>
      <4>1. Len(buffer) < batchSize
        BY <3>2 DEF IInv, BufferBounded
      <4> QED BY <4>1, <1>3, <1>4 DEF Overflowing
    <3> QED BY <3>1, <3>2
  <2>2. dropCount = 0
    BY DEF IInv, BufferBounded
  <2> QED BY <2>1, <2>2, <1>2
<1>6. CASE Len(AfterAppend) >= batchSize
  <2>1. FlushLocked("sender", AfterAppend) /\ "sender" \in Threads
    BY <1>6 DEF Send, Threads
  <2>2. /\ lock' \in {"free"} \cup Threads
        /\ buffer' = << >> /\ buffer' \in Seq(Nat) /\ Len(buffer') = 0
        /\ batch' \in Seq(Nat) /\ batch' = AfterAppend
        /\ LockInv' /\ OrderInv'
    BY <2>1, <1>0, <1>1, <1>2, accepted + 1 \in Nat, FlushKeepsOrder
  <2>3. lock' = "sender"
    BY <2>1, <1>2 DEF FlushLocked
  <2>4. TypeOK'
    BY <2>2, <1>1, <1>2, <1>3 DEF TypeOK, Threads, IInv
  <2>5. EveryEventAccounted'
    <3>1. Len(batch') = Len(AfterAppend) /\ Len(batch) = 0 /\ Len(buffer') = 0
      BY <2>2, <1>1, Facts
    <3>2. Len(AfterAppend) + dropCount' = Len(buffer) + 1 + dropCount
      BY <1>2
    <3> QED BY <1>0, <3>1, <3>2, <1>1, <1>5, SMTT(20)
            DEF EveryEventAccounted
  <2>6. BufferBounded'
    BY <2>2, <1>1, <1>4, <1>5a DEF BufferBounded
  <2>7. MarkInv'
    <3>1. ASSUME Closed', NEW i \in 1..Len(AfterAppend) PROVE AfterAppend[i] > mark
      <4>1. AfterAppend[i] = accepted + 1 - Len(AfterAppend) + i
        BY <1>0, <1>2 DEF Newest
      <4>2. mark <= accepted - Len(buffer)
        BY <3>1, <1>1 DEF Closed, IInv, MarkInv
      <4> QED BY <4>1, <4>2, <1>1, <1>2, <1>3
    <3> QED BY <3>1, <2>2, <1>1, <1>3 DEF MarkInv
  <2> QED BY <2>2, <2>4, <2>5, <2>6, <2>7, <1>3 DEF IInv
<1>7. CASE ~(Len(AfterAppend) >= batchSize)
  <2>1. buffer' = AfterAppend /\ lock' = lock /\ batch' = batch
    BY <1>7 DEF Send
  <2>2. TypeOK'
    BY <2>1, <1>1, <1>2, <1>3, <1>4 DEF TypeOK, IInv
  <2>3. LockInv'
    BY <2>1, <1>1 DEF IInv, LockInv
  <2>4. EveryEventAccounted'
    <3>1. Len(AfterAppend) + dropCount' = Len(buffer) + 1 + dropCount
      BY <1>2
    <3> QED BY <1>0, <3>1, <2>1, <1>1, <1>5, SMTT(20)
            DEF EveryEventAccounted
  <2>5. BufferBounded'
    BY <2>1, <1>1, <1>2, <1>4, <1>5a, <1>7 DEF BufferBounded
  <2>6. BufferIsNewest' /\ Len(buffer') <= accepted'
    BY <1>0, <1>1, <2>1, <1>2 DEF BufferIsNewest, Newest
  <2>7. batch = << >> /\ Len(batch) = 0 /\ log \in Seq(Nat)
    BY <1>1, Facts DEF IInv, LockInv, TypeOK
  <2>8. OlderThanBuffer(log)'
    <3> SUFFICES ASSUME NEW i \in 1..Len(log)
                 PROVE  1 <= log[i] /\ log[i] <= accepted' - Len(AfterAppend)
      BY <2>1, <1>1 DEF OlderThanBuffer
    <3>1. 1 <= log[i] /\ log[i] <= accepted - Len(buffer) /\ log[i] \in Nat
      BY <2>7, ElementOfSeq DEF IInv, OrderInv, OlderThanBuffer
    <3> QED BY <3>1, <1>1, <1>2, <1>3, SMTT(20)
  <2>9. OrderInv'
    <3>1. Increasing(log)' /\ Increasing(batch)' /\ Before(log, batch)'
      BY <2>1, <1>1 DEF IInv, OrderInv, Increasing, Before
    <3>2. OlderThanBuffer(batch)'
      BY <2>1, <2>7 DEF OlderThanBuffer
    <3> QED BY <3>1, <3>2, <2>6, <2>8 DEF OrderInv
  <2>10. MarkInv'
    <3>1. Closed' => mark <= accepted - Len(buffer)
      BY <2>1, <1>1 DEF Closed, IInv, MarkInv
    <3>2. mark <= accepted - Len(buffer) => mark' <= accepted' - Len(buffer')
      BY <2>1, <1>1, <1>2, <1>3
    <3> QED BY <3>1, <3>2, <2>1, <2>7, <1>3 DEF MarkInv
  <2> QED BY <2>2, <2>3, <2>4, <2>5, <2>9, <2>10 DEF IInv
<1> QED BY <1>6, <1>7

\* The network call appends a prefix of the batch, releases the lock and
\* accounts for the rest.
LEMMA ExecuteIInv == ASSUME TransportAssumption, IInv, Execute PROVE IInv'
<1>0. /\ Len(buffer) \in Nat /\ Len(batch) \in Nat /\ Len(log) \in Nat
      /\ dropCount \in Nat /\ accepted \in Nat /\ lost \in Nat /\ mark \in Nat
      /\ trimmed \in Nat /\ StreamMaxLen \in Nat
      /\ accepted = Len(log) + Len(batch) + Len(buffer) + lost + dropCount
      /\ Len(buffer) <= accepted
      /\ log \in Seq(Nat) /\ batch \in Seq(Nat)
  BY Facts DEF IInv, TypeOK, TransportAssumption
<1>1. PICK k \in Written :
        /\ log' = log \o SubSeq(batch, 1, k)
        /\ trimmed' \in IF k = 0 THEN {trimmed}
                        ELSE TrimChoices(Len(log'), trimmed, StreamMaxLen)
        /\ lost' = lost + (Len(batch) - k)
  BY DEF Execute
<1>2. k \in 0..Len(batch) /\ k \in Nat
  BY <1>0, <1>1 DEF Written
<1>3. /\ lock' = "free" /\ batch' = << >> /\ buffer' = buffer
      /\ running' = running /\ dropCount' = dropCount /\ flusher' = flusher
      /\ closer' = closer /\ accepted' = accepted /\ mark' = mark
      /\ batchSize' = batchSize
  BY DEF Execute
<1>4. /\ SubSeq(batch, 1, k) \in Seq(Nat) /\ Len(SubSeq(batch, 1, k)) = k
      /\ \A i \in 1..k : SubSeq(batch, 1, k)[i] = batch[i]
  <2>1. \A i \in 1..k : batch[i] \in Nat
    BY <1>0, <1>2, ElementOfSeq
  <2> QED BY <2>1, <1>2, SubSeqProperties
<1>5. /\ log' \in Seq(Nat) /\ Len(log') = Len(log) + k
      /\ \A i \in 1..Len(log) + k :
           log'[i] = IF i <= Len(log) THEN log[i] ELSE batch[i - Len(log)]
  <2>1. /\ log' \in Seq(Nat) /\ Len(log') = Len(log) + k
        /\ \A i \in 1..Len(log) + k :
             log'[i] = IF i <= Len(log) THEN log[i]
                                        ELSE SubSeq(batch, 1, k)[i - Len(log)]
    <3>1. PICK part \in Seq(Nat) : part = SubSeq(batch, 1, k)
      BY <1>4
    <3>2. log' = log \o part /\ Len(part) = k
      BY <1>1, <1>4, <3>1, Zenon
    <3>3. log \in Seq(Nat)
      BY <1>0
    <3>4. /\ log \o part \in Seq(Nat) /\ Len(log \o part) = Len(log) + Len(part)
          /\ \A i \in 1..Len(log) + Len(part) :
               (log \o part)[i] = IF i <= Len(log) THEN log[i] ELSE part[i - Len(log)]
      BY <3>3, ConcatProperties
    <3> QED BY <3>1, <3>2, <3>4, Zenon
  <2>2. ASSUME NEW i \in 1..Len(log) + k
        PROVE  log'[i] = IF i <= Len(log) THEN log[i] ELSE batch[i - Len(log)]
    <3>1. CASE i <= Len(log)
      BY <3>1, <2>1
    <3>2. CASE ~(i <= Len(log))
      <4>1. i - Len(log) \in 1..k
        BY <3>2, <1>0, <1>2
      <4> QED BY <3>2, <4>1, <2>1, <1>4
    <3> QED BY <3>1, <3>2
  <2> QED BY <2>1, <2>2
<1>5a. ASSUME NEW j \in 1..Len(log) + k, ~(j <= Len(log))
       PROVE  j - Len(log) \in 1..Len(batch) /\ log'[j] = batch[j - Len(log)]
  <2>1. j - Len(log) \in 1..Len(batch)
    BY <1>5a, <1>0, <1>2
  <2> QED BY <2>1, <1>5a, <1>5
<1>6. trimmed' \in Nat
  <2>1. CASE k = 0
    BY <2>1, <1>0, <1>1
  <2>2. CASE k # 0
    <3>1. Len(log') \in Nat
      BY <1>0, <1>2, <1>5
    <3>2. TrimChoices(Len(log'), trimmed, StreamMaxLen) \subseteq Nat
      BY <3>1, <1>0 DEF TrimChoices, Larger
    <3> QED BY <2>2, <3>2, <1>1
  <2> QED BY <2>1, <2>2
<1>7. Len(batch') = 0 /\ batch' \in Seq(Nat) /\ lost' \in Nat
  BY <1>0, <1>1, <1>2, <1>3, EmptySeq
<1>8. TypeOK' /\ LockInv'
  BY <1>3, <1>5, <1>6, <1>7 DEF IInv, TypeOK, LockInv
<1>9. EveryEventAccounted'
  <2>1. Len(log') = Len(log) + k /\ lost' = lost + (Len(batch) - k)
    BY <1>1, <1>5
  <2> QED BY <2>1, <1>0, <1>2, <1>3, <1>7 DEF EveryEventAccounted
<1>10. BufferBounded' /\ BufferIsNewest' /\ Len(buffer') <= accepted'
  BY <1>0, <1>3 DEF IInv, OrderInv, BufferBounded, BufferIsNewest
<1>11. MarkInv'
  <2>1. Len(buffer') = 0
    BY <1>3, EmptySeq DEF IInv, LockInv, Execute
  <2>2. mark' <= accepted' /\ accepted' \in Nat
    BY <1>0, <1>3 DEF IInv, MarkInv
  <2> QED BY <2>1, <2>2, <1>7 DEF MarkInv
<1>12. OlderThanBuffer(log)' /\ OlderThanBuffer(batch)'
  <2> SUFFICES ASSUME NEW i \in 1..Len(log) + k
               PROVE  1 <= log'[i] /\ log'[i] <= accepted - Len(buffer)
    BY <1>3, <1>5, <1>7 DEF OlderThanBuffer
  <2>1. CASE i <= Len(log)
    <3>1. i \in 1..Len(log) /\ log'[i] = log[i]
      BY <2>1, <1>0, <1>2, <1>5, SMTT(20)
    <3>2. 1 <= log[i] /\ log[i] <= accepted - Len(buffer)
      BY <3>1 DEF IInv, OrderInv, OlderThanBuffer
    <3> QED BY <3>1, <3>2, Zenon
  <2>2. CASE ~(i <= Len(log))
    <3>1. i - Len(log) \in 1..Len(batch) /\ log'[i] = batch[i - Len(log)]
      BY <2>2, <1>5a, <1>5
    <3> QED BY <3>1 DEF IInv, OrderInv, OlderThanBuffer
  <2> QED BY <2>1, <2>2
<1>13. Increasing(log)'
  <2> SUFFICES ASSUME NEW i \in 1..Len(log) + k, NEW j \in 1..Len(log) + k, i < j
               PROVE  log'[i] < log'[j]
    BY <1>5 DEF Increasing
  <2>1. CASE j <= Len(log)
    <3>0. i \in 1..Len(log) /\ j \in 1..Len(log)
      BY <2>1, <1>0, <1>2
    <3>1. log'[i] = log[i] /\ log'[j] = log[j]
      BY <2>1, <3>0, <1>0, <1>2, <1>5
    <3> QED BY <3>0, <3>1 DEF IInv, OrderInv, Increasing
  <2>2. CASE i <= Len(log) /\ ~(j <= Len(log))
    <3>1. i \in 1..Len(log) /\ log'[i] = log[i]
      BY <2>2, <1>0, <1>2, <1>5
    <3>2. j - Len(log) \in 1..Len(batch) /\ log'[j] = batch[j - Len(log)]
      BY <2>2, <1>5a
    <3> QED BY <3>1, <3>2 DEF IInv, OrderInv, Before
  <2>3. CASE ~(i <= Len(log))
    <3>1. i - Len(log) \in 1..Len(batch) /\ log'[i] = batch[i - Len(log)]
      BY <2>3, <1>5a
    <3>2. ~(j <= Len(log)) /\ i - Len(log) < j - Len(log)
      BY <2>3, <1>0
    <3>3. j - Len(log) \in 1..Len(batch) /\ log'[j] = batch[j - Len(log)]
      BY <3>2, <1>5a
    <3> QED BY <3>1, <3>2, <3>3 DEF IInv, OrderInv, Increasing
  <2> QED BY <2>1, <2>2, <2>3, <1>0
<1>14. Increasing(batch)' /\ Before(log, batch)'
  BY <1>7 DEF Increasing, Before
<1>15. OrderInv'
  BY <1>10, <1>12, <1>13, <1>14 DEF OrderInv
<1> QED BY <1>8, <1>9, <1>10, <1>11, <1>15 DEF IInv

\* The three flushes that are not part of a send().
LEMMA FlushIInv ==
  ASSUME TransportAssumption, IInv, lock = "free",
         NEW thread \in Threads, FlushLocked(thread, buffer),
         UNCHANGED <<batchSize, log, trimmed, dropCount, accepted, lost, mark>>,
         running' \in BOOLEAN, flusher' \in {"check", "sleep", "exited"},
         closer' \in {"open", "flushed", "joining", "closed"},
         Closed' => Closed \/ buffer = << >>
  PROVE  IInv'
<1>0. /\ Len(buffer) \in Nat /\ Len(batch) \in Nat /\ Len(log) \in Nat
      /\ dropCount \in Nat /\ accepted \in Nat /\ lost \in Nat /\ mark \in Nat
      /\ accepted = Len(log) + Len(batch) + Len(buffer) + lost + dropCount
      /\ mark <= accepted /\ Len(batch) = 0
  BY Facts
<1>1. /\ lock' \in {"free"} \cup Threads
      /\ buffer' = << >> /\ buffer' \in Seq(Nat) /\ Len(buffer') = 0
      /\ batch' \in Seq(Nat) /\ batch' = buffer
      /\ LockInv' /\ OrderInv'
  <2>1. accepted' = accepted /\ log' = log /\ accepted - Len(buffer) >= accepted - Len(buffer)
    BY <1>0
  <2> QED BY <2>1, <1>0, BufferNewest, FlushKeepsOrder
<1>2. TypeOK'
  BY <1>0, <1>1 DEF IInv, TypeOK, Threads
<1>3. EveryEventAccounted'
  BY <1>0, <1>1 DEF EveryEventAccounted
<1>4. BufferBounded'
  BY <1>1 DEF IInv, BufferBounded, TransportAssumption
<1>5. MarkInv'
  <2>1. ASSUME Closed', NEW i \in 1..Len(buffer) PROVE buffer[i] > mark
    <3>1. 1 <= i /\ i <= Len(buffer)
      BY <1>0
    <3>2. buffer # << >>
      BY <3>1, <1>0, EmptySeq
    <3>3. mark <= accepted - Len(buffer)
      BY <3>2, <2>1 DEF IInv, MarkInv
    <3>4. buffer[i] = accepted - Len(buffer) + i
      BY DEF IInv, OrderInv, BufferIsNewest
    <3> QED BY <3>1, <3>3, <3>4, <1>0
  <2> QED BY <2>1, <1>0, <1>1 DEF MarkInv
<1> QED BY <1>1, <1>2, <1>3, <1>4, <1>5 DEF IInv

LEMMA NextIInv == TransportAssumption /\ IInv /\ [Next]_vars => IInv'
<1> SUFFICES ASSUME TransportAssumption, IInv, [Next]_vars PROVE IInv'
  OBVIOUS
<1>0. /\ running \in BOOLEAN /\ flusher \in {"check", "sleep", "exited"}
      /\ closer \in {"open", "flushed", "joining", "closed"}
      /\ accepted \in Nat /\ mark \in Nat /\ Len(buffer) \in Nat
  BY Facts DEF IInv, TypeOK
<1>1. CASE Send
  BY <1>1, SendIInv
<1>2. CASE Execute
  BY <1>2, ExecuteIInv
<1>3. CASE CheckRunning
  <2>1. TypeOK'
    BY <1>3, <1>0 DEF CheckRunning, memory, stream, IInv, TypeOK
  <2>2. LockInv' /\ OrderInv' /\ EveryEventAccounted' /\ BufferBounded'
    BY <1>3 DEF CheckRunning, memory, stream, IInv, LockInv, OrderInv, BufferIsNewest,
                OlderThanBuffer, Increasing, Before, EveryEventAccounted, BufferBounded
  <2>3. MarkInv'
    BY <1>3 DEF CheckRunning, memory, stream, IInv, MarkInv, Closed
  <2> QED BY <2>1, <2>2, <2>3 DEF IInv
<1>4. CASE TimedFlush
  <2>1. Closed' => Closed
    BY <1>4 DEF TimedFlush, Closed, FlushLocked
  <2> QED BY <1>4, <1>0, <2>1, FlushIInv DEF TimedFlush, stream, Threads
<1>5. CASE ShutdownFlush
  <2>1. ~Closed'
    BY <1>5 DEF ShutdownFlush, Closed
  <2> QED BY <1>5, <1>0, <2>1, FlushIInv DEF ShutdownFlush, stream, Threads
<1>6. CASE StopFlusher
  <2>1. TypeOK'
    BY <1>6, <1>0 DEF StopFlusher, memory, stream, IInv, TypeOK
  <2>2. LockInv' /\ OrderInv' /\ EveryEventAccounted' /\ BufferBounded'
    BY <1>6 DEF StopFlusher, memory, stream, IInv, LockInv, OrderInv, BufferIsNewest,
                OlderThanBuffer, Increasing, Before, EveryEventAccounted, BufferBounded
  <2>3. ~Closed' /\ mark' <= accepted'
    BY <1>6, <1>0 DEF StopFlusher, Closed
  <2>4. MarkInv'
    BY <2>3 DEF MarkInv
  <2> QED BY <2>1, <2>2, <2>4 DEF IInv
<1>7. CASE CloseFlush
  <2>1. Closed' => buffer = << >>
    BY <1>7 DEF CloseFlush, Closed, FlushLocked
  <2> QED BY <1>7, <1>0, <2>1, FlushIInv DEF CloseFlush, stream, Threads
<1>8. CASE UNCHANGED vars
  <2>1. TypeOK'
    BY <1>8 DEF vars, memory, stream, IInv, TypeOK
  <2>2. LockInv' /\ OrderInv' /\ EveryEventAccounted' /\ BufferBounded'
    BY <1>8 DEF vars, memory, stream, IInv, LockInv, OrderInv, BufferIsNewest,
                OlderThanBuffer, Increasing, Before, EveryEventAccounted, BufferBounded
  <2>3. MarkInv'
    BY <1>8 DEF vars, memory, stream, IInv, MarkInv, Closed
  <2> QED BY <2>1, <2>2, <2>3 DEF IInv
<1> QED BY <1>1, <1>2, <1>3, <1>4, <1>5, <1>6, <1>7, <1>8 DEF Next

\* The inductive invariant holds throughout.
THEOREM Invariance == Spec => []IInv
<1>1. Init => IInv
  BY InitIInv, TransportAssumption
<1>2. IInv /\ [Next]_vars => IInv'
  BY NextIInv, TransportAssumption
<1> QED BY <1>1, <1>2, PTL DEF Spec

\* Every variable keeps its type.
THEOREM TypeCorrect == Spec => []TypeOK
<1>1. IInv => TypeOK
  BY DEF IInv
<1> QED BY <1>1, Invariance, PTL

\* No event that send() took is unaccounted for, whatever the threads do: it is
\* in the stream, in a batch, in the buffer, in a failed write or in _drop_count.
THEOREM NoEventUnaccounted == Spec => []EveryEventAccounted
<1>1. IInv => EveryEventAccounted
  BY DEF IInv
<1> QED BY <1>1, Invariance, PTL

\* The buffer respects both of its limits, and the overflow branch of send()
\* is dead code whenever a batch fits the buffer.
THEOREM BufferStaysBounded == Spec => []BufferBounded
<1>1. IInv => BufferBounded
  BY DEF IInv
<1> QED BY <1>1, Invariance, PTL

\* Overflow takes the oldest events only: the buffer is the newest ones, gapless.
THEOREM BufferStaysNewest == Spec => []BufferIsNewest
<1>1. IInv => BufferIsNewest
  BY DEF IInv, OrderInv
<1> QED BY <1>1, Invariance, PTL

\* The stream, the batch under way and the buffer are in the order of send().
THEOREM StreamStaysOrdered == Spec => []StreamInSendOrder
<1>1. IInv => StreamInSendOrder
  <2> SUFFICES ASSUME IInv PROVE StreamInSendOrder
    OBVIOUS
  <2>1. /\ Len(buffer) \in Nat /\ accepted \in Nat /\ Len(buffer) <= accepted
        /\ \A i \in 1..Len(buffer) : buffer[i] = accepted - Len(buffer) + i
    BY Facts DEF IInv, OrderInv, BufferIsNewest
  <2>2. Increasing(buffer)
    BY <2>1 DEF Increasing
  <2>3. ASSUME NEW s \in Seq(Nat), OlderThanBuffer(s) PROVE Before(s, buffer)
    <3> SUFFICES ASSUME NEW i \in 1..Len(s), NEW j \in 1..Len(buffer)
                 PROVE  s[i] < buffer[j]
      BY DEF Before
    <3>1. s[i] \in Nat /\ s[i] <= accepted - Len(buffer)
      BY <2>3, ElementOfSeq DEF OlderThanBuffer
    <3> QED BY <3>1, <2>1
  <2>4. Before(log, buffer) /\ Before(batch, buffer)
    BY <2>3 DEF IInv, TypeOK, OrderInv
  <2> QED BY <2>2, <2>4 DEF IInv, OrderInv, StreamInSendOrder
<1> QED BY <1>1, Invariance, PTL

\* close() leaves nothing behind of what had been accepted when it began.
THEOREM CloseLeavesNothing == Spec => []CloseDrains
<1>1. IInv => CloseDrains
  <2> SUFFICES ASSUME IInv, Closed PROVE /\ \A i \in 1..Len(buffer) : buffer[i] > mark
                                         /\ \A i \in 1..Len(batch) : batch[i] > mark
    BY DEF CloseDrains, Closed
  <2>1. ASSUME NEW i \in 1..Len(buffer) PROVE buffer[i] > mark
    <3>1. /\ buffer[i] = accepted - Len(buffer) + i /\ mark <= accepted - Len(buffer)
          /\ accepted \in Nat /\ Len(buffer) \in Nat /\ mark \in Nat
      BY Facts DEF IInv, OrderInv, BufferIsNewest, MarkInv
    <3> QED BY <3>1
  <2> QED BY <2>1 DEF IInv, MarkInv
<1> QED BY <1>1, Invariance, PTL

-----------------------------------------------------------------------------
\* A sequence of numbers is a sequence over any set that holds its elements.
LEMMA SeqOver ==
  ASSUME NEW s \in Seq(Nat), NEW S, \A i \in 1..Len(s) : s[i] \in S
  PROVE  s \in Seq(S)
<1>1. s \in [1..Len(s) -> S] /\ Len(s) \in Nat
  BY LenProperties
<1> QED BY <1>1, SeqDef

\* One network call is one delivery of the abstract channel.
LEMMA ExecuteDelivers ==
  ASSUME TransportAssumption, IInv, IInv', Execute PROVE Channel!Deliver
<1>0. log \in Seq(Nat) /\ log' \in Seq(Nat) /\ accepted' = accepted /\ accepted \in Nat
      /\ Len(buffer') \in Nat
  BY Facts, LenProperties DEF IInv, TypeOK, Execute
<1>1. \A i \in 1..Len(log') : log'[i] \in 1..accepted
  <2> SUFFICES ASSUME NEW i \in 1..Len(log') PROVE log'[i] \in 1..accepted
    OBVIOUS
  <2>1. 1 <= log'[i] /\ log'[i] <= accepted' - Len(buffer') /\ log'[i] \in Nat
    BY <1>0, ElementOfSeq DEF IInv, OrderInv, OlderThanBuffer
  <2> QED BY <2>1, <1>0
<1>2. log' \in Seq(1..accepted)
  BY <1>0, <1>1, SeqOver
<1>3. PICK k \in Written : log' = log \o SubSeq(batch, 1, k)
  BY DEF Execute
<1>4. k \in 0..Len(batch) /\ batch \in Seq(Nat) /\ Len(batch) \in Nat /\ Len(log) \in Nat
  BY <1>3, Facts DEF Written, IInv, TypeOK
<1>5. SubSeq(batch, 1, k) \in Seq(Nat) /\ Len(SubSeq(batch, 1, k)) \in Nat
  <2>1. \A i \in 1..k : batch[i] \in Nat
    BY <1>4, ElementOfSeq
  <2> QED BY <2>1, <1>4, SubSeqProperties, LenProperties
<1>6. Len(log) <= Len(log') /\ \A i \in 1..Len(log) : log'[i] = log[i]
  <2>1. /\ Len(log') = Len(log) + Len(SubSeq(batch, 1, k))
        /\ \A i \in 1..Len(log) + Len(SubSeq(batch, 1, k)) :
             log'[i] = IF i <= Len(log) THEN log[i]
                       ELSE SubSeq(batch, 1, k)[i - Len(log)]
    BY <1>0, <1>3, <1>5, ConcatProperties
  <2> QED BY <2>1, <1>4, <1>5
<1>7. Channel!Increasing(log')
  BY DEF IInv, OrderInv, Increasing, Channel!Increasing
<1> QED BY <1>0, <1>2, <1>6, <1>7 DEF Channel!Deliver

\* RedisTransport is a lossy FIFO channel: it loses, but never duplicates,
\* reorders or invents events.
THEOREM ImplementsChannel == Spec => ChannelSpec
<1>1. Init => Channel!Init
  BY DEF Init, Channel!Init
<1>2. IInv /\ IInv' /\ [Next]_vars
        => [Channel!Accept \/ Channel!Deliver]_<<accepted, log>>
  <2> SUFFICES ASSUME IInv, IInv', [Next]_vars
               PROVE  [Channel!Accept \/ Channel!Deliver]_<<accepted, log>>
    OBVIOUS
  <2>1. CASE Send
    BY <2>1 DEF Send, stream, Channel!Accept
  <2>2. CASE Execute
    BY <2>2, ExecuteDelivers, TransportAssumption
  <2>3. CASE \/ CheckRunning \/ TimedFlush \/ ShutdownFlush \/ StopFlusher
             \/ CloseFlush \/ UNCHANGED vars
    BY <2>3 DEF CheckRunning, TimedFlush, ShutdownFlush, StopFlusher, CloseFlush, vars, stream
  <2> QED BY <2>1, <2>2, <2>3 DEF Next
<1> QED BY <1>1, <1>2, Invariance, PTL DEF Spec, ChannelSpec, Channel!Spec
=============================================================================
