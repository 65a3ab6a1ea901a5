----------------------- MODULE CollectorPipelineProofs -----------------------
(***************************************************************************)
(* Safety of the collector for every batch size, stream length, number of  *)
(* entries and number of faults.                                           *)
(***************************************************************************)
EXTENDS CollectorPipeline, FiniteSetTheorems, SequenceTheorems, TLAPS

\* An entry is in one place of the collector only.
Disjoint == /\ Inbox \cap buffer = {} /\ Inbox \cap batch = {} /\ Inbox \cap stopBatch = {}
            /\ buffer \cap batch = {} /\ buffer \cap stopBatch = {}
            /\ batch \cap stopBatch = {}

\* What the collector holds has been handed out, and neither that nor what is
\* still to be handed out has been indexed.
HeldIsHandedOut == InHand \subseteq 1..HighWater
Unindexed == \A i \in Ids : (i \in InHand \/ i > HighWater) => indexed[i] = 0
NewGroupReadsAll == ~group => cursor = 0

Fresh == Disjoint /\ HeldIsHandedOut /\ Unindexed /\ AtMostOnce /\ NewGroupReadsAll

IInv == TypeOK /\ Fresh

-----------------------------------------------------------------------------
LEMMA LengthType == ASSUME TypeOK PROVE Len(log) \in Nat /\ Len(log) <= MaxMsgs
BY LenProperties DEF TypeOK

\* Every action keeps the types.
LEMMA InitTypeOK == PipelineAssumption /\ Init => TypeOK
<1> SUFFICES ASSUME PipelineAssumption, Init PROVE TypeOK
  OBVIOUS
<1>1. log \in Seq(Kinds) /\ Len(log) = 0
  BY EmptySeq DEF Init
<1>2. MaxMsgs \in Nat /\ MaxFaults \in Nat
  BY DEF PipelineAssumption
<1>3. indexed \in [Ids -> Nat]
  BY DEF Init
<1>4. /\ trimmed \in 0..Len(log) /\ cursor \in 0..Len(log) /\ Len(log) <= MaxMsgs
      /\ next \in 1..MaxMsgs + 1 /\ last \in 0..MaxMsgs /\ current \in 0..MaxMsgs
      /\ faults \in 0..MaxFaults
  BY <1>1, <1>2 DEF Init
<1> QED BY <1>1, <1>3, <1>4 DEF Init, TypeOK

LEMMA StreamTypeOK ==
  ASSUME PipelineAssumption, TypeOK,
         (\E kind \in Kinds : Publish(kind)) \/ EvictKey \/ Start \/ GroupCreated
  PROVE  TypeOK'
<1>0. Len(log) \in Nat /\ MaxMsgs \in Nat /\ MaxFaults \in Nat /\ StreamMaxLen \in Nat
  BY LengthType DEF PipelineAssumption
<1>1. ASSUME NEW kind \in Kinds, Publish(kind) PROVE TypeOK'
  <2>1. log' \in Seq(Kinds) /\ Len(log') = Len(log) + 1 /\ Len(log') <= MaxMsgs
    BY <1>0, <1>1, AppendProperties DEF Publish, TypeOK
  <2>2. trimmed' \in 0..Len(log') /\ cursor \in 0..Len(log')
    BY <1>0, <1>1, <2>1 DEF Publish, TypeOK, TrimChoices, Larger
  <2> QED BY <1>1, <2>1, <2>2 DEF Publish, TypeOK, redis, reply, stopping
<1>2. CASE EvictKey
  <2>1. /\ trimmed' \in 0..Len(log') /\ cursor' \in 0..Len(log') /\ pending' = {}
        /\ log' = log
    BY <1>0, <1>2 DEF EvictKey
  <2>2. faults' \in 0..MaxFaults
    BY <1>0, <1>2 DEF EvictKey, TypeOK
  <2> QED BY <1>2, <2>1, <2>2 DEF EvictKey, TypeOK, reply, stopping
<1>3. CASE Start
  BY <1>3 DEF Start, TypeOK, stream, redis, reply, stopping
<1>4. CASE GroupCreated
  BY <1>0, <1>4 DEF GroupCreated, TypeOK, stream, reply
<1> QED BY <1>1, <1>2, <1>3, <1>4

\* The entries of a reply are new to the group and exist.
LEMMA HandOutFacts ==
  ASSUME PipelineAssumption, TypeOK, HandOut
  PROVE  /\ cursor' \in 1..Len(log) /\ HighWater < cursor'
         /\ NextEntry(trimmed, cursor) = HighWater + 1
         /\ HighWater \in 0..Len(log)
         /\ HighWater' = cursor'
         /\ pending' = pending \cup (HighWater + 1 .. cursor')
         /\ pending' \subseteq Ids
         /\ log' = log /\ trimmed' = trimmed /\ group' = group /\ group = TRUE
<1>1. /\ Len(log) \in Nat /\ Len(log) <= MaxMsgs /\ MaxMsgs \in Nat /\ BatchSize \in Nat
      /\ trimmed \in 0..Len(log) /\ cursor \in 0..Len(log) /\ pending \subseteq Ids
  BY LengthType DEF PipelineAssumption, TypeOK
<1>2. /\ log' = log /\ trimmed' = trimmed /\ group' = group /\ group = TRUE
      /\ cursor' = LastEntry(Len(log), trimmed, cursor, BatchSize)
      /\ pending' = pending \cup (NextEntry(trimmed, cursor) .. cursor')
      /\ LastEntry(Len(log), trimmed, cursor, BatchSize) >= NextEntry(trimmed, cursor)
  BY DEF HandOut, stream, Available, TypeOK
<1>3. NextEntry(trimmed, cursor) = HighWater + 1
  BY <1>1 DEF NextEntry, HighWater, Larger
<1>4. HighWater \in 0..Len(log) /\ trimmed <= HighWater
  BY <1>1 DEF HighWater, Larger
<1>5. cursor' \in 1..Len(log) /\ HighWater < cursor'
  BY <1>1, <1>2, <1>3, <1>4 DEF LastEntry, Smaller, Larger, HighWater
<1>6. HighWater' = cursor'
  BY <1>1, <1>2, <1>4, <1>5 DEF HighWater, Larger
<1>7. pending' = pending \cup (HighWater + 1 .. cursor') /\ pending' \subseteq Ids
  <2>1. pending' = pending \cup (HighWater + 1 .. cursor')
    BY <1>2, <1>3
  <2>2. HighWater + 1 .. cursor' \subseteq 1..MaxMsgs
    BY <1>1, <1>4, <1>5
  <2> QED BY <1>1, <2>1, <2>2 DEF Ids
<1> QED BY <1>2, <1>3, <1>4, <1>5, <1>6, <1>7

LEMMA ReadTypeOK ==
  ASSUME PipelineAssumption, TypeOK, Poll \/ ReadReply \/ ReadNothing \/ ReadFails
  PROVE  TypeOK'
<1>0. Len(log) \in Nat /\ Len(log) <= MaxMsgs /\ MaxMsgs \in Nat /\ MaxFaults \in Nat
  BY LengthType DEF PipelineAssumption
<1>1. CASE Poll
  BY <1>1 DEF Poll, TypeOK, stream, redis, reply, stopping
<1>2. CASE ReadReply
  <2>1. /\ cursor' \in 0..Len(log) /\ pending' \subseteq Ids
        /\ next' \in 1..MaxMsgs + 1 /\ last' \in 0..MaxMsgs
        /\ log' = log /\ trimmed' = trimmed /\ group' = group
    BY <1>0, <1>2, HandOutFacts DEF ReadReply
  <2> QED BY <1>2, <2>1 DEF ReadReply, TypeOK, stopping
<1>3. CASE ReadNothing
  BY <1>3 DEF ReadNothing, TypeOK, stream, redis, reply, stopping
<1>4. CASE ReadFails
  <2>1. faults' \in 0..MaxFaults
    BY <1>0, <1>4 DEF ReadFails, TypeOK
  <2>2. CASE HandOut
    <3>1. /\ cursor' \in 0..Len(log) /\ pending' \subseteq Ids
          /\ log' = log /\ trimmed' = trimmed /\ group' = group
      BY <1>0, <2>2, HandOutFacts
    <3> QED BY <1>4, <2>1, <3>1 DEF ReadFails, ReadBreaks, TypeOK, reply, stopping
  <2>3. CASE UNCHANGED <<stream, redis>>
    BY <1>4, <2>1, <2>3 DEF ReadFails, ReadBreaks, TypeOK, stream, redis, reply, stopping
  <2> QED BY <1>4, <2>2, <2>3 DEF ReadFails, ReadBreaks
<1> QED BY <1>1, <1>2, <1>3, <1>4

LEMMA HandleTypeOK ==
  ASSUME PipelineAssumption, TypeOK,
         ReplyDone \/ SkipEmpty \/ RejectNotJson \/ EnrichFails \/ Accept
  PROVE  TypeOK'
<1>0. MaxMsgs \in Nat /\ next \in 1..MaxMsgs + 1 /\ last \in 0..MaxMsgs
  BY DEF PipelineAssumption, TypeOK
<1>1. CASE ReplyDone
  BY <1>1 DEF ReplyDone, TypeOK, stream, redis, reply, stopping
<1>2. CASE SkipEmpty
  BY <1>0, <1>2 DEF SkipEmpty, Handling, TypeOK, stream, redis, stopping
<1>3. CASE RejectNotJson
  BY <1>0, <1>3 DEF RejectNotJson, Handling, TypeOK, stream, redis, stopping
<1>4. CASE EnrichFails
  BY <1>0, <1>4 DEF EnrichFails, Handling, TypeOK, stream, redis, stopping
<1>5. CASE Accept
  <2>1. next \in Ids /\ next' \in 1..MaxMsgs + 1 /\ current' \in 0..MaxMsgs
    BY <1>0, <1>5 DEF Accept, Handling, Ids
  <2>2. /\ buffer' \subseteq Ids /\ batch' \subseteq Ids
        /\ pc' \in {"logs", "metrics", "ack"}
    BY <1>5, <2>1 DEF Accept, TypeOK, FirstPost
  <2> QED BY <1>5, <2>1, <2>2 DEF Accept, TypeOK, stream, redis, stopping
<1> QED BY <1>1, <1>2, <1>3, <1>4, <1>5

\* What a bulk request does to the index.
LEMMA PostFacts ==
  ASSUME TypeOK, NEW entries, Post(entries)
  PROVE  \E done \in SUBSET entries :
           /\ indexed' = [i \in Ids |-> indexed[i] + IF i \in done THEN 1 ELSE 0]
           /\ indexed' \in [Ids -> Nat]
<1>1. PICK done \in SUBSET entries :
        indexed' = [i \in Ids |-> indexed[i] + IF i \in done THEN 1 ELSE 0]
  BY DEF Post
<1>2. \A i \in Ids : indexed[i] \in Nat
  BY DEF TypeOK
<1> QED BY <1>1, <1>2

LEMMA RouteTypeOK ==
  ASSUME PipelineAssumption, TypeOK,
         \/ RouteLogs \/ RouteMetrics \/ Ack \/ AckFails \/ BackoffEnds
         \/ StopRouteLogs \/ StopRouteMetrics \/ CloseRedis
  PROVE  TypeOK'
<1>0. MaxMsgs \in Nat /\ MaxFaults \in Nat /\ last \in 0..MaxMsgs /\ faults \in 0..MaxFaults
  BY DEF PipelineAssumption, TypeOK
<1>1. CASE RouteLogs
  <2>1. indexed' \in [Ids -> Nat]
    BY <1>1, PostFacts DEF RouteLogs
  <2> QED BY <1>1, <2>1 DEF RouteLogs, TypeOK, Metrics, stream, redis, reply, stopping
<1>2. CASE RouteMetrics
  <2>1. indexed' \in [Ids -> Nat]
    BY <1>2, PostFacts DEF RouteMetrics
  <2> QED BY <1>2, <2>1 DEF RouteMetrics, TypeOK, stream, redis, reply, stopping
<1>3. CASE Ack
  BY <1>0, <1>3 DEF Ack, XAck, TypeOK, stream, reply, stopping
<1>4. CASE AckFails
  BY <1>0, <1>4 DEF AckFails, AckBreaks, XAck, TypeOK, stream, stopping
<1>5. CASE BackoffEnds
  BY <1>5 DEF BackoffEnds, TypeOK, stream, redis, reply, stopping
<1>6. CASE StopRouteLogs
  <2>1. indexed' \in [Ids -> Nat]
    BY <1>6, PostFacts DEF StopRouteLogs
  <2> QED BY <1>6, <2>1 DEF StopRouteLogs, TypeOK, Metrics, stream, redis, reply
<1>7. CASE StopRouteMetrics
  <2>1. indexed' \in [Ids -> Nat]
    BY <1>7, PostFacts DEF StopRouteMetrics
  <2> QED BY <1>7, <2>1 DEF StopRouteMetrics, TypeOK, stream, redis, reply
<1>8. CASE CloseRedis
  <2>1. CASE ReadBreaks
    <3>1. /\ cursor' \in 0..Len(log) /\ pending' \subseteq Ids
          /\ log' = log /\ trimmed' = trimmed /\ group' \in BOOLEAN
      <4>1. CASE HandOut
        <5>1. Len(log) \in Nat /\ cursor' \in 0..Len(log)
          BY <4>1, HandOutFacts, LengthType
        <5> QED BY <4>1, <5>1, HandOutFacts DEF TypeOK
      <4>2. CASE UNCHANGED <<stream, redis>>
        BY <4>2 DEF TypeOK, stream, redis
      <4> QED BY <2>1, <4>1, <4>2 DEF ReadBreaks
    <3> QED BY <1>8, <2>1, <3>1 DEF CloseRedis, ReadBreaks, TypeOK, reply
  <2>2. CASE AckBreaks
    BY <1>0, <1>8, <2>2 DEF CloseRedis, AckBreaks, XAck, TypeOK, stream
  <2>3. CASE UNCHANGED <<stream, redis, reply, pc, current>>
    BY <1>8, <2>3 DEF CloseRedis, TypeOK, stream, redis, reply
  <2> QED BY <1>8, <2>1, <2>2, <2>3 DEF CloseRedis
<1> QED BY <1>1, <1>2, <1>3, <1>4, <1>5, <1>6, <1>7, <1>8

LEMMA StopTypeOK ==
  ASSUME PipelineAssumption, TypeOK, Stop \/ Interrupt \/ Crash PROVE TypeOK'
<1>0. MaxMsgs \in Nat /\ MaxFaults \in Nat /\ last \in 0..MaxMsgs /\ faults \in 0..MaxFaults
  BY DEF PipelineAssumption, TypeOK
<1>1. CASE Stop
  BY <1>1 DEF Stop, BeginStop, FirstPost, TypeOK, stream, redis, reply
<1>2. CASE Interrupt
  <2>1. next' \in 1..MaxMsgs + 1
    BY <1>0, <1>2 DEF Interrupt
  <2> QED BY <1>2, <2>1 DEF Interrupt, BeginStop, FirstPost, TypeOK, stream, redis
<1>3. CASE Crash
  <2>1. /\ next' \in 1..MaxMsgs + 1 /\ last' \in 0..MaxMsgs /\ current' \in 0..MaxMsgs
        /\ faults' \in 0..MaxFaults
    BY <1>0, <1>3 DEF Crash
  <2> QED BY <1>3, <2>1 DEF Crash, TypeOK, stream, redis
<1> QED BY <1>1, <1>2, <1>3

LEMMA NextTypeOK == ASSUME PipelineAssumption, TypeOK, [Next]_vars PROVE TypeOK'
<1>1. CASE UNCHANGED vars
  BY <1>1 DEF vars, TypeOK, stream, redis, reply, stopping
<1> QED BY <1>1, StreamTypeOK, ReadTypeOK, HandleTypeOK, RouteTypeOK, StopTypeOK
        DEF Next, RunStep, StopStep

-----------------------------------------------------------------------------
LEMMA HighWaterType ==
  ASSUME TypeOK PROVE HighWater \in Nat /\ HighWater <= Len(log) /\ Len(log) \in Nat
                      /\ next \in Int /\ last \in Int /\ trimmed \in Nat /\ cursor \in Nat
<1>1. Len(log) \in Nat /\ trimmed \in 0..Len(log) /\ cursor \in 0..Len(log)
  BY LengthType DEF TypeOK
<1>2. next \in Int /\ last \in Int
  BY DEF TypeOK
<1> QED BY <1>1, <1>2 DEF HighWater, Larger

\* A step that indexes nothing and only lets go of entries, or moves them inside
\* the collector.
LEMMA LetGo ==
  ASSUME IInv, TypeOK', Disjoint', InHand' \subseteq InHand, HighWater <= HighWater',
         indexed' = indexed, NewGroupReadsAll'
  PROVE  Fresh'
<1>1. HighWater \in Nat /\ HighWater' \in Nat
  <2>1. Len(log') \in Nat
    BY LenProperties DEF TypeOK
  <2>2. trimmed' \in Nat /\ cursor' \in Nat
    BY <2>1 DEF TypeOK
  <2> QED BY <2>2, HighWaterType DEF IInv, HighWater, Larger
<1>2. HeldIsHandedOut'
  BY <1>1 DEF IInv, Fresh, HeldIsHandedOut
<1>3. Unindexed'
  <2> SUFFICES ASSUME NEW i \in Ids, i \in InHand \/ i > HighWater PROVE indexed[i] = 0
    BY <1>1 DEF Unindexed, Ids
  <2> QED BY DEF IInv, Fresh, Unindexed
<1>4. AtMostOnce'
  BY DEF IInv, Fresh, AtMostOnce
<1> QED BY <1>2, <1>3, <1>4 DEF Fresh

\* A bulk request for entries in hand, which are let go.
LEMMA LetGoIndexed ==
  ASSUME IInv, NEW done, done \subseteq InHand, Disjoint', InHand' \subseteq InHand \ done,
         indexed' = [i \in Ids |-> indexed[i] + IF i \in done THEN 1 ELSE 0],
         UNCHANGED <<stream, redis>>
  PROVE  Fresh'
<1>1. HighWater \in Nat /\ HighWater' = HighWater /\ indexed \in [Ids -> Nat]
  BY HighWaterType DEF IInv, TypeOK, stream, redis, HighWater
<1>2. HeldIsHandedOut' /\ NewGroupReadsAll'
  BY <1>1 DEF IInv, Fresh, HeldIsHandedOut, NewGroupReadsAll, redis
<1>3. ASSUME NEW i \in Ids
      PROVE  /\ i \in done => indexed[i] = 0 /\ indexed'[i] = 1 /\ ~(i > HighWater)
             /\ i \notin done => indexed'[i] = indexed[i]
             /\ indexed[i] \in Nat
  <2>1. i \in done => indexed[i] = 0 /\ ~(i > HighWater)
    BY <1>1 DEF IInv, Fresh, Unindexed, HeldIsHandedOut
  <2>2. indexed'[i] = indexed[i] + IF i \in done THEN 1 ELSE 0
    OBVIOUS
  <2> QED BY <1>1, <2>1, <2>2
<1>4. Unindexed'
  <2> SUFFICES ASSUME NEW i \in Ids, i \in InHand' \/ i > HighWater PROVE indexed'[i] = 0
    BY <1>1 DEF Unindexed
  <2>1. i \notin done /\ (i \in InHand \/ i > HighWater)
    BY <1>3
  <2> QED BY <2>1, <1>3 DEF IInv, Fresh, Unindexed
<1>5. AtMostOnce'
  BY <1>3 DEF IInv, Fresh, AtMostOnce
<1> QED BY <1>2, <1>4, <1>5 DEF Fresh

LEMMA InitFresh == PipelineAssumption /\ Init => Fresh
<1> SUFFICES ASSUME PipelineAssumption, Init PROVE Fresh
  OBVIOUS
<1>1. InHand = {} /\ Inbox = {}
  BY DEF Init, InHand, Inbox
<1>2. \A i \in Ids : indexed[i] = 0
  BY DEF Init
<1> QED BY <1>1, <1>2 DEF Init, Fresh, Disjoint, HeldIsHandedOut, Unindexed, AtMostOnce,
                          NewGroupReadsAll

\* Steps that leave every place of the collector as it is.
LEMMA StillSteps ==
  ASSUME PipelineAssumption, IInv,
         \/ \E kind \in Kinds : Publish(kind)
         \/ EvictKey \/ Start \/ GroupCreated \/ Poll \/ ReadNothing
         \/ ReadFails \/ ReplyDone \/ Ack \/ BackoffEnds
  PROVE  /\ Disjoint' /\ InHand' = InHand /\ indexed' = indexed
         /\ HighWater <= HighWater' /\ NewGroupReadsAll'
<1>0. /\ HighWater \in Nat /\ HighWater <= Len(log) /\ Len(log) \in Nat
      /\ trimmed \in Nat /\ cursor \in Nat /\ NewGroupReadsAll
      /\ StreamMaxLen \in Nat /\ trimmed <= HighWater
  <2>1. HighWater \in Nat /\ HighWater <= Len(log) /\ Len(log) \in Nat
        /\ trimmed \in Nat /\ cursor \in Nat
    BY HighWaterType DEF IInv
  <2> QED BY <2>1 DEF IInv, Fresh, PipelineAssumption, HighWater, Larger
<1>1. UNCHANGED <<reply, buffer, batch, stopBatch, indexed>>
  BY DEF Publish, EvictKey, Start, GroupCreated, Poll, ReadNothing, ReadFails, ReadBreaks,
         ReplyDone, Ack, BackoffEnds, stopping
<1>2. Disjoint' /\ InHand' = InHand
  BY <1>1 DEF IInv, Fresh, Disjoint, InHand, Inbox, reply
<1>3. HighWater <= HighWater' /\ NewGroupReadsAll'
  <2>1. ASSUME NEW kind \in Kinds, Publish(kind) PROVE trimmed <= trimmed' /\ trimmed' \in Nat
    BY <1>0, <2>1 DEF Publish, TrimChoices, Larger
  <2>2. ASSUME NEW kind \in Kinds, Publish(kind) PROVE HighWater <= HighWater' /\ NewGroupReadsAll'
    <3>1. cursor' = cursor /\ group' = group /\ trimmed <= trimmed' /\ trimmed' \in Nat
      BY <2>1, <2>2 DEF Publish, redis
    <3> QED BY <1>0, <3>1 DEF HighWater, Larger, NewGroupReadsAll
  <2>3. CASE EvictKey
    BY <1>0, <2>3 DEF EvictKey, HighWater, Larger, NewGroupReadsAll
  <2>4. CASE GroupCreated
    BY <1>0, <2>4 DEF GroupCreated, stream, HighWater, Larger, NewGroupReadsAll
  <2>5. CASE ReadFails
    <3>1. CASE HandOut
      BY <1>0, <3>1, HandOutFacts DEF IInv, NewGroupReadsAll
    <3>2. CASE UNCHANGED <<stream, redis>>
      BY <1>0, <3>2 DEF stream, redis, HighWater, NewGroupReadsAll
    <3> QED BY <2>5, <3>1, <3>2 DEF ReadFails, ReadBreaks
  <2>6. CASE Start \/ Poll \/ ReadNothing \/ ReplyDone \/ Ack \/ BackoffEnds
    BY <1>0, <2>6 DEF Start, Poll, ReadNothing, ReplyDone, Ack, BackoffEnds, stream, redis,
                      HighWater, NewGroupReadsAll
  <2> QED BY <2>2, <2>3, <2>4, <2>5, <2>6
<1> QED BY <1>1, <1>2, <1>3

\* A reply brings entries that were not handed out before.
LEMMA ReadReplyFresh ==
  ASSUME PipelineAssumption, IInv, ReadReply
  PROVE  /\ Fresh' /\ HighWater <= HighWater' /\ indexed' = indexed
         /\ InHand' \subseteq InHand \cup (HighWater + 1 .. HighWater')
<1>0. /\ HighWater \in Nat /\ cursor' \in Nat /\ HighWater < cursor'
      /\ HighWater' = cursor' /\ next' = HighWater + 1 /\ last' = cursor'
      /\ group' = TRUE
  BY HighWaterType, HandOutFacts DEF IInv, ReadReply
<1>1. buffer' = buffer /\ batch' = batch /\ stopBatch' = stopBatch /\ indexed' = indexed
  BY DEF ReadReply, stopping
<1>2. \A i \in Inbox' : i > HighWater /\ i <= cursor'
  BY <1>0 DEF Inbox
<1>3. \A i \in InHand : i <= HighWater /\ i \in 1..HighWater
  BY <1>0 DEF IInv, Fresh, HeldIsHandedOut
<1>4. Disjoint'
  <2>1. Inbox' \cap InHand = {}
    BY <1>0, <1>2, <1>3 DEF Inbox
  <2> QED BY <2>1, <1>1 DEF IInv, Fresh, Disjoint, InHand
<1>5. HeldIsHandedOut'
  <2>1. InHand' \subseteq Inbox' \cup InHand
    BY <1>1 DEF InHand
  <2>2. Inbox' \subseteq 1..cursor'
    BY <1>0 DEF Inbox
  <2>3. InHand \subseteq 1..cursor'
    BY <1>0, <1>3
  <2> QED BY <2>1, <2>2, <2>3, <1>0 DEF HeldIsHandedOut
<1>6. Unindexed'
  <2> SUFFICES ASSUME NEW i \in Ids, i \in InHand' \/ i > cursor' PROVE indexed[i] = 0
    BY <1>0, <1>1 DEF Unindexed
  <2>1. i \in InHand \/ i > HighWater
    BY <1>0, <1>1, <1>2 DEF InHand, Ids
  <2> QED BY <2>1 DEF IInv, Fresh, Unindexed
<1>7. InHand' \subseteq InHand \cup (HighWater + 1 .. HighWater')
  BY <1>0, <1>1 DEF InHand, Inbox
<1>8. Fresh'
  BY <1>0, <1>1, <1>4, <1>5, <1>6 DEF IInv, Fresh, AtMostOnce, NewGroupReadsAll
<1> QED BY <1>0, <1>1, <1>7, <1>8

\* Handling an entry, and dropping entries.
LEMMA HandleSteps ==
  ASSUME PipelineAssumption, IInv,
         SkipEmpty \/ RejectNotJson \/ EnrichFails \/ Accept \/ AckFails
  PROVE  /\ Disjoint' /\ InHand' \subseteq InHand /\ indexed' = indexed
         /\ HighWater <= HighWater' /\ NewGroupReadsAll'
<1>0. HighWater \in Nat /\ next \in Int /\ last \in Int
  BY HighWaterType DEF IInv
<1>1. /\ HighWater' = HighWater /\ NewGroupReadsAll' /\ indexed' = indexed
      /\ stopBatch' = stopBatch
  BY DEF IInv, Fresh, NewGroupReadsAll, HighWater, SkipEmpty, RejectNotJson, EnrichFails,
         Accept, AckFails, AckBreaks, stream, redis, stopping
<1>2. CASE SkipEmpty \/ RejectNotJson \/ EnrichFails \/ AckFails
  <2>1. Inbox' \subseteq Inbox
    BY <1>0, <1>2 DEF SkipEmpty, RejectNotJson, EnrichFails, AckFails, AckBreaks, Handling, Inbox
  <2>2. buffer' = buffer /\ batch' = batch
    BY <1>2 DEF SkipEmpty, RejectNotJson, EnrichFails, AckFails
  <2>3. Disjoint' /\ InHand' \subseteq InHand
    BY <2>1, <2>2, <1>1 DEF IInv, Fresh, Disjoint, InHand
  <2> QED BY <2>3, <1>0, <1>1
<1>3. CASE Accept
  <2>1. next \in Inbox /\ Inbox' = Inbox \ {next}
    BY <1>0, <1>3 DEF Accept, Handling, Inbox
  <2>2. \/ batch' = buffer \cup {next} /\ buffer' = {}
        \/ buffer' = buffer \cup {next} /\ batch' = batch
    BY <1>3 DEF Accept
  <2>3. Disjoint' /\ InHand' \subseteq InHand
    BY <2>1, <2>2, <1>1 DEF IInv, Fresh, Disjoint, InHand
  <2> QED BY <2>3, <1>0, <1>1
<1> QED BY <1>2, <1>3

LEMMA RouteSteps ==
  ASSUME PipelineAssumption, IInv,
         RouteLogs \/ RouteMetrics \/ StopRouteLogs \/ StopRouteMetrics
  PROVE  /\ Disjoint' /\ UNCHANGED <<stream, redis>>
         /\ \E done \in SUBSET InHand :
              /\ indexed' = [i \in Ids |-> indexed[i] + IF i \in done THEN 1 ELSE 0]
              /\ InHand' \subseteq InHand \ done
<1>0. Logs(batch) \cap Metrics(batch) = {} /\ Logs(stopBatch) \cap Metrics(stopBatch) = {}
  BY DEF Logs, Metrics
<1>1. CASE RouteLogs
  <2>1. PICK done \in SUBSET Logs(batch) :
          indexed' = [i \in Ids |-> indexed[i] + IF i \in done THEN 1 ELSE 0]
    BY <1>1, PostFacts DEF RouteLogs, IInv
  <2>2. /\ Inbox' = Inbox /\ buffer' = buffer /\ batch' = Metrics(batch)
        /\ stopBatch' = stopBatch
    BY <1>1 DEF RouteLogs, Inbox, reply, stopping
  <2>3. done \subseteq InHand /\ Disjoint' /\ InHand' \subseteq InHand \ done
    BY <1>0, <2>1, <2>2 DEF IInv, Fresh, Disjoint, InHand, Logs, Metrics
  <2> QED BY <1>1, <2>1, <2>3 DEF RouteLogs
<1>2. CASE RouteMetrics
  <2>1. PICK done \in SUBSET batch :
          indexed' = [i \in Ids |-> indexed[i] + IF i \in done THEN 1 ELSE 0]
    BY <1>2, PostFacts DEF RouteMetrics, IInv
  <2>2. /\ Inbox' = Inbox /\ buffer' = buffer /\ batch' = {} /\ stopBatch' = stopBatch
    BY <1>2 DEF RouteMetrics, Inbox, reply, stopping
  <2>3. done \subseteq InHand /\ Disjoint' /\ InHand' \subseteq InHand \ done
    BY <2>1, <2>2 DEF IInv, Fresh, Disjoint, InHand
  <2> QED BY <1>2, <2>1, <2>3 DEF RouteMetrics
<1>3. CASE StopRouteLogs
  <2>1. PICK done \in SUBSET Logs(stopBatch) :
          indexed' = [i \in Ids |-> indexed[i] + IF i \in done THEN 1 ELSE 0]
    BY <1>3, PostFacts DEF StopRouteLogs, IInv
  <2>2. /\ Inbox' = Inbox /\ buffer' = buffer /\ batch' = batch
        /\ stopBatch' = Metrics(stopBatch)
    BY <1>3 DEF StopRouteLogs, Inbox, reply
  <2>3. done \subseteq InHand /\ Disjoint' /\ InHand' \subseteq InHand \ done
    BY <1>0, <2>1, <2>2 DEF IInv, Fresh, Disjoint, InHand, Logs, Metrics
  <2> QED BY <1>3, <2>1, <2>3 DEF StopRouteLogs
<1>4. CASE StopRouteMetrics
  <2>1. PICK done \in SUBSET stopBatch :
          indexed' = [i \in Ids |-> indexed[i] + IF i \in done THEN 1 ELSE 0]
    BY <1>4, PostFacts DEF StopRouteMetrics, IInv
  <2>2. /\ Inbox' = Inbox /\ buffer' = buffer /\ batch' = batch /\ stopBatch' = {}
    BY <1>4 DEF StopRouteMetrics, Inbox, reply
  <2>3. done \subseteq InHand /\ Disjoint' /\ InHand' \subseteq InHand \ done
    BY <2>1, <2>2 DEF IInv, Fresh, Disjoint, InHand
  <2> QED BY <1>4, <2>1, <2>3 DEF StopRouteMetrics
<1> QED BY <1>1, <1>2, <1>3, <1>4

LEMMA StopSteps ==
  ASSUME PipelineAssumption, IInv, Stop \/ Interrupt \/ Crash \/ CloseRedis
  PROVE  /\ Disjoint' /\ InHand' \subseteq InHand /\ indexed' = indexed
         /\ HighWater <= HighWater' /\ NewGroupReadsAll'
<1>0. HighWater \in Nat /\ next \in Int /\ last \in Int
  BY HighWaterType DEF IInv
<1>1. ASSUME Stop \/ Interrupt \/ Crash
      PROVE  HighWater' = HighWater /\ NewGroupReadsAll' /\ indexed' = indexed
  BY <1>1 DEF IInv, Fresh, NewGroupReadsAll, HighWater, Stop, Interrupt, Crash, stream, redis
<1>2. CASE Stop \/ Interrupt
  <2>1. Inbox' \subseteq Inbox
    BY <1>0, <1>2 DEF Stop, Interrupt, Inbox, reply
  <2>2. buffer' = {} /\ stopBatch' = buffer /\ batch' = batch
    BY <1>2 DEF Stop, Interrupt, BeginStop
  <2>3. Disjoint' /\ InHand' \subseteq InHand
    BY <2>1, <2>2 DEF IInv, Fresh, Disjoint, InHand
  <2> QED BY <1>2, <2>3, <1>0, <1>1
<1>3. CASE Crash
  <2>1. Inbox' = {} /\ buffer' = {} /\ batch' = {} /\ stopBatch' = {}
    BY <1>3 DEF Crash, Inbox
  <2>2. Disjoint' /\ InHand' \subseteq InHand
    BY <2>1 DEF Disjoint, InHand
  <2> QED BY <1>3, <2>2, <1>0, <1>1
<1>4. CASE CloseRedis
  <2>1. UNCHANGED <<buffer, batch, stopBatch, indexed>>
    BY <1>4 DEF CloseRedis
  <2>2. Inbox' \subseteq Inbox
    BY <1>0, <1>4 DEF CloseRedis, ReadBreaks, AckBreaks, Inbox, reply
  <2>3. Disjoint' /\ InHand' \subseteq InHand
    BY <2>1, <2>2 DEF IInv, Fresh, Disjoint, InHand
  <2>4. HighWater <= HighWater' /\ NewGroupReadsAll'
    <3>1. CASE HandOut
      BY <1>0, <3>1, HandOutFacts DEF IInv, NewGroupReadsAll
    <3>2. CASE ~HandOut
      BY <1>0, <1>4, <3>2 DEF CloseRedis, ReadBreaks, AckBreaks, stream, redis, HighWater,
                              IInv, Fresh, NewGroupReadsAll
    <3> QED BY <3>1, <3>2
  <2> QED BY <2>1, <2>3, <2>4
<1> QED BY <1>2, <1>3, <1>4

LEMMA NextIInv == PipelineAssumption /\ IInv /\ [Next]_vars => IInv'
<1> SUFFICES ASSUME PipelineAssumption, IInv, [Next]_vars PROVE IInv'
  OBVIOUS
<1>1. TypeOK'
  BY NextTypeOK DEF IInv
<1>2. CASE UNCHANGED vars
  BY <1>1, <1>2 DEF vars, stream, redis, reply, stopping, IInv, Fresh, Disjoint, HeldIsHandedOut,
               Unindexed, AtMostOnce, NewGroupReadsAll, InHand, Inbox, HighWater
<1>3. CASE Next
  <2>1. CASE ReadReply
    BY <1>1, <2>1, ReadReplyFresh DEF IInv
  <2>2. CASE RouteLogs \/ RouteMetrics \/ StopRouteLogs \/ StopRouteMetrics
    <3>1. Fresh'
      BY <2>2, RouteSteps, LetGoIndexed
    <3> QED BY <1>1, <3>1 DEF IInv
  <2>3. CASE ~(\/ ReadReply \/ RouteLogs \/ RouteMetrics
               \/ StopRouteLogs \/ StopRouteMetrics)
    <3>1. /\ Disjoint' /\ InHand' \subseteq InHand /\ indexed' = indexed
          /\ HighWater <= HighWater' /\ NewGroupReadsAll'
      BY <1>3, <2>3, StillSteps, HandleSteps, StopSteps DEF Next, RunStep, StopStep
    <3> QED BY <1>1, <3>1, LetGo DEF IInv
  <2> QED BY <2>1, <2>2, <2>3
<1> QED BY <1>2, <1>3

\* The inductive invariant holds throughout.
THEOREM Invariance == Spec => []IInv
<1>1. Init => IInv
  BY InitTypeOK, InitFresh, PipelineAssumption DEF IInv
<1>2. IInv /\ [Next]_vars => IInv'
  BY NextIInv, PipelineAssumption
<1> QED BY <1>1, <1>2, PTL DEF Spec

\* Every variable keeps its type.
THEOREM TypeCorrect == Spec => []TypeOK
<1>1. IInv => TypeOK
  BY DEF IInv
<1> QED BY <1>1, Invariance, PTL

\* No stream entry is indexed twice, whatever crashes, fails or overlaps.
THEOREM IndexedAtMostOnce == Spec => []AtMostOnce
<1>1. IInv => AtMostOnce
  BY DEF IInv, Fresh
<1> QED BY <1>1, Invariance, PTL

-----------------------------------------------------------------------------
\* The collector implements the abstract hand-over: an entry is given to it at
\* most once, indexed only out of its hands, and never goes back.
LEMMA PublishHandover ==
  ASSUME PipelineAssumption, IInv, NEW kind \in Kinds, Publish(kind)
  PROVE  Handover!Publish
<1>1. /\ InHand' = InHand /\ indexed' = indexed /\ HighWater <= HighWater'
  BY StillSteps
<1>2. Len(log') = Len(log) + 1 /\ Len(log) \in Nat /\ HighWater \in Nat
  BY HighWaterType, AppendProperties DEF Publish, IInv, TypeOK
<1>3. HighWater' \in Int
  BY <1>2, HighWaterType DEF IInv, Publish, TrimChoices, Larger, HighWater, redis,
     PipelineAssumption
<1> QED BY <1>1, <1>2, <1>3 DEF Handover!Publish

LEMMA Intervals ==
  ASSUME NEW a \in Int, NEW b \in Int, NEW c \in Int, a <= b, b <= c
  PROVE  /\ b + 1 .. c \subseteq a + 1 .. c
         /\ a + 1 .. b \subseteq (a + 1 .. c) \ (b + 1 .. c)
OBVIOUS

LEMMA HandHandover ==
  ASSUME IInv, HighWater <= HighWater', HighWater' \in Int, log' = log,
         InHand' \subseteq InHand \cup (HighWater + 1 .. HighWater'), indexed' = indexed,
         HighWater' <= Len(log)
  PROVE  Handover!Hand
<1>1. Len(log) \in Int /\ HighWater \in Int
  BY HighWaterType DEF IInv
<1>2. Len(log') = Len(log)
  OBVIOUS
<1>3. /\ HighWater' + 1 .. Len(log) \subseteq HighWater + 1 .. Len(log)
      /\ HighWater + 1 .. HighWater'
           \subseteq (HighWater + 1 .. Len(log)) \ (HighWater' + 1 .. Len(log))
  BY <1>1, Intervals
<1>4. HighWater' + 1 .. Len(log') = HighWater' + 1 .. Len(log)
  BY <1>2
<1> QED BY <1>2, <1>3, <1>4 DEF Handover!Hand

THEOREM ImplementsDelivery == Spec => HandoverSpec
<1>1. Init => Handover!Init
  <2> SUFFICES ASSUME Init PROVE Handover!Init
    OBVIOUS
  <2>1. Len(log) = 0 /\ HighWater = 0 /\ InHand = {}
    BY EmptySeq DEF Init, HighWater, Larger, InHand, Inbox
  <2>2. HighWater + 1 .. Len(log) = {}
    BY <2>1
  <2> QED BY <2>1, <2>2 DEF Init, Handover!Init
<1>2. IInv /\ IInv' /\ [Next]_vars
        => [Handover!Publish \/ Handover!Hand \/ Handover!Index]_(Handover!vars)
  <2> SUFFICES ASSUME IInv, IInv', [Next]_vars
               PROVE  [Handover!Publish \/ Handover!Hand \/ Handover!Index]_(Handover!vars)
    OBVIOUS
  <2>0. HighWater' \in Int /\ HighWater' <= Len(log')
    <3>1. Len(log') \in Nat
      BY LenProperties DEF IInv, TypeOK
    <3>2. trimmed' \in 0..Len(log') /\ cursor' \in 0..Len(log')
      BY DEF IInv, TypeOK
    <3> QED BY <3>1, <3>2 DEF HighWater, Larger
  <2>1. CASE \E kind \in Kinds : Publish(kind)
    BY <2>1, PublishHandover, PipelineAssumption
  <2>2. CASE ReadReply
    <3>1. log' = log
      BY <2>2 DEF ReadReply, HandOut, stream
    <3> QED BY <2>0, <2>2, <3>1, ReadReplyFresh, HandHandover, PipelineAssumption
  <2>3. CASE RouteLogs \/ RouteMetrics \/ StopRouteLogs \/ StopRouteMetrics
    <3>1. log' = log /\ HighWater' = HighWater
      BY <2>3, RouteSteps, PipelineAssumption DEF stream, redis, HighWater
    <3>2. Handover!Index
      BY <2>3, <3>1, RouteSteps, PipelineAssumption DEF Handover!Index
    <3> QED BY <3>2
  <2>4. CASE \/ EvictKey \/ Start \/ GroupCreated \/ Poll \/ ReadNothing \/ ReadFails
             \/ ReplyDone \/ Ack \/ BackoffEnds
             \/ SkipEmpty \/ RejectNotJson \/ EnrichFails \/ Accept \/ AckFails
             \/ Stop \/ Interrupt \/ Crash \/ CloseRedis
    <3>1. InHand' \subseteq InHand /\ indexed' = indexed /\ HighWater <= HighWater'
      BY <2>4, StillSteps, HandleSteps, StopSteps, PipelineAssumption
    <3>2. log' = log
      BY <2>4 DEF EvictKey, Start, GroupCreated, Poll, ReadNothing, ReadFails, HandOut,
                  ReplyDone, Ack, BackoffEnds, SkipEmpty, RejectNotJson, EnrichFails,
                  Accept, AckFails, Stop, Interrupt, Crash, CloseRedis, ReadBreaks,
                  AckBreaks, stream
    <3> QED BY <2>0, <3>1, <3>2, HandHandover
  <2>5. CASE UNCHANGED vars
    BY <2>5 DEF vars, stream, redis, reply, stopping, InHand, Inbox, HighWater, Handover!vars
  <2> QED BY <2>1, <2>2, <2>3, <2>4, <2>5 DEF Next, RunStep, StopStep
<1> QED BY <1>1, <1>2, Invariance, PTL DEF Spec, HandoverSpec, Handover!Spec

-----------------------------------------------------------------------------
\* A batch is being routed or there is none, and each place holds less than a
\* batch, the entry that filled it apart.
Window == /\ batch # {} => pc \in {"logs", "metrics"} /\ buffer = {}
          /\ Cardinality(buffer) < BatchSize
          /\ Cardinality(batch \ {current}) < BatchSize
          /\ Cardinality(stopBatch) < BatchSize

LEMMA SmallerSet ==
  ASSUME PipelineAssumption, NEW S, S \subseteq Ids, NEW U, U \subseteq S
  PROVE  /\ IsFiniteSet(S) /\ IsFiniteSet(U)
         /\ Cardinality(S) \in Nat /\ Cardinality(U) \in Nat
         /\ Cardinality(U) <= Cardinality(S)
<1>1. IsFiniteSet(Ids)
  BY FS_Interval DEF Ids, PipelineAssumption
<1>2. IsFiniteSet(S)
  BY <1>1, FS_Subset
<1> QED BY <1>2, FS_Subset, FS_CardinalityType

LEMMA InitWindow == PipelineAssumption /\ Init => Window
<1> SUFFICES ASSUME PipelineAssumption, Init PROVE Window
  OBVIOUS
<1>1. Cardinality({}) = 0 /\ 0 < BatchSize
  BY FS_EmptySet DEF PipelineAssumption
<1>2. buffer = {} /\ batch \ {current} = {} /\ batch = {} /\ stopBatch = {}
  BY DEF Init
<1> QED BY <1>1, <1>2 DEF Window

\* Steps that move no entry.
LEMMA StillWindow ==
  ASSUME Window, UNCHANGED <<buffer, batch, stopBatch, current>>, pc' = pc \/ batch = {}
  PROVE  Window'
BY DEF Window

LEMMA NextWindow ==
  ASSUME PipelineAssumption, TypeOK, Window, [Next]_vars PROVE Window'
<1>0. /\ buffer \subseteq Ids /\ batch \subseteq Ids /\ stopBatch \subseteq Ids
      /\ Cardinality({}) = 0 /\ BatchSize \in Nat /\ 0 < BatchSize
  BY FS_EmptySet DEF TypeOK, PipelineAssumption
<1>1. CASE \/ \E kind \in Kinds : Publish(kind)
           \/ EvictKey \/ Start \/ GroupCreated \/ Poll \/ ReadReply \/ ReadNothing \/ ReadFails
           \/ ReplyDone \/ SkipEmpty \/ BackoffEnds \/ CloseRedis \/ UNCHANGED vars
  <2>1. UNCHANGED <<buffer, batch, stopBatch>>
    BY <1>1 DEF Publish, EvictKey, Start, GroupCreated, Poll, ReadReply, ReadNothing, ReadFails,
                ReplyDone, SkipEmpty, BackoffEnds, CloseRedis, stopping, vars
  <2>2. (pc' = pc /\ current' = current) \/ batch = {}
    BY <1>1 DEF Publish, EvictKey, Start, GroupCreated, Poll, ReadReply, ReadNothing, ReadFails,
                ReadBreaks, AckBreaks, ReplyDone, SkipEmpty, Handling, BackoffEnds, CloseRedis,
                vars, Window
  <2>3. CASE batch = {}
    <3>1. batch' = {} /\ batch' \ {current'} = {}
      BY <2>1, <2>3
    <3> QED BY <1>0, <2>1, <3>1 DEF Window
  <2>4. CASE pc' = pc /\ current' = current
    BY <2>1, <2>4, StillWindow
  <2> QED BY <2>2, <2>3, <2>4
<1>2. CASE RejectNotJson \/ EnrichFails \/ Ack \/ AckFails
  <2>1. UNCHANGED <<buffer, batch, stopBatch>> /\ batch = {}
    BY <1>2 DEF RejectNotJson, EnrichFails, Ack, AckFails, AckBreaks, Handling, stopping, Window
  <2>2. batch' = {} /\ batch' \ {current'} = {}
    BY <2>1
  <2> QED BY <1>0, <2>1, <2>2 DEF Window
<1>3. CASE Accept
  <2>1. batch = {} /\ stopBatch' = stopBatch /\ current' = next
    BY <1>3 DEF Accept, Handling, Window, stopping
  <2>2. CASE Cardinality(buffer \cup {next}) >= BatchSize
    <3>1. batch' = buffer \cup {next} /\ buffer' = {} /\ pc' \in {"logs", "metrics"}
      BY <1>3, <2>2 DEF Accept, FirstPost
    <3>2. batch' \ {current'} \subseteq buffer
      BY <2>1, <3>1
    <3>3. Cardinality(batch' \ {current'}) < BatchSize
      <4> DEFINE U == batch' \ {current'}
      <4>1. Cardinality(U) <= Cardinality(buffer) /\ Cardinality(U) \in Nat
            /\ Cardinality(buffer) \in Nat
        BY <1>0, <3>2, SmallerSet
      <4> QED BY <1>0, <4>1 DEF Window
    <3> QED BY <1>0, <2>1, <3>1, <3>3 DEF Window
  <2>3. CASE ~(Cardinality(buffer \cup {next}) >= BatchSize)
    <3>1. buffer' = buffer \cup {next} /\ batch' = {} /\ batch' \ {current'} = {}
      BY <1>3, <2>1, <2>3 DEF Accept
    <3>2. Cardinality(buffer') \in Nat
      <4>1. next \in Ids
        BY <1>3 DEF Accept, Handling, TypeOK, PipelineAssumption, Ids
      <4>2. buffer' \subseteq Ids
        BY <1>0, <3>1, <4>1
      <4> QED BY <4>2, SmallerSet
    <3>3. Cardinality(buffer') < BatchSize
      BY <1>0, <2>3, <3>1, <3>2
    <3> QED BY <1>0, <2>1, <3>1, <3>3 DEF Window
  <2> QED BY <2>2, <2>3
<1>4. CASE RouteLogs \/ RouteMetrics
  <2>1. /\ UNCHANGED <<buffer, stopBatch, current>> /\ batch' \subseteq batch
        /\ batch' # {} => pc' = "metrics" /\ batch # {}
    BY <1>4 DEF RouteLogs, RouteMetrics, Metrics, stopping
  <2> DEFINE U == batch' \ {current'}
             V == batch \ {current}
  <2>2. U \subseteq V /\ V \subseteq Ids
    BY <1>0, <2>1
  <2>3. Cardinality(U) <= Cardinality(V) /\ Cardinality(U) \in Nat /\ Cardinality(V) \in Nat
    BY <2>2, SmallerSet
  <2>4. Cardinality(U) < BatchSize
    BY <1>0, <2>3 DEF Window
  <2> QED BY <2>1, <2>4 DEF Window
<1>5. CASE Stop \/ Interrupt
  <2>1. /\ buffer' = {} /\ stopBatch' = buffer /\ batch' = batch /\ current' = current
        /\ pc' = pc \/ batch = {}
    BY <1>5 DEF Stop, Interrupt, BeginStop, Window
  <2> QED BY <1>0, <2>1 DEF Window
<1>6. CASE StopRouteLogs \/ StopRouteMetrics
  <2>1. UNCHANGED <<buffer, batch, current, pc>> /\ stopBatch' \subseteq stopBatch
    BY <1>6 DEF StopRouteLogs, StopRouteMetrics, Metrics
  <2>2. Cardinality(stopBatch') <= Cardinality(stopBatch) /\ Cardinality(stopBatch') \in Nat
        /\ Cardinality(stopBatch) \in Nat
    BY <1>0, <2>1, SmallerSet
  <2>3. Cardinality(stopBatch') < BatchSize
    BY <1>0, <2>2 DEF Window
  <2> QED BY <2>1, <2>3 DEF Window
<1>7. CASE Crash
  <2>1. buffer' = {} /\ batch' = {} /\ stopBatch' = {} /\ batch' \ {current'} = {}
    BY <1>7 DEF Crash
  <2> QED BY <1>0, <2>1 DEF Window
<1> QED BY <1>1, <1>2, <1>3, <1>4, <1>5, <1>6, <1>7 DEF Next, RunStep, StopStep

LEMMA WindowBounds ==
  ASSUME PipelineAssumption, TypeOK, Window PROVE LossWindow
<1> DEFINE V == buffer \cup (batch \ {current})
<1>0. /\ buffer \subseteq Ids /\ batch \ {current} \subseteq Ids /\ stopBatch \subseteq Ids
      /\ V \subseteq Ids /\ BatchSize \in Nat
  BY DEF TypeOK, PipelineAssumption
<1>1. Cardinality(V) < BatchSize
  <2>1. V = buffer \/ V = batch \ {current}
    BY DEF Window
  <2> QED BY <2>1 DEF Window
<1>2. /\ IsFiniteSet(V) /\ IsFiniteSet(stopBatch) /\ Cardinality(V) \in Nat
      /\ Cardinality(stopBatch) \in Nat
  BY <1>0, SmallerSet
<1>3. AtRisk \subseteq V \cup stopBatch
  BY DEF AtRisk
<1>4. /\ Cardinality(V \cup stopBatch) <= Cardinality(V) + Cardinality(stopBatch)
      /\ Cardinality(V \cup stopBatch) \in Nat
  <2>1. IsFiniteSet(V \cap stopBatch)
    BY <1>2, FS_Subset
  <2>2. Cardinality(V \cap stopBatch) \in Nat
    BY <2>1, FS_CardinalityType
  <2>3. /\ IsFiniteSet(V \cup stopBatch)
        /\ Cardinality(V \cup stopBatch)
             = Cardinality(V) + Cardinality(stopBatch) - Cardinality(V \cap stopBatch)
    BY <1>2, FS_Union
  <2> HIDE DEF V
  <2> QED BY <1>2, <2>2, <2>3, FS_CardinalityType
<1>5. Cardinality(AtRisk) <= Cardinality(V \cup stopBatch) /\ Cardinality(AtRisk) \in Nat
  <2>1. V \cup stopBatch \subseteq Ids
    BY <1>0
  <2> HIDE DEF V
  <2> QED BY <1>3, <2>1, SmallerSet
<1>6. Cardinality(AtRisk) <= 2 * (BatchSize - 1)
  <2>1. Cardinality(stopBatch) < BatchSize
    BY DEF Window
  <2> HIDE DEF V
  <2> QED BY <1>0, <1>1, <1>2, <1>4, <1>5, <2>1
<1>7. ASSUME stopBatch = {} PROVE Cardinality(AtRisk) < BatchSize
  <2>1. V \cup stopBatch = V
    BY <1>7
  <2> HIDE DEF V
  <2>2. Cardinality(V \cup stopBatch) = Cardinality(V)
    BY <2>1
  <2>3. Cardinality(AtRisk) <= Cardinality(V)
    BY <1>5, <2>2
  <2> QED BY <1>0, <1>1, <1>2, <1>5, <2>3
<1> QED BY <1>6, <1>7 DEF LossWindow

\* A crash can lose less than a batch of acknowledged entries, and while a stop
\* is under way less than two, whatever the batch size and the number of faults.
THEOREM CrashLosesLittle == Spec => []LossWindow
<1>1. Init => Window
  BY InitWindow, PipelineAssumption
<1>2. TypeOK /\ Window /\ [Next]_vars => Window'
  BY NextWindow, PipelineAssumption
<1>3. TypeOK /\ Window => LossWindow
  BY WindowBounds, PipelineAssumption
<1> QED BY <1>1, <1>2, <1>3, TypeCorrect, PTL DEF Spec
-----------------------------------------------------------------------------
\* While nothing fails: a log or metric whose handling awaits something, or that
\* was handed out, has not been trimmed and is acknowledged, is indexed or on its
\* way there; what is still to be handled is unacknowledged.
Payload == {"log", "metric"}
Owned(i) == indexed[i] = 1 \/ i \in buffer \cup batch \cup stopBatch
Answered(i) == i = current \/ (trimmed < i /\ i <= cursor /\ i \notin pending)
Settled == \A i \in 1..Len(log) : Answered(i) /\ log[i] \in Payload => Owned(i)
Careful == Inbox \subseteq pending /\ current \notin Inbox /\ current <= Len(log) /\ Settled

StopIdle == stopBatch # {} => stopPc \in {"logs", "metrics"}
InProgress == current # 0 => pc \in {"logs", "metrics", "ack"}
CalmInv == StopIdle /\ InProgress /\ (faults = 0 => Careful)

\* A bulk request indexes all it holds, once.
LEMMA PostsAll ==
  ASSUME PostsSucceed, IInv, NEW entries, entries \subseteq InHand, Post(entries),
         NEW i \in Ids
  PROVE  /\ i \in entries => indexed'[i] = 1
         /\ i \notin entries => indexed'[i] = indexed[i]
<1>1. indexed' = [j \in Ids |-> indexed[j] + IF j \in entries THEN 1 ELSE 0]
  BY DEF Post
<1>2. indexed[i] \in Nat /\ (i \in entries => indexed[i] = 0)
  BY DEF IInv, TypeOK, Fresh, Unindexed
<1> QED BY <1>1, <1>2

\* A log or metric in the hands of the collector gets to the index.
LEMMA StaysOwned ==
  ASSUME PipelineAssumption, PostsSucceed, IInv, Window, StopIdle,
         Next, ~Crash, NEW i \in 1..Len(log), log[i] \in Payload, Owned(i)
  PROVE  Owned(i)'
<1>0. i \in Ids
  BY LengthType DEF IInv, Ids, PipelineAssumption
<1>1. CASE RouteLogs \/ StopRouteLogs
  <2>1. PICK entries \in {batch, stopBatch} :
          /\ Post(Logs(entries))
          /\ \/ entries = batch /\ batch' = Metrics(batch) /\ stopBatch' = stopBatch
             \/ entries = stopBatch /\ stopBatch' = Metrics(stopBatch) /\ batch' = batch
          /\ buffer' = buffer
    BY <1>1 DEF RouteLogs, StopRouteLogs, stopping
  <2>2. Logs(entries) \subseteq InHand
    BY DEF Logs, InHand
  <2>3. (i \in Logs(entries) => indexed'[i] = 1) /\ (i \notin Logs(entries) => indexed'[i] = indexed[i])
    BY <1>0, <2>1, <2>2, PostsAll
  <2>4. i \in entries => i \in Logs(entries) \/ i \in Metrics(entries)
    BY DEF Logs, Metrics, Payload
  <2> QED BY <2>1, <2>3, <2>4 DEF Owned
<1>2. CASE RouteMetrics \/ StopRouteMetrics
  <2>1. PICK entries \in {batch, stopBatch} :
          /\ Post(entries)
          /\ \/ entries = batch /\ stopBatch' = stopBatch
             \/ entries = stopBatch /\ batch' = batch
          /\ buffer' = buffer
    BY <1>2 DEF RouteMetrics, StopRouteMetrics, stopping
  <2>2. entries \subseteq InHand
    BY DEF InHand
  <2>3. (i \in entries => indexed'[i] = 1) /\ (i \notin entries => indexed'[i] = indexed[i])
    BY <1>0, <2>1, <2>2, PostsAll
  <2> QED BY <2>1, <2>3 DEF Owned
<1>3. CASE Stop \/ Interrupt
  <2>1. stopBatch = {}
    BY <1>3 DEF Stop, Interrupt, BeginStop, StopIdle
  <2> QED BY <1>3, <2>1 DEF Stop, Interrupt, BeginStop, Owned
<1>4. CASE Accept
  <2>1. batch = {}
    BY <1>4 DEF Accept, Handling, Window
  <2> QED BY <1>4, <2>1 DEF Accept, Owned, stopping
<1>5. CASE ~(\/ RouteLogs \/ StopRouteLogs \/ RouteMetrics \/ StopRouteMetrics
             \/ Stop \/ Interrupt \/ Accept)
  <2>1. UNCHANGED <<buffer, batch, stopBatch, indexed>>
    BY <1>5 DEF Next, RunStep, StopStep, Publish, EvictKey, Start, GroupCreated, Poll,
                ReadReply, ReadNothing, ReadFails, ReplyDone, SkipEmpty, RejectNotJson,
                EnrichFails, Ack, AckFails, BackoffEnds, CloseRedis, stopping
  <2> QED BY <2>1 DEF Owned
<1> QED BY <1>1, <1>2, <1>3, <1>4, <1>5

LEMMA KeepsSettled ==
  ASSUME PipelineAssumption, PostsSucceed, IInv, Window, StopIdle, Settled, Next, ~Crash,
         \A i \in 1..Len(log') : Answered(i)' /\ log'[i] \in Payload
           => Owned(i)' \/ (i \in 1..Len(log) /\ log'[i] = log[i] /\ Answered(i))
  PROVE  Settled'
<1> SUFFICES ASSUME NEW i \in 1..Len(log'), Answered(i)', log'[i] \in Payload PROVE Owned(i)'
  BY DEF Settled
<1>1. CASE i \in 1..Len(log) /\ log'[i] = log[i] /\ Answered(i)
  <2>1. Owned(i)
    BY <1>1 DEF Settled
  <2> QED BY <1>1, <2>1, StaysOwned
<1> QED BY <1>1

LEMMA NextCalmParts ==
  ASSUME Window, StopIdle, InProgress, [Next]_vars PROVE StopIdle' /\ InProgress'
<1>1. StopIdle'
  BY DEF StopIdle, Next, RunStep, StopStep, Publish, EvictKey, Start, GroupCreated, Poll,
         ReadReply, ReadNothing, ReadFails, ReplyDone, SkipEmpty, RejectNotJson,
         EnrichFails, Accept, RouteLogs, RouteMetrics, Ack, AckFails, BackoffEnds,
         Stop, Interrupt, BeginStop, FirstPost, StopRouteLogs, StopRouteMetrics,
         CloseRedis, Crash, stopping, vars
<1>2. InProgress'
  BY DEF InProgress, Next, RunStep, StopStep, Publish, EvictKey, Start, GroupCreated, Poll,
         ReadReply, ReadNothing, ReadFails, ReadBreaks, AckBreaks, ReplyDone, SkipEmpty,
         RejectNotJson, Handling, EnrichFails, Accept, FirstPost, RouteLogs, RouteMetrics,
         Ack, AckFails, BackoffEnds, Stop, Interrupt, StopRouteLogs,
         StopRouteMetrics, CloseRedis, Crash, vars
<1> QED BY <1>1, <1>2

\* The steps of a collector to which nothing happens.
LEMMA CalmStep ==
  ASSUME IInv, Next, faults = 0, faults' = 0
  PROVE  /\ ~Crash /\ ~EvictKey /\ ~AckFails
         /\ ReadFails => UNCHANGED <<stream, redis, reply, current>>
BY DEF Crash, EvictKey, AckFails, ReadFails, ReadBreaks, HandOut

\* Steps that hand out and acknowledge nothing.
LEMMA CarriedCareful ==
  ASSUME PipelineAssumption, PostsSucceed, IInv, Window, StopIdle, Careful, Next, ~Crash,
         UNCHANGED <<log, trimmed, cursor, pending>>, Inbox' \subseteq Inbox,
         current' \in {current, 0}
  PROVE  Careful'
<1>1. 0 \notin Inbox /\ Inbox \subseteq pending
  BY DEF Careful, IInv, TypeOK, Ids
<1>2. Settled'
  <2>1. \A i \in 1..Len(log') : Answered(i)' => Answered(i)
    BY DEF Answered
  <2> QED BY <2>1, KeepsSettled DEF Careful
<1>3. current' <= Len(log')
  BY HighWaterType DEF Careful, IInv
<1> QED BY <1>1, <1>2, <1>3 DEF Careful

LEMMA NextCareful ==
  ASSUME PipelineAssumption, PostsSucceed, IInv, Window, StopIdle, InProgress, Careful, Next,
         faults = 0, faults' = 0
  PROVE  Careful'
<1>0. /\ ~Crash /\ ~EvictKey /\ ~AckFails
      /\ ReadFails => UNCHANGED <<stream, redis, reply, current>>
  BY CalmStep
<1>a. /\ Len(log) \in Nat /\ cursor \in Nat /\ cursor <= Len(log) /\ trimmed \in Nat
      /\ next \in Int /\ last \in Int /\ Inbox \subseteq pending /\ current \notin Inbox
      /\ pending \subseteq Ids /\ 0 \notin pending
      /\ current \in Int /\ current <= Len(log)
  BY HighWaterType DEF IInv, TypeOK, Careful, Ids
<1>1. ASSUME NEW kind \in Kinds, Publish(kind) PROVE Careful'
  <2>1. /\ log' = Append(log, kind) /\ trimmed' \in Int /\ trimmed <= trimmed'
        /\ UNCHANGED <<cursor, pending, current, next, last>>
    BY <1>a, <1>1 DEF Publish, TrimChoices, Larger, redis, reply, PipelineAssumption
  <2>2. Len(log') = Len(log) + 1 /\ \A i \in 1..Len(log) : log'[i] = log[i]
    BY <2>1, AppendProperties DEF IInv, TypeOK
  <2>3. \A i \in 1..Len(log') : Answered(i)' => i \in 1..Len(log) /\ Answered(i)
    BY <1>a, <2>1, <2>2 DEF Answered
  <2>4. Settled'
    BY <1>0, <2>2, <2>3, KeepsSettled DEF Careful
  <2>5. Inbox' = Inbox
    BY <2>1 DEF Inbox
  <2> QED BY <1>a, <2>1, <2>2, <2>4, <2>5 DEF Careful
<1>2. CASE GroupCreated
  <2>1. /\ UNCHANGED <<log, trimmed, pending, next, last, current>>
        /\ cursor' = cursor
    BY <1>2 DEF GroupCreated, stream, reply, IInv, Fresh, NewGroupReadsAll
  <2> QED BY <1>0, <2>1, CarriedCareful DEF Inbox
<1>3. CASE ReadReply \/ (CloseRedis /\ HandOut)
  <2>1. /\ HighWater < cursor' /\ HighWater \in Nat /\ cursor' \in Nat
        /\ pending' = pending \cup (HighWater + 1 .. cursor')
        /\ log' = log /\ trimmed' = trimmed /\ cursor <= HighWater
    <3>1. HandOut
      BY <1>3 DEF ReadReply
    <3>2. cursor' \in 1..Len(log) /\ cursor <= HighWater
      BY <1>a, <3>1, HandOutFacts DEF IInv, HighWater, Larger
    <3> QED BY <1>a, <3>1, <3>2, HandOutFacts, HighWaterType DEF IInv
  <2>2. current = 0 /\ current' = 0
    <3>1. cursor' # cursor
      BY <1>a, <2>1
    <3>2. pc = "reading" /\ current' = current
      BY <1>3, <3>1 DEF ReadReply, CloseRedis, ReadBreaks, AckBreaks, redis
    <3> QED BY <3>2 DEF InProgress
  <2>3. Inbox' \subseteq pending' /\ 0 \notin Inbox'
    <3>1. CASE ReadReply
      BY <2>1, <3>1, HandOutFacts DEF ReadReply, IInv, Inbox
    <3>2. CASE CloseRedis /\ HandOut
      BY <1>a, <2>1, <3>2 DEF CloseRedis, ReadBreaks, AckBreaks, redis, reply, Inbox
    <3> QED BY <1>3, <3>1, <3>2
  <2>4. \A i \in 1..Len(log') : Answered(i)' => i \in 1..Len(log) /\ Answered(i)
    BY <1>a, <2>1, <2>2 DEF Answered, HighWater, Larger
  <2>5. Settled'
    BY <1>0, <2>1, <2>4, KeepsSettled DEF Careful
  <2> QED BY <1>a, <2>1, <2>2, <2>3, <2>5 DEF Careful
<1>4. CASE CloseRedis /\ ~HandOut /\ ~AckBreaks
  <2>1. UNCHANGED <<log, trimmed, cursor, pending, next, last, current>>
    BY <1>4 DEF CloseRedis, ReadBreaks, stream, redis, reply
  <2> QED BY <1>0, <2>1, CarriedCareful DEF Inbox
<1>5. CASE Ack \/ (CloseRedis /\ AckBreaks)
  <2>1. /\ UNCHANGED <<log, trimmed, cursor>> /\ current' = 0
        /\ pending' \in {pending, pending \ {current}} /\ Inbox' \subseteq Inbox
    BY <1>a, <1>5 DEF Ack, AckBreaks, XAck, stream, reply, Inbox
  <2>2. \A i \in 1..Len(log') : Answered(i)' => Answered(i)
    BY <2>1 DEF Answered
  <2>3. Settled'
    BY <1>0, <2>1, <2>2, KeepsSettled DEF Careful
  <2> QED BY <1>a, <2>1, <2>3 DEF Careful
<1>6. CASE RejectNotJson \/ Accept
  <2>1. /\ UNCHANGED <<log, trimmed, cursor, pending>> /\ current' = next
        /\ next \in Inbox /\ Inbox' = Inbox \ {next}
    BY <1>a, <1>6 DEF RejectNotJson, Accept, Handling, stream, redis, Inbox
  <2>2. next \in 1..Len(log)
    BY <1>a, <2>1, HighWaterType DEF IInv, Fresh, HeldIsHandedOut, InHand
  <2>3. \A i \in 1..Len(log) : i = next /\ log[i] \in Payload => Owned(i)'
    BY <1>6 DEF RejectNotJson, Accept, Handling, Payload, Owned
  <2>4. \A i \in 1..Len(log') : Answered(i)' /\ log'[i] \in Payload => Owned(i)' \/ Answered(i)
    BY <2>1, <2>3 DEF Answered
  <2>5. Settled'
    BY <1>0, <2>1, <2>4, KeepsSettled DEF Careful
  <2> QED BY <1>a, <2>1, <2>2, <2>5 DEF Careful
<1>7. CASE ReadFails \/ EnrichFails \/ Interrupt \/ SkipEmpty
  <2>1. UNCHANGED <<log, trimmed, cursor, pending, current>> /\ Inbox' \subseteq Inbox
    BY <1>0, <1>a, <1>7 DEF EnrichFails, Interrupt, SkipEmpty, stream, redis, reply, Inbox
  <2> QED BY <1>0, <2>1, CarriedCareful
<1>8. CASE \/ Start \/ Poll \/ ReadNothing \/ ReplyDone \/ RouteLogs \/ RouteMetrics
           \/ BackoffEnds \/ Stop \/ StopRouteLogs \/ StopRouteMetrics
  <2>1. UNCHANGED <<log, trimmed, cursor, pending, next, last, current>>
    BY <1>8 DEF Start, Poll, ReadNothing, ReplyDone, RouteLogs, RouteMetrics, BackoffEnds,
                Stop, StopRouteLogs, StopRouteMetrics, stream, redis, reply
  <2> QED BY <1>0, <2>1, CarriedCareful DEF Inbox
<1> QED BY <1>0, <1>1, <1>2, <1>3, <1>4, <1>5, <1>6, <1>7, <1>8 DEF Next, RunStep, StopStep

\* What is acknowledged, not indexed and to be routed by no coroutine is left in
\* the buffer.
LEMMA LeftInBuffer ==
  ASSUME PipelineAssumption, TypeOK, Window, Careful
  PROVE  LeftBehind \subseteq buffer /\ Cardinality(LeftBehind) < BatchSize
<1>1. LeftBehind \subseteq buffer
  BY DEF Careful, Settled, Answered, Owned, Payload, LeftBehind, Acked, ToRoute
<1>2. /\ Cardinality(LeftBehind) <= Cardinality(buffer)
      /\ Cardinality(LeftBehind) \in Nat /\ Cardinality(buffer) \in Nat
  BY <1>1, SmallerSet DEF TypeOK
<1>3. Cardinality(buffer) < BatchSize /\ BatchSize \in Nat
  BY DEF Window, PipelineAssumption
<1> QED BY <1>1, <1>2, <1>3

\* As long as nothing crashes, fails or is evicted and Elasticsearch indexes what
\* it is sent, an acknowledged log or metric is indexed or will be routed, though
\* stop() and _run() drain, route and acknowledge at the same time; the exception,
\* what _run() accepts after stop() drained the buffer, is less than a batch.
THEOREM CalmKeepsAcked == ASSUME PostsSucceed PROVE Spec => []AckedIsSafeInCalm
<1>1. Init => CalmInv /\ Window
  <2> SUFFICES ASSUME Init PROVE CalmInv
    BY InitWindow, PipelineAssumption
  <2>1. Len(log) = 0 /\ Inbox = {} /\ current = 0 /\ stopBatch = {}
    BY EmptySeq DEF Init, Inbox
  <2> QED BY <2>1 DEF CalmInv, StopIdle, InProgress, Careful, Settled
<1>2. IInv /\ IInv' /\ Window /\ CalmInv /\ [Next]_vars => CalmInv' /\ Window'
  <2> SUFFICES ASSUME IInv, IInv', Window, CalmInv, [Next]_vars PROVE CalmInv'
    BY NextWindow, PipelineAssumption DEF IInv
  <2>1. StopIdle' /\ InProgress'
    BY NextCalmParts DEF CalmInv
  <2>2. ASSUME faults' = 0 PROVE Careful'
    <3>1. CASE Next
      <4>1. faults = 0
        BY <2>2, <3>1, SMTT(30) DEF IInv, TypeOK, Next, RunStep, StopStep, Publish, EvictKey, Start,
           GroupCreated, Poll, ReadReply, ReadNothing, ReadFails, ReplyDone, SkipEmpty,
           RejectNotJson, EnrichFails, Accept, RouteLogs, RouteMetrics, Ack, AckFails,
           BackoffEnds, Stop, Interrupt, StopRouteLogs, StopRouteMetrics, CloseRedis, Crash
      <4> QED BY <2>2, <3>1, <4>1, NextCareful, PipelineAssumption DEF CalmInv
    <3>2. CASE UNCHANGED vars
      BY <2>2, <3>2 DEF vars, stream, redis, reply, stopping, CalmInv, Careful, Settled,
                        Answered, Owned, Inbox
    <3> QED BY <3>1, <3>2
  <2> QED BY <2>1, <2>2 DEF CalmInv
<1>3. IInv /\ Window /\ CalmInv => AckedIsSafeInCalm
  BY LeftInBuffer, PipelineAssumption DEF IInv, CalmInv, AckedIsSafeInCalm
<1> QED BY <1>1, <1>2, <1>3, Invariance, PTL DEF Spec
=============================================================================
