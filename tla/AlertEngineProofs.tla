-------------------------- MODULE AlertEngineProofs --------------------------
(***************************************************************************)
(* Safety of the alert engine for every list of rules, cooldowns, silences *)
(* and channels: with any number of loops, and what needs a single one.    *)
(***************************************************************************)
EXTENDS AlertEngine, SequenceTheorems, TLAPS

\* What silences promise, for evaluations under way: a rule that is not silenced
\* has not been so for any time, and the clock was read before its silence began.
SilenceInv ==
  /\ \A r \in Rules : ~IsSilenced(r) => hush[r] = 0
  /\ \A l \in Loops : pc[l] = "fetch" => since[l] >= hush[RuleAt(l)]

\* start() was called once.
OneLoop == \A k, l \in Loops : k = l

\* The engine never takes a rule to have fired before its last alert; while the
\* data is awaited the rule has cooled down and its clock reading is the newest.
CooldownInv ==
  /\ \A r \in Rules : age[r] <= raisedAt[r]
  /\ \A l \in Loops : pc[l] = "fetch" =>
       age[RuleAt(l)] >= Cooldown[RuleAt(l)] /\ since[l] <= age[RuleAt(l)]

\* Channel c was told last what the engine holds of r, unless it missed that.
Agrees(c, r) == c \in missed[r] \/ (view[c][r] = "trigger" <=> active[r] # NoLoop)

\* A loop that is sending has told the channels up to chan, and goes on to tell
\* the others what the engine holds.
ChannelInv ==
  /\ \A r \in Rules : (\A l \in Loops : ~Sending(l, r)) =>
       \A c \in 1..NumChannels : Agrees(c, r)
  /\ \A l \in Loops : pc[l] = "send" =>
       /\ note[l] = "trigger" <=> active[RuleAt(l)] # NoLoop
       /\ \A c \in 1..chan[l] : Agrees(c, RuleAt(l))

-----------------------------------------------------------------------------
\* A loop at a place of the list is at a rule.
LEMMA RuleAtType ==
  ASSUME EngineAssumption
  PROVE  /\ Len(RuleList) \in Nat \ {0}
         /\ \A i \in 1..Len(RuleList) : RuleList[i] \in Rules
BY LenProperties, EmptySeq DEF EngineAssumption, Rules

LEMMA AtRule ==
  ASSUME EngineAssumption, TypeOK, NEW l \in Loops,
         Deciding(l) \/ pc[l] \in {"fetch", "send"}
  PROVE  /\ at[l] \in 1..Len(RuleList) /\ RuleAt(l) \in Rules
         /\ at[l] + 1 \in 1..Len(RuleList) + 1
<1>1. at[l] \in 1..Len(RuleList) + 1 /\ at[l] <= Len(RuleList) /\ Len(RuleList) \in Nat
  BY RuleAtType DEF TypeOK, Deciding
<1>2. at[l] \in 1..Len(RuleList) /\ at[l] + 1 \in 1..Len(RuleList) + 1
  BY <1>1
<1> QED BY <1>2, RuleAtType DEF RuleAt

\* Ages only grow, up to MaxAge, and keep their order.
LEMMA OlderFacts ==
  ASSUME EngineAssumption
  PROVE  /\ \A n \in 0..MaxAge : Older(n) \in 0..MaxAge /\ Older(n) >= n
         /\ \A m, n \in 0..MaxAge : m <= n => Older(m) <= Older(n)
BY DEF EngineAssumption, Older

LEMMA TellType ==
  ASSUME TypeOK, NEW c \in 1..NumChannels, NEW r \in Rules,
         NEW what \in {"trigger", "resolve"}, Tell(c, r, what)
  PROVE  /\ view' \in [1..NumChannels -> [Rules -> {"trigger", "resolve"}]]
         /\ missed' \in [Rules -> SUBSET (1..NumChannels)]
<1>0. /\ view \in [1..NumChannels -> [Rules -> {"trigger", "resolve"}]]
      /\ missed \in [Rules -> SUBSET (1..NumChannels)]
  BY DEF TypeOK
<1>1. CASE /\ view' = [view EXCEPT ![c][r] = what]
           /\ missed' = [missed EXCEPT ![r] = @ \ {c}]
  <2>1. [view[c] EXCEPT ![r] = what] \in [Rules -> {"trigger", "resolve"}]
    BY <1>0
  <2> QED BY <1>0, <1>1, <2>1
<1>2. CASE missed' = [missed EXCEPT ![r] = @ \cup {c}] /\ UNCHANGED view
  BY <1>0, <1>2
<1> QED BY <1>1, <1>2 DEF Tell

LEMMA NotifyType ==
  ASSUME EngineAssumption, TypeOK, NEW l \in Loops, pc[l] = "fetch",
         NEW what \in {"trigger", "resolve"}, Notify(l, what)
  PROVE  /\ pc' \in [Loops -> {"off", "rule", "fetch", "send", "sleep"}]
         /\ at' = at /\ chan' \in [Loops -> 1..NumChannels]
         /\ \A k \in Loops : pc'[k] \in {"fetch", "send"} => pc[k] \in {"fetch", "send"}
         /\ view' \in [1..NumChannels -> [Rules -> {"trigger", "resolve"}]]
         /\ missed' \in [Rules -> SUBSET (1..NumChannels)]
<1>1. 1 \in 1..NumChannels
  BY DEF EngineAssumption
<1>2. RuleAt(l) \in Rules
  BY AtRule
<1>3. Tell(1, RuleAt(l), what)
  BY DEF Notify
<1>4. /\ view' \in [1..NumChannels -> [Rules -> {"trigger", "resolve"}]]
      /\ missed' \in [Rules -> SUBSET (1..NumChannels)]
  BY <1>1, <1>2, <1>3, TellType DEF Tell
<1>5. pc \in [Loops -> {"off", "rule", "fetch", "send", "sleep"}] /\ chan \in [Loops -> 1..NumChannels]
  BY DEF TypeOK
<1>6. /\ pc' = [pc EXCEPT ![l] = "send"] /\ at' = at
      /\ chan' = [chan EXCEPT ![l] = 1]
  BY DEF Notify
<1>7. chan' \in [Loops -> 1..NumChannels]
  BY <1>1, <1>5, <1>6
<1> QED BY <1>4, <1>5, <1>6, <1>7

LEMMA AdvanceType ==
  ASSUME EngineAssumption, TypeOK, NEW l \in Loops,
         Deciding(l) \/ pc[l] \in {"fetch", "send"}, Advance(l)
  PROVE  /\ pc' \in [Loops -> {"off", "rule", "fetch", "send", "sleep"}]
         /\ at' \in [Loops -> 1..Len(RuleList) + 1]
         /\ \A k \in Loops : pc'[k] \in {"fetch", "send"}
              => pc[k] \in {"fetch", "send"} /\ at'[k] = at[k]
BY AtRule DEF Advance, TypeOK

-----------------------------------------------------------------------------
LEMMA InitTypeOK == EngineAssumption /\ Init => TypeOK
<1> SUFFICES ASSUME EngineAssumption, Init PROVE TypeOK
  OBVIOUS
<1>1. Len(RuleList) \in Nat \ {0} /\ MaxAge \in Nat /\ MaxSilence \in Nat /\ NumChannels \in Nat \ {0}
  BY RuleAtType DEF EngineAssumption
<1>2. 1 \in 1..Len(RuleList) + 1 /\ 1 \in 1..NumChannels /\ 0 \in 0..MaxAge
      /\ MaxAge \in 0..MaxAge /\ 0 \in 0..MaxSilence
  BY <1>1
<1>3. /\ view \in [1..NumChannels -> [Rules -> {"trigger", "resolve"}]]
      /\ missed \in [Rules -> SUBSET (1..NumChannels)]
  BY DEF Init
<1> QED BY <1>2, <1>3 DEF Init, TypeOK

\* Every action keeps the types.
LEMMA LoopTypeOK ==
  ASSUME EngineAssumption, TypeOK, NEW l \in Loops, Start(l) \/ LoopStep(l)
  PROVE  TypeOK'
<1>0. Len(RuleList) \in Nat \ {0} /\ MaxAge \in Nat /\ NumChannels \in Nat \ {0}
  BY RuleAtType DEF EngineAssumption
<1>1. CASE Start(l)
  <2>1. /\ pc' \in [Loops -> {"off", "rule", "fetch", "send", "sleep"}]
        /\ at' \in [Loops -> 1..Len(RuleList) + 1]
    BY <1>0, <1>1 DEF Start, TypeOK
  <2>2. \A k \in Loops : pc'[k] \in {"fetch", "send"} => at'[k] <= Len(RuleList)
    BY <1>1 DEF Start, TypeOK
  <2> QED BY <1>1, <2>1, <2>2 DEF Start, TypeOK, silences, told
<1>2. CASE Skip(l)
  <2>1. Deciding(l) /\ Advance(l)
    BY <1>2 DEF Skip
  <2> QED BY <1>2, <2>1, AdvanceType DEF Skip, TypeOK, silences, told
<1>3. CASE Fetch(l)
  <2>1. at[l] <= Len(RuleList)
    BY <1>3 DEF Fetch, Deciding
  <2>2. since' \in [Loops -> 0..MaxAge]
    BY <1>0, <1>3 DEF Fetch, TypeOK
  <2>3. pc' \in [Loops -> {"off", "rule", "fetch", "send", "sleep"}] /\ at' = at
    BY <1>3 DEF Fetch, TypeOK
  <2>4. \A k \in Loops : pc'[k] \in {"fetch", "send"} => at[k] <= Len(RuleList)
    BY <1>3, <2>1 DEF Fetch, TypeOK
  <2> QED BY <1>3, <2>2, <2>3, <2>4 DEF Fetch, TypeOK, silences, told
<1>4. CASE NoVerdict(l)
  <2>1. pc[l] = "fetch" /\ Advance(l)
    BY <1>4 DEF NoVerdict, Awaits
  <2> QED BY <1>4, <2>1, AdvanceType DEF NoVerdict, TypeOK, silences, told
<1>5. CASE Fire(l)
  <2>1. pc[l] = "fetch" /\ Notify(l, "trigger") /\ RuleAt(l) \in Rules
    BY <1>5, AtRule DEF Fire, Awaits
  <2>2. since[l] \in 0..MaxAge
    BY DEF TypeOK
  <2> QED BY <1>5, <2>1, <2>2, NotifyType DEF Fire, StampFire, TypeOK, silences
<1>6. CASE FireUnformatted(l)
  <2>1. pc[l] = "fetch" /\ Advance(l) /\ RuleAt(l) \in Rules
    BY <1>6, AtRule DEF FireUnformatted, Awaits
  <2>2. since[l] \in 0..MaxAge
    BY DEF TypeOK
  <2> QED BY <1>6, <2>1, <2>2, AdvanceType DEF FireUnformatted, StampFire, TypeOK, silences, told
<1>7. CASE Resolve(l)
  <2>1. pc[l] = "fetch" /\ Notify(l, "resolve") /\ RuleAt(l) \in Rules
    BY <1>7, AtRule DEF Resolve, Awaits
  <2>2. note' \in [Loops -> {"trigger", "resolve"}]
    BY <1>7 DEF Resolve, TypeOK
  <2> QED BY <1>7, <2>1, <2>2, NotifyType DEF Resolve, TypeOK, silences
<1>8. CASE SendReturns(l)
  <2>0. pc[l] = "send" /\ RuleAt(l) \in Rules /\ note[l] \in {"trigger", "resolve"}
    BY <1>8, AtRule DEF SendReturns, Awaits, TypeOK
  <2>1. CASE chan[l] < NumChannels
    <3>1. chan[l] + 1 \in 1..NumChannels
      BY <1>0, <2>1 DEF TypeOK
    <3>2. Tell(chan[l] + 1, RuleAt(l), note[l])
      BY <1>8, <2>1 DEF SendReturns
    <3>3. /\ view' \in [1..NumChannels -> [Rules -> {"trigger", "resolve"}]]
          /\ missed' \in [Rules -> SUBSET (1..NumChannels)]
      BY <2>0, <3>1, <3>2, TellType DEF Tell
    <3>4. chan' = [chan EXCEPT ![l] = @ + 1] /\ pc' = pc /\ at' = at
      BY <1>8, <2>1 DEF SendReturns
    <3>5. chan' \in [Loops -> 1..NumChannels]
      BY <3>1, <3>4 DEF TypeOK
    <3> QED BY <1>8, <3>3, <3>4, <3>5 DEF SendReturns, TypeOK, silences
  <2>2. CASE ~(chan[l] < NumChannels)
    <3>1. Advance(l)
      BY <1>8, <2>2 DEF SendReturns
    <3> QED BY <1>8, <2>0, <2>2, <3>1, AdvanceType DEF SendReturns, TypeOK, silences, told
  <2> QED BY <2>1, <2>2
<1>9. CASE RoundDone(l)
  BY <1>9 DEF RoundDone, TypeOK, silences, told
<1>10. CASE Wake(l)
  <2>1. /\ pc' \in [Loops -> {"off", "rule", "fetch", "send", "sleep"}]
        /\ at' \in [Loops -> 1..Len(RuleList) + 1]
    BY <1>0, <1>10 DEF Wake, TypeOK
  <2>2. \A k \in Loops : pc'[k] \in {"fetch", "send"} => at'[k] <= Len(RuleList)
    BY <1>10 DEF Wake, TypeOK
  <2> QED BY <1>10, <2>1, <2>2 DEF Wake, TypeOK, silences, told
<1> QED BY <1>1, <1>2, <1>3, <1>4, <1>5, <1>6, <1>7, <1>8, <1>9, <1>10 DEF LoopStep

LEMMA OutsideTypeOK ==
  ASSUME EngineAssumption, TypeOK,
         \/ Stop \/ Tick
         \/ \E s \in SilenceIds, target \in Rules \cup {All}, duration \in 1..MaxSilence :
              AddSilence(s, target, duration)
         \/ \E s \in SilenceIds : RemoveSilence(s)
         \/ \E r \in Rules : Change(r)
  PROVE  TypeOK'
<1>0. MaxAge \in Nat /\ MaxSilence \in Nat
  BY DEF EngineAssumption
<1>1. CASE Stop
  BY <1>1 DEF Stop, TypeOK, loop, silences, told
<1>2. CASE Tick
  <2>1. /\ since' \in [Loops -> 0..MaxAge] /\ age' \in [Rules -> 0..MaxAge]
        /\ raisedAt' \in [Rules -> 0..MaxAge]
    BY <1>2, OlderFacts DEF Tick, TypeOK
  <2>2. hush' \in [Rules -> 0..MaxAge]
    BY <1>0, <1>2, OlderFacts DEF Tick, TypeOK
  <2>3. left' \in [SilenceIds -> 0..MaxSilence]
    BY <1>0, <1>2 DEF Tick, TypeOK
  <2> QED BY <1>2, <2>1, <2>2, <2>3 DEF Tick, TypeOK, loop, told
<1>3. ASSUME NEW s \in SilenceIds, NEW target \in Rules \cup {All},
             NEW duration \in 1..MaxSilence, AddSilence(s, target, duration)
      PROVE  TypeOK'
  <2>1. hush' \in [Rules -> 0..MaxAge]
    BY <1>0, <1>3 DEF AddSilence, HushAfter, TypeOK
  <2>2. left' \in [SilenceIds -> 0..MaxSilence]
    BY <1>0, <1>3 DEF AddSilence, TypeOK
  <2> QED BY <1>3, <2>1, <2>2 DEF AddSilence, TypeOK, loop, told
<1>4. ASSUME NEW s \in SilenceIds, RemoveSilence(s) PROVE TypeOK'
  <2>1. hush' \in [Rules -> 0..MaxAge]
    BY <1>0, <1>4 DEF RemoveSilence, HushAfter, TypeOK
  <2>2. left' \in [SilenceIds -> 0..MaxSilence]
    BY <1>0, <1>4 DEF RemoveSilence, TypeOK
  <2> QED BY <1>4, <2>1, <2>2 DEF RemoveSilence, TypeOK, loop, told
<1>5. ASSUME NEW r \in Rules, Change(r) PROVE TypeOK'
  BY <1>5 DEF Change, TypeOK, loop, silences, told
<1> QED BY <1>1, <1>2, <1>3, <1>4, <1>5

LEMMA NextTypeOK == EngineAssumption /\ TypeOK /\ [Next]_vars => TypeOK'
<1> SUFFICES ASSUME EngineAssumption, TypeOK, [Next]_vars PROVE TypeOK'
  OBVIOUS
<1>1. CASE UNCHANGED vars
  BY <1>1 DEF TypeOK, vars, loop, silences, told
<1> QED BY <1>1, LoopTypeOK, OutsideTypeOK DEF Next

\* The types hold, whatever the number of loops.
THEOREM TypeCorrect == Spec => []TypeOK
BY InitTypeOK, NextTypeOK, EngineAssumption, PTL DEF Spec

-----------------------------------------------------------------------------
LEMMA NextRunning == TypeOK /\ RunningHasLoop /\ [Next]_vars => RunningHasLoop'
<1> SUFFICES ASSUME TypeOK, RunningHasLoop, [Next]_vars PROVE RunningHasLoop'
  OBVIOUS
<1>0. pc \in [Loops -> {"off", "rule", "fetch", "send", "sleep"}]
  BY DEF TypeOK
<1>1. ASSUME NEW l \in Loops, Start(l) \/ LoopStep(l) PROVE RunningHasLoop'
  <2>1. CASE Wake(l)
    BY <1>0, <2>1 DEF Wake, RunningHasLoop
  <2>2. CASE Start(l) \/ Skip(l) \/ Fetch(l) \/ NoVerdict(l) \/ FireUnformatted(l) \/ RoundDone(l)
    <3>1. \E what \in {"rule", "fetch", "sleep"} : pc' = [pc EXCEPT ![l] = what]
      BY <2>2 DEF Start, Skip, Fetch, NoVerdict, FireUnformatted, RoundDone, Advance
    <3> QED BY <1>0, <3>1 DEF RunningHasLoop
  <2>3. CASE Fire(l) \/ Resolve(l)
    <3>1. pc' = [pc EXCEPT ![l] = "send"]
      BY <2>3 DEF Fire, Resolve, Notify
    <3> QED BY <1>0, <3>1 DEF RunningHasLoop
  <2>4. CASE SendReturns(l)
    <3>1. pc' = pc \/ pc' = [pc EXCEPT ![l] = "rule"]
      BY <2>4 DEF SendReturns, Advance
    <3>2. running' = running
      BY <2>4 DEF SendReturns
    <3> QED BY <1>0, <3>1, <3>2 DEF RunningHasLoop
  <2> QED BY <1>1, <2>1, <2>2, <2>3, <2>4 DEF LoopStep
<1>2. CASE Stop
  BY <1>2 DEF Stop, RunningHasLoop
<1>3. ASSUME running' = running, UNCHANGED loop PROVE RunningHasLoop'
  BY <1>3 DEF RunningHasLoop, loop
<1> QED BY <1>1, <1>2, <1>3 DEF Next, Tick, AddSilence, RemoveSilence, Change, vars

\* The engine never counts as running with every loop gone.
THEOREM LoopWhileRunning == Spec => []RunningHasLoop
<1>1. Init => RunningHasLoop
  BY DEF Init, RunningHasLoop
<1> QED BY <1>1, NextRunning, TypeCorrect, PTL DEF Spec

-----------------------------------------------------------------------------
\* What the loops do to silences: only Fetch() enters "fetch", with a clock just
\* read, and only for a rule that is not silenced.
LEMMA LoopSilence ==
  ASSUME EngineAssumption, TypeOK, SilenceInv, NEW l \in Loops, Start(l) \/ LoopStep(l)
  PROVE  SilenceInv'
<1>0. /\ pc \in [Loops -> {"off", "rule", "fetch", "send", "sleep"}]
      /\ at \in [Loops -> 1..Len(RuleList) + 1]
  BY DEF TypeOK
<1>1. UNCHANGED <<left, covers, hush>>
  BY DEF Start, LoopStep, Skip, Fetch, NoVerdict, Fire, FireUnformatted, Resolve,
         SendReturns, RoundDone, Wake, silences
<1>2. \A r \in Rules : IsSilenced(r)' <=> IsSilenced(r)
  BY <1>1 DEF IsSilenced
<1>3. CASE Fetch(l)
  <2>1. RuleAt(l) \in Rules /\ ~IsSilenced(RuleAt(l))
    BY <1>3, AtRule DEF Fetch, Due
  <2>2. hush[RuleAt(l)] = 0
    BY <2>1 DEF SilenceInv
  <2>3. /\ since' = [since EXCEPT ![l] = 0] /\ pc' = [pc EXCEPT ![l] = "fetch"]
        /\ at' = at
    BY <1>3 DEF Fetch
  <2>4. since \in [Loops -> 0..MaxAge] /\ \A k \in Loops : RuleAt(k)' = RuleAt(k)
    BY <2>3 DEF TypeOK, RuleAt
  <2>5. ASSUME NEW k \in Loops, pc'[k] = "fetch" PROVE since'[k] >= hush'[RuleAt(k)']
    <3>1. CASE k = l
      BY <1>1, <2>2, <2>3, <2>4, <3>1
    <3>2. CASE k # l
      <4>1. since'[k] = since[k] /\ pc[k] = "fetch"
        BY <1>0, <2>3, <2>4, <2>5, <3>2
      <4> QED BY <1>1, <2>4, <4>1 DEF SilenceInv
    <3> QED BY <3>1, <3>2
  <2> QED BY <1>1, <1>2, <2>5 DEF SilenceInv
<1>4. CASE ~Fetch(l)
  <2>1. since' = since
    BY <1>4 DEF Start, LoopStep, Skip, NoVerdict, Fire, FireUnformatted, Resolve,
                SendReturns, RoundDone, Wake
  <2>2. \A k \in Loops : pc'[k] = "fetch" => pc[k] = "fetch" /\ at'[k] = at[k]
    BY <1>0, <1>4 DEF Start, LoopStep, Skip, NoVerdict, Fire, FireUnformatted, Resolve,
                SendReturns, RoundDone, Wake, Advance, Notify
  <2> QED BY <1>1, <1>2, <2>1, <2>2 DEF SilenceInv, RuleAt
<1> QED BY <1>3, <1>4

\* A change of the silences shortens no clock reading and no silence that lasts.
LEMMA OutsideSilence ==
  ASSUME EngineAssumption, TypeOK, SilenceInv,
         \/ Stop \/ Tick
         \/ \E s \in SilenceIds, target \in Rules \cup {All}, duration \in 1..MaxSilence :
              AddSilence(s, target, duration)
         \/ \E s \in SilenceIds : RemoveSilence(s)
         \/ \E r \in Rules : Change(r)
  PROVE  SilenceInv'
<1>0. /\ hush \in [Rules -> 0..MaxAge] /\ since \in [Loops -> 0..MaxAge]
      /\ MaxAge \in Nat /\ \A l \in Loops : pc[l] = "fetch" => RuleAt(l) \in Rules
  BY AtRule DEF TypeOK, EngineAssumption
<1>1. ASSUME UNCHANGED <<pc, at, since, left, covers, hush>> PROVE SilenceInv'
  BY <1>1 DEF SilenceInv, RuleAt, IsSilenced
<1>2. CASE Tick
  <2>1. /\ pc' = pc /\ at' = at /\ since' = [l \in Loops |-> Older(since[l])]
        /\ hush' = [r \in Rules |-> IF IsSilenced(r)' THEN Older(hush[r]) ELSE 0]
    BY <1>2 DEF Tick, loop
  <2>2. \A r \in Rules : ~IsSilenced(r)' => hush'[r] = 0
    BY <2>1
  <2>3. \A r \in Rules : hush'[r] <= Older(hush[r]) /\ hush'[r] \in 0..MaxAge
    BY <1>0, <2>1, OlderFacts
  <2>4. ASSUME NEW l \in Loops, pc'[l] = "fetch" PROVE since'[l] >= hush'[RuleAt(l)']
    <3>1. RuleAt(l)' = RuleAt(l) /\ RuleAt(l) \in Rules /\ pc[l] = "fetch"
      BY <1>0, <2>1, <2>4 DEF RuleAt
    <3>2. hush[RuleAt(l)] <= since[l] /\ since'[l] = Older(since[l])
      BY <2>1, <3>1 DEF SilenceInv
    <3>3. hush[RuleAt(l)] \in 0..MaxAge /\ since[l] \in 0..MaxAge
      BY <1>0, <3>1
    <3>4. Older(hush[RuleAt(l)]) <= Older(since[l]) /\ Older(hush[RuleAt(l)]) \in 0..MaxAge
          /\ Older(since[l]) \in 0..MaxAge
      BY <3>2, <3>3, OlderFacts
    <3>5. hush'[RuleAt(l)] <= Older(hush[RuleAt(l)]) /\ hush'[RuleAt(l)] \in 0..MaxAge
      BY <2>3, <3>1
    <3> QED BY <1>0, <3>1, <3>2, <3>4, <3>5
  <2> QED BY <2>2, <2>4 DEF SilenceInv
<1>3. ASSUME HushAfter, UNCHANGED <<pc, at, since>> PROVE SilenceInv'
  <2>1. hush' = [r \in Rules |-> IF IsSilenced(r)' THEN hush[r] ELSE 0]
    BY <1>3 DEF HushAfter
  <2>2. \A r \in Rules : ~IsSilenced(r)' => hush'[r] = 0
    BY <2>1
  <2>3. ASSUME NEW l \in Loops, pc'[l] = "fetch" PROVE since'[l] >= hush'[RuleAt(l)']
    <3>1. RuleAt(l)' = RuleAt(l) /\ RuleAt(l) \in Rules /\ pc[l] = "fetch"
      BY <1>0, <1>3, <2>3 DEF RuleAt
    <3>2. hush[RuleAt(l)] <= since[l] /\ since'[l] = since[l]
      BY <1>3, <3>1 DEF SilenceInv
    <3>3. hush'[RuleAt(l)] = hush[RuleAt(l)] \/ hush'[RuleAt(l)] = 0
      BY <2>1, <3>1
    <3>4. since[l] \in 0..MaxAge
      BY <1>0
    <3> QED BY <1>0, <3>1, <3>2, <3>3, <3>4
  <2> QED BY <2>2, <2>3 DEF SilenceInv
<1>4. Tick \/ (HushAfter /\ UNCHANGED <<pc, at, since>>)
        \/ UNCHANGED <<pc, at, since, left, covers, hush>>
  BY DEF Stop, AddSilence, RemoveSilence, Change, loop, silences
<1> QED BY <1>1, <1>2, <1>3, <1>4

LEMMA NextSilence ==
  EngineAssumption /\ TypeOK /\ SilenceInv /\ [Next]_vars => SilenceInv'
<1> SUFFICES ASSUME EngineAssumption, TypeOK, SilenceInv, [Next]_vars PROVE SilenceInv'
  OBVIOUS
<1>1. CASE UNCHANGED vars
  BY <1>1 DEF SilenceInv, RuleAt, IsSilenced, vars, loop, silences
<1> QED BY <1>1, LoopSilence, OutsideSilence DEF Next

\* A lasting silence lets only evaluations older than itself notify, for any
\* number of loops and any silences that overlap.
THEOREM SilencesSettle == Spec => SilenceSettles
<1>1. Init => SilenceInv
  BY DEF Init, SilenceInv
<1>2. SilenceInv => \A l \in Loops : Notifies(l) /\ IsSilenced(RuleAt(l))
                                       => since[l] >= hush[RuleAt(l)]
  BY DEF SilenceInv, Notifies
<1> QED BY <1>1, <1>2, NextSilence, TypeCorrect, EngineAssumption, PTL DEF Spec, SilenceSettles

-----------------------------------------------------------------------------
\* A single loop: nothing else fires while it waits for the data.
LEMMA NextCooldown ==
  ASSUME EngineAssumption, OneLoop, TypeOK, CooldownInv, [Next]_vars
  PROVE  CooldownInv'
<1>0. /\ pc \in [Loops -> {"off", "rule", "fetch", "send", "sleep"}]
      /\ at \in [Loops -> 1..Len(RuleList) + 1]
      /\ age \in [Rules -> 0..MaxAge] /\ raisedAt \in [Rules -> 0..MaxAge]
      /\ since \in [Loops -> 0..MaxAge] /\ MaxAge \in Nat /\ Cooldown \in [Rules -> Nat]
  BY DEF TypeOK, EngineAssumption
<1>1. ASSUME NEW l \in Loops, Fetch(l) PROVE CooldownInv'
  <2>1. RuleAt(l) \in Rules /\ age[RuleAt(l)] >= Cooldown[RuleAt(l)]
    BY <1>1, AtRule DEF Fetch, Due
  <2>2. since'[l] = 0 /\ age' = age /\ raisedAt' = raisedAt /\ RuleAt(l)' = RuleAt(l)
    BY <1>0, <1>1 DEF Fetch, RuleAt
  <2>3. \A k \in Loops : k = l
    BY DEF OneLoop
  <2> QED BY <1>0, <2>1, <2>2, <2>3 DEF CooldownInv
<1>2. ASSUME NEW l \in Loops, Fire(l) \/ FireUnformatted(l) PROVE CooldownInv'
  <2>1. pc[l] = "fetch" /\ RuleAt(l) \in Rules
    BY <1>2, AtRule DEF Fire, FireUnformatted, Awaits
  <2>2. age' = [age EXCEPT ![RuleAt(l)] = since[l]]
    BY <1>2 DEF Fire, FireUnformatted, StampFire
  <2>3. raisedAt' = raisedAt \/ raisedAt' = [raisedAt EXCEPT ![RuleAt(l)] = since[l]]
    BY <1>2 DEF Fire, FireUnformatted
  <2>4. /\ since[l] <= age[RuleAt(l)] /\ age[RuleAt(l)] <= raisedAt[RuleAt(l)]
        /\ since[l] \in 0..MaxAge /\ age[RuleAt(l)] \in 0..MaxAge
        /\ raisedAt[RuleAt(l)] \in 0..MaxAge
    BY <1>0, <2>1 DEF CooldownInv
  <2>5. \A r \in Rules : age'[r] <= raisedAt'[r]
    <3>1. ASSUME NEW r \in Rules, r # RuleAt(l) PROVE age'[r] <= raisedAt'[r]
      <4>1. age'[r] = age[r] /\ raisedAt'[r] = raisedAt[r]
        BY <1>0, <2>2, <2>3, <3>1
      <4> QED BY <4>1 DEF CooldownInv
    <3>2. age'[RuleAt(l)] <= raisedAt'[RuleAt(l)]
      <4>1. age'[RuleAt(l)] = since[l]
        BY <1>0, <2>1, <2>2
      <4>2. raisedAt'[RuleAt(l)] = raisedAt[RuleAt(l)] \/ raisedAt'[RuleAt(l)] = since[l]
        BY <1>0, <2>1, <2>3
      <4> QED BY <1>0, <2>4, <4>1, <4>2
    <3> QED BY <3>1, <3>2
  <2>6. pc'[l] # "fetch"
    BY <1>0, <1>2 DEF Fire, FireUnformatted, Notify, Advance
  <2>7. \A k \in Loops : k = l
    BY DEF OneLoop
  <2> QED BY <2>5, <2>6, <2>7 DEF CooldownInv
<1>3. ASSUME NEW l \in Loops, ~Fetch(l), ~Fire(l), ~FireUnformatted(l), Start(l) \/ LoopStep(l)
      PROVE  CooldownInv'
  <2>1. age' = age /\ raisedAt' = raisedAt
    BY <1>3 DEF Start, LoopStep, Skip, NoVerdict, Resolve, SendReturns, RoundDone, Wake
  <2>2. pc'[l] # "fetch"
    BY <1>0, <1>3 DEF Start, LoopStep, Skip, NoVerdict, Resolve, SendReturns, RoundDone,
                      Wake, Awaits, Advance, Notify
  <2>3. \A k \in Loops : k = l
    BY DEF OneLoop
  <2> QED BY <2>1, <2>2, <2>3 DEF CooldownInv
<1>4. CASE Tick
  <2>1. /\ pc' = pc /\ at' = at /\ since' = [l \in Loops |-> Older(since[l])]
        /\ age' = [r \in Rules |-> Older(age[r])]
        /\ raisedAt' = [r \in Rules |-> Older(raisedAt[r])]
    BY <1>4 DEF Tick, loop
  <2>2. ASSUME NEW r \in Rules PROVE age'[r] <= raisedAt'[r]
    <3>1. age[r] \in 0..MaxAge /\ raisedAt[r] \in 0..MaxAge /\ age[r] <= raisedAt[r]
      BY <1>0 DEF CooldownInv
    <3>2. Older(age[r]) <= Older(raisedAt[r])
      BY <3>1, OlderFacts
    <3> QED BY <2>1, <3>2
  <2>3. ASSUME NEW l \in Loops, pc'[l] = "fetch"
        PROVE  age'[RuleAt(l)'] >= Cooldown[RuleAt(l)'] /\ since'[l] <= age'[RuleAt(l)']
    <3>1. pc[l] = "fetch" /\ RuleAt(l)' = RuleAt(l) /\ RuleAt(l) \in Rules
      BY <2>1, <2>3, AtRule DEF RuleAt
    <3>2. /\ age[RuleAt(l)] \in 0..MaxAge /\ since[l] \in 0..MaxAge
          /\ Cooldown[RuleAt(l)] \in Nat
          /\ age[RuleAt(l)] >= Cooldown[RuleAt(l)] /\ since[l] <= age[RuleAt(l)]
      BY <1>0, <3>1 DEF CooldownInv
    <3>3. /\ Older(since[l]) <= Older(age[RuleAt(l)])
          /\ Older(age[RuleAt(l)]) >= age[RuleAt(l)] /\ Older(age[RuleAt(l)]) \in 0..MaxAge
      BY <3>2, OlderFacts
    <3>4. age'[RuleAt(l)] = Older(age[RuleAt(l)]) /\ since'[l] = Older(since[l])
      BY <2>1, <3>1
    <3>5. Older(age[RuleAt(l)]) >= Cooldown[RuleAt(l)]
      BY <1>0, <3>2, <3>3
    <3> QED BY <3>1, <3>3, <3>4, <3>5
  <2> QED BY <2>2, <2>3 DEF CooldownInv
<1>5. ASSUME UNCHANGED <<pc, at, since, age, raisedAt>> PROVE CooldownInv'
  BY <1>5 DEF CooldownInv, RuleAt
<1> QED BY <1>1, <1>2, <1>3, <1>4, <1>5
        DEF Next, Stop, AddSilence, RemoveSilence, Change, vars, loop

\* With one loop no alert is raised again before its cooldown is over, whichever
\* rules fail, however long the data and the channels take.
THEOREM OneLoopKeepsCooldown == OneLoop => (Spec => CooldownKept)
<1> SUFFICES ASSUME OneLoop PROVE Spec => CooldownKept
  OBVIOUS
<1>1. Init => CooldownInv
  BY EngineAssumption DEF Init, CooldownInv, EngineAssumption
<1>2. TypeOK /\ CooldownInv /\ [Next]_vars => CooldownInv'
  BY NextCooldown, EngineAssumption
<1>3. TypeOK /\ CooldownInv =>
        \A l \in Loops : Notifies(l) /\ active'[RuleAt(l)] = l
          => raisedAt[RuleAt(l)] >= Cooldown[RuleAt(l)]
  <2> SUFFICES ASSUME TypeOK, CooldownInv, NEW l \in Loops, pc[l] = "fetch"
               PROVE  raisedAt[RuleAt(l)] >= Cooldown[RuleAt(l)]
    BY DEF Notifies
  <2>1. RuleAt(l) \in Rules
    BY AtRule, EngineAssumption
  <2>2. /\ age[RuleAt(l)] \in 0..MaxAge /\ raisedAt[RuleAt(l)] \in 0..MaxAge
        /\ Cooldown[RuleAt(l)] \in Nat /\ MaxAge \in Nat
    BY <2>1, EngineAssumption DEF TypeOK, EngineAssumption
  <2>3. age[RuleAt(l)] >= Cooldown[RuleAt(l)] /\ age[RuleAt(l)] <= raisedAt[RuleAt(l)]
    BY <2>1 DEF CooldownInv
  <2> QED BY <2>2, <2>3
<1> QED BY <1>1, <1>2, <1>3, TypeCorrect, PTL DEF Spec, CooldownKept

-----------------------------------------------------------------------------
\* A send reaches its channel or is recorded as missed, and no other.
LEMMA TellReaches ==
  ASSUME TypeOK, NEW c \in 1..NumChannels, NEW r \in Rules,
         NEW what \in {"trigger", "resolve"}, Tell(c, r, what)
  PROVE  /\ c \in missed'[r] \/ view'[c][r] = what
         /\ \A d \in 1..NumChannels, q \in Rules : d # c \/ q # r =>
              view'[d][q] = view[d][q] /\ (d \in missed'[q] <=> d \in missed[q])
<1>0. /\ view \in [1..NumChannels -> [Rules -> {"trigger", "resolve"}]]
      /\ missed \in [Rules -> SUBSET (1..NumChannels)]
  BY DEF TypeOK
<1>1. CASE /\ view' = [view EXCEPT ![c][r] = what]
           /\ missed' = [missed EXCEPT ![r] = @ \ {c}]
  <2>1. view[c] \in [Rules -> {"trigger", "resolve"}]
    BY <1>0
  <2> QED BY <1>0, <1>1, <2>1
<1>2. CASE missed' = [missed EXCEPT ![r] = @ \cup {c}] /\ UNCHANGED view
  BY <1>0, <1>2
<1> QED BY <1>1, <1>2 DEF Tell

\* While the only loop is not sending, every channel agrees on every rule.
LEMMA IdleAgrees ==
  ASSUME OneLoop, ChannelInv, NEW l \in Loops, pc[l] # "send"
  PROVE  \A r \in Rules, c \in 1..NumChannels : Agrees(c, r)
<1>1. \A k \in Loops, r \in Rules : ~Sending(k, r)
  BY DEF OneLoop, Sending
<1> QED BY <1>1 DEF ChannelInv

\* The first channel of a notification is told what the engine now holds.
LEMMA NotifyAgrees ==
  ASSUME EngineAssumption, OneLoop, TypeOK, ChannelInv, NEW l \in Loops,
         pc[l] = "fetch", NEW what \in {"trigger", "resolve"}, Notify(l, what),
         NEW new \in Loops \cup {NoLoop}, what = "trigger" <=> new # NoLoop,
         active' = [active EXCEPT ![RuleAt(l)] = new], note'[l] = what
  PROVE  ChannelInv'
<1>0. /\ pc \in [Loops -> {"off", "rule", "fetch", "send", "sleep"}]
      /\ chan \in [Loops -> 1..NumChannels] /\ active \in [Rules -> Loops \cup {NoLoop}]
      /\ RuleAt(l) \in Rules /\ 1 \in 1..NumChannels /\ \A k \in Loops : k = l
  <2>1. RuleAt(l) \in Rules
    BY AtRule
  <2>2. 1 \in 1..NumChannels
    BY DEF EngineAssumption
  <2> QED BY <2>1, <2>2 DEF TypeOK, OneLoop
<1>1. /\ pc'[l] = "send" /\ chan'[l] = 1 /\ RuleAt(l)' = RuleAt(l)
      /\ active'[RuleAt(l)] = new
  BY <1>0 DEF Notify, RuleAt
<1>2. /\ 1 \in missed'[RuleAt(l)] \/ view'[1][RuleAt(l)] = what
      /\ \A d \in 1..NumChannels, q \in Rules : d # 1 \/ q # RuleAt(l) =>
           view'[d][q] = view[d][q] /\ (d \in missed'[q] <=> d \in missed[q])
  <2>1. PICK r \in Rules : r = RuleAt(l)
    BY <1>0
  <2>2. Tell(1, r, what)
    BY <2>1 DEF Notify, Tell
  <2>3. /\ 1 \in missed'[r] \/ view'[1][r] = what
        /\ \A d \in 1..NumChannels, q \in Rules : d # 1 \/ q # r =>
             view'[d][q] = view[d][q] /\ (d \in missed'[q] <=> d \in missed[q])
    BY <1>0, <2>2, TellReaches
  <2> QED BY <2>1, <2>3
<1>3. \A r \in Rules, c \in 1..NumChannels : Agrees(c, r)
  BY IdleAgrees
<1>4. \A r \in Rules \ {RuleAt(l)}, c \in 1..NumChannels : Agrees(c, r)'
  BY <1>0, <1>2, <1>3 DEF Agrees
<1>5. Agrees(1, RuleAt(l))'
  BY <1>1, <1>2 DEF Agrees
<1>6. Sending(l, RuleAt(l))'
  BY <1>1 DEF Sending
<1>7. \A c \in 1..chan'[l] : c = 1
  BY <1>1
<1> QED BY <1>0, <1>1, <1>4, <1>5, <1>6, <1>7 DEF ChannelInv

LEMMA SendAgrees ==
  ASSUME EngineAssumption, OneLoop, TypeOK, ChannelInv, NEW l \in Loops, SendReturns(l)
  PROVE  ChannelInv'
<1>0. /\ pc \in [Loops -> {"off", "rule", "fetch", "send", "sleep"}]
      /\ chan \in [Loops -> 1..NumChannels] /\ chan[l] \in 1..NumChannels
      /\ NumChannels \in Nat \ {0}
      /\ RuleAt(l) \in Rules /\ pc[l] = "send" /\ note[l] \in {"trigger", "resolve"}
      /\ \A k \in Loops : k = l
  BY AtRule DEF TypeOK, OneLoop, EngineAssumption, SendReturns, Awaits
<1>1. active' = active /\ note' = note
  BY DEF SendReturns
<1>2. \A r \in Rules \ {RuleAt(l)}, c \in 1..NumChannels : Agrees(c, r)
  <2>1. \A r \in Rules \ {RuleAt(l)}, k \in Loops : ~Sending(k, r)
    BY <1>0 DEF Sending
  <2> QED BY <2>1 DEF ChannelInv
<1>3. /\ note[l] = "trigger" <=> active[RuleAt(l)] # NoLoop
      /\ \A c \in 1..chan[l] : Agrees(c, RuleAt(l))
  BY <1>0 DEF ChannelInv
<1>4. CASE chan[l] < NumChannels
  <2>1. chan[l] + 1 \in 1..NumChannels
    BY <1>0, <1>4
  <2>2. /\ chan'[l] = chan[l] + 1 /\ pc' = pc /\ at' = at
        /\ Tell(chan[l] + 1, RuleAt(l), note[l])
    BY <1>0, <1>4 DEF SendReturns
  <2>3. /\ chan[l] + 1 \in missed'[RuleAt(l)] \/ view'[chan[l] + 1][RuleAt(l)] = note[l]
        /\ \A d \in 1..NumChannels, q \in Rules : d # chan[l] + 1 \/ q # RuleAt(l) =>
             view'[d][q] = view[d][q] /\ (d \in missed'[q] <=> d \in missed[q])
    <3>1. PICK r \in Rules, c \in 1..NumChannels, what \in {"trigger", "resolve"} :
            r = RuleAt(l) /\ c = chan[l] + 1 /\ what = note[l]
      BY <1>0, <2>1
    <3>2. Tell(c, r, what)
      BY <2>2, <3>1 DEF Tell
    <3>3. /\ c \in missed'[r] \/ view'[c][r] = what
          /\ \A d \in 1..NumChannels, q \in Rules : d # c \/ q # r =>
               view'[d][q] = view[d][q] /\ (d \in missed'[q] <=> d \in missed[q])
      BY <3>2, TellReaches
    <3> QED BY <3>1, <3>3
  <2>4. RuleAt(l)' = RuleAt(l) /\ Sending(l, RuleAt(l))'
    BY <1>0, <2>2 DEF RuleAt, Sending
  <2>5. \A r \in Rules \ {RuleAt(l)}, c \in 1..NumChannels : Agrees(c, r)'
    BY <1>1, <1>2, <2>3 DEF Agrees
  <2>6. ASSUME NEW c \in 1..chan'[l] PROVE Agrees(c, RuleAt(l))'
    <3>1. CASE c = chan[l] + 1
      BY <1>1, <1>3, <2>3, <2>4, <3>1 DEF Agrees
    <3>2. CASE c # chan[l] + 1
      <4>1. c \in 1..chan[l] /\ c \in 1..NumChannels
        BY <1>0, <2>1, <2>2, <3>2
      <4>2. /\ view'[c][RuleAt(l)] = view[c][RuleAt(l)]
            /\ c \in missed'[RuleAt(l)] <=> c \in missed[RuleAt(l)]
        BY <1>0, <2>3, <3>2, <4>1
      <4>3. Agrees(c, RuleAt(l))
        BY <1>3, <4>1
      <4> QED BY <1>1, <2>4, <4>2, <4>3 DEF Agrees
    <3> QED BY <3>1, <3>2
  <2> QED BY <1>0, <1>1, <1>3, <2>2, <2>4, <2>5, <2>6 DEF ChannelInv
<1>5. CASE ~(chan[l] < NumChannels)
  <2>1. chan[l] = NumChannels
    BY <1>0, <1>5
  <2>2. /\ pc'[l] = "rule" /\ UNCHANGED told
    BY <1>0, <1>5 DEF SendReturns, Advance
  <2>3. \A r \in Rules, c \in 1..NumChannels : Agrees(c, r)
    BY <1>2, <1>3, <2>1
  <2>4. \A r \in Rules, c \in 1..NumChannels : Agrees(c, r)'
    BY <1>1, <2>2, <2>3 DEF Agrees, told
  <2> QED BY <1>0, <2>2, <2>4 DEF ChannelInv
<1> QED BY <1>4, <1>5

LEMMA NextChannel ==
  ASSUME EngineAssumption, OneLoop, TypeOK, ChannelInv, [Next]_vars
  PROVE  ChannelInv'
<1>0. /\ pc \in [Loops -> {"off", "rule", "fetch", "send", "sleep"}]
      /\ note \in [Loops -> {"trigger", "resolve"}]
  BY DEF TypeOK
<1>1. ASSUME NEW l \in Loops, Fire(l) PROVE ChannelInv'
  <2>1. /\ pc[l] = "fetch" /\ Notify(l, "trigger") /\ note'[l] = "trigger"
        /\ active' = [active EXCEPT ![RuleAt(l)] = l] /\ l # NoLoop
    BY <1>0, <1>1, EngineAssumption DEF Fire, Awaits, EngineAssumption
  <2> QED BY <2>1, NotifyAgrees
<1>2. ASSUME NEW l \in Loops, Resolve(l) PROVE ChannelInv'
  <2>1. /\ pc[l] = "fetch" /\ Notify(l, "resolve") /\ note'[l] = "resolve"
        /\ active' = [active EXCEPT ![RuleAt(l)] = NoLoop]
    BY <1>0, <1>2 DEF Resolve, Awaits
  <2> QED BY <2>1, NotifyAgrees
<1>3. ASSUME NEW l \in Loops, SendReturns(l) PROVE ChannelInv'
  BY <1>3, SendAgrees
<1>4. ASSUME NEW l \in Loops, ~Fire(l), ~Resolve(l), ~SendReturns(l), Start(l) \/ LoopStep(l)
      PROVE  ChannelInv'
  <2>1. pc[l] # "send" /\ pc'[l] # "send"
    BY <1>0, <1>4 DEF Start, LoopStep, Skip, Fetch, NoVerdict, FireUnformatted, RoundDone,
                      Wake, Awaits, Advance, Deciding
  <2>2. UNCHANGED <<active, view, missed>>
    BY <1>4 DEF Start, LoopStep, Skip, Fetch, NoVerdict, FireUnformatted, RoundDone,
                Wake, told
  <2>3. \A r \in Rules, c \in 1..NumChannels : Agrees(c, r)'
    BY <2>1, <2>2, IdleAgrees DEF Agrees
  <2>4. \A k \in Loops : k = l
    BY DEF OneLoop
  <2> QED BY <2>1, <2>3, <2>4 DEF ChannelInv
<1>5. ASSUME UNCHANGED <<loop, active, told>> PROVE ChannelInv'
  BY <1>5 DEF ChannelInv, Agrees, Sending, RuleAt, loop, told
<1> QED BY <1>1, <1>2, <1>3, <1>4, <1>5
        DEF Next, Stop, Tick, AddSilence, RemoveSilence, Change, vars

\* With one loop the channels agree with the engine between notifications,
\* for any number of channels and whichever sends fail.
THEOREM OneLoopAgrees == OneLoop => (Spec => []ChannelsAgree)
<1> SUFFICES ASSUME OneLoop PROVE Spec => []ChannelsAgree
  OBVIOUS
<1>1. Init => ChannelInv
  BY DEF Init, ChannelInv, Agrees
<1>2. TypeOK /\ ChannelInv /\ [Next]_vars => ChannelInv'
  BY NextChannel, EngineAssumption
<1>3. ChannelInv => ChannelsAgree
  BY DEF ChannelInv, ChannelsAgree, Agrees
<1> QED BY <1>1, <1>2, <1>3, TypeCorrect, PTL DEF Spec
=============================================================================
