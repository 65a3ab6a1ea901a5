----------------------------- MODULE AlertEngine -----------------------------
(***************************************************************************)
(* alerting/engine.py, class AlertEngine, with alerting/silence.py.        *)
(*                                                                         *)
(* start() is a coroutine: it evaluates the rules one after the other and  *)
(* sleeps.  Nothing keeps it from being called again while an earlier call *)
(* still sleeps or evaluates, so there is a set of loops.  They share the  *)
(* event loop: one runs until it awaits.  Times are ages, so that time is  *)
(* unbounded: beyond MaxAge an age is only compared to smaller numbers.    *)
(***************************************************************************)
EXTENDS Integers, Sequences

CONSTANTS
  Loops, NoLoop,  \* calls of start(); none of them
  RuleList,       \* self._rules: rule names, in order, all different
  Cooldown,       \* cooldown_seconds of each rule
  Flaky,          \* rules whose query may fail or whose evaluator may raise
  Unformattable,  \* rules whose template needs a key that their data lacks
  NumChannels,    \* len(rule.channels)
  SendsFail,      \* whether a channel may raise or not be reached
  SilenceIds,     \* bound: silences that exist at a time
  MaxSilence,     \* bound: the longest duration of a silence
  MaxAge          \* bound: ages are counted up to here

Rules == {RuleList[i] : i \in 1..Len(RuleList)}
All == "*"

ASSUME EngineAssumption ==
  /\ NoLoop \notin Loops
  /\ RuleList \in Seq(Rules) /\ RuleList # << >> /\ All \notin Rules
  /\ \A i, j \in 1..Len(RuleList) : RuleList[i] = RuleList[j] => i = j
  /\ Cooldown \in [Rules -> Nat]
  /\ Flaky \subseteq Rules /\ Unformattable \subseteq Rules
  /\ NumChannels \in Nat \ {0} /\ SendsFail \in BOOLEAN
  /\ MaxSilence \in Nat
  /\ MaxAge \in Nat /\ \A r \in Rules : Cooldown[r] <= MaxAge

VARIABLES
  running,  \* self._running
  pc,       \* where each loop is
  at,       \* the rule it is at, by its place in RuleList
  chan,     \* the channel it is sending to
  note,     \* what the dict it is sending says: "trigger" or "resolve"
  since,    \* how long ago it read the clock for the rule it is at
  age,      \* how long ago _last_fires says each rule fired
  active,   \* _active_alerts: the loop whose alert it is, for each rule
  left,     \* how long each silence still lasts
  covers,   \* the rule, or All, each silence is for
  bad,      \* environment: whether the rule's condition holds in the data
  view,     \* environment: the last each channel was told of each rule
  missed,   \* environment: channels that missed a rule's last notification
  hush,     \* history: how long each rule has been silenced
  raisedAt  \* history: how old the clock reading of its last alert is

loop == <<pc, at, chan, note>>
silences == <<left, covers>>
told == <<view, missed>>
vars == <<running, loop, since, age, active, silences, bad, told, hush, raisedAt>>

RuleAt(l) == RuleList[at[l]]
Older(n) == IF n < MaxAge THEN n + 1 ELSE n

\* is_silenced(): the second definition in the class, which knows "*".
IsSilenced(r) == \E s \in SilenceIds : left[s] > 0 /\ covers[s] \in {r, All}

\* _last_fires.get(rule.name, 0): a rule that never fired has cooled down.
Init == /\ running = FALSE
        /\ pc = [l \in Loops |-> "off"] /\ at = [l \in Loops |-> 1]
        /\ chan = [l \in Loops |-> 1] /\ note = [l \in Loops |-> "trigger"]
        /\ since = [l \in Loops |-> 0] /\ age = [r \in Rules |-> MaxAge]
        /\ active = [r \in Rules |-> NoLoop]
        /\ left = [s \in SilenceIds |-> 0] /\ covers = [s \in SilenceIds |-> All]
        /\ bad = [r \in Rules |-> FALSE]
        /\ view = [c \in 1..NumChannels |-> [r \in Rules |-> "resolve"]]
        /\ missed = [r \in Rules |-> {}]
        /\ hush = [r \in Rules |-> 0] /\ raisedAt = [r \in Rules |-> MaxAge]

\* Nothing else runs while a loop is between two awaits.
AtAwait == \A l \in Loops : pc[l] # "rule"
Awaits(l, what) == pc[l] = what /\ AtAwait

-----------------------------------------------------------------------------
Start(l) ==
  /\ Awaits(l, "off")
  /\ running' = TRUE
  /\ pc' = [pc EXCEPT ![l] = "rule"] /\ at' = [at EXCEPT ![l] = 1]
  /\ UNCHANGED <<chan, note, since, age, active, silences, bad, told, hush, raisedAt>>

Stop ==
  /\ running /\ AtAwait
  /\ running' = FALSE
  /\ UNCHANGED <<loop, since, age, active, silences, bad, told, hush, raisedAt>>

\* The loop returns from _evaluate_rule() and goes to the next rule.
Advance(l) == /\ pc' = [pc EXCEPT ![l] = "rule"]
              /\ at' = [at EXCEPT ![l] = @ + 1]

Deciding(l) == pc[l] = "rule" /\ at[l] <= Len(RuleList)
\* Slip: silences are not looked at.
DueSilenced(r) == age[r] >= Cooldown[r]
Due(r) == ~IsSilenced(r) /\ age[r] >= Cooldown[r]

Skip(l) ==
  /\ Deciding(l) /\ ~Due(RuleAt(l))
  /\ Advance(l)
  /\ UNCHANGED <<running, chan, note, since, age, active, silences, bad,
                 told, hush, raisedAt>>

\* Read the clock and wait for the data.
Fetch(l) ==
  /\ Deciding(l) /\ Due(RuleAt(l))
  /\ since' = [since EXCEPT ![l] = 0]
  /\ pc' = [pc EXCEPT ![l] = "fetch"]
  /\ UNCHANGED <<running, at, chan, note, age, active, silences, bad,
                 told, hush, raisedAt>>

\* Slip: one handler around all rules, so that an exception ends the round.
NoVerdictStops(l) ==
  /\ Awaits(l, "fetch")
  /\ \/ RuleAt(l) \in Flaky
     \/ ~bad[RuleAt(l)] /\ active[RuleAt(l)] = NoLoop
  /\ pc' = [pc EXCEPT ![l] = "rule"]
  /\ at' = [at EXCEPT ![l] = IF RuleAt(l) \in Flaky THEN Len(RuleList) + 1 ELSE @ + 1]
  /\ UNCHANGED <<running, chan, note, since, age, active, silences, bad,
                 told, hush, raisedAt>>

\* The query fails or returns None; or the evaluator raises, which the handler
\* in _evaluate_all() swallows; or it does not fire and nothing is active.
NoVerdict(l) ==
  /\ Awaits(l, "fetch")
  /\ \/ RuleAt(l) \in Flaky
     \/ ~bad[RuleAt(l)] /\ active[RuleAt(l)] = NoLoop
  /\ Advance(l)
  /\ UNCHANGED <<running, chan, note, since, age, active, silences, bad,
                 told, hush, raisedAt>>

\* channel.send(): whatever goes wrong in it is swallowed, there or here.
Tell(c, r, what) ==
  \/ /\ view' = [view EXCEPT ![c][r] = what]
     /\ missed' = [missed EXCEPT ![r] = @ \ {c}]
  \/ /\ SendsFail
     /\ missed' = [missed EXCEPT ![r] = @ \cup {c}]
     /\ UNCHANGED view

\* The first channel is told at once; the loop then waits for its answer.
Notify(l, what) ==
  /\ Tell(1, RuleAt(l), what)
  /\ pc' = [pc EXCEPT ![l] = "send"] /\ chan' = [chan EXCEPT ![l] = 1]
  /\ UNCHANGED at

\* Slip: the firing is not noted.
StampFireNever(l) == UNCHANGED age

\* _last_fires is set before the message is formatted: if that raises the alert
\* is neither active nor sent, and the rule cools down all the same.
StampFire(l) == age' = [age EXCEPT ![RuleAt(l)] = since[l]]

Fire(l) ==
  /\ Awaits(l, "fetch") /\ bad[RuleAt(l)] /\ RuleAt(l) \notin Unformattable
  /\ StampFire(l)
  /\ raisedAt' = [raisedAt EXCEPT ![RuleAt(l)] = since[l]]
  /\ active' = [active EXCEPT ![RuleAt(l)] = l]
  /\ note' = [note EXCEPT ![l] = "trigger"]
  /\ Notify(l, "trigger")
  /\ UNCHANGED <<running, since, silences, bad, hush>>

FireUnformatted(l) ==
  /\ Awaits(l, "fetch") /\ bad[RuleAt(l)] /\ RuleAt(l) \in Unformattable
  /\ StampFire(l)
  /\ Advance(l)
  /\ UNCHANGED <<running, chan, note, since, active, silences, bad,
                 told, hush, raisedAt>>

Sending(l, r) == pc[l] = "send" /\ RuleAt(l) = r

\* Slip: an alert stays among the active ones when it is resolved.
ResolveKeeps(l) ==
  /\ Awaits(l, "fetch") /\ ~bad[RuleAt(l)] /\ active[RuleAt(l)] # NoLoop
  /\ note' = [note EXCEPT ![l] = "resolve"]
  /\ Notify(l, "resolve")
  /\ UNCHANGED <<running, since, age, active, silences, bad, hush, raisedAt>>

\* The alert's own dict is marked as resolved, also for a loop still sending it.
Resolve(l) ==
  /\ Awaits(l, "fetch") /\ ~bad[RuleAt(l)] /\ active[RuleAt(l)] # NoLoop
  /\ active' = [active EXCEPT ![RuleAt(l)] = NoLoop]
  /\ note' = [k \in Loops |->
                IF k = l \/ (k = active[RuleAt(l)] /\ Sending(k, RuleAt(l)))
                THEN "resolve" ELSE note[k]]
  /\ Notify(l, "resolve")
  /\ UNCHANGED <<running, since, age, silences, bad, hush, raisedAt>>

\* Slip: one handler around all channels, so that a failed send ends the loop
\* over them.
SendReturnsOnce(l) ==
  /\ Awaits(l, "send")
  /\ IF chan[l] < NumChannels /\ chan[l] \notin missed[RuleAt(l)]
     THEN /\ chan' = [chan EXCEPT ![l] = @ + 1]
          /\ Tell(chan[l] + 1, RuleAt(l), note[l])
          /\ UNCHANGED <<pc, at>>
     ELSE Advance(l) /\ UNCHANGED <<chan, told>>
  /\ UNCHANGED <<running, note, since, age, active, silences, bad, hush, raisedAt>>

\* A send returns, and the next channel is told what the dict says by now.
SendReturns(l) ==
  /\ Awaits(l, "send")
  /\ IF chan[l] < NumChannels
     THEN /\ chan' = [chan EXCEPT ![l] = @ + 1]
          /\ Tell(chan[l] + 1, RuleAt(l), note[l])
          /\ UNCHANGED <<pc, at>>
     ELSE Advance(l) /\ UNCHANGED <<chan, told>>
  /\ UNCHANGED <<running, note, since, age, active, silences, bad, hush, raisedAt>>

\* Slip: the loop returns after one round.
RoundDoneOnce(l) ==
  /\ pc[l] = "rule" /\ at[l] > Len(RuleList)
  /\ pc' = [pc EXCEPT ![l] = "off"]
  /\ UNCHANGED <<running, at, chan, note, since, age, active, silences, bad,
                 told, hush, raisedAt>>

RoundDone(l) ==
  /\ pc[l] = "rule" /\ at[l] > Len(RuleList)
  /\ pc' = [pc EXCEPT ![l] = "sleep"]
  /\ UNCHANGED <<running, at, chan, note, since, age, active, silences, bad,
                 told, hush, raisedAt>>

\* Slip: the loop does not look at _running again.
WakeAlways(l) ==
  /\ Awaits(l, "sleep")
  /\ at' = [at EXCEPT ![l] = 1]
  /\ pc' = [pc EXCEPT ![l] = "rule"]
  /\ UNCHANGED <<running, chan, note, since, age, active, silences, bad,
                 told, hush, raisedAt>>

Wake(l) ==
  /\ Awaits(l, "sleep")
  /\ at' = [at EXCEPT ![l] = 1]
  /\ pc' = [pc EXCEPT ![l] = IF running THEN "rule" ELSE "off"]
  /\ UNCHANGED <<running, chan, note, since, age, active, silences, bad,
                 told, hush, raisedAt>>

-----------------------------------------------------------------------------
\* add_silence(), enter_maintenance() and remove_silence(), from elsewhere.
HushAfter == hush' = [r \in Rules |-> IF IsSilenced(r)' THEN hush[r] ELSE 0]

AddSilence(s, target, duration) ==
  /\ AtAwait /\ left[s] = 0
  /\ left' = [left EXCEPT ![s] = duration]
  /\ covers' = [covers EXCEPT ![s] = target]
  /\ HushAfter
  /\ UNCHANGED <<running, loop, since, age, active, bad, told, raisedAt>>

RemoveSilence(s) ==
  /\ AtAwait /\ left[s] > 0
  /\ left' = [left EXCEPT ![s] = 0]
  /\ UNCHANGED covers
  /\ HushAfter
  /\ UNCHANGED <<running, loop, since, age, active, bad, told, raisedAt>>

Tick ==
  /\ since' = [l \in Loops |-> Older(since[l])]
  /\ age' = [r \in Rules |-> Older(age[r])]
  /\ raisedAt' = [r \in Rules |-> Older(raisedAt[r])]
  /\ left' = [s \in SilenceIds |-> IF left[s] > 0 THEN left[s] - 1 ELSE 0]
  /\ UNCHANGED covers
  /\ hush' = [r \in Rules |-> IF IsSilenced(r)' THEN Older(hush[r]) ELSE 0]
  /\ UNCHANGED <<running, loop, active, bad, told>>

\* The condition of a rule begins or ceases to hold.
Change(r) ==
  /\ bad' = [bad EXCEPT ![r] = ~@]
  /\ UNCHANGED <<running, loop, since, age, active, silences, told, hush, raisedAt>>

LoopStep(l) == \/ Skip(l) \/ Fetch(l) \/ NoVerdict(l)
               \/ Fire(l) \/ FireUnformatted(l) \/ Resolve(l) \/ SendReturns(l)
               \/ RoundDone(l) \/ Wake(l)

Next == \/ \E l \in Loops : Start(l) \/ LoopStep(l)
        \/ Stop \/ Tick
        \/ \E s \in SilenceIds, target \in Rules \cup {All}, duration \in 1..MaxSilence :
             AddSilence(s, target, duration)
        \/ \E s \in SilenceIds : RemoveSilence(s)
        \/ \E r \in Rules : Change(r)

Spec == Init /\ [][Next]_vars

\* Time passes, and a loop whose sleep, query or send is over runs when the
\* others await, which they do again and again: hence the strong fairness.
FairSpec == Spec /\ WF_vars(Tick) /\ \A l \in Loops : SF_vars(LoopStep(l))

-----------------------------------------------------------------------------
TypeOK ==
  /\ running \in BOOLEAN
  /\ pc \in [Loops -> {"off", "rule", "fetch", "send", "sleep"}]
  /\ at \in [Loops -> 1..Len(RuleList) + 1]
  /\ \A l \in Loops : pc[l] \in {"fetch", "send"} => at[l] <= Len(RuleList)
  /\ chan \in [Loops -> 1..NumChannels]
  /\ note \in [Loops -> {"trigger", "resolve"}]
  /\ since \in [Loops -> 0..MaxAge] /\ age \in [Rules -> 0..MaxAge]
  /\ active \in [Rules -> Loops \cup {NoLoop}]
  /\ left \in [SilenceIds -> 0..MaxSilence] /\ covers \in [SilenceIds -> Rules \cup {All}]
  /\ bad \in [Rules -> BOOLEAN] /\ hush \in [Rules -> 0..MaxAge]
  /\ raisedAt \in [Rules -> 0..MaxAge]
  /\ view \in [1..NumChannels -> [Rules -> {"trigger", "resolve"}]]
  /\ missed \in [Rules -> SUBSET (1..NumChannels)]

\* While the engine counts as running, some loop is alive to evaluate its rules,
\* in whatever order start() and stop() were called and loops woke up.
RunningHasLoop == running => \E l \in Loops : pc[l] # "off"

Notifies(l) == pc[l] = "fetch" /\ pc'[l] = "send"

\* An alert is not raised again before its cooldown is over, although the
\* cooldown is read before the data is awaited and the firing noted after it.
CooldownKept ==
  [][\A l \in Loops : Notifies(l) /\ active'[RuleAt(l)] = l
        => raisedAt[RuleAt(l)] >= Cooldown[RuleAt(l)]]_vars

\* Once a silence lasts, only an evaluation that began before it can still
\* notify: maintenance included, and for resolving as well as for firing.
SilenceSettles ==
  [][\A l \in Loops : Notifies(l) /\ IsSilenced(RuleAt(l))
        => since[l] >= hush[RuleAt(l)]]_vars

\* Between notifications every channel that got the last one agrees with the
\* engine on whether the rule's alert is active, whichever sends failed.
ChannelsAgree ==
  \A r \in Rules : (\A l \in Loops : ~Sending(l, r)) =>
    \A c \in 1..NumChannels \ missed[r] :
      view[c][r] = "trigger" <=> active[r] # NoLoop

\* An alert whose condition is gone for good is resolved, as long as its rule is
\* evaluated, not silenced and its data can be had; no other rule prevents it.
AlertsResolve ==
  \A r \in Rules \ Flaky :
    <>[](running /\ ~bad[r] /\ ~IsSilenced(r)) => <>[](active[r] = NoLoop)

\* A condition that lasts is raised, in the same circumstances.
Raised(r) == <>[](running /\ bad[r] /\ ~IsSilenced(r)) => <>[](active[r] # NoLoop)
AlertsRaised == \A r \in Rules \ (Flaky \cup Unformattable) : Raised(r)

\* The same of every rule, also one that keeps the default message template.
EveryAlertRaised == \A r \in Rules \ Flaky : Raised(r)

\* After stop() a loop ends unless start() is called again.
StopEndsLoops == \A l \in Loops : ~running ~> (pc[l] = "off" \/ running)
=============================================================================
