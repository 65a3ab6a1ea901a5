---------------------------- MODULE NoopTransport ----------------------------
(***************************************************************************)
(* agent/fluxwatch/transport.py, class _NoopTransport: the buffer a logger *)
(* without a redis_url keeps.  send() takes no lock, so the threads of the *)
(* program interleave between its length test, its pop(0) and its append;  *)
(* each of these list operations is atomic under the interpreter lock.     *)
(***************************************************************************)
EXTENDS Integers, Sequences, FiniteSets

CONSTANTS Threads,      \* threads of the instrumented program
          OverflowMax,  \* max_size
          MaxEvents     \* bound: send() calls in one behaviour

ASSUME NoopAssumption == /\ IsFiniteSet(Threads)
                         /\ OverflowMax \in Nat \ {0}
                         /\ MaxEvents \in Nat

VARIABLES buffer,   \* self._buffer, events numbered by the order of their append
          step,     \* where each thread is inside send()
          appended, \* history: events that have been appended
          calls,    \* history: send() calls begun
          raised    \* history: a pop(0) found the list empty

vars == <<buffer, step, appended, calls, raised>>

Init == /\ buffer = << >> /\ appended = 0 /\ calls = 0 /\ raised = FALSE
        /\ step = [t \in Threads |-> "idle"]

\* Slips: the buffer is taken for full one event late, one event early.
FullLate == Len(buffer) > OverflowMax
FullEarly == Len(buffer) >= OverflowMax - 1
Full == Len(buffer) >= OverflowMax

\* if len(self._buffer) >= self._overflow_max
Test(t) ==
  /\ step[t] = "idle" /\ calls < MaxEvents
  /\ calls' = calls + 1
  /\ step' = [step EXCEPT ![t] = IF Full THEN "pop" ELSE "append"]
  /\ UNCHANGED <<buffer, appended, raised>>

\* Slip: pop() for pop(0).
PopNewest(t) ==
  /\ step[t] = "pop" /\ buffer # << >>
  /\ step' = [step EXCEPT ![t] = "append"]
  /\ buffer' = SubSeq(buffer, 1, Len(buffer) - 1)
  /\ UNCHANGED <<appended, calls, raised>>

\* self._buffer.pop(0); on an empty list it raises out of the caller's log call.
Pop(t) ==
  /\ step[t] = "pop"
  /\ IF buffer = << >>
     THEN /\ step' = [step EXCEPT ![t] = "idle"]
          /\ raised' = TRUE
          /\ UNCHANGED buffer
     ELSE /\ step' = [step EXCEPT ![t] = "append"]
          /\ buffer' = Tail(buffer)
          /\ UNCHANGED raised
  /\ UNCHANGED <<appended, calls>>

\* self._buffer.append(rendered)
Store(t) ==
  /\ step[t] = "append"
  /\ step' = [step EXCEPT ![t] = "idle"]
  /\ appended' = appended + 1
  /\ buffer' = Append(buffer, appended + 1)
  /\ UNCHANGED <<calls, raised>>

Next == \E t \in Threads : Test(t) \/ Pop(t) \/ Store(t)

Spec == Init /\ [][Next]_vars

-----------------------------------------------------------------------------
TypeOK == /\ buffer \in Seq(Nat) /\ appended \in Nat /\ calls \in Nat
          /\ step \in [Threads -> {"idle", "pop", "append"}]
          /\ raised \in BOOLEAN

Appending == {t \in Threads : step[t] = "append"}

\* Without a lock the bound of the buffer is not max_size, but it is not
\* exceeded by more than the threads that passed the test together: counting
\* the appends still to come there are at most max_size - 1 + #threads events.
NearlyBounded ==
  Len(buffer) + Cardinality(Appending) <= OverflowMax - 1 + Cardinality(Threads)

\* Whatever the threads do, what is kept is the newest events, in order.
KeepsNewest ==
  \A i \in 1..Len(buffer) : buffer[i] = appended - Len(buffer) + i

\* pop(0) meets an empty list only when more threads send at once than the
\* buffer has places.
PopRaisesOnlyWhenOutnumbered ==
  raised => Cardinality(Threads) > OverflowMax
=============================================================================
