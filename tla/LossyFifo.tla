------------------------------ MODULE LossyFifo ------------------------------
(***************************************************************************)
(* What the agent's transport promises the program that logs: a channel    *)
(* that may lose events but neither duplicates, reorders nor invents them. *)
(* Events are numbered in the order in which they were accepted.           *)
(***************************************************************************)
EXTENDS Integers, Sequences

VARIABLES accepted,   \* how many events the channel has taken
          delivered   \* the events that came out, in order

Increasing(s) == \A i, j \in 1..Len(s) : i < j => s[i] < s[j]

Init == accepted = 0 /\ delivered = << >>

Accept == /\ accepted' = accepted + 1
          /\ UNCHANGED delivered

\* More events come out, each younger than all that came out before it.
Deliver == /\ delivered' \in Seq(1..accepted)
           /\ Len(delivered) <= Len(delivered')
           /\ \A i \in 1..Len(delivered) : delivered'[i] = delivered[i]
           /\ Increasing(delivered')
           /\ UNCHANGED accepted

Spec == Init /\ [][Accept \/ Deliver]_<<accepted, delivered>>
=============================================================================
