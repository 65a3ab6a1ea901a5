------------------------------ MODULE Delivery ------------------------------
(***************************************************************************)
(* What the collector promises for the entries of a stream: each is handed *)
(* to it at most once and is indexed only out of its hands, so it is       *)
(* indexed at most once.  It may be lost at any stage; it never goes back. *)
(***************************************************************************)
EXTENDS Integers

CONSTANT Ids  \* the entries a stream can hold, numbered from 1

VARIABLES published,  \* how many entries there have been
          waiting,    \* entries in the stream the collector has not been given
          taken,      \* entries in the collector's hands
          copies      \* how often each entry has been indexed

vars == <<published, waiting, taken, copies>>

Init == /\ published = 0 /\ waiting = {} /\ taken = {}
        /\ copies = [i \in Ids |-> 0]

\* A new entry; the stream may lose old ones with it.
Publish == /\ published' = published + 1
           /\ waiting' \subseteq waiting \cup {published + 1}
           /\ UNCHANGED <<taken, copies>>

\* Entries leave the stream, into the collector's hands or for good.
Hand == /\ waiting' \subseteq waiting
        /\ taken' \subseteq taken \cup (waiting \ waiting')
        /\ UNCHANGED <<published, copies>>

\* Entries in hand are indexed, and let go with whatever else is dropped.
Index == \E S \in SUBSET taken :
           /\ copies' = [i \in Ids |-> copies[i] + IF i \in S THEN 1 ELSE 0]
           /\ taken' \subseteq taken \ S
           /\ UNCHANGED <<published, waiting>>

Spec == Init /\ [][Publish \/ Hand \/ Index]_vars
=============================================================================
