------------------------------ MODULE MCLogging ------------------------------
(***************************************************************************)
(* The logger for the model checker, which searches the behaviours that    *)
(* stay within one of some boxes: many spans and few entries, or the other *)
(* way about.  One box for both would be too large.                        *)
(***************************************************************************)
EXTENDS Logging

CONSTANT MaxWork  \* bound: entries sent, wrapped calls and configure() calls together

VARIABLE box  \* the bounds of this behaviour

Boxes == {[ids |-> 2, open |-> 2, work |-> 0],
          [ids |-> 3, open |-> 1, work |-> 0],
          [ids |-> 2, open |-> 0, work |-> MaxWork]}

Inside == /\ lastId <= box.ids
          /\ \A t \in Tasks : Len(open[t]) <= box.open
          /\ calls + functions + made <= box.work

MCInit == LoggingInit /\ box \in Boxes
MCNext == LoggingNext /\ UNCHANGED box /\ Inside'
MCSpec == MCInit /\ [][MCNext]_<<loggingVars, box>>
=============================================================================
