---------------------------- MODULE MCAlertEngine ----------------------------
(***************************************************************************)
(* Rules for the model checker: one, or two with different cooldowns.      *)
(***************************************************************************)
EXTENDS AlertEngine

CONSTANTS r1, r2

One == <<r1>>
OneCooldown == [r \in {r1} |-> 1]

Pair == <<r1, r2>>
PairCooldown == [r \in {r1, r2} |-> IF r = r1 THEN 2 ELSE 1]
=============================================================================
