----------------------------- MODULE RedisStream -----------------------------
(***************************************************************************)
(* The Redis stream between the agents and the collector, as far as the    *)
(* code depends on it.  Redis is not part of the repository: these are its *)
(* answers to the commands the code issues (XADD with a MAXLEN,            *)
(* XREADGROUP with ">").                                                   *)
(*                                                                         *)
(* A stream is described by its whole history: entries 1..total were added *)
(* and entries 1..trimmed are gone.                                        *)
(***************************************************************************)
EXTENDS Integers

Larger(a, b) == IF a >= b THEN a ELSE b
Smaller(a, b) == IF a <= b THEN a ELSE b

\* What XADD ... MAXLEN ~ maxLen may leave trimmed: redis-py asks for the
\* approximate form unless told otherwise, so the server drops any number of
\* the oldest entries as long as maxLen of them remain.
TrimChoices(total, trimmed, maxLen) == trimmed .. Larger(trimmed, total - maxLen)

\* The entries XREADGROUP ... ">" hands out to a group whose last delivered
\* entry is `cursor`: the next `count` that still exist.
NextEntry(trimmed, cursor) == Larger(trimmed, cursor) + 1
LastEntry(total, trimmed, cursor, count) ==
  Smaller(total, Larger(trimmed, cursor) + count)
=============================================================================
