---------------------------- MODULE TraceContext -----------------------------
(***************************************************************************)
(* agent/fluxwatch/context.py: the trace and the span that log entries are *)
(* attributed to, kept in context variables.  Every task has its own; one  *)
(* started by asyncio, to_thread() included, gets a copy of its parent's.  *)
(* An id is a number, 0 the empty string; uuid4() never gives the same     *)
(* twice, but a header, or a caller of set_trace_context(), may name any   *)
(* id, alone or with another, and again.  The variables for the parent's   *)
(* ids are written but read nowhere, and left out.                         *)
(***************************************************************************)
EXTENDS Integers, Sequences

CONSTANTS Tasks,   \* tasks and threads, each with a context of its own
          MaxIds,  \* bound: ids given out in one behaviour
          MaxOpen  \* bound: spans a task has entered and not left

ASSUME TraceAssumption == MaxIds \in Nat /\ MaxOpen \in Nat

NoId == 0

VARIABLES
  ctx,     \* _trace_id and _span_id of each task
  open,    \* its entered spans, innermost last: their ids and what the tokens restore
  lastId,  \* the last id made, here or in another process
  home,    \* history: the trace each task began, inherited or took over
  given    \* history: the span ids that headers and callers have named

traceVars == <<ctx, open, lastId, home, given>>

Empty == [trace |-> NoId, span |-> NoId]

TraceInit == /\ ctx = [t \in Tasks |-> Empty]
             /\ open = [t \in Tasks |-> << >>]
             /\ lastId = 0 /\ home = [t \in Tasks |-> NoId] /\ given = {NoId}

\* `tid = _trace_id.get()`, or a new one that is then set.
NewTrace(t) == ctx[t].trace = NoId
TraceIdOf(t) == IF NewTrace(t) THEN lastId + 1 ELSE ctx[t].trace
LastWithTrace(t) == IF NewTrace(t) THEN lastId + 1 ELSE lastId
HomeWithTrace(t) == IF NewTrace(t) THEN [home EXCEPT ![t] = lastId + 1] ELSE home

\* get_trace_id() and get_span_id(), in the order in which an entry is built.
EnsureIds(t) ==
  LET newSpan == ctx[t].span = NoId
      made == LastWithTrace(t) + 1
  IN  /\ ctx' = [ctx EXCEPT ![t] =
                   [trace |-> TraceIdOf(t),
                    span |-> IF newSpan THEN made ELSE ctx[t].span]]
      /\ lastId' = IF newSpan THEN made ELSE LastWithTrace(t)
      /\ lastId' <= MaxIds
      /\ home' = HomeWithTrace(t)
      /\ UNCHANGED <<open, given>>

\* get_trace_id() alone, for a metric.
EnsureTrace(t) ==
  /\ ctx' = [ctx EXCEPT ![t].trace = TraceIdOf(t)]
  /\ lastId' = LastWithTrace(t) /\ lastId' <= MaxIds
  /\ home' = HomeWithTrace(t)
  /\ UNCHANGED <<open, given>>

-----------------------------------------------------------------------------
\* __enter__(): the tokens hold what the variables were.
Enter(t, found, ids) ==
  /\ Len(open[t]) < MaxOpen
  /\ ctx' = [ctx EXCEPT ![t] = ids]
  /\ open' = [open EXCEPT ![t] = Append(@, [ids |-> ids, was |-> found])]

\* with new_span(): it has set the variables before __enter__ looks at them, so
\* that leaving the span restores the span itself.
NewSpan(t) ==
  LET ids == [trace |-> TraceIdOf(t), span |-> LastWithTrace(t) + 1] IN
  /\ Enter(t, ids, ids)
  /\ lastId' = ids.span /\ lastId' <= MaxIds
  /\ home' = HomeWithTrace(t)
  /\ UNCHANGED given

\* with span.child(), of any span that is open: child() sets nothing.
ChildSpan(t, i) ==
  LET ids == [trace |-> open[t][i].ids.trace, span |-> lastId + 1] IN
  /\ Enter(t, ctx[t], ids)
  /\ lastId' = ids.span /\ lastId' <= MaxIds
  /\ UNCHANGED <<home, given>>

\* An id named from outside: none, one seen before, or the first to come from
\* another process.
Later(id, last) == IF id > last THEN id ELSE last
MayName(id, new) == id \in 0..lastId \cup {new}

\* with SpanContext.from_headers(): each header is taken by itself, and an id that
\* is not there is made.
RemoteSpan(t, trace, span) ==
  LET first == IF trace = NoId THEN lastId + 1 ELSE trace
      new == Later(first, lastId) + 1
      second == IF span = NoId THEN new ELSE span
  IN  /\ MayName(trace, lastId + 1) /\ MayName(span, new)
      /\ Enter(t, ctx[t], [trace |-> first, span |-> second])
      /\ lastId' = Later(second, Later(first, lastId)) /\ lastId' <= MaxIds
      /\ given' = given \cup {span}
      /\ UNCHANGED home

Leave(t) == open' = [open EXCEPT ![t] = SubSeq(@, 1, Len(@) - 1)]

\* Slips: the variables are cleared; only the token of the trace is used.
ExitClears(t) ==
  /\ open[t] # << >> /\ Leave(t)
  /\ ctx' = [ctx EXCEPT ![t] = Empty]
  /\ UNCHANGED <<lastId, home, given>>

ExitKeepsSpan(t) ==
  /\ open[t] # << >> /\ Leave(t)
  /\ ctx' = [ctx EXCEPT ![t].trace = open[t][Len(open[t])].was.trace]
  /\ UNCHANGED <<lastId, home, given>>

\* __exit__()
Exit(t) ==
  /\ open[t] # << >> /\ Leave(t)
  /\ ctx' = [ctx EXCEPT ![t] = open[t][Len(open[t])].was]
  /\ UNCHANGED <<lastId, home, given>>

\* reset_context() and set_trace_context(), which are called outside of spans.
Reset(t) ==
  /\ open[t] = << >>
  /\ ctx' = [ctx EXCEPT ![t] = Empty]
  /\ home' = [home EXCEPT ![t] = NoId]
  /\ UNCHANGED <<open, lastId, given>>

SetContext(t, trace, span) ==
  /\ open[t] = << >>
  /\ MayName(trace, lastId + 1) /\ MayName(span, Later(trace, lastId) + 1)
  /\ ctx' = [ctx EXCEPT ![t] = [trace |-> trace, span |-> span]]
  /\ lastId' = Later(span, Later(trace, lastId)) /\ lastId' <= MaxIds
  /\ home' = [home EXCEPT ![t] = trace]
  /\ given' = given \cup {span}
  /\ UNCHANGED open

\* Task t starts u, in the place of one that has ended.
Spawn(t, u) ==
  /\ t # u /\ open[u] = << >>
  /\ ctx' = [ctx EXCEPT ![u] = ctx[t]]
  /\ home' = [home EXCEPT ![u] = ctx[t].trace]
  /\ UNCHANGED <<open, lastId, given>>

TraceStep(t) == \/ NewSpan(t) \/ Exit(t) \/ Reset(t)
                \/ \E i \in 1..Len(open[t]) : ChildSpan(t, i)
                \/ \E trace, span \in 0..MaxIds :
                     RemoteSpan(t, trace, span) \/ SetContext(t, trace, span)

TraceNext == \E t \in Tasks : \/ EnsureIds(t) \/ EnsureTrace(t) \/ TraceStep(t)
                              \/ \E u \in Tasks : Spawn(t, u)

TraceSpec == TraceInit /\ [][TraceNext]_traceVars

-----------------------------------------------------------------------------
Ids == [trace : Nat, span : Nat]

TraceTypeOK == /\ ctx \in [Tasks -> Ids] /\ lastId \in Nat
               /\ open \in [Tasks -> Seq([ids : Ids, was : Ids])]
               /\ home \in [Tasks -> Nat] /\ given \subseteq Nat

\* The trace of a task's entries is that of the innermost span it is in, and out
\* of any span the one it began, inherited or was given, however its spans
\* were nested and left.
TraceStays ==
  \A t \in Tasks :
    ctx[t].trace = IF open[t] = << >> THEN home[t] ELSE open[t][Len(open[t])].ids.trace

\* No two entries name one span of this process's making and different traces,
\* whatever contexts tasks have copied from each other and however far each has
\* since moved on.  It is not so of a span that a header or a caller has named:
\* two requests with one X-Span-Id and no X-Trace-Id give it two traces.
SpanHasOneTrace ==
  \A t, u \in Tasks : (ctx[t].span = ctx[u].span /\ ctx[t].span \notin given)
                        => ctx[t].trace = ctx[u].trace
=============================================================================
