----------------------------- MODULE Exposition ------------------------------
(***************************************************************************)
(* agent/fluxwatch/prometheus.py, class PrometheusExporter: an HTTP server *)
(* in a thread of its own that renders the histogram of module Histogram.  *)
(* It serves one request at a time.  Counters and gauges are copied under  *)
(* their locks in one step each and are left out.                          *)
(***************************************************************************)
EXTENDS Histogram

VARIABLES
  server,     \* self._thread, in serve_forever(): where it is
  stopAsked   \* stop() has called shutdown()

vars == <<histVars, server, stopAsked>>

Init == HistInit /\ server = "none" /\ stopAsked = FALSE

-----------------------------------------------------------------------------
\* start(): bind, and serve_forever() in a daemon thread.  A second start() does
\* nothing more: it fails to bind, since stop() does not close the socket.
StartServer ==
  /\ server = "none" /\ server' = "waiting"
  /\ UNCHANGED <<histVars, stopAsked>>

\* stop(): shutdown() asks the loop to end and waits until it has.
StopServer ==
  /\ server # "none" /\ ~stopAsked /\ stopAsked' = TRUE
  /\ UNCHANGED <<histVars, server>>

\* serve_forever() accepts a client, having not seen that it should end, and waits
\* without a timeout for a request line.
ClientArrives ==
  /\ server = "waiting" /\ ~stopAsked /\ server' = "reading"
  /\ UNCHANGED <<histVars, stopAsked>>

\* The request is there, for some path; or the client has gone away.
RequestRead ==
  /\ server = "reading" /\ server' \in {"metrics", "other", "waiting"}
  /\ UNCHANGED <<histVars, stopAsked>>

LoopEnds ==
  /\ server = "waiting" /\ stopAsked /\ server' = "ended"
  /\ UNCHANGED <<histVars, stopAsked>>

\* do_GET of /metrics: render_metrics(), up to the copy of the histogram's series.
ServeMetrics ==
  /\ server = "metrics" /\ server' = "rendering"
  /\ CopySeries
  /\ UNCHANGED stopAsked

\* do_GET of another path: 404.
ServeNotFound ==
  /\ server = "other" /\ server' = "writing"
  /\ UNCHANGED <<histVars, stopAsked>>

Render ==
  /\ server = "rendering" /\ \E k \in Keys : ReadField(k)
  /\ UNCHANGED <<server, stopAsked>>

\* The page is complete and goes out, without a timeout.
Respond ==
  /\ server = "rendering" /\ PageDone /\ server' = "writing"
  /\ UNCHANGED stopAsked

\* The client has taken the answer, or is gone and the write raises, which
\* socketserver survives.
ResponseTaken ==
  /\ server = "writing" /\ server' = "waiting"
  /\ UNCHANGED <<histVars, stopAsked>>

ServerStep == LoopEnds \/ ServeMetrics \/ ServeNotFound \/ Render \/ Respond
ClientStep == ClientArrives \/ RequestRead \/ ResponseTaken

\* The threads of the program.
Record(t) ==
  /\ \E k \in Keys, v \in Values : Observe(t, k, v)
  /\ UNCHANGED <<server, stopAsked>>

Recording(t) == ObserveStep(t) /\ UNCHANGED <<server, stopAsked>>

Next == \/ \E t \in Threads : Record(t) \/ Recording(t)
        \/ StartServer \/ StopServer \/ ServerStep \/ ClientStep

Spec == Init /\ [][Next]_vars

\* Neither the server nor a thread inside observe() stops halfway, but nothing is
\* asked of a client.  The server waits for the histogram's lock like any thread:
\* threading.Lock is not fair, so weak fairness, and it gets the lock for sure only
\* because the threads observe finitely often here.
FairSpec == Spec /\ WF_vars(ServerStep) /\ \A t \in Threads : WF_vars(Recording(t))

-----------------------------------------------------------------------------
ServerTypeOK ==
  /\ TypeOK /\ stopAsked \in BOOLEAN
  /\ server \in {"none", "waiting", "reading", "metrics", "other", "rendering", "writing",
                 "ended"}

\* stop() returns: whatever is being rendered is finished, whichever threads hold
\* the histogram's lock meanwhile, and no other client is accepted, unless a
\* client sends no request or does not take its answer: it blocks the one thread
\* there is, and stop() with it, for ever.
StopReturns ==
  (stopAsked ~> server = "ended") \/ <>[](server \in {"reading", "writing"})

=============================================================================
