-------------------------- MODULE ServerLifecycle --------------------------
(***************************************************************************)
(* The life of the gateway process: run of cmd/server/main.go with the     *)
(* goroutine that serves, the signal, graceful shutdown and its deadline,  *)
(* and the connections that are open meanwhile.                            *)
(*                                                                         *)
(* run is sequential: "stage" names where it is.  The connections are those*)
(* of net/http.Server, modelled from how run configures and stops it; what *)
(* a handler does is here no more than its upstream calls (Client.Do of    *)
(* internal/upstream/client.go).  A step of run or of the serving goroutine*)
(* that can be taken is taken before the clock advances; a handler may take*)
(* any time.                                                               *)
(***************************************************************************)
EXTENDS Naturals

CONSTANTS
  Conns,          \* the connections clients make
  Budget,         \* requestBudget: WriteTimeout and the deadline of shutdown
  HeaderTimeout,  \* ReadHeaderTimeout
  NewGrace,       \* how long Shutdown spares a connection without a request
  TermGrace,      \* terminationGracePeriodSeconds of the deployment
  MaxTime         \* bound: the last instant of the clock

ASSUME LifecycleAssumption ==
  /\ {Budget, HeaderTimeout, NewGrace, TermGrace, MaxTime} \subseteq Nat
  /\ Budget < TermGrace

VARIABLES
  stage,        \* how far run has come
  err,          \* the error run returns, "" for nil
  ctxDone,      \* the context of signal.NotifyContext is cancelled
  signalAt,     \* ... since when
  serve,        \* the goroutine that calls Server.Serve: how Serve returned
  serveErrors,  \* what the channel of that name holds
  deadline,     \* the deadline of shutdownContext, 0 before there is one
  conn,         \* connection -> its state
  since,        \* connection -> when it was accepted, or its header was read
  gone,         \* the connections whose client has gone: their context is cancelled
  call,         \* connection -> how its last upstream call ended
  clock

runVars == <<stage, err, ctxDone, signalAt, serve, serveErrors, deadline>>
connVars == <<conn, since, gone, call>>
vars == <<runVars, connVars, clock>>

Handling == {"handling", "calling"}

Init ==
  /\ stage = "loading" /\ err = "" /\ ctxDone = FALSE /\ signalAt = 0
  /\ serve = "off" /\ serveErrors = "none" /\ deadline = 0
  /\ conn = [c \in Conns |-> "none"]
  /\ since = [c \in Conns |-> 0]
  /\ gone = {}
  /\ call = [c \in Conns |-> "none"]
  /\ clock = 0

-----------------------------------------------------------------------------
\* run

Return(error) ==
  /\ stage' = "exited"
  /\ err' = error
  /\ UNCHANGED <<ctxDone, signalAt, serve, serveErrors, deadline, connVars, clock>>

\* run takes the error from the channel and returns.
ReceiveAndReturn(error) ==
  /\ stage' = "exited"
  /\ err' = error
  /\ serveErrors' = "none"
  /\ UNCHANGED <<ctxDone, signalAt, serve, deadline, connVars, clock>>

Continue(next) ==
  /\ stage' = next
  /\ UNCHANGED <<err, ctxDone, signalAt, serve, serveErrors, deadline, connVars, clock>>

\* config.Load and sdk.Validate fail, or the listener is opened, or is not.
Load ==
  /\ stage = "loading"
  /\ \/ \E error \in {"config", "SDK config", "listen"} : Return(error)
     \/ Continue("bound")

\* A signal that came during start-up: the listener is closed unused.
CloseCanceled ==
  /\ stage = "bound" /\ ctxDone
  /\ \E error \in {"", "close canceled listener"} : Return(error)

StartServing ==
  /\ stage = "bound" /\ ~ctxDone
  /\ stage' = "serving"
  /\ serve' = "running"
  /\ UNCHANGED <<err, ctxDone, signalAt, serveErrors, deadline, connVars, clock>>

\* The select, which takes either branch when both are ready.
ServeReturned ==
  /\ stage = "serving" /\ serveErrors # "none"
  /\ ReceiveAndReturn(IF serveErrors = "closed" THEN "" ELSE "serve")

BeginShutdown_defaultDeadline ==
  /\ stage = "serving" /\ ctxDone
  /\ stage' = "shutdown"
  /\ deadline' = clock + HeaderTimeout
  /\ UNCHANGED <<err, ctxDone, signalAt, serve, serveErrors, connVars, clock>>

BeginShutdown_twoBudgets ==
  /\ stage = "serving" /\ ctxDone
  /\ stage' = "shutdown"
  /\ deadline' = clock + 2 * Budget
  /\ UNCHANGED <<err, ctxDone, signalAt, serve, serveErrors, connVars, clock>>

\* Server.Shutdown has closed the listener; no context is cancelled.
BeginShutdown ==
  /\ stage = "serving" /\ ctxDone
  /\ stage' = "shutdown"
  /\ deadline' = clock + Budget
  /\ UNCHANGED <<err, ctxDone, signalAt, serve, serveErrors, connVars, clock>>

Quiescent == \A c \in Conns : conn[c] \in {"none", "closed"}

\* Server.Shutdown returns once every connection is closed: nil, or the
\* error of closing the listener.
ShutdownReturns ==
  /\ stage = "shutdown" /\ serve # "running" /\ Quiescent
  /\ Continue("stopped") \/ Return("shutdown")

ShutdownTimesOut_waits ==
  /\ stage = "shutdown" /\ serve # "running" /\ clock >= deadline
  /\ \A c \in Conns : conn[c] \notin Handling
  /\ Return("shutdown")

\* ... or at its deadline, with requests in flight.
ShutdownTimesOut ==
  /\ stage = "shutdown" /\ serve # "running" /\ clock >= deadline
  /\ Return("shutdown")

ReceiveServeError_ignores ==
  /\ stage = "stopped" /\ serveErrors # "none"
  /\ ReceiveAndReturn("")

\* The second receive: the error of a listener that failed before.
ReceiveServeError ==
  /\ stage = "stopped" /\ serveErrors # "none"
  /\ ReceiveAndReturn(IF serveErrors = "closed" THEN "" ELSE "serve during shutdown")

RunStep ==
  \/ Load \/ CloseCanceled \/ StartServing \/ ServeReturned
  \/ BeginShutdown \/ ShutdownReturns \/ ShutdownTimesOut \/ ReceiveServeError

\* SIGINT or SIGTERM.  Bounded: the deadline must fall within MaxTime.
Signal ==
  /\ stage # "exited" /\ ~ctxDone /\ clock + Budget <= MaxTime
  /\ ctxDone' = TRUE
  /\ signalAt' = clock
  /\ UNCHANGED <<stage, err, serve, serveErrors, deadline, connVars, clock>>

\* The listener fails under Server.Serve, whose error goes to the channel.
ServeFails ==
  /\ stage = "serving" /\ serve = "running"
  /\ serve' = "failed"
  /\ serveErrors' = "failed"
  /\ UNCHANGED <<stage, err, ctxDone, signalAt, deadline, connVars, clock>>

\* Server.Serve returns ErrServerClosed.
ServeCloses ==
  /\ stage = "shutdown" /\ serve = "running"
  /\ serve' = "closed"
  /\ serveErrors' = "closed"
  /\ UNCHANGED <<stage, err, ctxDone, signalAt, deadline, connVars, clock>>

-----------------------------------------------------------------------------
\* Connections, of net/http.Server

Goto(c, state) == conn' = [conn EXCEPT ![c] = state]

Accept(c) ==
  /\ stage = "serving" /\ serve = "running" /\ conn[c] = "none"
  /\ Goto(c, "new")
  /\ since' = [since EXCEPT ![c] = clock]
  /\ UNCHANGED <<runVars, gone, call, clock>>

\* A header is read, the write deadline is set and the handler runs: also
\* on a connection that was accepted before a shutdown began.
ReadHeader(c) ==
  /\ stage # "exited" /\ conn[c] \in {"new", "idle"}
  /\ Goto(c, "handling")
  /\ since' = [since EXCEPT ![c] = clock]
  /\ call' = [call EXCEPT ![c] = "none"]
  /\ UNCHANGED <<runVars, gone, clock>>

HeaderTimesOut(c) ==
  /\ stage # "exited" /\ conn[c] = "new" /\ clock >= since[c] + HeaderTimeout
  /\ Goto(c, "closed")
  /\ UNCHANGED <<runVars, since, gone, call, clock>>

\* The handler has answered; a server that shuts down keeps nothing alive.
Answer(c) ==
  /\ stage # "exited" /\ conn[c] = "handling"
  /\ Goto(c, IF stage = "shutdown" \/ c \in gone THEN "closed" ELSE "idle")
  /\ UNCHANGED <<runVars, since, gone, call, clock>>

\* The client goes: the context of its request is cancelled.
Disconnect(c) ==
  /\ stage # "exited" /\ c \notin gone
  /\ \/ conn[c] \in Handling /\ gone' = gone \cup {c} /\ UNCHANGED conn
     \/ conn[c] \in {"new", "idle"} /\ Goto(c, "closed") /\ UNCHANGED gone
  /\ UNCHANGED <<runVars, since, call, clock>>

\* Whom a poll of Shutdown closes: idle connections, and those that have
\* been without a request for too long.
Idle(c) == conn[c] = "idle" \/ (conn[c] = "new" /\ clock > since[c] + NewGrace)

CloseIdle(c) ==
  /\ stage = "shutdown" /\ Idle(c)
  /\ Goto(c, "closed")
  /\ UNCHANGED <<runVars, since, gone, call, clock>>

-----------------------------------------------------------------------------
\* Client.Do

BeginCall(c) ==
  /\ stage # "exited" /\ conn[c] = "handling"
  /\ Goto(c, "calling")
  /\ UNCHANGED <<runVars, since, gone, call, clock>>

EndCall_oversized(c) ==
  /\ stage # "exited" /\ conn[c] = "calling"
  /\ Goto(c, "handling")
  /\ \E outcome \in {"response", "error", "oversized"} : call' = [call EXCEPT ![c] = outcome]
  /\ UNCHANGED <<runVars, since, gone, clock>>

\* The response is read within maxResponseBytes; or the request, its
\* timeout, the body or its size is an error.
EndCall(c) ==
  /\ stage # "exited" /\ conn[c] = "calling"
  /\ Goto(c, "handling")
  /\ \E outcome \in {"response", "error"} : call' = [call EXCEPT ![c] = outcome]
  /\ UNCHANGED <<runVars, since, gone, clock>>

\* The context of the request ends the call.
CancelCall(c) ==
  /\ stage # "exited" /\ conn[c] = "calling" /\ c \in gone
  /\ Goto(c, "handling")
  /\ call' = [call EXCEPT ![c] = "cancelled"]
  /\ UNCHANGED <<runVars, since, gone, clock>>

-----------------------------------------------------------------------------

\* Time passes when run waits, within the timeouts that are running.  It is
\* coarser than the polls of Shutdown (at most 500 ms apart).
Tick ==
  /\ clock < MaxTime
  /\ stage \in {"serving", "shutdown"}
  /\ stage = "serving" => serveErrors = "none" /\ ~ctxDone
  /\ stage = "shutdown" =>
       serve # "running" /\ clock < deadline /\ ~Quiescent /\ ~\E c \in Conns : Idle(c)
  /\ \A c \in Conns : conn[c] = "new" => clock < since[c] + HeaderTimeout
  /\ clock' = clock + 1
  /\ UNCHANGED <<runVars, connVars>>

Exited == stage = "exited" /\ UNCHANGED vars

ConnStep(c) ==
  \/ Accept(c) \/ ReadHeader(c) \/ HeaderTimesOut(c) \/ Answer(c) \/ Disconnect(c)
  \/ CloseIdle(c) \/ BeginCall(c) \/ EndCall(c) \/ CancelCall(c)

Next ==
  \/ RunStep \/ Signal \/ ServeFails \/ ServeCloses
  \/ \E c \in Conns : ConnStep(c)
  \/ Tick
  \/ Exited

Spec == Init /\ [][Next]_vars

\* run and the serving goroutine are scheduled, time passes and timeouts
\* fire.  No handler need ever end and no client need do anything.
FairSpec ==
  /\ Spec
  /\ WF_vars(RunStep) /\ WF_vars(ServeCloses) /\ WF_vars(Tick)
  /\ \A c \in Conns : WF_vars(HeaderTimesOut(c)) /\ WF_vars(CloseIdle(c))

-----------------------------------------------------------------------------
\* Properties

TypeOK ==
  /\ stage \in {"loading", "bound", "serving", "shutdown", "stopped", "exited"}
  /\ err \in {"", "config", "SDK config", "listen", "close canceled listener", "serve",
              "shutdown", "serve during shutdown"}
  /\ ctxDone \in BOOLEAN
  /\ serve \in {"off", "running", "failed", "closed"}
  /\ serveErrors \in {"none", "failed", "closed"}
  /\ {signalAt, deadline, clock} \subseteq Nat
  /\ conn \in [Conns -> {"none", "new", "idle", "closed"} \cup Handling]
  /\ since \in [Conns -> Nat]
  /\ gone \subseteq Conns
  /\ call \in [Conns -> {"none", "response", "error", "cancelled"}]

\* run surfaces what went wrong "rather than masking it behind an
\* unconditional 'stopped'" (main.go:141): it returns nil, and the process
\* exits with 0, only if no request was cut off and the listener had not
\* failed, whichever branch the select of main.go:125 took.
NilMeansClean ==
  stage = "exited" /\ err = "" =>
    /\ serve # "failed"
    /\ \A c \in Conns : conn[c] \notin Handling

\* Shutdown lets a request finish that is in flight when the signal comes,
\* rather than cutting it off short of its WriteTimeout (main.go:134): the
\* request is cut off only when it has used up its budget.
InFlightFinishes ==
  stage = "exited" /\ err = "shutdown" =>
    \A c \in Conns : conn[c] \in Handling /\ since[c] <= signalAt =>
                       clock >= since[c] + Budget

\* The process ends by itself before the kubelet kills it, however long the
\* requests in flight run (deployment.yaml:68).
EndsBeforeKill == ctxDone /\ stage # "exited" => clock < signalAt + TermGrace

\* "A wedged connection cannot block shutdown forever" (main.go:136), and
\* neither can the second receive, from a channel that holds one error at
\* most: after a signal, or when the listener has failed, run returns.
StopsInTheEnd == ctxDone \/ serve = "failed" ~> stage = "exited"

\* client.go:50, flow.go:74: server shutdown cancels an upstream call in
\* flight, as the client's disconnecting does.
ShutdownCancelsCalls ==
  [][\A c \in Conns :
       stage = "shutdown" /\ conn[c] = "calling" /\ conn'[c] = "handling" =>
         call'[c] = "cancelled"]_vars
=============================================================================
