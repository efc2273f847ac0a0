--------------------------- MODULE LifecycleProofs ---------------------------
(***************************************************************************)
(* The safety properties of ServerLifecycle, for any number of connections *)
(* and whatever the timeouts, as long as the deadline of shutdown is short *)
(* of the grace period.                                                    *)
(***************************************************************************)
EXTENDS ServerLifecycle, TLAPS

\* Nothing is served before there is a listener, a listener is closed by a
\* shutdown only, and what Serve returned waits in the channel until run
\* takes it and exits.
Serving ==
  /\ stage \in {"loading", "bound"} => serve = "off" /\ \A c \in Conns : conn[c] = "none"
  /\ stage = "serving" => serve # "closed"
  /\ stage # "exited" =>
       serveErrors = IF serve \in {"failed", "closed"} THEN serve ELSE "none"

\* run acts on a signal before time passes, and its deadline counts from
\* the signal.
Timely ==
  /\ ctxDone /\ stage \in {"loading", "bound", "serving"} => clock = signalAt
  /\ stage \in {"shutdown", "stopped"} =>
       ctxDone /\ deadline = signalAt + Budget /\ clock <= deadline

\* Server.Shutdown has waited for every connection.
Drained == stage = "stopped" => Quiescent

LifeInv == TypeOK /\ Serving /\ Timely /\ Drained /\ NilMeansClean /\ InFlightFinishes

LEMMA LifeStarts == Init => LifeInv
<1> SUFFICES ASSUME Init PROVE LifeInv
  OBVIOUS
<1>1. TypeOK
  <2>1. since \in [Conns -> Nat]
    BY DEF Init
  <2>2. /\ conn \in [Conns -> {"none", "new", "idle", "closed"} \cup Handling]
        /\ call \in [Conns -> {"none", "response", "error", "cancelled"}] /\ gone \subseteq Conns
    BY DEF Init
  <2>3. signalAt = 0 /\ deadline = 0 /\ clock = 0 /\ 0 \in Nat
    BY DEF Init
  <2> QED
    BY <2>1, <2>2, <2>3 DEF Init, TypeOK
<1>2. Serving /\ Timely /\ Drained /\ NilMeansClean /\ InFlightFinishes
  BY DEF Init, Serving, Timely, Drained, NilMeansClean, InFlightFinishes
<1> QED
  BY <1>1, <1>2 DEF LifeInv

\* run leaves the connections and the clock alone.
LEMMA RunTypes == ASSUME TypeOK, RunStep PROVE TypeOK'
<1>1. /\ clock \in Nat /\ Budget \in Nat
      /\ UNCHANGED <<connVars, clock, ctxDone, signalAt>>
      /\ serveErrors' \in {serveErrors, "none"}
  BY LifecycleAssumption DEF TypeOK, RunStep, Load, CloseCanceled, StartServing, ServeReturned, BeginShutdown,
     ShutdownReturns, ShutdownTimesOut, ReceiveServeError, Return, ReceiveAndReturn, Continue
<1>2. /\ stage' \in {"loading", "bound", "serving", "shutdown", "stopped", "exited"}
      /\ err' \in {"", "config", "SDK config", "listen", "close canceled listener", "serve",
                   "shutdown", "serve during shutdown"}
      /\ serve' \in {"off", "running", "failed", "closed"}
  BY DEF TypeOK, RunStep, Load, CloseCanceled, StartServing, ServeReturned, BeginShutdown,
     ShutdownReturns, ShutdownTimesOut, ReceiveServeError, Return, ReceiveAndReturn, Continue
<1>3. deadline' = deadline \/ deadline' = clock + Budget
  BY DEF RunStep, Load, CloseCanceled, StartServing, ServeReturned, BeginShutdown,
     ShutdownReturns, ShutdownTimesOut, ReceiveServeError, Return, ReceiveAndReturn, Continue
<1>4. deadline' \in Nat
  <2>1. deadline \in Nat
    BY DEF TypeOK
  <2> QED
    BY <1>1, <1>3, <2>1
<1> QED
  BY <1>1, <1>2, <1>4 DEF TypeOK, connVars

LEMMA RunKeeps == ASSUME LifeInv, RunStep PROVE LifeInv'
<1>1. TypeOK /\ TypeOK'
  BY RunTypes DEF LifeInv
<1>2. /\ {signalAt, deadline, clock} \subseteq Nat /\ Budget \in Nat
      /\ stage \in {"loading", "bound", "serving", "shutdown", "stopped", "exited"}
      /\ serveErrors \in {"none", "failed", "closed"}
  BY <1>1, LifecycleAssumption DEF TypeOK
<1>3. Serving /\ Timely /\ Drained
  BY DEF LifeInv
<1>4. CASE Load
  <2>1. /\ UNCHANGED <<ctxDone, signalAt, serve, serveErrors, clock, conn>> /\ stage = "loading"
        /\ \/ stage' = "exited" /\ err' \notin {"", "shutdown"}
           \/ stage' = "bound" /\ UNCHANGED err
    BY <1>4 DEF Load, Return, Continue, connVars
  <2> QED
    BY <1>1, <1>2, <1>3, <2>1 DEF LifeInv, Serving, Timely, Drained, NilMeansClean, InFlightFinishes
<1>5. CASE CloseCanceled
  BY <1>1, <1>2, <1>3, <1>5 DEF CloseCanceled, Return, connVars, LifeInv, Serving, Timely, Drained,
     NilMeansClean, InFlightFinishes, Handling
<1>6. CASE StartServing
  BY <1>1, <1>2, <1>3, <1>6 DEF StartServing, connVars, LifeInv, Serving, Timely, Drained,
     NilMeansClean, InFlightFinishes
<1>7. CASE ServeReturned
  BY <1>1, <1>2, <1>3, <1>7 DEF ServeReturned, ReceiveAndReturn, connVars, LifeInv, Serving, Timely, Drained,
     NilMeansClean, InFlightFinishes
<1>8. CASE BeginShutdown
  BY <1>1, <1>2, <1>3, <1>8 DEF BeginShutdown, connVars, LifeInv, Serving, Timely, Drained,
     NilMeansClean, InFlightFinishes
<1>9. CASE ShutdownReturns
  <2>1. /\ UNCHANGED <<ctxDone, signalAt, serve, serveErrors, deadline, clock, conn>>
        /\ stage = "shutdown" /\ Quiescent
        /\ \/ stage' = "exited" /\ err' = "shutdown"
           \/ stage' = "stopped" /\ UNCHANGED err
    BY <1>9 DEF ShutdownReturns, Return, Continue, connVars
  <2>2. Quiescent' /\ \A c \in Conns : conn'[c] \notin Handling
    BY <2>1 DEF Quiescent, Handling
  <2> QED
    BY <1>1, <1>2, <1>3, <2>1, <2>2 DEF LifeInv, Serving, Timely, Drained, NilMeansClean,
       InFlightFinishes
<1>10. CASE ShutdownTimesOut
  <2>1. since \in [Conns -> Nat]
    BY <1>1 DEF TypeOK
  <2>2. clock >= signalAt + Budget
    BY <1>2, <1>3, <1>10 DEF ShutdownTimesOut, Timely
  <2>3. InFlightFinishes'
    BY <1>2, <1>10, <2>1, <2>2 DEF ShutdownTimesOut, Return, connVars, InFlightFinishes
  <2> QED
    BY <1>1, <1>2, <1>3, <1>10, <2>3 DEF ShutdownTimesOut, Return, connVars, LifeInv, Serving, Timely,
       Drained, NilMeansClean
<1>11. CASE ReceiveServeError
  BY <1>1, <1>2, <1>3, <1>11 DEF ReceiveServeError, ReceiveAndReturn, Quiescent, connVars, LifeInv, Serving, Timely,
     Drained, NilMeansClean, InFlightFinishes, Handling
<1> QED
  BY <1>4, <1>5, <1>6, <1>7, <1>8, <1>9, <1>10, <1>11 DEF RunStep

LEMMA SignalKeeps == ASSUME LifeInv, Signal \/ ServeFails \/ ServeCloses PROVE LifeInv'
<1>1. CASE Signal
  BY <1>1 DEF Signal, connVars, LifeInv, TypeOK, Serving, Timely, Drained, Quiescent, NilMeansClean, InFlightFinishes
<1>2. CASE ServeFails
  BY <1>2 DEF ServeFails, connVars, LifeInv, TypeOK, Serving, Timely, Drained, Quiescent, NilMeansClean, InFlightFinishes
<1>3. CASE ServeCloses
  BY <1>3 DEF ServeCloses, connVars, LifeInv, TypeOK, Serving, Timely, Drained, Quiescent, NilMeansClean, InFlightFinishes
<1> QED
  BY <1>1, <1>2, <1>3

\* A connection goes on only while the process does, and not once Shutdown
\* has waited for it.
LEMMA ConnKeeps == ASSUME LifeInv, NEW c \in Conns, ConnStep(c) PROVE LifeInv'
<1>1. UNCHANGED <<runVars, clock>> /\ stage # "exited"
  BY DEF ConnStep, Accept, ReadHeader, HeaderTimesOut, Answer, Disconnect, CloseIdle, BeginCall,
     EndCall, CancelCall
<1>2. stage \notin {"loading", "bound", "stopped"}
  BY DEF ConnStep, Accept, ReadHeader, HeaderTimesOut, Answer, Disconnect, CloseIdle, Idle, BeginCall,
     EndCall, CancelCall, LifeInv, Serving, Drained, Quiescent, Handling
<1>3. TypeOK'
  <2>1. conn \in [Conns -> {"none", "new", "idle", "closed"} \cup Handling]
        /\ since \in [Conns -> Nat] /\ gone \subseteq Conns /\ clock \in Nat
        /\ call \in [Conns -> {"none", "response", "error", "cancelled"}]
    BY DEF LifeInv, TypeOK
  <2>2. conn' \in [Conns -> {"none", "new", "idle", "closed"} \cup Handling]
    BY <2>1 DEF ConnStep, Accept, ReadHeader, HeaderTimesOut, Answer, Disconnect, CloseIdle,
       BeginCall, EndCall, CancelCall, Goto, Handling
  <2>3. since' \in [Conns -> Nat] /\ gone' \subseteq Conns
    BY <2>1 DEF ConnStep, Accept, ReadHeader, HeaderTimesOut, Answer, Disconnect, CloseIdle,
       BeginCall, EndCall, CancelCall
  <2>4. call' \in [Conns -> {"none", "response", "error", "cancelled"}]
    BY <2>1 DEF ConnStep, Accept, ReadHeader, HeaderTimesOut, Answer, Disconnect, CloseIdle,
       BeginCall, EndCall, CancelCall
  <2> QED
    BY <1>1, <2>2, <2>3, <2>4 DEF LifeInv, TypeOK, runVars
<1> QED
  BY <1>1, <1>2, <1>3 DEF runVars, LifeInv, Serving, Timely, Drained, NilMeansClean, InFlightFinishes

LEMMA TickKeeps == ASSUME LifeInv, Tick PROVE LifeInv'
<1>1. /\ clock' = clock + 1 /\ UNCHANGED <<runVars, connVars>>
      /\ \/ stage = "serving" /\ ~ctxDone
         \/ stage = "shutdown" /\ clock < deadline
  BY DEF Tick
<1>2. clock \in Nat /\ deadline \in Nat
  BY DEF LifeInv, TypeOK
<1>3. TypeOK'
  <2>1. clock' \in Nat
    BY <1>1, <1>2
  <2> QED
    BY <1>1, <2>1 DEF runVars, connVars, LifeInv, TypeOK
<1>4. Serving' /\ Drained' /\ NilMeansClean' /\ InFlightFinishes'
  BY <1>1 DEF runVars, connVars, LifeInv, Serving, Drained, Quiescent, NilMeansClean,
     InFlightFinishes
<1>5. Timely'
  BY <1>1, <1>2 DEF runVars, LifeInv, Timely
<1> QED
  BY <1>3, <1>4, <1>5 DEF LifeInv

LEMMA LifeStutters == ASSUME LifeInv, UNCHANGED vars PROVE LifeInv'
BY ZenonT(60) DEF vars, runVars, connVars, LifeInv, TypeOK, Serving, Timely, Drained, Quiescent, NilMeansClean,
   InFlightFinishes

LEMMA LifeInvariant == Spec => []LifeInv
<1>1. LifeInv /\ [Next]_vars => LifeInv'
  BY RunKeeps, SignalKeeps, ConnKeeps, TickKeeps, LifeStutters DEF Next, Exited
<1> QED
  BY LifeStarts, <1>1, PTL DEF Spec

-----------------------------------------------------------------------------

\* The stages of run, its channel and the connections have their types.
THEOREM LifecycleTypes == Spec => []TypeOK
<1>1. LifeInv => TypeOK
  BY DEF LifeInv
<1> QED
  BY <1>1, LifeInvariant, PTL

\* run returns nil only after a clean end, whichever branch its select takes
\* (main.go:125, main.go:141).
THEOREM NilIsClean == Spec => []NilMeansClean
<1>1. LifeInv => NilMeansClean
  BY DEF LifeInv
<1> QED
  BY <1>1, LifeInvariant, PTL

\* A request in flight at the signal is not cut off short of its
\* WriteTimeout (main.go:134).
THEOREM InFlightIsSpared == Spec => []InFlightFinishes
<1>1. LifeInv => InFlightFinishes
  BY DEF LifeInv
<1> QED
  BY <1>1, LifeInvariant, PTL

\* The process is gone before the kubelet would kill it (deployment.yaml:68).
THEOREM GoneBeforeKill == Spec => []EndsBeforeKill
<1>1. ASSUME LifeInv, ctxDone, stage # "exited"
      PROVE  clock < signalAt + TermGrace
  <2>1. /\ clock \in Nat /\ signalAt \in Nat
        /\ Budget \in Nat /\ TermGrace \in Nat /\ Budget < TermGrace
    BY <1>1, LifecycleAssumption DEF LifeInv, TypeOK
  <2>2. clock = signalAt \/ clock <= signalAt + Budget
    BY <1>1 DEF LifeInv, TypeOK, Timely
  <2> QED
    BY <2>1, <2>2
<1>2. LifeInv => EndsBeforeKill
  BY <1>1 DEF EndsBeforeKill
<1> QED
  BY <1>2, LifeInvariant, PTL
=============================================================================
