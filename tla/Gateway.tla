------------------------------- MODULE Gateway -------------------------------
(***************************************************************************)
(* The life of the process: main() of app/main.go, the server of           *)
(* app/server/server.go, and the health checker, whose steps and variables *)
(* (main, next, flag, ...) are those of module HealthChecker.  main()      *)
(* starts the checker, then the server; a signal makes the server shut     *)
(* down, which waits for the handlers under way but not for ever, and not  *)
(* for a handler that has taken its connection over; then main() stops the *)
(* checker and returns, and with it every goroutine that is left ends.     *)
(***************************************************************************)
EXTENDS HealthChecker

CONSTANT Conn    \* client connections

VARIABLES
    phase,       \* what the main goroutine is in
    listener,    \* the goroutine that serves: none, starting, open, closed
    signalled,   \* a signal waits in stopChan
    conn,        \* none, new, active, idle or upgraded; cut and severed: ended by
                 \* Exit in the middle of a request, or of an upgraded one
    polled,      \* Shutdown has found a connection that is not idle
    timedOut     \* Shutdown has returned the error of its context

serverVars == <<listener, signalled, conn, polled, timedOut>>
gatewayVars == <<phase, serverVars, vars>>

\* Connections http.Server.Shutdown waits for: an upgraded one was hijacked, so
\* the server does not know it any more.
Busy == {c \in Conn : conn[c] \in {"new", "active"}}

Alive == phase # "exited"

\* The process ends, and every goroutine with it.
Exit ==
    /\ phase' = "exited"
    /\ conn' = [c \in Conn |-> IF conn[c] = "active" THEN "cut"
                               ELSE IF conn[c] = "upgraded" THEN "severed"
                               ELSE conn[c]]
    /\ UNCHANGED <<listener, signalled, polled, timedOut>>

\* Shutdown's timeout ends its wait once it has polled in vain, if told to.
GivesUp(may) ==
    /\ phase = "shutdown"
    /\ may
    /\ timedOut' = TRUE
    /\ phase' = "stop"
    /\ UNCHANGED <<listener, signalled, conn, polled, vars>>

-----------------------------------------------------------------------------
(* Seeded faults; no specification uses them. *)

\* The shutdown's context has no timeout.
ShutdownTimesOutNever == GivesUp(FALSE)

\* Notify is undone after the first signal: a second one ends the process.
SignalTwiceKills ==
    /\ Alive
    /\ IF phase \in {"wait", "stop", "stopping", "stopped"}
       THEN /\ signalled' = TRUE
            /\ UNCHANGED <<phase, listener, conn, polled, timedOut>>
       ELSE Exit
    /\ UNCHANGED vars

\* The deferred hc.Stop() runs on the signal, before the server's shutdown.
ReceiveStopsChecker ==
    /\ phase = "wait"
    /\ signalled
    /\ Stop
    /\ signalled' = FALSE
    /\ phase' = "shutdown"
    /\ listener' = "closed"
    /\ UNCHANGED <<conn, polled, timedOut>>

-----------------------------------------------------------------------------
GatewayInit ==
    /\ Init
    /\ phase = "load"
    /\ listener = "none"
    /\ signalled = FALSE
    /\ conn = [c \in Conn |-> "none"]
    /\ polled = FALSE
    /\ timedOut = FALSE

\* LoadConfig and NewProxy succeed, or end the program; see Startup.
Load ==
    /\ phase = "load"
    /\ \/ phase' = "checker" /\ UNCHANGED serverVars
       \/ Exit
    /\ UNCHANGED vars

\* hc.Start()
StartChecker ==
    /\ phase = "checker"
    /\ \/ StartTarget /\ UNCHANGED phase
       \/ Started /\ phase' = "router"
    /\ UNCHANGED serverVars

\* NewRouter and NewServer.
NewRouter ==
    /\ phase = "router"
    /\ phase' = "start"
    /\ UNCHANGED <<serverVars, vars>>

\* Start: signal.Notify, then the goroutine that will listen.
Start ==
    /\ phase = "start"
    /\ phase' = "wait"
    /\ listener' = "starting"
    /\ UNCHANGED <<signalled, conn, polled, timedOut, vars>>

\* ListenAndServe; if Shutdown came first it returns ErrServerClosed at once.
Listen ==
    /\ Alive
    /\ listener = "starting"
    /\ listener' = IF phase = "wait" THEN "open" ELSE "closed"
    /\ UNCHANGED <<phase, signalled, conn, polled, timedOut, vars>>

\* The port is taken, a certificate cannot be read, or accepting fails for good:
\* logging.Fatalf in the goroutine, whatever main() is doing.
ListenFails ==
    /\ Alive
    /\ listener \in {"starting", "open"}
    /\ Exit
    /\ UNCHANGED vars

\* SIGINT or SIGTERM.  Before Notify it ends the process; later it is put into
\* stopChan, or dropped if one is waiting there.
Signal ==
    /\ Alive
    /\ IF phase \in {"load", "checker", "router", "start"}
       THEN Exit
       ELSE /\ signalled' = TRUE
            /\ UNCHANGED <<phase, listener, conn, polled, timedOut>>
    /\ UNCHANGED vars

-----------------------------------------------------------------------------
\* A client connects ...
Accept(c) ==
    /\ Alive /\ listener = "open"
    /\ conn[c] = "none"
    /\ conn' = [conn EXCEPT ![c] = "new"]
    /\ UNCHANGED <<phase, listener, signalled, polled, timedOut, vars>>

\* ... and sends a request, or a further one on the same connection; a new
\* connection may still do so when the shutdown has begun ...
Request(c) ==
    /\ Alive
    /\ conn[c] \in {"new", "idle"}
    /\ conn' = [conn EXCEPT ![c] = "active"]
    /\ UNCHANGED <<phase, listener, signalled, polled, timedOut, vars>>

\* ... which the handler answers.  During a shutdown the connection is closed.
Respond(c) ==
    /\ Alive
    /\ conn[c] = "active"
    /\ conn' = [conn EXCEPT ![c] = IF listener = "closed" THEN "none" ELSE "idle"]
    /\ UNCHANGED <<phase, listener, signalled, polled, timedOut, vars>>

\* The upstream agrees to an Upgrade: ReverseProxy hijacks the connection, and its
\* handler copies in both directions ...
Upgrade(c) ==
    /\ Alive
    /\ conn[c] = "active"
    /\ conn' = [conn EXCEPT ![c] = "upgraded"]
    /\ UNCHANGED <<phase, listener, signalled, polled, timedOut, vars>>

\* ... until one side is done.
HangUp(c) ==
    /\ Alive
    /\ conn[c] = "upgraded"
    /\ conn' = [conn EXCEPT ![c] = "none"]
    /\ UNCHANGED <<phase, listener, signalled, polled, timedOut, vars>>

\* A connection without a request ends: by the client or the server's read or
\* idle timeout, or as one that Shutdown does not wait for any longer.
Disconnect(c) ==
    /\ Alive
    /\ conn[c] \in {"new", "idle"}
    /\ conn' = [conn EXCEPT ![c] = "none"]
    /\ UNCHANGED <<phase, listener, signalled, polled, timedOut, vars>>

-----------------------------------------------------------------------------
\* <-stopChan; http.Server.Shutdown closes the listener and idle connections.
Receive ==
    /\ phase = "wait"
    /\ signalled
    /\ signalled' = FALSE
    /\ phase' = "shutdown"
    /\ listener' = IF listener = "open" THEN "closed" ELSE listener
    /\ conn' = [c \in Conn |-> IF conn[c] = "idle" THEN "none" ELSE conn[c]]
    /\ UNCHANGED <<polled, timedOut, vars>>

\* It polls until all connections are idle ...
Poll ==
    /\ phase = "shutdown"
    /\ Busy # {}
    /\ polled' = TRUE
    /\ UNCHANGED <<phase, listener, signalled, conn, timedOut, vars>>

ShutdownReturns ==
    /\ phase = "shutdown"
    /\ Busy = {}
    /\ phase' = "stop"
    /\ UNCHANGED <<serverVars, vars>>

\* ... or until the timeout.
ShutdownTimesOut == GivesUp(polled)

\* hc.Stop(), whatever Start has returned.
StopChecker ==
    /\ phase = "stop"
    /\ Stop
    /\ phase' = "stopping"
    /\ UNCHANGED serverVars

\* hc.Stop() returns ...
CheckerStopped ==
    /\ phase = "stopping"
    /\ Wait
    /\ phase' = "stopped"
    /\ UNCHANGED serverVars

\* ... and so does main().
Return ==
    /\ phase = "stopped"
    /\ Exit
    /\ UNCHANGED vars

\* Another goroutine's step, as long as there is a process.
Aside(A) == Alive /\ A /\ UNCHANGED <<phase, serverVars>>

\* The monitors of the checker run next to all this; the upstreams they probe
\* do as they like.
Probe(i) == Aside(Monitor(i) \/ Flip(i))

MainSteps ==
    \/ Load \/ StartChecker \/ NewRouter \/ Start
    \/ Receive \/ Poll \/ ShutdownReturns \/ ShutdownTimesOut \/ StopChecker
    \/ CheckerStopped \/ Return

GatewayNext ==
    \/ MainSteps
    \/ Listen \/ ListenFails \/ Signal
    \/ \E c \in Conn : Accept(c) \/ Request(c) \/ Respond(c) \/ Disconnect(c)
                     \/ Upgrade(c) \/ HangUp(c)
    \/ \E i \in Entry : Probe(i)

\* Goroutines that can run do run, tickers fire, the timer of the shutdown too, and
\* a probe ends at the latest with its timeout.  When both branches of a monitor's
\* select stay ready Go picks one at random, so the stop branch is not passed over
\* for ever.  Nothing is assumed of clients, upstreams and handlers: a handler may
\* hang for ever.
GatewayFairness ==
    /\ WF_gatewayVars(MainSteps)
    /\ WF_gatewayVars(ShutdownTimesOut)
    /\ WF_gatewayVars(CheckerStopped)
    /\ \A i \in Entry : /\ WF_gatewayVars(Aside(Tick(i)))
                        /\ WF_gatewayVars(Aside(SelectTick(i)))
                        /\ SF_gatewayVars(Aside(SelectStop(i)))
                        /\ WF_gatewayVars(Aside(PerformCheck(i)))
                        /\ WF_gatewayVars(Aside(Update(i)))

GatewaySpec == GatewayInit /\ [][GatewayNext]_gatewayVars

GatewayFairSpec == GatewaySpec /\ GatewayFairness

-----------------------------------------------------------------------------
\* "Ensures in-flight requests are handled before shutting down" (README.md:29), as
\* far as it goes: a request on a connection the server still owns is lost only if
\* the listener's goroutine failed, or after Shutdown has waited for it until its
\* timeout.
InFlightHandled ==
    \A c \in Conn : conn[c] = "cut" => timedOut \/ listener # "closed"

\* The same of every request, an upgraded one included, as README.md:29 has it.
\* Shutdown (server.go:159) does not know of hijacked connections: it returns in
\* time with such a handler running, and main() exits under it.
EveryRequestHandled ==
    \A c \in Conn : conn[c] \in {"cut", "severed"} => timedOut \/ listener # "closed"

\* A request that may still ask a balancer for a target finds the health checker
\* running, unless the shutdown has given up on it.  One whose connection is
\* upgraded has its target already.
ServedUnderWatch ==
    \A c \in Conn : conn[c] = "active" => main = "running" \/ timedOut

\* hc.Stop() has been called, or the process has ended.
Over == main \in {"stopping", "stopped"} \/ ~Alive

\* A target that stays down is taken out of rotation for good, and one that
\* stays up is put back for good, unless the program ends first.
EventuallyAccurate ==
    \A i \in Entry : Sole(i) /\ ServiceOf(i) \in Checked =>
        /\ <>[](~up[i]) => <>[](~flag[i] \/ Over)
        /\ <>[](up[i]) => <>[](flag[i] \/ Over)

\* A signal the program has seen ends it, even if a handler hangs, a connection
\* stays upgraded, probes are under way and further signals arrive.
SignalEndsProgram == signalled /\ phase = "wait" ~> phase = "exited"
=============================================================================
