-------------------------------- MODULE Proxy --------------------------------
(***************************************************************************)
(* The life of a request in Proxy.ServeHTTP (app/proxy/proxy.go): choose a *)
(* target, count it in, hand the request to httputil.ReverseProxy, count   *)
(* it out in countingRoundTripper, copy the response.  Each request is a   *)
(* goroutine of its own; they meet in the targets' activeConnections and   *)
(* in the balancer, which is one of the three of app/proxy/loadbalancer.go *)
(* that RoundRobin does not cover.                                         *)
(*                                                                         *)
(* The least-connections scan reads the counters one at a time, while      *)
(* other requests move them.  The random balancers draw from a rand.Rand   *)
(* that is shared under a read lock although it is not safe for concurrent *)
(* use: two draws at once may index outside its state and panic.           *)
(***************************************************************************)
EXTENDS Integers, Sequences, FiniteSets

CONSTANTS
    Target,       \* the *UpstreamTarget objects
    Pool,         \* the slices of targets the balancer may be given
    Request,      \* request goroutines
    Strategies,   \* the strategies a service may be configured with
    MaxRefused,   \* bound: requests the reverse proxy may refuse
    NoTarget

ASSUME ProxyAssumption ==
    /\ Pool # {}
    /\ Pool \subseteq Seq(Target)
    /\ Strategies \subseteq {"random", "weighted", "least-connections"}
    /\ NoTarget \notin Target
    /\ IsFiniteSet(Request)
    /\ MaxRefused \in Nat

VARIABLES
    strategy,  \* the service's, fixed when its balancer is made
    targets,   \* lb.targets
    healthy,   \* UpstreamTarget.Healthy
    active,    \* UpstreamTarget.activeConnections
    pc,        \* where each request is
    target,    \* upstreamTarget, or the best target of a scan under way
    pos,       \* the position a scan looks at next
    least,     \* minConnections of a scan
    outcome,   \* what the client gets
    \* History, read by the properties only:
    refused,   \* per target, requests the reverse proxy refused to send
    steady     \* neither a counter nor the slice has changed since the
               \* request's scan began

callVars == <<pc, target, pos, least, outcome>>
vars     == <<strategy, targets, healthy, active, callVars, refused, steady>>

Members == {targets[i] : i \in 1..Len(targets)}

HealthyTargets == {t \in Members : healthy[t]}

\* Requests inside lb.Next(), which holds the balancer's read lock.
Selecting == {r \in Request : pc[r] \in {"scan", "draw"}}

\* Goroutines that are in rand.Intn at the same time.
Drawing == {r \in Request : pc[r] = "draw"}

Goto(r, label) == pc' = [pc EXCEPT ![r] = label]

\* The request is answered or given up.
Finish(r, result) ==
    /\ Goto(r, "done")
    /\ outcome' = [outcome EXCEPT ![r] = result]

\* atomic.AddInt64 on the counter of t; a scan under way may miss it.
Add(t, n) ==
    /\ active' = [active EXCEPT ![t] = @ + n]
    /\ steady' = [r \in Request |-> FALSE]

\* A scan looks at the next target, and keeps it if told to and it is healthy.
ScanKeeping(r, keep) ==
    LET t == targets[pos[r]] IN
    /\ pc[r] = "scan"
    /\ pos[r] <= Len(targets)
    /\ pos' = [pos EXCEPT ![r] = @ + 1]
    /\ IF healthy[t] /\ keep
       THEN /\ target' = [target EXCEPT ![r] = t]
            /\ least' = [least EXCEPT ![r] = active[t]]
       ELSE UNCHANGED <<target, least>>
    /\ UNCHANGED <<strategy, targets, healthy, active, pc, outcome, refused, steady>>

\* Header received (ok) or the round trip failed; in both cases the deferred
\* decrement runs n times.
AnswerCounting(r, ok, n) ==
    /\ pc[r] = "sent"
    /\ Add(target[r], -n)
    /\ IF ok THEN Goto(r, "copy") /\ UNCHANGED outcome
             ELSE Finish(r, "bad gateway")
    /\ UNCHANGED <<strategy, targets, healthy, target, pos, least, refused>>

-----------------------------------------------------------------------------
(* Seeded faults; no specification uses them. *)

\* The decrement is not deferred: an error skips it.
AnswerNoDefer(r, ok) == AnswerCounting(r, ok, IF ok THEN 1 ELSE 0)

\* The error path decrements once more, in the ErrorHandler.
AnswerTwice(r, ok) == AnswerCounting(r, ok, IF ok THEN 1 ELSE 2)

\* A tie replaces the target found first.
ScanLastOfTies(r) ==
    ScanKeeping(r, target[r] = NoTarget \/ active[targets[pos[r]]] <= least[r])

-----------------------------------------------------------------------------
\* NewLoadBalancer made a balancer of one of the strategies, with some targets.
Init ==
    /\ strategy \in Strategies
    /\ targets \in Pool /\ targets # <<>>
    /\ healthy = [t \in Target |-> TRUE]
    /\ active = [t \in Target |-> 0]
    /\ pc = [r \in Request |-> "idle"]
    /\ target = [r \in Request |-> NoTarget]
    /\ pos = [r \in Request |-> 1]
    /\ least = [r \in Request |-> -1]
    /\ outcome = [r \in Request |-> "none"]
    /\ refused = [t \in Target |-> 0]
    /\ steady = [r \in Request |-> FALSE]

\* ServeHTTP: the service has a balancer, or it was skipped at start-up.
ServeHTTP(r) ==
    /\ pc[r] = "idle"
    /\ \/ Goto(r, "next") /\ UNCHANGED outcome
       \/ Finish(r, "bad gateway")
    /\ UNCHANGED <<strategy, targets, healthy, active, target, pos, least, refused, steady>>

\* leastConnectionsLoadBalancer.Next() begins its loop ...
BeginScan(r) ==
    /\ pc[r] = "next"
    /\ strategy = "least-connections"
    /\ Goto(r, "scan")
    /\ steady' = [steady EXCEPT ![r] = TRUE]
    /\ UNCHANGED <<strategy, targets, healthy, active, target, pos, least, outcome, refused>>

\* ... reads IsHealthy() and GetActiveConnections() of one target ...
Scan(r) ==
    ScanKeeping(r, target[r] = NoTarget \/ active[targets[pos[r]]] < least[r])

\* ... and returns the best target it has seen, or an error.
EndScan(r) ==
    /\ pc[r] = "scan"
    /\ pos[r] > Len(targets)
    /\ pos' = [pos EXCEPT ![r] = 1]
    /\ least' = [least EXCEPT ![r] = -1]
    /\ IF target[r] = NoTarget
       THEN Finish(r, "unavailable")
       ELSE Goto(r, "chosen") /\ UNCHANGED outcome
    /\ UNCHANGED <<strategy, targets, healthy, active, target, refused, steady>>

\* The random balancers filter the healthy targets; there is none ...
NoneHealthy(r) ==
    /\ pc[r] = "next"
    /\ strategy # "least-connections"
    /\ HealthyTargets = {}
    /\ Finish(r, "unavailable")
    /\ UNCHANGED <<strategy, targets, healthy, active, target, pos, least, refused, steady>>

\* ... or there are some, and rand.Intn is called ...
BeginDraw(r) ==
    /\ pc[r] = "next"
    /\ strategy # "least-connections"
    /\ HealthyTargets # {}
    /\ Goto(r, "draw")
    /\ UNCHANGED <<strategy, targets, healthy, active, target, pos, least, outcome, refused, steady>>

\* ... and returns an index, which may stand for any of them.
Draw(r) ==
    /\ pc[r] = "draw"
    /\ \E t \in HealthyTargets : target' = [target EXCEPT ![r] = t]
    /\ Goto(r, "chosen")
    /\ UNCHANGED <<strategy, targets, healthy, active, pos, least, outcome, refused, steady>>

\* Two concurrent draws spoil the generator's position and one of them panics;
\* the deferred RUnlock still runs and the server drops the connection.
DrawRace(r) ==
    /\ pc[r] = "draw"
    /\ Drawing # {r}
    /\ Finish(r, "panic")
    /\ UNCHANGED <<strategy, targets, healthy, active, target, pos, least, refused, steady>>

\* IncrementActiveConnections, before ReverseProxy.ServeHTTP.
Increment(r) ==
    /\ pc[r] = "chosen"
    /\ Add(target[r], 1)
    /\ Goto(r, "sent")
    /\ UNCHANGED <<strategy, targets, healthy, target, pos, least, outcome, refused>>

\* ReverseProxy calls the ErrorHandler without ever calling RoundTrip: the
\* client asked to switch to a protocol whose name is not printable.
Refuse(r) ==
    /\ pc[r] = "sent"
    /\ \A t \in Target : refused[t] < MaxRefused
    /\ refused' = [refused EXCEPT ![target[r]] = @ + 1]
    /\ Finish(r, "bad gateway")
    /\ UNCHANGED <<strategy, targets, healthy, active, target, pos, least, steady>>

\* countingRoundTripper.RoundTrip returns, on an error through ErrorHandler.
Answer(r, ok) == AnswerCounting(r, ok, 1)

\* ReverseProxy copies the body, or panics with ErrAbortHandler on the way.
Copy(r) ==
    /\ pc[r] = "copy"
    /\ Finish(r, "response") \/ Finish(r, "aborted")
    /\ UNCHANGED <<strategy, targets, healthy, active, target, pos, least, refused, steady>>

\* The goroutine ends; the next request takes its place.
Done(r) ==
    /\ pc[r] = "done"
    /\ Goto(r, "idle")
    /\ target' = [target EXCEPT ![r] = NoTarget]
    /\ outcome' = [outcome EXCEPT ![r] = "none"]
    /\ UNCHANGED <<strategy, targets, healthy, active, pos, least, refused, steady>>

\* UpdateTargetHealth: of these balancers it knows only the random one.  It
\* takes lb.mu, so no request is inside Next().
UpdateTargetHealth(t, h) ==
    /\ strategy = "random"
    /\ Selecting = {}
    /\ t \in Members
    /\ healthy' = [healthy EXCEPT ![t] = h]
    /\ UNCHANGED <<strategy, targets, active, callVars, refused, steady>>

\* UpdateTargets of each of them, under the same lock.  The counters belong to
\* the targets and stay as they are, with the requests that are under way.
UpdateTargets(p) ==
    /\ Selecting = {}
    /\ targets' = p
    /\ steady' = [r \in Request |-> FALSE]
    /\ UNCHANGED <<strategy, healthy, active, callVars, refused>>

Handle(r) ==
    \/ ServeHTTP(r)
    \/ BeginScan(r) \/ Scan(r) \/ EndScan(r)
    \/ NoneHealthy(r) \/ BeginDraw(r) \/ Draw(r) \/ DrawRace(r)
    \/ Increment(r) \/ Refuse(r)
    \/ \E ok \in BOOLEAN : Answer(r, ok)
    \/ Copy(r) \/ Done(r)

Next ==
    \/ \E r \in Request : Handle(r)
    \/ \E t \in Target, h \in BOOLEAN : UpdateTargetHealth(t, h)
    \/ \E p \in Pool : UpdateTargets(p)

Spec == Init /\ [][Next]_vars

-----------------------------------------------------------------------------
\* Every variable keeps its type; no connection counter becomes negative.
TypeOK ==
    /\ strategy \in Strategies
    /\ targets \in Pool
    /\ healthy \in [Target -> BOOLEAN]
    /\ active \in [Target -> Nat]
    /\ pc \in [Request -> {"idle", "next", "scan", "draw", "chosen", "sent",
                           "copy", "done"}]
    /\ target \in [Request -> Target \cup {NoTarget}]
    /\ pos \in [Request -> Nat \ {0}]
    /\ least \in [Request -> Int]
    /\ outcome \in [Request -> {"none", "bad gateway", "unavailable", "panic",
                                "response", "aborted"}]
    /\ refused \in [Target -> 0..MaxRefused]
    /\ steady \in [Request -> BOOLEAN]

\* Requests that have been counted in at t and not yet counted out.
InFlight(t) == {r \in Request : pc[r] = "sent" /\ target[r] = t}

\* Requests that the target of t is handling, up to the end of the response's body.
Handled(t) == {r \in Request : pc[r] \in {"sent", "copy"} /\ target[r] = t}

\* What the counter of a target is, whatever the interleaving: the requests sent
\* to it that have no answer yet, plus those the reverse proxy refused to send.
\* Errors, aborted copies and panics in the balancer neither lose nor repeat a
\* decrement.  What the comments of the code say of it is more; see below.
ExactAccounting ==
    \A t \in Target : active[t] = Cardinality(InFlight(t)) + refused[t]

\* activeConnections "tracks the number of active requests being handled by this
\* target" (loadbalancer.go:21) and is decremented "when the request is done"
\* (proxy.go:364), "regardless of success or failure" (proxy.go:372).  It is not so
\* in two ways: RoundTrip returns with the header of the response, so a request
\* whose body streams is not counted any more; and a request that ReverseProxy
\* refuses never comes to the deferred call, so it stays counted for good.
ActiveIsHandled == \A t \in Target : active[t] = Cardinality(Handled(t))

\* If neither a counter nor the slice changed during the scan and since,
\* least-connections returns the first of the healthy targets with the fewest
\* connections.
LeastLoadedChosen ==
    \A r \in Request :
        pc[r] = "chosen" /\ steady[r] =>
        \E i \in 1..Len(targets) :
            /\ target[r] = targets[i] /\ healthy[targets[i]]
            /\ \A j \in 1..Len(targets) : healthy[targets[j]] =>
                  /\ active[targets[i]] <= active[targets[j]]
                  /\ j < i => active[targets[i]] < active[targets[j]]
=============================================================================
