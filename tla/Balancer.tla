------------------------------ MODULE Balancer ------------------------------
(***************************************************************************)
(* What the proxy relies on when it calls LoadBalancer.Next(): each call   *)
(* decides in one step, on one consistent view of the slice and the health *)
(* flags, and that view is still the current one when the caller gets the  *)
(* answer.  No lock, no counter and no loop.  RoundRobin implements it.    *)
(***************************************************************************)
EXTENDS Sequences, Naturals

CONSTANTS
    Target,    \* the targets that exist
    Caller,    \* goroutines that call Next()
    Pool,      \* the target slices the balancer may be given
    NoTarget   \* the nil target returned along with an error

VARIABLES
    targets,   \* the slice in use
    healthy,   \* the health flag of every target
    status,    \* of a call: "idle", "pending" or "decided"
    answer     \* the target a decided call returns, or NoTarget

vars == <<targets, healthy, status, answer>>

Members == {targets[i] : i \in 1..Len(targets)}

\* An answer a call may be given now: a healthy member of the slice.  An error
\* needs a cause, an empty slice or an unhealthy member.
Acceptable(t) ==
    \/ t \in Members /\ healthy[t]
    \/ t = NoTarget /\ (Members = {} \/ \E m \in Members : ~healthy[m])

\* Every target starts out healthy, and no call is under way.
Init ==
    /\ targets \in Pool /\ targets # <<>>
    /\ healthy = [t \in Target |-> TRUE]
    /\ status = [c \in Caller |-> "idle"]
    /\ answer = [c \in Caller |-> NoTarget]

\* A request asks for a target.
Call(c) ==
    /\ status[c] = "idle"
    /\ status' = [status EXCEPT ![c] = "pending"]
    /\ UNCHANGED <<targets, healthy, answer>>

\* The one step in which the answer is settled.
Decide(c, t) ==
    /\ status[c] = "pending"
    /\ Acceptable(t)
    /\ status' = [status EXCEPT ![c] = "decided"]
    /\ answer' = [answer EXCEPT ![c] = t]
    /\ UNCHANGED <<targets, healthy>>

\* The caller has the answer.
Return(c) ==
    /\ status[c] = "decided"
    /\ status' = [status EXCEPT ![c] = "idle"]
    /\ answer' = [answer EXCEPT ![c] = NoTarget]
    /\ UNCHANGED <<targets, healthy>>

\* Nothing changes under a decided call.
Unobserved == \A c \in Caller : status[c] # "decided"

\* A verdict of the health checker; it counts for members of the slice only.
UpdateTargetHealth(t, h) ==
    /\ Unobserved
    /\ t \in Members
    /\ healthy' = [healthy EXCEPT ![t] = h]
    /\ UNCHANGED <<targets, status, answer>>

\* A new slice.
UpdateTargets(p) ==
    /\ Unobserved
    /\ targets' = p
    /\ UNCHANGED <<healthy, status, answer>>

Next ==
    \/ \E c \in Caller : \/ Call(c)
                         \/ \E t \in Target \cup {NoTarget} : Decide(c, t)
                         \/ Return(c)
    \/ \E t \in Target, h \in BOOLEAN : UpdateTargetHealth(t, h)
    \/ \E p \in Pool : UpdateTargets(p)

Spec == Init /\ [][Next]_vars
=============================================================================
