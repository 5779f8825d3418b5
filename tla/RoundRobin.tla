----------------------------- MODULE RoundRobin -----------------------------
(***************************************************************************)
(* The round-robin load balancer of app/proxy/loadbalancer.go, together    *)
(* with the writers of its RWMutex: Proxy.UpdateTargetHealth (called by    *)
(* the health checker) and UpdateTargets.                                  *)
(*                                                                         *)
(* Any number of request goroutines are inside Next() at the same time:    *)
(* they share the read lock and meet only in the atomic counter nextIndex. *)
(* The counter is a uint32; IndexRange stands for 2^32.                    *)
(***************************************************************************)
EXTENDS Integers, Sequences

CONSTANTS
    Target,      \* the *UpstreamTarget objects that exist
    Caller,      \* goroutines that call Next()
    Pool,        \* the target slices the balancer may be given
    IndexRange,  \* number of values of nextIndex (2^32 in the code)
    NoTarget     \* the nil target returned along with an error

ASSUME RoundRobinAssumption ==
    /\ IndexRange \in Nat \ {0}
    /\ NoTarget \notin Target
    /\ Pool # {}
    /\ Pool \subseteq Seq(Target)
    /\ \A p \in Pool : Len(p) < IndexRange

VARIABLES
    targets,    \* lb.targets
    nextIndex,  \* lb.nextIndex
    healthy,    \* UpstreamTarget.Healthy of every target
    writer,     \* a goroutine has called lb.mu.Lock() and not yet unlocked
    pc,         \* where each caller is in Next()
    tries,      \* iterations of the loop a caller has completed
    index,      \* currentIndex of each caller
    chosen,     \* what Next() is about to return
    \* History, read by the properties only:
    first,      \* the first index the current call of a caller claimed
    alone,      \* no other call has claimed an index since then
    load        \* claims per slice position, less the smallest of them

lbVars   == <<targets, nextIndex, healthy, writer>>
callVars == <<pc, tries, index, chosen>>
vars     == <<lbVars, callVars, first, alone, load>>

\* Callers that hold lb.mu for reading.
Readers == {c \in Caller : pc[c] \in {"claim", "check", "return"}}

\* The target an index stands for: lb.targets[index % uint32(numTargets)].
At(i) == targets[(i % Len(targets)) + 1]

\* The load once position p is claimed: one more claim for p, less what every
\* position has.
LoadWith(p) ==
    LET more == [load EXCEPT ![p] = @ + 1]
    IN  IF \A i \in DOMAIN more : more[i] > 0
        THEN [i \in DOMAIN more |-> more[i] - 1]
        ELSE more

\* A caller takes the current index and leaves the counter at next.
ClaimLeaving(c, next) ==
    /\ pc[c] = "claim"
    /\ index' = [index EXCEPT ![c] = nextIndex]
    /\ nextIndex' = next
    /\ pc' = [pc EXCEPT ![c] = "check"]
    /\ first' = [first EXCEPT ![c] = IF tries[c] = 0 THEN nextIndex ELSE @]
    /\ alone' = [d \in Caller |-> IF d = c THEN tries[c] = 0 \/ alone[c]
                                           ELSE FALSE]
    /\ load' = LoadWith((nextIndex % Len(targets)) + 1)
    /\ UNCHANGED <<targets, healthy, writer, tries, chosen>>

\* One iteration of the loop after the claim: a healthy target is returned, an
\* unhealthy one costs a try, and after max tries the call gives up.
CheckUpTo(c, max) ==
    /\ pc[c] = "check"
    /\ IF healthy[At(index[c])]
       THEN /\ chosen' = [chosen EXCEPT ![c] = At(index[c])]
            /\ pc' = [pc EXCEPT ![c] = "return"]
            /\ UNCHANGED tries
       ELSE /\ tries' = [tries EXCEPT ![c] = @ + 1]
            /\ pc' = [pc EXCEPT ![c] = IF tries[c] + 1 < max
                                       THEN "claim" ELSE "return"]
            /\ UNCHANGED chosen
    /\ UNCHANGED <<lbVars, index, first, alone, load>>

\* The caller has the read lock; an empty slice is an error at once.
Enter(c) ==
    /\ pc[c] = "rlock"
    /\ pc' = [pc EXCEPT ![c] = IF targets = <<>> THEN "return" ELSE "claim"]
    /\ UNCHANGED <<lbVars, tries, index, chosen, first, alone, load>>

\* The first target with that URL gets the flag; none may match.
SetHealth(t, h) ==
    /\ writer
    /\ writer' = FALSE
    /\ healthy' = IF \E i \in 1..Len(targets) : targets[i] = t
                  THEN [healthy EXCEPT ![t] = h]
                  ELSE healthy
    /\ UNCHANGED <<targets, nextIndex, callVars, first, alone, load>>

-----------------------------------------------------------------------------
(* Seeded faults: the slips in the operations below that the properties are  *)
(* there to catch.  No specification uses them.                              *)

\* The counter moves only past a healthy target.
ClaimIfHealthy(c) ==
    ClaimLeaving(c, IF healthy[At(nextIndex)] THEN (nextIndex + 1) % IndexRange
                                              ELSE nextIndex)

\* The loop ends one iteration early.
CheckOneShort(c) == CheckUpTo(c, Len(targets) - 1)

\* RLock() lets a reader overtake a waiting writer.
RLockOvertakes(c) == Enter(c)

\* The loop has no end while it meets unhealthy targets.
CheckForever(c) ==
    /\ pc[c] = "check"
    /\ IF healthy[At(index[c])]
       THEN CheckUpTo(c, Len(targets))
       ELSE /\ pc' = [pc EXCEPT ![c] = "claim"]
            /\ UNCHANGED <<lbVars, tries, index, chosen, first, alone, load>>

\* The health flag is written without lb.mu.
UpdateTargetHealthUnlocked(t, h) == SetHealth(t, h)

-----------------------------------------------------------------------------
\* newRoundRobinLoadBalancer: every target starts out healthy.  NewLoadBalancer
\* makes no balancer without targets; only UpdateTargets can leave it with none.
Init ==
    /\ targets \in Pool /\ targets # <<>>
    /\ nextIndex = 0
    /\ healthy = [t \in Target |-> TRUE]
    /\ writer = FALSE
    /\ pc = [c \in Caller |-> "idle"]
    /\ tries = [c \in Caller |-> 0]
    /\ index = [c \in Caller |-> 0]
    /\ chosen = [c \in Caller |-> NoTarget]
    /\ first = [c \in Caller |-> 0]
    /\ alone = [c \in Caller |-> TRUE]
    /\ load = [i \in 1..Len(targets) |-> 0]

\* A request reaches the balancer.
Call(c) ==
    /\ pc[c] = "idle"
    /\ pc' = [pc EXCEPT ![c] = "rlock"]
    /\ UNCHANGED <<lbVars, tries, index, chosen, first, alone, load>>

\* lb.mu.RLock() is granted only while no writer holds the lock or waits for it.
RLock(c) == ~writer /\ Enter(c)

\* currentIndex := atomic.AddUint32(&lb.nextIndex, 1) - 1
Claim(c) == ClaimLeaving(c, (nextIndex + 1) % IndexRange)

\* target.IsHealthy(), in a loop of len(targets) iterations.
Check(c) == CheckUpTo(c, Len(targets))

\* The deferred RUnlock, whatever is returned; the call's locals are gone.
Return(c) ==
    /\ pc[c] = "return"
    /\ pc' = [pc EXCEPT ![c] = "idle"]
    /\ tries' = [tries EXCEPT ![c] = 0]
    /\ index' = [index EXCEPT ![c] = 0]
    /\ chosen' = [chosen EXCEPT ![c] = NoTarget]
    /\ first' = [first EXCEPT ![c] = 0]
    /\ alone' = [alone EXCEPT ![c] = TRUE]
    /\ UNCHANGED <<lbVars, load>>

-----------------------------------------------------------------------------
\* A writer calls lb.mu.Lock(): from here on new readers wait.
Lock ==
    /\ ~writer
    /\ writer' = TRUE
    /\ UNCHANGED <<targets, nextIndex, healthy, callVars, first, alone, load>>

\* Proxy.UpdateTargetHealth once it has the lock.
UpdateTargetHealth(t, h) == Readers = {} /\ SetHealth(t, h)

\* roundRobinLoadBalancer.UpdateTargets once it has the lock.
UpdateTargets(p) ==
    /\ writer
    /\ Readers = {}
    /\ writer' = FALSE
    /\ targets' = p
    /\ nextIndex' = 0
    /\ load' = [i \in 1..Len(p) |-> 0]
    /\ UNCHANGED <<healthy, callVars, first, alone>>

Write ==
    \/ \E t \in Target, h \in BOOLEAN : UpdateTargetHealth(t, h)
    \/ \E p \in Pool : UpdateTargets(p)

Next ==
    \/ \E c \in Caller : Call(c) \/ RLock(c) \/ Claim(c) \/ Check(c) \/ Return(c)
    \/ Lock
    \/ Write

\* The Go scheduler runs every runnable goroutine eventually.  A reader that
\* waits behind a writer is let in when that writer unlocks (sync.RWMutex), so
\* it is treated strongly fairly even if writers keep coming.
Fairness ==
    /\ \A c \in Caller : /\ SF_vars(RLock(c))
                         /\ WF_vars(Claim(c))
                         /\ WF_vars(Check(c))
                         /\ WF_vars(Return(c))
    /\ WF_vars(Write)

Spec == Init /\ [][Next]_vars

FairSpec == Spec /\ Fairness

-----------------------------------------------------------------------------
\* Every variable keeps its type; nextIndex stays within its width.
TypeOK ==
    /\ targets \in Pool
    /\ nextIndex \in 0..(IndexRange - 1)
    /\ healthy \in [Target -> BOOLEAN]
    /\ writer \in BOOLEAN
    /\ pc \in [Caller -> {"idle", "rlock", "claim", "check", "return"}]
    /\ tries \in [Caller -> Nat]
    /\ index \in [Caller -> 0..(IndexRange - 1)]
    /\ chosen \in [Caller -> Target \cup {NoTarget}]
    /\ first \in [Caller -> 0..(IndexRange - 1)]
    /\ alone \in [Caller -> BOOLEAN]
    /\ load \in [1..Len(targets) -> Nat]

\* The target a call is about to return is one of the balancer's current
\* targets and is healthy at that moment: a health update or a new slice
\* cannot slip in between the test and the return, because both need lb.mu.
ReturnsHealthyMember ==
    \A c \in Caller : pc[c] = "return" /\ chosen[c] # NoTarget =>
        /\ healthy[chosen[c]]
        /\ \E i \in 1..Len(targets) : targets[i] = chosen[c]

\* The indices a call claims run through every slice position: the counter did
\* not wrap during the call, or wrapping does no harm because the slice length
\* divides the range of the counter.
NoHarmfulWrap(c) ==
    \/ first[c] + Len(targets) <= IndexRange
    \/ IndexRange % Len(targets) = 0

\* A call that fails although no other call claimed an index meanwhile is right
\* to fail: every target is unhealthy.  (Next() has looked at each of them.)
LoneErrorIsTruthful ==
    \A c \in Caller :
        (pc[c] = "return" /\ chosen[c] = NoTarget /\ targets # <<>>
            /\ alone[c] /\ NoHarmfulWrap(c))
        => \A i \in 1..Len(targets) : ~healthy[targets[i]]

\* Whatever the interleaving, no target is tried twice more often than another
\* since the last UpdateTargets, when the slice length divides the range of the
\* counter: this is what makes the strategy "round robin".
BalancedClaims ==
    (targets # <<>> /\ IndexRange % Len(targets) = 0)
    => \A i \in 1..Len(targets) : load[i] \in {0, 1}

\* "no healthy targets available after checking all" (loadbalancer.go:183): an
\* error means that no target was healthy.
ErrorMeansNoneHealthy ==
    \A c \in Caller :
        (pc[c] = "return" /\ chosen[c] = NoTarget)
        => \A i \in 1..Len(targets) : ~healthy[targets[i]]

\* Every call of Next() returns, on the error path as well.
EveryCallReturns == \A c \in Caller : (pc[c] = "rlock") ~> (pc[c] = "idle")

\* A health update or a new target slice that waits for the lock gets it, no
\* matter how many requests keep arriving.
EveryWriteHappens == writer ~> ~writer

-----------------------------------------------------------------------------
\* A call of the abstract balancer: inside Next() it is pending until the loop
\* or the test for an empty slice settles what is returned.
Status(c) == IF pc[c] \in {"rlock", "claim", "check"} THEN "pending"
             ELSE IF pc[c] = "return" THEN "decided" ELSE "idle"

Abstract == INSTANCE Balancer WITH
    status <- [c \in Caller |-> Status(c)],
    answer <- chosen

\* Next() with its read lock, counter and loop, and the two writers of lb.mu,
\* implement a balancer that answers each call in one step: the answer is a
\* healthy member of the current slice, or an error with a cause, and neither
\* the slice nor a flag changes before the caller has the answer.
AnswersAtomically == Abstract!Spec
=============================================================================
