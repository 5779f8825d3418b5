-------------------------- MODULE RoundRobinProofs --------------------------
(* Theorems about RoundRobin for every number of targets, callers and index *)
(* values.                                                                  *)
EXTENDS RoundRobin, TLAPS

\* A caller that holds an index works on a slice that is not empty, and only a
\* caller about to return has chosen a target.
CallerInv ==
    \A c \in Caller :
        /\ pc[c] \in {"claim", "check"} => targets # <<>>
        /\ pc[c] # "return" => chosen[c] = NoTarget

SafetyInv == TypeOK /\ CallerInv /\ ReturnsHealthyMember

\* A slice of the pool is a sequence of targets.
LEMMA PoolType ==
    ASSUME NEW p \in Pool
    PROVE  /\ p \in Seq(Target)
           /\ Len(p) \in Nat
           /\ p # <<>> => Len(p) > 0
  BY RoundRobinAssumption

\* An index stands for a position of the slice.
LEMMA AtType ==
    ASSUME TypeOK, targets # <<>>, NEW i \in 0..(IndexRange - 1)
    PROVE  /\ (i % Len(targets)) + 1 \in 1..Len(targets)
           /\ At(i) \in Target
           /\ \E j \in 1..Len(targets) : targets[j] = At(i)
  <1>1. /\ targets \in Seq(Target)
        /\ Len(targets) \in Nat \ {0}
    BY PoolType DEF TypeOK
  <1>2. i \in Nat
    BY RoundRobinAssumption
  <1>3. (i % Len(targets)) + 1 \in 1..Len(targets)
    BY <1>1, <1>2
  <1> QED
    BY <1>1, <1>3 DEF At

\* The load has the same positions after a claim.
LEMMA LoadType ==
    ASSUME TypeOK, NEW p \in 1..Len(targets)
    PROVE  LoadWith(p) \in [1..Len(targets) -> Nat]
  <1> DEFINE more == [load EXCEPT ![p] = @ + 1]
  <1>1. more \in [1..Len(targets) -> Nat]
    <2>1. load \in [1..Len(targets) -> Nat]
      BY DEF TypeOK
    <2>2. load[p] + 1 \in Nat
      BY <2>1
    <2> QED
      BY <2>1, <2>2, Zenon
  <1>2. ASSUME \A i \in DOMAIN more : more[i] > 0
        PROVE  [i \in DOMAIN more |-> more[i] - 1] \in [1..Len(targets) -> Nat]
    <2>1. DOMAIN more = 1..Len(targets)
      BY <1>1
    <2>2. \A i \in 1..Len(targets) : more[i] \in Nat /\ more[i] > 0
      BY <1>1, <1>2, <2>1
    <2> HIDE DEF more
    <2>3. \A i \in 1..Len(targets) : more[i] - 1 \in Nat
      BY <2>2
    <2> QED
      BY <2>1, <2>3
  <1> QED
    BY <1>1, <1>2 DEF LoadWith

LEMMA InitSafety == Init => SafetyInv
  <1> SUFFICES ASSUME Init PROVE SafetyInv
    OBVIOUS
  <1>1. TypeOK
    <2>1. 0 \in 0..(IndexRange - 1)
      BY RoundRobinAssumption
    <2>2. load \in [1..Len(targets) -> Nat]
      BY DEF Init
    <2> QED
      BY <2>1, <2>2 DEF Init, TypeOK
  <1>2. CallerInv /\ ReturnsHealthyMember
    BY DEF Init, CallerInv, ReturnsHealthyMember
  <1> QED
    BY <1>1, <1>2 DEF SafetyInv

\* Every step keeps the invariant.  A write disturbs no reader, because it waits
\* until there is none.
LEMMA NextSafety == SafetyInv /\ [Next]_vars => SafetyInv'
  <1> SUFFICES ASSUME SafetyInv, [Next]_vars PROVE SafetyInv'
    OBVIOUS
  <1> USE DEF SafetyInv
  <1>1. ASSUME NEW c \in Caller, Call(c) PROVE SafetyInv'
    BY <1>1 DEF Call, TypeOK, CallerInv, ReturnsHealthyMember, lbVars
  <1>2. ASSUME NEW c \in Caller, RLock(c) PROVE SafetyInv'
    BY <1>2 DEF RLock, Enter, TypeOK, CallerInv, ReturnsHealthyMember, lbVars
  <1>3. ASSUME NEW c \in Caller, Claim(c) PROVE SafetyInv'
    <2>1. targets # <<>>
      BY <1>3 DEF Claim, ClaimLeaving, CallerInv
    <2>2. nextIndex \in Nat /\ nextIndex < IndexRange
      BY RoundRobinAssumption DEF TypeOK
    <2>3. (nextIndex + 1) % IndexRange \in 0..(IndexRange - 1)
      BY <2>2, RoundRobinAssumption
    <2>4. LoadWith((nextIndex % Len(targets)) + 1) \in [1..Len(targets) -> Nat]
      BY <2>1, AtType, LoadType DEF TypeOK
    <2>5. TypeOK'
      BY <1>3, <2>3, <2>4 DEF Claim, ClaimLeaving, TypeOK
    <2>6. CallerInv' /\ ReturnsHealthyMember'
      BY <1>3 DEF Claim, ClaimLeaving, TypeOK, CallerInv, ReturnsHealthyMember
    <2> QED
      BY <2>5, <2>6
  <1>4. ASSUME NEW c \in Caller, Check(c) PROVE SafetyInv'
    <2>1. /\ At(index[c]) \in Target
          /\ \E j \in 1..Len(targets) : targets[j] = At(index[c])
      BY <1>4, AtType DEF Check, CheckUpTo, TypeOK, CallerInv
    <2>2. TypeOK'
      <3>1. UNCHANGED <<targets, nextIndex, healthy, writer, index, first, alone, load>>
        BY <1>4 DEF Check, CheckUpTo, lbVars
      <3>2. pc' \in [Caller -> {"idle", "rlock", "claim", "check", "return"}]
        BY <1>4 DEF Check, CheckUpTo, TypeOK
      <3>3. tries' \in [Caller -> Nat]
        <4>1. tries \in [Caller -> Nat] /\ tries[c] + 1 \in Nat
          BY DEF TypeOK
        <4>2. tries' = tries \/ tries' = [tries EXCEPT ![c] = tries[c] + 1]
          BY <1>4 DEF Check, CheckUpTo
        <4> QED
          BY <4>1, <4>2, Zenon
      <3>4. chosen' \in [Caller -> Target \cup {NoTarget}]
        BY <1>4, <2>1 DEF Check, CheckUpTo, TypeOK
      <3> QED
        BY <3>1, <3>2, <3>3, <3>4 DEF TypeOK
    <2>3. CallerInv'
      BY <1>4 DEF Check, CheckUpTo, TypeOK, CallerInv, lbVars
    <2>4. ReturnsHealthyMember'
      BY <1>4, <2>1 DEF Check, CheckUpTo, TypeOK, CallerInv, ReturnsHealthyMember, lbVars
    <2> QED
      BY <2>2, <2>3, <2>4
  <1>5. ASSUME NEW c \in Caller, Return(c) PROVE SafetyInv'
    <2>1. 0 \in 0..(IndexRange - 1)
      BY RoundRobinAssumption
    <2>2. TypeOK'
      BY <1>5, <2>1 DEF Return, TypeOK, lbVars
    <2>3. CallerInv' /\ ReturnsHealthyMember'
      BY <1>5 DEF Return, TypeOK, CallerInv, ReturnsHealthyMember, lbVars
    <2> QED
      BY <2>2, <2>3
  <1>6. CASE Lock
    BY <1>6 DEF Lock, TypeOK, CallerInv, ReturnsHealthyMember, callVars
  <1>7. ASSUME NEW t \in Target, NEW h \in BOOLEAN, UpdateTargetHealth(t, h)
        PROVE  SafetyInv'
    BY <1>7 DEF UpdateTargetHealth, SetHealth, Readers, TypeOK, CallerInv,
                ReturnsHealthyMember, callVars
  <1>8. ASSUME NEW p \in Pool, UpdateTargets(p) PROVE SafetyInv'
    <2>1. TypeOK'
      <3>1. /\ targets' = p
            /\ nextIndex' = 0
            /\ writer' = FALSE
            /\ load' = [i \in 1..Len(p) |-> 0]
            /\ UNCHANGED <<healthy, pc, tries, index, chosen, first, alone>>
        BY <1>8 DEF UpdateTargets, callVars
      <3>2. 0 \in 0..(IndexRange - 1)
        BY RoundRobinAssumption
      <3>3. load' \in [1..Len(targets') -> Nat]
        BY <3>1
      <3> QED
        BY <3>1, <3>2, <3>3 DEF TypeOK
    <2>2. CallerInv' /\ ReturnsHealthyMember'
      BY <1>8 DEF UpdateTargets, Readers, TypeOK, CallerInv, ReturnsHealthyMember, callVars
    <2> QED
      BY <2>1, <2>2
  <1>9. CASE UNCHANGED vars
    BY <1>9 DEF vars, lbVars, callVars, TypeOK, CallerInv, ReturnsHealthyMember
  <1> QED
    BY <1>1, <1>2, <1>3, <1>4, <1>5, <1>6, <1>7, <1>8, <1>9 DEF Next, Write

\* Next() and the writers of lb.mu keep every variable within its type.
THEOREM RoundRobinTypeOK == Spec => []TypeOK
  <1>1. SafetyInv => TypeOK
    BY DEF SafetyInv
  <1> QED
    BY <1>1, InitSafety, NextSafety, PTL DEF Spec

\* Whatever Next() returns is, at that moment, a healthy member of the slice.
THEOREM RoundRobinReturnsHealthyMember == Spec => []ReturnsHealthyMember
  <1>1. SafetyInv => ReturnsHealthyMember
    BY DEF SafetyInv
  <1> QED
    BY <1>1, InitSafety, NextSafety, PTL DEF Spec

-----------------------------------------------------------------------------
\* A step that changes the program counter of one caller changes the status of
\* that caller only.
LEMMA StatusStep ==
    ASSUME TypeOK, NEW c \in Caller, NEW l, pc' = [pc EXCEPT ![c] = l]
    PROVE  [d \in Caller |-> Status(d)'] =
               [[d \in Caller |-> Status(d)] EXCEPT ![c] = Status(c)']
  BY DEF Status, TypeOK

\* A write finds no call between its decision and its return.
LEMMA WriteUnobserved == TypeOK /\ Readers = {} => Abstract!Unobserved
  BY DEF Readers, Status, TypeOK, Abstract!Unobserved

LEMMA InitAbstract == Init => Abstract!Init
  BY DEF Init, Abstract!Init, Status

\* Every step is a step of the abstract balancer or leaves it unchanged.  The
\* call decides in Check when the target is healthy or the last try is used up,
\* and in RLock when the slice is empty.
LEMMA NextAbstract == SafetyInv /\ [Next]_vars => [Abstract!Next]_(Abstract!vars)
  <1> SUFFICES ASSUME SafetyInv, [Next]_vars
               PROVE  Abstract!Next \/ UNCHANGED Abstract!vars
    OBVIOUS
  <1> USE DEF SafetyInv
  <1>1. ASSUME NEW c \in Caller, Call(c) PROVE Abstract!Next
    <2>1. Abstract!Call(c)
      BY <1>1, StatusStep DEF Call, Status, TypeOK, lbVars, Abstract!Call
    <2> QED
      BY <2>1 DEF Abstract!Next
  <1>2. ASSUME NEW c \in Caller, RLock(c)
        PROVE  Abstract!Next \/ UNCHANGED Abstract!vars
    <2>1. CASE targets = <<>>
      <3>1. Abstract!Acceptable(NoTarget)
        BY <2>1 DEF Abstract!Acceptable, Abstract!Members
      <3>2. pc' = [pc EXCEPT ![c] = "return"]
        BY <1>2, <2>1 DEF RLock, Enter
      <3>3. Status(c) = "pending" /\ Status(c)' = "decided"
        BY <1>2, <3>2 DEF RLock, Enter, Status, TypeOK
      <3>4. chosen' = [chosen EXCEPT ![c] = NoTarget]
        BY <1>2 DEF RLock, Enter, CallerInv, TypeOK
      <3>5. Abstract!Decide(c, NoTarget)
        BY <1>2, <3>1, <3>2, <3>3, <3>4, StatusStep
           DEF RLock, Enter, lbVars, Abstract!Decide
      <3> QED
        BY <3>5 DEF Abstract!Next
    <2>2. CASE targets # <<>>
      <3>1. pc' = [pc EXCEPT ![c] = "claim"]
        BY <1>2, <2>2 DEF RLock, Enter
      <3>2. \A d \in Caller : Status(d)' = Status(d)
        BY <1>2, <3>1 DEF RLock, Enter, Status, TypeOK
      <3> QED
        BY <1>2, <3>2 DEF RLock, Enter, lbVars, Abstract!vars
    <2> QED
      BY <2>1, <2>2
  <1>3. ASSUME NEW c \in Caller, Claim(c) PROVE UNCHANGED Abstract!vars
    <2>1. \A d \in Caller : Status(d)' = Status(d)
      BY <1>3 DEF Claim, ClaimLeaving, Status, TypeOK
    <2> QED
      BY <1>3, <2>1 DEF Claim, ClaimLeaving, Abstract!vars
  <1>4. ASSUME NEW c \in Caller, Check(c)
        PROVE  Abstract!Next \/ UNCHANGED Abstract!vars
    <2> DEFINE t == At(index[c])
    <2>1. t \in Target /\ t \in Abstract!Members
      BY <1>4, AtType DEF Check, CheckUpTo, TypeOK, CallerInv, Abstract!Members
    <2>2. pc[c] = "check" /\ UNCHANGED <<targets, healthy>>
      BY <1>4 DEF Check, CheckUpTo, lbVars
    <2>3. Status(c) = "pending"
      BY <2>2 DEF Status
    <2>4. CASE healthy[t]
      <3>1. pc' = [pc EXCEPT ![c] = "return"] /\ chosen' = [chosen EXCEPT ![c] = t]
        BY <1>4, <2>4 DEF Check, CheckUpTo
      <3>2. Status(c)' = "decided"
        BY <3>1 DEF Status, TypeOK
      <3>3. Abstract!Decide(c, t)
        <4> HIDE DEF t
        <4> QED
          BY <2>1, <2>2, <2>3, <2>4, <3>1, <3>2, StatusStep
             DEF Abstract!Decide, Abstract!Acceptable
      <3> QED
        BY <2>1, <3>3 DEF Abstract!Next
    <2>5. CASE ~healthy[t] /\ pc'[c] = "return"
      <3>1. Abstract!Acceptable(NoTarget)
        BY <2>1, <2>5 DEF Abstract!Acceptable
      <3>2. pc' = [pc EXCEPT ![c] = "return"]
        BY <1>4, <2>5 DEF Check, CheckUpTo, TypeOK
      <3>3. chosen' = [chosen EXCEPT ![c] = NoTarget]
        BY <1>4, <2>2, <2>5 DEF Check, CheckUpTo, CallerInv, TypeOK
      <3>4. Status(c)' = "decided"
        BY <3>2 DEF Status, TypeOK
      <3>5. Abstract!Decide(c, NoTarget)
        BY <2>2, <2>3, <3>1, <3>2, <3>3, <3>4, StatusStep DEF Abstract!Decide
      <3> QED
        BY <3>5 DEF Abstract!Next
    <2>6. CASE ~healthy[t] /\ pc'[c] # "return"
      <3>1. pc' = [pc EXCEPT ![c] = "claim"] /\ UNCHANGED chosen
        BY <1>4, <2>6 DEF Check, CheckUpTo, TypeOK
      <3>2. \A d \in Caller : Status(d)' = Status(d)
        BY <2>2, <3>1 DEF Status, TypeOK
      <3> QED
        BY <2>2, <3>1, <3>2 DEF Abstract!vars
    <2> QED
      BY <2>4, <2>5, <2>6
  <1>5. ASSUME NEW c \in Caller, Return(c) PROVE Abstract!Next
    <2>1. Status(c) = "decided" /\ Status(c)' = "idle"
      BY <1>5 DEF Return, Status, TypeOK
    <2>2. Abstract!Return(c)
      BY <1>5, <2>1, StatusStep DEF Return, lbVars, Abstract!Return
    <2> QED
      BY <2>2 DEF Abstract!Next
  <1>6. CASE Lock
    BY <1>6 DEF Lock, callVars, Status, Abstract!vars
  <1>7. ASSUME NEW t \in Target, NEW h \in BOOLEAN, UpdateTargetHealth(t, h)
        PROVE  Abstract!Next \/ UNCHANGED Abstract!vars
    <2>1. Abstract!Unobserved
      BY <1>7, WriteUnobserved DEF UpdateTargetHealth
    <2>2. /\ UNCHANGED <<targets, pc, chosen>>
          /\ \A d \in Caller : Status(d)' = Status(d)
      BY <1>7 DEF UpdateTargetHealth, SetHealth, callVars, Status
    <2>3. CASE t \in Abstract!Members
      <3>1. healthy' = [healthy EXCEPT ![t] = h]
        BY <1>7, <2>3 DEF UpdateTargetHealth, SetHealth, Abstract!Members
      <3>2. Abstract!UpdateTargetHealth(t, h)
        BY <2>1, <2>2, <2>3, <3>1 DEF Abstract!UpdateTargetHealth
      <3> QED
        BY <3>2 DEF Abstract!Next
    <2>4. CASE t \notin Abstract!Members
      <3>1. healthy' = healthy
        BY <1>7, <2>4 DEF UpdateTargetHealth, SetHealth, Abstract!Members
      <3> QED
        BY <2>2, <3>1 DEF Abstract!vars
    <2> QED
      BY <2>3, <2>4
  <1>8. ASSUME NEW p \in Pool, UpdateTargets(p) PROVE Abstract!Next
    <2>1. Abstract!Unobserved
      BY <1>8, WriteUnobserved DEF UpdateTargets
    <2>2. Abstract!UpdateTargets(p)
      BY <1>8, <2>1 DEF UpdateTargets, callVars, Status, Abstract!UpdateTargets
    <2> QED
      BY <2>2 DEF Abstract!Next
  <1>9. CASE UNCHANGED vars
    BY <1>9 DEF vars, lbVars, callVars, Status, Abstract!vars
  <1> QED
    BY <1>1, <1>2, <1>3, <1>4, <1>5, <1>6, <1>7, <1>8, <1>9 DEF Next, Write

\* The round-robin balancer, with any number of callers, targets and counter
\* values, implements the balancer that answers each call in one step.
THEOREM RoundRobinAnswersAtomically == Spec => AnswersAtomically
  BY InitAbstract, InitSafety, NextSafety, NextAbstract, PTL
     DEF Spec, AnswersAtomically, Abstract!Spec

-----------------------------------------------------------------------------
(* The counter and the slice positions it stands for.                       *)

\* The positions below the one the counter stands for are one claim ahead.
LoadInv ==
    (targets # <<>> /\ IndexRange % Len(targets) = 0) =>
        \A i \in 1..Len(targets) :
            load[i] = IF i <= nextIndex % Len(targets) THEN 1 ELSE 0

\* The first n indices from the one the call began with stand for unhealthy
\* targets.
Seen(c, n) == \A m \in 0..(n - 1) : ~healthy[At((first[c] + m) % IndexRange)]

\* The indices a lone caller claims follow one another, and those it has passed
\* stand for unhealthy targets.
Lone(c) ==
    /\ pc[c] \in {"idle", "rlock"} => tries[c] = 0
    /\ pc[c] \in {"claim", "check"} => tries[c] < Len(targets)
    /\ pc[c] = "claim" /\ tries[c] > 0 /\ alone[c] =>
          nextIndex = (first[c] + tries[c]) % IndexRange /\ Seen(c, tries[c])
    /\ pc[c] = "check" /\ alone[c] =>
          /\ index[c] = (first[c] + tries[c]) % IndexRange
          /\ nextIndex = (first[c] + tries[c] + 1) % IndexRange
          /\ Seen(c, tries[c])
    /\ pc[c] = "return" /\ chosen[c] = NoTarget /\ targets # <<>> /\ alone[c] =>
          Seen(c, Len(targets))

LoneInv == \A c \in Caller : Lone(c)

CounterInv == SafetyInv /\ LoadInv /\ LoneInv

\* A number has one quotient and remainder.
LEMMA RemainderOf ==
    ASSUME NEW n \in Int, NEW l \in Nat \ {0}, NEW q \in Int, NEW r \in 0..(l - 1),
           n = l * q + r
    PROVE  n % l = r
  OBVIOUS

LEMMA Quotient ==
    ASSUME NEW n \in Int, NEW l \in Nat \ {0}
    PROVE  \E q \in Int, r \in 0..(l - 1) : n = l * q + r /\ n % l = r
  <1>1. n = l * (n \div l) + (n % l) /\ n % l \in 0..(l - 1) /\ n \div l \in Int
    OBVIOUS
  <1> QED
    BY <1>1

\* The next number's remainder is one more, or zero after the largest.
LEMMA NextRemainder ==
    ASSUME NEW n \in Int, NEW l \in Nat \ {0}
    PROVE  (n + 1) % l = IF (n % l) + 1 = l THEN 0 ELSE (n % l) + 1
  <1>1. PICK q \in Int, r \in 0..(l - 1) : n = l * q + r /\ n % l = r
    BY Quotient
  <1>2. CASE r + 1 = l
    <2>1. n + 1 = l * (q + 1) + 0
      BY <1>1, <1>2
    <2>2. 0 \in 0..(l - 1) /\ q + 1 \in Int /\ n + 1 \in Int
      OBVIOUS
    <2>3. (n + 1) % l = 0
      BY <2>1, <2>2, RemainderOf
    <2> QED
      BY <1>1, <1>2, <2>3
  <1>3. CASE r + 1 # l
    <2>1. n + 1 = l * q + (r + 1)
      BY <1>1
    <2>2. r + 1 \in 0..(l - 1) /\ n + 1 \in Int
      BY <1>3
    <2>3. (n + 1) % l = r + 1
      BY <2>1, <2>2, RemainderOf
    <2> QED
      BY <1>1, <1>3, <2>3
  <1> QED
    BY <1>2, <1>3

\* If the slice length divides the range of the counter, the counter may wrap
\* and still stand for the same position.
LEMMA WrapHarmless ==
    ASSUME NEW n \in Int, NEW l \in Nat \ {0}, NEW k \in Nat \ {0}, k % l = 0
    PROVE  (n % k) % l = n % l
  <1>1. PICK a \in Int, u \in 0..(k - 1) : n = k * a + u /\ n % k = u
    BY Quotient
  <1>2. PICK b \in Int : k = l * b
    <2>1. PICK b \in Int, z \in 0..(l - 1) : k = l * b + z /\ k % l = z
      BY Quotient
    <2>2. k = l * b
      BY <2>1
    <2> QED
      BY <2>2
  <1>3. u \in Int
    OBVIOUS
  <1>4. PICK d \in Int, v \in 0..(l - 1) : u = l * d + v /\ u % l = v
    BY <1>3, Quotient
  <1>5. b * a + d \in Int /\ k * a = l * (b * a)
    BY <1>2
  <1>6. \A x \in Int : l * x + (l * d + v) = l * (x + d) + v
    OBVIOUS
  <1>7. n = l * (b * a) + (l * d + v)
    BY <1>1, <1>4, <1>5
  <1>8. n = l * (b * a + d) + v
    BY <1>6, <1>7
  <1>9. n % l = v
    BY <1>5, <1>8, RemainderOf
  <1> QED
    BY <1>1, <1>4, <1>9

\* Any l numbers in a row have every remainder.
LEMMA RemaindersInARow ==
    ASSUME NEW n \in Int, NEW l \in Nat \ {0}, NEW r \in 0..(l - 1)
    PROVE  \E m \in 0..(l - 1) : (n + m) % l = r
  <1>1. PICK q \in Int, u \in 0..(l - 1) : n = l * q + u /\ n % l = u
    BY Quotient
  <1>2. CASE u <= r
    <2>1. r - u \in 0..(l - 1) /\ n + (r - u) \in Int
      BY <1>2
    <2>2. n + (r - u) = l * q + r
      BY <1>1
    <2>3. (n + (r - u)) % l = r
      BY <2>1, <2>2, RemainderOf
    <2> QED
      BY <2>1, <2>3
  <1>3. CASE u > r
    <2>1. r + l - u \in 0..(l - 1) /\ n + (r + l - u) \in Int /\ q + 1 \in Int
      BY <1>3
    <2>2. n + (r + l - u) = l * (q + 1) + r
      BY <1>1
    <2>3. (n + (r + l - u)) % l = r
      BY <2>1, <2>2, RemainderOf
    <2> QED
      BY <2>1, <2>3
  <1> QED
    BY <1>2, <1>3

\* Counting on from a remainder is counting on from the number.
LEMMA CountOn ==
    ASSUME NEW n \in Int, NEW k \in Nat \ {0}
    PROVE  ((n % k) + 1) % k = (n + 1) % k
  <1>1. PICK q \in Int, r \in 0..(k - 1) : n = k * q + r /\ n % k = r
    BY Quotient
  <1>2. r % k = r
    <2>1. r = k * 0 + r /\ r \in Int
      OBVIOUS
    <2> QED
      BY <2>1, RemainderOf
  <1>3. (r + 1) % k = IF r + 1 = k THEN 0 ELSE r + 1
    <2>1. r \in Int
      OBVIOUS
    <2>2. (r + 1) % k = IF (r % k) + 1 = k THEN 0 ELSE (r % k) + 1
      BY <2>1, NextRemainder
    <2> QED
      BY <1>2, <2>2
  <1>4. (n + 1) % k = IF r + 1 = k THEN 0 ELSE r + 1
    <2>1. (n + 1) % k = IF (n % k) + 1 = k THEN 0 ELSE (n % k) + 1
      BY NextRemainder
    <2> QED
      BY <1>1, <2>1
  <1> QED
    BY <1>1, <1>3, <1>4

\* A number below the range is its own remainder.
LEMMA SmallRemainder ==
    ASSUME NEW k \in Nat \ {0}, NEW n \in 0..(k - 1)
    PROVE  n % k = n
  <1>1. n = k * 0 + n /\ n \in Int
    OBVIOUS
  <1> QED
    BY <1>1, RemainderOf

-----------------------------------------------------------------------------
\* A claim completes the round or moves one position ahead.
LEMMA ClaimLoad ==
    ASSUME SafetyInv, LoadInv, NEW c \in Caller, Claim(c)
    PROVE  LoadInv'
  <1> SUFFICES ASSUME targets # <<>>, IndexRange % Len(targets) = 0
               PROVE  \A i \in 1..Len(targets) :
                          load'[i] = IF i <= nextIndex' % Len(targets) THEN 1 ELSE 0
    BY DEF LoadInv, Claim, ClaimLeaving
  <1>1. PICK l : l = Len(targets)
    OBVIOUS
  <1>2. PICK n : n = nextIndex
    OBVIOUS
  <1>3. l \in Nat \ {0} /\ n \in Nat /\ IndexRange \in Nat \ {0} /\ IndexRange % l = 0
    BY <1>1, <1>2, PoolType, RoundRobinAssumption DEF SafetyInv, TypeOK
  <1>4. nextIndex' % l = IF (n % l) + 1 = l THEN 0 ELSE (n % l) + 1
    <2>1. nextIndex' = (n + 1) % IndexRange
      BY <1>2 DEF Claim, ClaimLeaving
    <2>2. n + 1 \in Int /\ n \in Int
      BY <1>3
    <2>3. ((n + 1) % IndexRange) % l = (n + 1) % l
      BY <1>3, <2>2, WrapHarmless
    <2> QED
      BY <1>3, <2>1, <2>2, <2>3, NextRemainder
  <1>5. PICK r \in 0..(l - 1) : r = n % l
    <2>1. n \in Int
      BY <1>3
    <2> QED
      BY <1>3, <2>1, Quotient
  <1>6. /\ load \in [1..l -> Nat]
        /\ \A i \in 1..l : load[i] = IF i <= r THEN 1 ELSE 0
    BY <1>1, <1>2, <1>5 DEF SafetyInv, TypeOK, LoadInv
  <1>7. PICK more : more = [load EXCEPT ![r + 1] = @ + 1]
    OBVIOUS
  <1>8. load' = IF \A i \in DOMAIN more : more[i] > 0
                THEN [i \in DOMAIN more |-> more[i] - 1]
                ELSE more
    BY <1>1, <1>2, <1>5, <1>7 DEF Claim, ClaimLeaving, LoadWith
  <1>9. DOMAIN more = 1..l /\ \A i \in 1..l : more[i] = IF i <= r + 1 THEN 1 ELSE 0
    <2>1. r + 1 \in 1..l
      BY <1>3
    <2>2. load[r + 1] = 0
      BY <1>3, <1>6, <2>1
    <2> QED
      BY <1>3, <1>6, <1>7, <2>1, <2>2
  <1>10. CASE r + 1 = l
    <2>1. \A i \in 1..l : more[i] = 1
      BY <1>3, <1>9, <1>10
    <2>2. load' = [i \in 1..l |-> more[i] - 1]
      BY <1>8, <1>9, <2>1
    <2>3. nextIndex' % l = 0
      BY <1>4, <1>5, <1>10
    <2> QED
      BY <1>1, <1>3, <2>1, <2>2, <2>3
  <1>11. CASE r + 1 # l
    <2>1. l \in 1..l /\ more[l] = 0
      BY <1>3, <1>9, <1>11
    <2>2. load' = more
      BY <1>8, <1>9, <2>1
    <2>3. nextIndex' % l = r + 1
      BY <1>4, <1>5, <1>11
    <2> QED
      BY <1>1, <1>9, <2>2, <2>3
  <1> QED
    BY <1>10, <1>11

LEMMA NextLoad ==
    ASSUME SafetyInv, LoadInv, [Next]_vars
    PROVE  LoadInv'
  <1>1. ASSUME NEW c \in Caller, Call(c) \/ RLock(c) \/ Check(c) \/ Return(c)
        PROVE  LoadInv'
    BY <1>1 DEF Call, RLock, Enter, Check, CheckUpTo, Return, lbVars, LoadInv
  <1>2. ASSUME NEW c \in Caller, Claim(c)
        PROVE  LoadInv'
    BY <1>2, ClaimLoad
  <1>3. CASE Lock
    BY <1>3 DEF Lock, LoadInv
  <1>4. ASSUME NEW t \in Target, NEW h \in BOOLEAN, UpdateTargetHealth(t, h)
        PROVE  LoadInv'
    BY <1>4 DEF UpdateTargetHealth, SetHealth, LoadInv
  <1>5. ASSUME NEW p \in Pool, UpdateTargets(p)
        PROVE  LoadInv'
    <2>1. targets' = p /\ nextIndex' = 0 /\ load' = [i \in 1..Len(p) |-> 0]
      BY <1>5 DEF UpdateTargets
    <2>2. ASSUME p # <<>>
          PROVE  0 % Len(p) = 0
      <3>1. Len(p) \in Nat \ {0}
        BY <2>2, PoolType
      <3> QED
        BY <3>1, SmallRemainder
    <2> QED
      BY <2>1, <2>2 DEF LoadInv
  <1>6. CASE UNCHANGED vars
    BY <1>6 DEF vars, lbVars, LoadInv
  <1> QED
    BY <1>1, <1>2, <1>3, <1>4, <1>5, <1>6 DEF Next, Write

\* What a lone caller knows depends on the slice, the flags, the counter and its
\* own variables.
LEMMA LoneStays ==
    ASSUME NEW d \in Caller, Lone(d), UNCHANGED <<targets, healthy>>,
           pc'[d] = pc[d], tries'[d] = tries[d], index'[d] = index[d],
           chosen'[d] = chosen[d], first'[d] = first[d],
           alone'[d] => alone[d] /\ nextIndex' = nextIndex
    PROVE  Lone(d)'
  BY DEF Lone, Seen, At

\* A step of one caller leaves the variables of the others alone, and so does
\* the balancer unless it claims an index.
LEMMA OthersLone ==
    ASSUME SafetyInv, LoneInv, NEW c \in Caller, NEW d \in Caller, d # c,
           Call(c) \/ RLock(c) \/ Claim(c) \/ Check(c) \/ Return(c)
    PROVE  Lone(d)'
  <1>0. /\ pc \in [Caller -> {"idle", "rlock", "claim", "check", "return"}]
        /\ tries \in [Caller -> Nat]
        /\ index \in [Caller -> 0..(IndexRange - 1)]
        /\ chosen \in [Caller -> Target \cup {NoTarget}]
        /\ first \in [Caller -> 0..(IndexRange - 1)]
        /\ alone \in [Caller -> BOOLEAN]
    BY DEF SafetyInv, TypeOK
  <1>1. UNCHANGED <<targets, healthy>>
    BY DEF Call, RLock, Enter, Claim, ClaimLeaving, Check, CheckUpTo, Return, lbVars
  <1>2. /\ pc'[d] = pc[d]
        /\ tries'[d] = tries[d]
        /\ index'[d] = index[d]
        /\ chosen'[d] = chosen[d]
        /\ first'[d] = first[d]
    BY <1>0 DEF Call, RLock, Enter, Claim, ClaimLeaving, Check, CheckUpTo, Return
  <1>3. alone'[d] => alone[d] /\ nextIndex' = nextIndex
    BY <1>0 DEF Call, RLock, Enter, Claim, ClaimLeaving, Check, CheckUpTo, Return, lbVars
  <1>4. Lone(d)
    BY DEF LoneInv
  <1> QED
    BY <1>1, <1>2, <1>3, <1>4, LoneStays

\* A caller that was alone claims the index after its last one.
LEMMA ClaimLone ==
    ASSUME SafetyInv, NEW c \in Caller, Lone(c), Claim(c)
    PROVE  Lone(c)'
  <1>0. /\ pc \in [Caller -> {"idle", "rlock", "claim", "check", "return"}]
        /\ tries \in [Caller -> Nat]
        /\ index \in [Caller -> 0..(IndexRange - 1)]
        /\ first \in [Caller -> 0..(IndexRange - 1)]
        /\ alone \in [Caller -> BOOLEAN]
        /\ nextIndex \in 0..(IndexRange - 1)
        /\ IndexRange \in Nat \ {0}
    BY RoundRobinAssumption DEF SafetyInv, TypeOK
  <1>1. /\ pc[c] = "claim" /\ pc'[c] = "check"
        /\ index'[c] = nextIndex
        /\ nextIndex' = (nextIndex + 1) % IndexRange
        /\ first'[c] = IF tries[c] = 0 THEN nextIndex ELSE first[c]
        /\ alone'[c] <=> (tries[c] = 0 \/ alone[c])
        /\ UNCHANGED <<targets, healthy, tries>>
    BY <1>0 DEF Claim, ClaimLeaving
  <1>2. tries[c] < Len(targets)
    BY <1>1 DEF Lone
  <1>3. CASE tries[c] = 0
    <2>1. /\ index'[c] = (first'[c] + 0) % IndexRange
          /\ nextIndex' = (first'[c] + 0 + 1) % IndexRange
      <3>1. nextIndex % IndexRange = nextIndex
        BY <1>0, SmallRemainder
      <3>2. first'[c] + 0 = nextIndex
        BY <1>0, <1>1, <1>3
      <3> QED
        BY <1>1, <3>1, <3>2
    <2>2. Seen(c, tries[c])'
      BY <1>1, <1>3 DEF Seen
    <2> QED
      BY <1>1, <1>2, <1>3, <2>1, <2>2 DEF Lone
  <1>4. CASE tries[c] > 0 /\ alone[c]
    <2>1. nextIndex = (first[c] + tries[c]) % IndexRange /\ Seen(c, tries[c])
      BY <1>1, <1>4 DEF Lone
    <2>2. tries[c] # 0 /\ first[c] + tries[c] \in Int
      BY <1>0, <1>4
    <2>3. nextIndex' = (first[c] + tries[c] + 1) % IndexRange
      <3>1. (((first[c] + tries[c]) % IndexRange) + 1) % IndexRange
            = (first[c] + tries[c] + 1) % IndexRange
        BY <1>0, <2>2, CountOn
      <3> QED
        BY <1>1, <2>1, <3>1
    <2>4. first'[c] = first[c]
      BY <1>1, <2>2
    <2>5. Seen(c, tries[c])'
      BY <1>1, <2>1, <2>4 DEF Seen, At
    <2> QED
      BY <1>1, <1>2, <2>1, <2>3, <2>4, <2>5 DEF Lone
  <1>5. CASE tries[c] # 0 /\ ~alone[c]
    BY <1>1, <1>2, <1>5 DEF Lone
  <1> QED
    BY <1>0, <1>3, <1>4, <1>5

\* An unhealthy target is one more that has been passed.
LEMMA CheckLone ==
    ASSUME SafetyInv, NEW c \in Caller, Lone(c), Check(c)
    PROVE  Lone(c)'
  <1>0. /\ pc \in [Caller -> {"idle", "rlock", "claim", "check", "return"}]
        /\ tries \in [Caller -> Nat]
        /\ chosen \in [Caller -> Target \cup {NoTarget}]
        /\ Len(targets) \in Nat
    BY PoolType DEF SafetyInv, TypeOK
  <1>1. /\ pc[c] = "check"
        /\ UNCHANGED <<targets, healthy, nextIndex, index, first, alone>>
    BY DEF Check, CheckUpTo, lbVars
  <1>2. tries[c] < Len(targets) /\ tries[c] \in Nat
    BY <1>0, <1>1 DEF Lone
  <1>3. CASE healthy[At(index[c])]
    <2>1. At(index[c]) # NoTarget
      BY <1>1, AtType, RoundRobinAssumption DEF SafetyInv, CallerInv, TypeOK
    <2>2. pc'[c] = "return" /\ chosen'[c] # NoTarget
      BY <1>0, <1>3, <2>1 DEF Check, CheckUpTo
    <2> QED
      BY <2>2 DEF Lone
  <1>4. CASE ~healthy[At(index[c])]
    <2>1. /\ tries'[c] = tries[c] + 1
          /\ pc'[c] = IF tries[c] + 1 < Len(targets) THEN "claim" ELSE "return"
      BY <1>0, <1>4 DEF Check, CheckUpTo
    <2>2. ASSUME alone[c]
          PROVE  /\ nextIndex = (first[c] + (tries[c] + 1)) % IndexRange
                 /\ Seen(c, tries[c] + 1)
      <3>1. /\ index[c] = (first[c] + tries[c]) % IndexRange
            /\ nextIndex = (first[c] + tries[c] + 1) % IndexRange
            /\ Seen(c, tries[c])
        BY <1>1, <2>2 DEF Lone
      <3>2. first[c] \in Int /\ first[c] + tries[c] + 1 = first[c] + (tries[c] + 1)
        BY <1>2, RoundRobinAssumption DEF SafetyInv, TypeOK
      <3>3. \A m \in 0..((tries[c] + 1) - 1) : m \in 0..(tries[c] - 1) \/ m = tries[c]
        BY <1>2
      <3>4. Seen(c, tries[c] + 1)
        BY <1>4, <3>1, <3>3 DEF Seen
      <3> QED
        BY <3>1, <3>2, <3>4
    <2>3. CASE tries[c] + 1 < Len(targets)
      <3>1. alone[c] => Seen(c, tries[c])'
        BY <1>1, <2>1, <2>2 DEF Seen, At
      <3> QED
        BY <1>1, <2>1, <2>2, <2>3, <3>1 DEF Lone
    <2>4. CASE ~(tries[c] + 1 < Len(targets))
      <3>1. tries[c] + 1 = Len(targets)
        BY <1>0, <1>2, <2>4
      <3>2. alone[c] => Seen(c, Len(targets))'
        BY <1>1, <2>2, <3>1 DEF Seen, At
      <3> QED
        BY <1>1, <2>1, <2>4, <3>2 DEF Lone
    <2> QED
      BY <2>3, <2>4
  <1> QED
    BY <1>3, <1>4

LEMMA NextLone ==
    ASSUME SafetyInv, LoneInv, [Next]_vars
    PROVE  LoneInv'
  <1>0. /\ pc \in [Caller -> {"idle", "rlock", "claim", "check", "return"}]
        /\ tries \in [Caller -> Nat]
    BY DEF SafetyInv, TypeOK
  <1>1. ASSUME NEW c \in Caller, Call(c) \/ RLock(c) \/ Claim(c) \/ Check(c) \/ Return(c),
               Lone(c)'
        PROVE  LoneInv'
    BY <1>1, OthersLone DEF LoneInv
  <1>2. ASSUME NEW c \in Caller, Call(c)
        PROVE  Lone(c)'
    BY <1>0, <1>2 DEF Call, LoneInv, Lone
  <1>3. ASSUME NEW c \in Caller, RLock(c)
        PROVE  Lone(c)'
    <2>1. /\ pc[c] = "rlock" /\ UNCHANGED <<targets, tries>>
          /\ pc'[c] = IF targets = <<>> THEN "return" ELSE "claim"
      BY <1>0, <1>3 DEF RLock, Enter, lbVars
    <2>2. tries[c] = 0
      BY <2>1 DEF LoneInv, Lone
    <2>3. targets # <<>> => 0 < Len(targets)
      BY PoolType DEF SafetyInv, TypeOK
    <2> QED
      BY <2>1, <2>2, <2>3 DEF Lone
  <1>4. ASSUME NEW c \in Caller, Return(c)
        PROVE  Lone(c)'
    BY <1>0, <1>4 DEF Return, Lone
  <1>5. ASSUME Readers = {}, UNCHANGED <<pc, tries>>
        PROVE  LoneInv'
    BY <1>0, <1>5 DEF Readers, LoneInv, Lone
  <1>6. ASSUME \/ \E t \in Target, h \in BOOLEAN : UpdateTargetHealth(t, h)
               \/ \E p \in Pool : UpdateTargets(p)
        PROVE  LoneInv'
    BY <1>5, <1>6 DEF UpdateTargetHealth, SetHealth, UpdateTargets, callVars
  <1>7. CASE Lock \/ UNCHANGED vars
    <2>1. UNCHANGED <<targets, healthy, nextIndex, pc, tries, index, chosen, first, alone>>
      BY <1>7 DEF Lock, vars, lbVars, callVars
    <2> QED
      BY <2>1, LoneStays DEF LoneInv
  <1>8. ASSUME NEW c \in Caller, Call(c) \/ RLock(c) \/ Claim(c) \/ Check(c) \/ Return(c)
        PROVE  LoneInv'
    <2>1. Lone(c)
      BY DEF LoneInv
    <2> QED
      BY <1>1, <1>2, <1>3, <1>4, <1>8, <2>1, ClaimLone, CheckLone
  <1> QED
    BY <1>6, <1>7, <1>8 DEF Next, Write

LEMMA AlwaysCounter == Spec => []CounterInv
  <1>1. Init => CounterInv
    <2>1. ASSUME Init
          PROVE  LoadInv
      <3>1. ASSUME targets # <<>>
            PROVE  0 % Len(targets) = 0
        <4>1. Len(targets) \in Nat \ {0}
          BY <2>1, <3>1, PoolType DEF Init
        <4> QED
          BY <4>1, SmallRemainder
      <3> QED
        BY <2>1, <3>1 DEF Init, LoadInv
    <2>2. ASSUME Init
          PROVE  LoneInv
      BY <2>2 DEF Init, LoneInv, Lone
    <2> QED
      BY <2>1, <2>2, InitSafety DEF CounterInv
  <1>2. CounterInv /\ [Next]_vars => CounterInv'
    BY NextSafety, NextLoad, NextLone DEF CounterInv
  <1> QED
    BY <1>1, <1>2, PTL DEF Spec

\* For any number of callers and any slice whose length divides the range of
\* nextIndex, no interleaving of Next() and UpdateTargets lets one position get
\* two claims more than another.
THEOREM RoundRobinBalancedClaims == Spec => []BalancedClaims
  <1>1. LoadInv => BalancedClaims
    BY DEF LoadInv, BalancedClaims
  <1> QED
    BY <1>1, AlwaysCounter, PTL DEF CounterInv

\* A call of Next() during which no other call claims an index fails only if
\* every target is unhealthy, for slices of any length and also where the uint32
\* counter wraps, if the length divides its range.
THEOREM RoundRobinLoneErrorIsTruthful == Spec => []LoneErrorIsTruthful
  <1>1. CounterInv => LoneErrorIsTruthful
    <2> SUFFICES ASSUME CounterInv, NEW c \in Caller,
                        pc[c] = "return", chosen[c] = NoTarget, targets # <<>>,
                        alone[c], NoHarmfulWrap(c),
                        NEW i \in 1..Len(targets)
                 PROVE  ~healthy[targets[i]]
      BY DEF LoneErrorIsTruthful
    <2>1. /\ Len(targets) \in Nat \ {0}
          /\ IndexRange \in Nat \ {0}
          /\ first[c] \in 0..(IndexRange - 1)
          /\ first[c] \in Int
      BY PoolType, RoundRobinAssumption DEF CounterInv, SafetyInv, TypeOK
    <2>2. Seen(c, Len(targets))
      BY DEF CounterInv, LoneInv, Lone
    <2>3. PICK m \in 0..(Len(targets) - 1) : (first[c] + m) % Len(targets) = i - 1
      <3>1. i - 1 \in 0..(Len(targets) - 1)
        BY <2>1
      <3> QED
        BY <2>1, <3>1, RemaindersInARow
    <2>4. ((first[c] + m) % IndexRange) % Len(targets) = i - 1
      <3>1. CASE first[c] + Len(targets) <= IndexRange
        <4>1. first[c] + m \in 0..(IndexRange - 1)
          BY <2>1, <3>1
        <4>2. (first[c] + m) % IndexRange = first[c] + m
          BY <2>1, <4>1, SmallRemainder
        <4> QED
          BY <2>3, <4>2
      <3>2. CASE IndexRange % Len(targets) = 0
        <4>1. first[c] + m \in Int
          BY <2>1
        <4> QED
          BY <2>1, <2>3, <3>2, <4>1, WrapHarmless
      <3> QED
        BY <3>1, <3>2 DEF NoHarmfulWrap
    <2>5. At((first[c] + m) % IndexRange) = targets[(i - 1) + 1]
      BY <2>4 DEF At
    <2>6. (i - 1) + 1 = i
      BY <2>1
    <2> QED
      BY <2>2, <2>3, <2>5, <2>6 DEF Seen
  <1> QED
    BY <1>1, AlwaysCounter, PTL
=============================================================================
