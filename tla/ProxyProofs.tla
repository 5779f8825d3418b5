----------------------------- MODULE ProxyProofs -----------------------------
(* Theorems about Proxy for every set of targets, slices and requests. *)
EXTENDS Proxy, FiniteSetTheorems, TLAPS

\* Where a request is says what it holds: a target only once one is selected,
\* a position other than the first only inside the scan, and only the random
\* balancers draw.
RequestInv ==
    \A r \in Request :
        /\ pc[r] \in {"idle", "next", "draw"} => target[r] = NoTarget
        /\ pc[r] \in {"chosen", "sent"} => target[r] \in Target
        /\ pc[r] # "scan" => pos[r] = 1
        /\ pc[r] = "scan" => pos[r] <= Len(targets) + 1
        /\ pc[r] = "draw" => strategy # "least-connections"

\* Position i of the slice is the best of its first n positions: healthy, no
\* healthy one has fewer connections, and an earlier one has more.
Best(i, n) ==
    /\ i \in 1..n
    /\ healthy[targets[i]]
    /\ \A j \in 1..n : healthy[targets[j]] =>
          /\ active[targets[i]] <= active[targets[j]]
          /\ j < i => active[targets[i]] < active[targets[j]]

\* A scan that has kept nothing has met no healthy target.
ScanInv ==
    \A r \in Request : pc[r] = "scan" /\ target[r] = NoTarget =>
        \A j \in 1..(pos[r] - 1) : ~healthy[targets[j]]

\* A scan that nothing has disturbed holds the best of what it has seen, and
\* the request it is for takes the best of all.
SteadyScan(r) ==
    pc[r] = "scan" /\ target[r] # NoTarget =>
        \E i \in 1..(pos[r] - 1) :
            /\ Best(i, pos[r] - 1)
            /\ target[r] = targets[i]
            /\ least[r] = active[targets[i]]

SteadyChoice(r) ==
    pc[r] = "chosen" =>
        \E i \in 1..Len(targets) : Best(i, Len(targets)) /\ target[r] = targets[i]

SteadyInv ==
    \A r \in Request : steady[r] =>
        strategy = "least-connections" /\ SteadyScan(r) /\ SteadyChoice(r)

SafetyInv == TypeOK /\ RequestInv /\ ScanInv /\ SteadyInv /\ ExactAccounting

-----------------------------------------------------------------------------
\* A slice is a sequence of targets; its members are targets.
LEMMA SliceType ==
    ASSUME TypeOK
    PROVE  /\ targets \in Seq(Target)
           /\ Len(targets) \in Nat
           /\ \A i \in 1..Len(targets) : targets[i] \in Target
           /\ Members \subseteq Target
  <1>1. targets \in Seq(Target)
    BY ProxyAssumption DEF TypeOK
  <1>2. Len(targets) \in Nat /\ \A i \in 1..Len(targets) : targets[i] \in Target
    BY <1>1
  <1> QED
    BY <1>1, <1>2 DEF Members

LEMMA InitSafety == Init => SafetyInv
  <1> SUFFICES ASSUME Init PROVE SafetyInv
    OBVIOUS
  <1>1. TypeOK
    BY ProxyAssumption DEF Init, TypeOK
  <1>2. RequestInv /\ ScanInv /\ SteadyInv
    BY DEF Init, RequestInv, ScanInv, SteadyInv
  <1>3. ExactAccounting
    <2>1. \A t \in Target : InFlight(t) = {}
      BY DEF Init, InFlight
    <2>2. \A t \in Target : Cardinality(InFlight(t)) = 0
      BY <2>1, FS_EmptySet, Zenon
    <2> QED
      BY <2>2 DEF Init, ExactAccounting
  <1> QED
    BY <1>1, <1>2, <1>3 DEF SafetyInv

\* A request that has been counted in keeps the counter of its target positive.
LEMMA CountedIn ==
    ASSUME TypeOK, ExactAccounting, RequestInv,
           NEW r \in Request, pc[r] = "sent"
    PROVE  target[r] \in Target /\ active[target[r]] > 0
  <1>1. target[r] \in Target
    BY DEF RequestInv
  <1>2. r \in InFlight(target[r]) /\ IsFiniteSet(InFlight(target[r]))
    BY ProxyAssumption, FS_Subset DEF InFlight
  <1>3. Cardinality(InFlight(target[r])) \in Nat \ {0}
    BY <1>2, FS_EmptySet, FS_CardinalityType
  <1> QED
    <2>1. active[target[r]] = Cardinality(InFlight(target[r])) + refused[target[r]]
      BY <1>1 DEF ExactAccounting
    <2>2. refused \in [Target -> 0..MaxRefused]
      BY DEF TypeOK
    <2>3. refused[target[r]] \in Nat
      BY <1>1, <2>2, ProxyAssumption
    <2> QED
      BY <1>1, <1>3, <2>1, <2>3

LEMMA NextType ==
    ASSUME TypeOK, RequestInv, ExactAccounting, [Next]_vars
    PROVE  TypeOK'
  <1>0. /\ active \in [Target -> Nat]
        /\ pos \in [Request -> Nat \ {0}]
        /\ target \in [Request -> Target \cup {NoTarget}]
        /\ least \in [Request -> Int]
        /\ refused \in [Target -> 0..MaxRefused]
    BY DEF TypeOK
  <1>1. ASSUME NEW r \in Request, ServeHTTP(r)
        PROVE  TypeOK'
    BY <1>1 DEF ServeHTTP, Goto, Finish, TypeOK
  <1>2. ASSUME NEW r \in Request, BeginScan(r)
        PROVE  TypeOK'
    BY <1>2 DEF BeginScan, Goto, TypeOK
  <1>3. ASSUME NEW r \in Request, Scan(r)
        PROVE  TypeOK'
    <2>1. pos[r] \in 1..Len(targets)
      BY <1>0, <1>3, SliceType DEF Scan, ScanKeeping
    <2>2. targets[pos[r]] \in Target
      BY <2>1, SliceType
    <2>3. active[targets[pos[r]]] \in Int
      BY <1>0, <2>2
    <2>4. pos' \in [Request -> Nat \ {0}]
      BY <1>0, <1>3 DEF Scan, ScanKeeping
    <2>5. /\ target' \in [Request -> Target \cup {NoTarget}]
          /\ least' \in [Request -> Int]
      BY <1>0, <1>3, <2>2, <2>3 DEF Scan, ScanKeeping
    <2> QED
      BY <1>3, <2>4, <2>5 DEF Scan, ScanKeeping, TypeOK
  <1>4. ASSUME NEW r \in Request, EndScan(r)
        PROVE  TypeOK'
    <2>1. /\ pos' \in [Request -> Nat \ {0}]
          /\ least' \in [Request -> Int]
      BY <1>0, <1>4 DEF EndScan
    <2> QED
      BY <1>4, <2>1 DEF EndScan, Goto, Finish, TypeOK
  <1>5. ASSUME NEW r \in Request, NoneHealthy(r)
        PROVE  TypeOK'
    BY <1>5 DEF NoneHealthy, Goto, Finish, TypeOK
  <1>6. ASSUME NEW r \in Request, BeginDraw(r)
        PROVE  TypeOK'
    BY <1>6 DEF BeginDraw, Goto, TypeOK
  <1>7. ASSUME NEW r \in Request, Draw(r)
        PROVE  TypeOK'
    BY <1>7, SliceType DEF Draw, Goto, HealthyTargets, TypeOK
  <1>8. ASSUME NEW r \in Request, DrawRace(r)
        PROVE  TypeOK'
    BY <1>8 DEF DrawRace, Goto, Finish, TypeOK
  <1>9. ASSUME NEW r \in Request, Increment(r)
        PROVE  TypeOK'
    <2>1. target[r] \in Target
      BY <1>9 DEF Increment, RequestInv
    <2>2. active' \in [Target -> Nat]
      BY <1>0, <1>9, <2>1 DEF Increment, Add
    <2> QED
      BY <1>9, <2>2 DEF Increment, Add, Goto, TypeOK
  <1>10. ASSUME NEW r \in Request, Refuse(r)
         PROVE  TypeOK'
    <2>1. target[r] \in Target /\ refused[target[r]] < MaxRefused
      BY <1>10 DEF Refuse, RequestInv
    <2>2. refused' \in [Target -> 0..MaxRefused]
      <3>1. refused[target[r]] + 1 \in 0..MaxRefused
        BY <1>0, <2>1, ProxyAssumption
      <3>2. refused' = [refused EXCEPT ![target[r]] = @ + 1]
        BY <1>10 DEF Refuse
      <3> QED
        BY <1>0, <2>1, <3>1, <3>2, Zenon
    <2> QED
      BY <1>10, <2>2 DEF Refuse, Goto, Finish, TypeOK
  <1>11. ASSUME NEW r \in Request, NEW ok \in BOOLEAN, Answer(r, ok)
         PROVE  TypeOK'
    <2>1. target[r] \in Target /\ active[target[r]] > 0
      BY <1>11, CountedIn DEF Answer, AnswerCounting
    <2>2. active' \in [Target -> Nat]
      <3>1. active[target[r]] + (-1) \in Nat
        BY <1>0, <2>1
      <3>2. active' = [active EXCEPT ![target[r]] = @ + (-1)]
        BY <1>11 DEF Answer, AnswerCounting, Add
      <3> QED
        BY <1>0, <2>1, <3>1, <3>2, Zenon
    <2> QED
      BY <1>11, <2>2 DEF Answer, AnswerCounting, Add, Goto, Finish, TypeOK
  <1>12. ASSUME NEW r \in Request, Copy(r)
         PROVE  TypeOK'
    BY <1>12 DEF Copy, Goto, Finish, TypeOK
  <1>13. ASSUME NEW r \in Request, Done(r)
         PROVE  TypeOK'
    BY <1>13 DEF Done, Goto, TypeOK
  <1>14. ASSUME NEW t \in Target, NEW h \in BOOLEAN, UpdateTargetHealth(t, h)
         PROVE  TypeOK'
    BY <1>14 DEF UpdateTargetHealth, callVars, TypeOK
  <1>15. ASSUME NEW p \in Pool, UpdateTargets(p)
         PROVE  TypeOK'
    BY <1>15 DEF UpdateTargets, callVars, TypeOK
  <1>16. CASE UNCHANGED vars
    BY <1>16 DEF vars, callVars, TypeOK
  <1> QED
    BY <1>1, <1>2, <1>3, <1>4, <1>5, <1>6, <1>7, <1>8, <1>9, <1>10, <1>11,
       <1>12, <1>13, <1>14, <1>15, <1>16 DEF Next, Handle

LEMMA NextRequest ==
    ASSUME TypeOK, RequestInv, [Next]_vars
    PROVE  RequestInv'
  <1>0. /\ pc \in [Request -> {"idle", "next", "scan", "draw", "chosen", "sent",
                             "copy", "done"}]
        /\ pos \in [Request -> Nat \ {0}]
        /\ target \in [Request -> Target \cup {NoTarget}]
    BY DEF TypeOK
  <1>1. ASSUME NEW r \in Request, ServeHTTP(r)
        PROVE  RequestInv'
    BY <1>0, <1>1 DEF ServeHTTP, Goto, Finish, RequestInv
  <1>2. ASSUME NEW r \in Request, BeginScan(r)
        PROVE  RequestInv'
    <2>1. pos[r] = 1 /\ 1 <= Len(targets) + 1
      BY <1>2, SliceType DEF BeginScan, RequestInv
    <2> QED
      BY <1>2, <2>1 DEF BeginScan, Goto, RequestInv, TypeOK
  <1>3. ASSUME NEW r \in Request, Scan(r)
        PROVE  RequestInv'
    <2>1. /\ pos[r] + 1 <= Len(targets) + 1
          /\ pos' = [pos EXCEPT ![r] = pos[r] + 1]
          /\ pc[r] = "scan"
      BY <1>0, <1>3, SliceType DEF Scan, ScanKeeping
    <2>2. \A s \in Request : s # r => target'[s] = target[s]
      BY <1>0, <1>3 DEF Scan, ScanKeeping
    <2>3. pc' = pc /\ targets' = targets /\ strategy' = strategy
      BY <1>3 DEF Scan, ScanKeeping
    <2> QED
      BY <1>0, <2>1, <2>2, <2>3 DEF RequestInv
  <1>4. ASSUME NEW r \in Request, EndScan(r)
        PROVE  RequestInv'
    BY <1>0, <1>4 DEF EndScan, Goto, Finish, RequestInv
  <1>5. ASSUME NEW r \in Request, NoneHealthy(r)
        PROVE  RequestInv'
    BY <1>0, <1>5 DEF NoneHealthy, Goto, Finish, RequestInv
  <1>6. ASSUME NEW r \in Request, BeginDraw(r)
        PROVE  RequestInv'
    BY <1>0, <1>6 DEF BeginDraw, Goto, RequestInv
  <1>7. ASSUME NEW r \in Request, Draw(r)
        PROVE  RequestInv'
    BY <1>0, <1>7, SliceType DEF Draw, Goto, HealthyTargets, RequestInv
  <1>8. ASSUME NEW r \in Request, DrawRace(r)
        PROVE  RequestInv'
    BY <1>0, <1>8 DEF DrawRace, Goto, Finish, RequestInv
  <1>9. ASSUME NEW r \in Request, Increment(r)
        PROVE  RequestInv'
    BY <1>0, <1>9 DEF Increment, Goto, RequestInv
  <1>10. ASSUME NEW r \in Request, Refuse(r)
         PROVE  RequestInv'
    BY <1>0, <1>10 DEF Refuse, Goto, Finish, RequestInv
  <1>11. ASSUME NEW r \in Request, NEW ok \in BOOLEAN, Answer(r, ok)
         PROVE  RequestInv'
    BY <1>0, <1>11 DEF Answer, AnswerCounting, Goto, Finish, RequestInv
  <1>12. ASSUME NEW r \in Request, Copy(r)
         PROVE  RequestInv'
    BY <1>0, <1>12 DEF Copy, Goto, Finish, RequestInv
  <1>13. ASSUME NEW r \in Request, Done(r)
         PROVE  RequestInv'
    BY <1>0, <1>13 DEF Done, Goto, RequestInv
  <1>14. ASSUME NEW t \in Target, NEW h \in BOOLEAN, UpdateTargetHealth(t, h)
         PROVE  RequestInv'
    BY <1>0, <1>14 DEF UpdateTargetHealth, Selecting, callVars, RequestInv
  <1>15. ASSUME NEW p \in Pool, UpdateTargets(p)
         PROVE  RequestInv'
    BY <1>0, <1>15 DEF UpdateTargets, Selecting, callVars, RequestInv
  <1>16. CASE UNCHANGED vars
    BY <1>0, <1>16 DEF vars, callVars, RequestInv
  <1> QED
    BY <1>1, <1>2, <1>3, <1>4, <1>5, <1>6, <1>7, <1>8, <1>9, <1>10, <1>11,
       <1>12, <1>13, <1>14, <1>15, <1>16 DEF Next, Handle

-----------------------------------------------------------------------------
\* A request touches neither the slice nor a flag, and nothing that belongs to
\* another request but its steadiness.
OthersStay(r) ==
    /\ UNCHANGED <<strategy, targets, healthy>>
    /\ \A s \in Request \ {r} :
          /\ pc'[s] = pc[s]
          /\ target'[s] = target[s]
          /\ pos'[s] = pos[s]
          /\ least'[s] = least[s]

LEMMA HandleFrame ==
    ASSUME TypeOK, NEW r \in Request, Handle(r)
    PROVE  OthersStay(r)
  <1>0. /\ pc \in [Request -> {"idle", "next", "scan", "draw", "chosen", "sent",
                             "copy", "done"}]
        /\ pos \in [Request -> Nat \ {0}]
        /\ target \in [Request -> Target \cup {NoTarget}]
        /\ least \in [Request -> Int]
    BY DEF TypeOK
  <1> USE DEF OthersStay, Goto, Finish
  <1>1. CASE ServeHTTP(r)
    BY <1>0, <1>1 DEF ServeHTTP
  <1>2. CASE BeginScan(r)
    BY <1>0, <1>2 DEF BeginScan
  <1>3. CASE Scan(r)
    BY <1>0, <1>3 DEF Scan, ScanKeeping
  <1>4. CASE EndScan(r)
    BY <1>0, <1>4 DEF EndScan
  <1>5. CASE NoneHealthy(r) \/ BeginDraw(r) \/ DrawRace(r)
    BY <1>0, <1>5 DEF NoneHealthy, BeginDraw, DrawRace
  <1>6. CASE Draw(r)
    BY <1>0, <1>6 DEF Draw
  <1>7. CASE Increment(r) \/ Refuse(r)
    BY <1>0, <1>7 DEF Increment, Refuse
  <1>8. ASSUME NEW ok \in BOOLEAN, Answer(r, ok)
        PROVE  OthersStay(r)
    BY <1>0, <1>8 DEF Answer, AnswerCounting
  <1>9. CASE Copy(r) \/ Done(r)
    BY <1>0, <1>9 DEF Copy, Done
  <1> QED
    BY <1>1, <1>2, <1>3, <1>4, <1>5, <1>6, <1>7, <1>8, <1>9 DEF Handle

\* Only the first step of a scan brings a request into the loop.
LEMMA OutsideScan ==
    ASSUME TypeOK, NEW r \in Request, Handle(r), ~BeginScan(r), ~Scan(r)
    PROVE  pc'[r] # "scan"
  <1>0. pc \in [Request -> {"idle", "next", "scan", "draw", "chosen", "sent",
                            "copy", "done"}]
    BY DEF TypeOK
  <1> USE DEF Goto, Finish
  <1>1. CASE ServeHTTP(r) \/ NoneHealthy(r) \/ BeginDraw(r) \/ DrawRace(r)
    BY <1>0, <1>1 DEF ServeHTTP, NoneHealthy, BeginDraw, DrawRace
  <1>2. CASE EndScan(r) \/ Draw(r)
    BY <1>0, <1>2 DEF EndScan, Draw
  <1>3. CASE Increment(r) \/ Refuse(r) \/ Copy(r) \/ Done(r)
    BY <1>0, <1>3 DEF Increment, Refuse, Copy, Done
  <1>4. ASSUME NEW ok \in BOOLEAN, Answer(r, ok)
        PROVE  pc'[r] # "scan"
    BY <1>0, <1>4 DEF Answer, AnswerCounting
  <1> QED
    BY <1>1, <1>2, <1>3, <1>4 DEF Handle

\* The writers of the balancer's lock meet no scan.
LEMMA NextScan ==
    ASSUME TypeOK, RequestInv, ScanInv, [Next]_vars
    PROVE  ScanInv'
  <1>0. /\ pc \in [Request -> {"idle", "next", "scan", "draw", "chosen", "sent",
                             "copy", "done"}]
        /\ pos \in [Request -> Nat \ {0}]
        /\ target \in [Request -> Target \cup {NoTarget}]
    BY DEF TypeOK
  <1>1. ASSUME NEW r \in Request, Handle(r), ~BeginScan(r), ~Scan(r)
        PROVE  ScanInv'
    BY <1>1, HandleFrame, OutsideScan DEF ScanInv, OthersStay
  <1>2. ASSUME NEW r \in Request, BeginScan(r)
        PROVE  ScanInv'
    <2>1. OthersStay(r)
      BY <1>2, HandleFrame DEF Handle
    <2>2. pos'[r] = 1
      BY <1>2 DEF BeginScan, RequestInv
    <2> QED
      BY <2>1, <2>2 DEF ScanInv, OthersStay
  <1>3. ASSUME NEW r \in Request, Scan(r)
        PROVE  ScanInv'
    <2>1. OthersStay(r)
      BY <1>3, HandleFrame DEF Handle
    <2>2. /\ pos'[r] = pos[r] + 1
          /\ pos[r] \in 1..Len(targets)
          /\ pc[r] = "scan"
      BY <1>0, <1>3, SliceType DEF Scan, ScanKeeping
    <2>3. targets[pos[r]] # NoTarget
      BY <2>2, SliceType, ProxyAssumption
    <2>4. ASSUME target'[r] = NoTarget
          PROVE  target[r] = NoTarget /\ ~healthy[targets[pos[r]]]
      BY <1>0, <1>3, <2>3, <2>4 DEF Scan, ScanKeeping
    <2>5. ASSUME target'[r] = NoTarget, NEW j \in 1..(pos'[r] - 1)
          PROVE  ~healthy[targets[j]]
      <3>1. target[r] = NoTarget /\ ~healthy[targets[pos[r]]]
        BY <2>4, <2>5
      <3>2. \A i \in 1..(pos[r] - 1) : ~healthy[targets[i]]
        BY <2>2, <3>1 DEF ScanInv
      <3>3. j \in 1..(pos[r] - 1) \/ j = pos[r]
        BY <2>2, <2>5
      <3> QED
        BY <3>1, <3>2, <3>3
    <2> QED
      BY <2>1, <2>5 DEF ScanInv, OthersStay
  <1>4. ASSUME NEW t \in Target, NEW h \in BOOLEAN, UpdateTargetHealth(t, h)
        PROVE  ScanInv'
    BY <1>4 DEF UpdateTargetHealth, Selecting, callVars, ScanInv
  <1>5. ASSUME NEW p \in Pool, UpdateTargets(p)
        PROVE  ScanInv'
    BY <1>5 DEF UpdateTargets, Selecting, callVars, ScanInv
  <1>6. CASE UNCHANGED vars
    BY <1>6 DEF vars, callVars, ScanInv
  <1> QED
    BY <1>1, <1>2, <1>3, <1>4, <1>5, <1>6 DEF Next

\* What a steady request knows depends on the slice, the flags, the counters
\* and its own variables alone.
LEMMA KnowledgeStays ==
    ASSUME NEW s \in Request,
           UNCHANGED <<targets, healthy, active>>,
           pc'[s] = pc[s], target'[s] = target[s], pos'[s] = pos[s],
           least'[s] = least[s], SteadyScan(s), SteadyChoice(s)
    PROVE  SteadyScan(s)' /\ SteadyChoice(s)'
  BY DEF SteadyScan, SteadyChoice, Best

\* A step that leaves the counters alone, outside of the scan and of the choice
\* of a target, keeps what steady requests know.
LEMMA SteadyFrame ==
    ASSUME SteadyInv, NEW r \in Request, OthersStay(r),
           UNCHANGED <<active, steady>>,
           steady[r] => SteadyScan(r)' /\ SteadyChoice(r)'
    PROVE  SteadyInv'
  <1> SUFFICES ASSUME NEW s \in Request, steady[s]
               PROVE  /\ strategy = "least-connections"
                      /\ SteadyScan(s)' /\ SteadyChoice(s)'
    BY DEF SteadyInv, OthersStay
  <1>1. strategy = "least-connections" /\ SteadyScan(s) /\ SteadyChoice(s)
    BY DEF SteadyInv
  <1>2. CASE s = r
    BY <1>1, <1>2
  <1>3. CASE s # r
    BY <1>1, <1>3, KnowledgeStays DEF OthersStay
  <1> QED
    BY <1>2, <1>3

\* The scan compares the next target with the best so far.
LEMMA ScanKeepsBest ==
    ASSUME TypeOK, RequestInv, ScanInv, NEW r \in Request, Scan(r), SteadyScan(r)
    PROVE  SteadyScan(r)'
  <1>0. /\ pos \in [Request -> Nat \ {0}]
        /\ target \in [Request -> Target \cup {NoTarget}]
        /\ least \in [Request -> Int]
        /\ active \in [Target -> Nat]
        /\ healthy \in [Target -> BOOLEAN]
    BY DEF TypeOK
  <1> PICK n : n = pos[r]
    OBVIOUS
  <1> DEFINE t == targets[n]
  <1>1. /\ pos'[r] - 1 = n
        /\ n \in 1..Len(targets) /\ n \in Nat
        /\ pc[r] = "scan"
        /\ UNCHANGED <<targets, healthy, active>>
    BY <1>0, SliceType DEF Scan, ScanKeeping
  <1>2. /\ t \in Target /\ t # NoTarget
        /\ \A j \in 1..n : targets[j] \in Target /\ active[targets[j]] \in Nat
    BY <1>0, <1>1, SliceType, ProxyAssumption
  <1>3. \A i \in 1..n : Best(i, n)' <=> Best(i, n)
    BY <1>1 DEF Best
  <1> SUFFICES ASSUME target'[r] # NoTarget
               PROVE  \E i \in 1..n : /\ Best(i, n)
                                      /\ target'[r] = targets[i]
                                      /\ least'[r] = active[targets[i]]
    BY <1>1, <1>3 DEF SteadyScan
  <1> HIDE DEF t
  <1>4. CASE target[r] = NoTarget
    <2>1. \A j \in 1..(n - 1) : ~healthy[targets[j]]
      BY <1>1, <1>4 DEF ScanInv
    <2>2. healthy[t] /\ target'[r] = t /\ least'[r] = active[t]
      BY <1>0, <1>4 DEF Scan, ScanKeeping, t
    <2>3. Best(n, n)
      BY <1>1, <1>2, <2>1, <2>2 DEF Best, t
    <2> QED
      BY <1>1, <2>2, <2>3 DEF t
  <1>5. CASE target[r] # NoTarget
    <2> PICK i \in 1..(n - 1) : /\ Best(i, n - 1)
                                /\ target[r] = targets[i]
                                /\ least[r] = active[targets[i]]
      BY <1>1, <1>5 DEF SteadyScan
    <2>1. CASE healthy[t] /\ active[t] < least[r]
      <3>1. target'[r] = t /\ least'[r] = active[t]
        BY <1>0, <2>1 DEF Scan, ScanKeeping, t
      <3>2. \A j \in 1..(n - 1) : healthy[targets[j]] => active[t] < active[targets[j]]
        <4>1. TAKE j \in 1..(n - 1)
        <4>2. active[t] \in Nat /\ active[targets[i]] \in Nat /\ active[targets[j]] \in Nat
          BY <1>1, <1>2, SMTT(30) DEF t
        <4>3. healthy[targets[j]] => active[targets[i]] <= active[targets[j]]
          BY DEF Best
        <4> QED
          BY <2>1, <4>2, <4>3
      <3>3. Best(n, n)
        <4>1. \A j \in 1..n : j = n \/ j \in 1..(n - 1)
          BY <1>1
        <4>2. active[t] <= active[t]
          BY <1>1, <1>2 DEF t
        <4>3. \A j \in 1..(n - 1) : targets[j] \in Target /\ active[targets[j]] \in Nat
          BY <1>1, <1>2
        <4> QED
          BY <1>1, <1>2, <2>1, <3>2, <4>1, <4>2, <4>3 DEF Best, t
      <3> QED
        BY <1>1, <3>1, <3>3 DEF t
    <2>2. CASE ~(healthy[t] /\ active[t] < least[r])
      <3>1. target'[r] = target[r] /\ least'[r] = least[r]
        BY <1>0, <1>5, <2>2 DEF Scan, ScanKeeping, t
      <3>2. Best(i, n)
        BY <1>1, <1>2, <2>2 DEF Best, t
      <3> QED
        BY <1>1, <3>1, <3>2
    <2> QED
      BY <2>1, <2>2
  <1> QED
    BY <1>4, <1>5

LEMMA NextSteady ==
    ASSUME TypeOK, RequestInv, ScanInv, SteadyInv, [Next]_vars
    PROVE  SteadyInv'
  <1>0. /\ pc \in [Request -> {"idle", "next", "scan", "draw", "chosen", "sent",
                             "copy", "done"}]
        /\ pos \in [Request -> Nat \ {0}]
        /\ steady \in [Request -> BOOLEAN]
    BY DEF TypeOK
  <1>1. ASSUME NEW r \in Request, BeginScan(r)
        PROVE  SteadyInv'
    <2>1. OthersStay(r) /\ UNCHANGED active
      BY <1>1, HandleFrame DEF Handle, BeginScan
    <2>2. pc'[r] = "scan" /\ target'[r] = NoTarget
      BY <1>0, <1>1 DEF BeginScan, Goto, RequestInv
    <2>3. SteadyScan(r)' /\ SteadyChoice(r)'
      BY <2>2 DEF SteadyScan, SteadyChoice
    <2>4. strategy = "least-connections" /\ strategy' = strategy
      BY <1>1 DEF BeginScan
    <2>5. ASSUME NEW s \in Request, s # r, steady'[s]
          PROVE  SteadyScan(s)' /\ SteadyChoice(s)'
      <3>1. steady[s]
        BY <1>0, <1>1, <2>5 DEF BeginScan
      <3> QED
        BY <2>1, <2>5, <3>1, KnowledgeStays DEF OthersStay, SteadyInv
    <2> QED
      BY <2>3, <2>4, <2>5 DEF SteadyInv
  <1>2. ASSUME NEW r \in Request, Scan(r)
        PROVE  SteadyInv'
    <2>1. /\ OthersStay(r) /\ UNCHANGED <<active, steady>>
          /\ pc'[r] = "scan"
      BY <1>2, HandleFrame DEF Handle, Scan, ScanKeeping
    <2>2. SteadyChoice(r)'
      BY <2>1 DEF SteadyChoice
    <2>3. steady[r] => SteadyScan(r)'
      BY <1>2, ScanKeepsBest DEF SteadyInv
    <2> QED
      BY <2>1, <2>2, <2>3, SteadyFrame
  <1>3. ASSUME NEW r \in Request, EndScan(r)
        PROVE  SteadyInv'
    <2>1. /\ OthersStay(r) /\ UNCHANGED <<active, steady, target>>
          /\ pc[r] = "scan" /\ pc'[r] # "scan"
      BY <1>0, <1>3, HandleFrame DEF Handle, EndScan, Goto, Finish
    <2>2. pos[r] - 1 = Len(targets)
      BY <1>0, <1>3, <2>1, SliceType DEF EndScan, RequestInv
    <2>3. SteadyScan(r)'
      BY <2>1 DEF SteadyScan
    <2>4. ASSUME steady[r], pc'[r] = "chosen"
          PROVE  SteadyChoice(r)'
      <3>1. target[r] # NoTarget
        BY <1>0, <1>3, <2>4 DEF EndScan, Goto, Finish
      <3>2. \E i \in 1..Len(targets) : Best(i, Len(targets)) /\ target[r] = targets[i]
        BY <2>1, <2>2, <2>4, <3>1 DEF SteadyInv, SteadyScan
      <3> QED
        BY <2>1, <3>2 DEF SteadyChoice, OthersStay, Best
    <2>5. pc'[r] # "chosen" => SteadyChoice(r)'
      BY DEF SteadyChoice
    <2> QED
      BY <2>1, <2>3, <2>4, <2>5, SteadyFrame
  <1>4. ASSUME NEW r \in Request, Draw(r)
        PROVE  SteadyInv'
    <2>1. OthersStay(r) /\ UNCHANGED <<active, steady>>
      BY <1>4, HandleFrame DEF Handle, Draw
    <2>2. ~steady[r]
      BY <1>4, <2>1 DEF Draw, SteadyInv, RequestInv
    <2> QED
      BY <2>1, <2>2, SteadyFrame
  <1>5. ASSUME NEW r \in Request,
               \/ ServeHTTP(r) \/ NoneHealthy(r) \/ BeginDraw(r) \/ DrawRace(r)
               \/ Refuse(r) \/ Copy(r) \/ Done(r)
        PROVE  SteadyInv'
    <2>1. UNCHANGED <<active, steady>> /\ pc'[r] \notin {"scan", "chosen"}
      BY <1>0, <1>5 DEF ServeHTTP, NoneHealthy, BeginDraw, DrawRace, Refuse, Copy,
                        Done, Goto, Finish
    <2>2. OthersStay(r)
      BY <1>5, HandleFrame DEF Handle
    <2>3. SteadyScan(r)' /\ SteadyChoice(r)'
      BY <2>1 DEF SteadyScan, SteadyChoice
    <2> QED
      BY <2>1, <2>2, <2>3, SteadyFrame
  <1>6. ASSUME NEW r \in Request, Increment(r) \/ \E ok \in BOOLEAN : Answer(r, ok)
        PROVE  SteadyInv'
    BY <1>6 DEF Increment, Answer, AnswerCounting, Add, SteadyInv
  <1>7. ASSUME NEW t \in Target, NEW h \in BOOLEAN, UpdateTargetHealth(t, h)
        PROVE  SteadyInv'
    BY <1>7 DEF UpdateTargetHealth, SteadyInv
  <1>8. ASSUME NEW p \in Pool, UpdateTargets(p)
        PROVE  SteadyInv'
    BY <1>8 DEF UpdateTargets, SteadyInv
  <1>9. CASE UNCHANGED vars
    BY <1>9 DEF vars, callVars, SteadyInv, SteadyScan, SteadyChoice, Best
  <1> QED
    BY <1>1, <1>2, <1>3, <1>4, <1>5, <1>6, <1>7, <1>8, <1>9 DEF Next, Handle

-----------------------------------------------------------------------------
LEMMA InFlightFinite ==
    ASSUME NEW t
    PROVE  IsFiniteSet(InFlight(t)) /\ Cardinality(InFlight(t)) \in Nat
  <1>1. InFlight(t) \in SUBSET Request
    BY DEF InFlight
  <1> QED
    BY <1>1, ProxyAssumption, FS_Subset, FS_CardinalityType

\* Nobody is counted in or out by a request that is not "sent" and does not
\* become so.
LEMMA NotSent ==
    ASSUME ExactAccounting, NEW r \in Request, OthersStay(r),
           UNCHANGED <<active, refused>>, pc[r] # "sent", pc'[r] # "sent"
    PROVE  ExactAccounting'
  <1>1. \A t \in Target : InFlight(t)' = InFlight(t)
    BY DEF InFlight, OthersStay
  <1> QED
    BY <1>1 DEF ExactAccounting

\* A request that leaves "sent" leaves the set of its target and no other.
LEMMA LeavesInFlight ==
    ASSUME RequestInv, NEW r \in Request, OthersStay(r),
           pc[r] = "sent", pc'[r] # "sent", NEW t \in Target
    PROVE  Cardinality(InFlight(t)') =
               IF t = target[r] THEN Cardinality(InFlight(t)) - 1
                                ELSE Cardinality(InFlight(t))
  <1>1. InFlight(t)' = InFlight(t) \ {r}
    BY DEF InFlight, OthersStay
  <1>2. r \in InFlight(t) <=> t = target[r]
    BY DEF InFlight
  <1>3. Cardinality(InFlight(t) \ {r}) =
            IF r \in InFlight(t) THEN Cardinality(InFlight(t)) - 1
                                 ELSE Cardinality(InFlight(t))
    BY InFlightFinite, FS_RemoveElement
  <1> QED
    BY <1>1, <1>2, <1>3

LEMMA NextAccounting ==
    ASSUME TypeOK, RequestInv, ExactAccounting, [Next]_vars
    PROVE  ExactAccounting'
  <1>0. /\ pc \in [Request -> {"idle", "next", "scan", "draw", "chosen", "sent",
                             "copy", "done"}]
        /\ active \in [Target -> Nat]
        /\ refused \in [Target -> Nat]
    <2>1. refused \in [Target -> 0..MaxRefused]
      BY DEF TypeOK
    <2>2. refused \in [Target -> Nat]
      BY <2>1, ProxyAssumption
    <2> QED
      BY <2>2 DEF TypeOK
  <1>1. ASSUME NEW r \in Request,
               \/ ServeHTTP(r) \/ BeginScan(r) \/ Scan(r) \/ EndScan(r)
               \/ NoneHealthy(r) \/ BeginDraw(r) \/ Draw(r) \/ DrawRace(r)
               \/ Copy(r) \/ Done(r)
        PROVE  ExactAccounting'
    <2>1. OthersStay(r)
      BY <1>1, HandleFrame DEF Handle
    <2>2. UNCHANGED <<active, refused>>
      BY <1>1 DEF ServeHTTP, BeginScan, Scan, ScanKeeping, EndScan, NoneHealthy,
                  BeginDraw, Draw, DrawRace, Copy, Done
    <2>3. pc[r] # "sent" /\ pc'[r] # "sent"
      BY <1>0, <1>1 DEF ServeHTTP, BeginScan, Scan, ScanKeeping, EndScan, NoneHealthy,
                        BeginDraw, Draw, DrawRace, Copy, Done, Goto, Finish
    <2> QED
      BY <2>1, <2>2, <2>3, NotSent
  <1>2. ASSUME NEW r \in Request, Increment(r)
        PROVE  ExactAccounting'
    <2>1. /\ OthersStay(r)
          /\ pc[r] = "chosen" /\ pc'[r] = "sent"
          /\ UNCHANGED <<target, refused>>
          /\ target[r] \in Target
          /\ active' = [active EXCEPT ![target[r]] = @ + 1]
      BY <1>0, <1>2, HandleFrame DEF Handle, Increment, Add, Goto, RequestInv
    <2> SUFFICES ASSUME NEW t \in Target
                 PROVE  active'[t] = Cardinality(InFlight(t)') + refused[t]
      BY <2>1 DEF ExactAccounting
    <2>2. active[t] = Cardinality(InFlight(t)) + refused[t]
      BY DEF ExactAccounting
    <2>3. CASE t = target[r]
      <3>1. InFlight(t)' = InFlight(t) \cup {r} /\ r \notin InFlight(t)
        BY <2>1, <2>3 DEF InFlight, OthersStay
      <3>2. Cardinality(InFlight(t)') = Cardinality(InFlight(t)) + 1
        BY <3>1, InFlightFinite, FS_AddElement
      <3>3. active'[t] = active[t] + 1
        BY <1>0, <2>1, <2>3
      <3> QED
        BY <1>0, <2>2, <3>2, <3>3, InFlightFinite
    <2>4. CASE t # target[r]
      <3>1. InFlight(t)' = InFlight(t)
        BY <2>1, <2>4 DEF InFlight, OthersStay
      <3>2. active'[t] = active[t]
        BY <1>0, <2>1, <2>4
      <3> QED
        BY <2>2, <3>1, <3>2
    <2> QED
      BY <2>3, <2>4
  <1>3. ASSUME NEW r \in Request, NEW ok \in BOOLEAN, Answer(r, ok)
        PROVE  ExactAccounting'
    <2>1. /\ OthersStay(r)
          /\ pc[r] = "sent" /\ pc'[r] # "sent"
          /\ UNCHANGED refused
          /\ target[r] \in Target
      BY <1>0, <1>3, HandleFrame
         DEF Handle, Answer, AnswerCounting, Goto, Finish, RequestInv
    <2>2. active' = [active EXCEPT ![target[r]] = @ + (-1)]
      BY <1>3 DEF Answer, AnswerCounting, Add
    <2> SUFFICES ASSUME NEW t \in Target
                 PROVE  active'[t] = Cardinality(InFlight(t)') + refused[t]
      BY <2>1 DEF ExactAccounting
    <2>3. active[t] = Cardinality(InFlight(t)) + refused[t]
      BY DEF ExactAccounting
    <2>4. active'[t] = IF t = target[r] THEN active[t] - 1 ELSE active[t]
      BY <1>0, <2>1, <2>2
    <2> QED
      BY <1>0, <2>1, <2>3, <2>4, InFlightFinite, LeavesInFlight
  <1>4. ASSUME NEW r \in Request, Refuse(r)
        PROVE  ExactAccounting'
    <2>1. /\ OthersStay(r)
          /\ pc[r] = "sent" /\ pc'[r] # "sent"
          /\ UNCHANGED active
          /\ target[r] \in Target
      BY <1>0, <1>4, HandleFrame DEF Handle, Refuse, Goto, Finish, RequestInv
    <2>2. refused' = [refused EXCEPT ![target[r]] = @ + 1]
      BY <1>4 DEF Refuse
    <2> SUFFICES ASSUME NEW t \in Target
                 PROVE  active[t] = Cardinality(InFlight(t)') + refused'[t]
      BY <2>1 DEF ExactAccounting
    <2>3. active[t] = Cardinality(InFlight(t)) + refused[t]
      BY DEF ExactAccounting
    <2>4. refused'[t] = IF t = target[r] THEN refused[t] + 1 ELSE refused[t]
      BY <1>0, <2>1, <2>2
    <2> QED
      BY <1>0, <2>1, <2>3, <2>4, InFlightFinite, LeavesInFlight
  <1>5. ASSUME NEW t \in Target, NEW h \in BOOLEAN, UpdateTargetHealth(t, h)
        PROVE  ExactAccounting'
    BY <1>5 DEF UpdateTargetHealth, callVars, ExactAccounting, InFlight
  <1>6. ASSUME NEW p \in Pool, UpdateTargets(p)
        PROVE  ExactAccounting'
    BY <1>6 DEF UpdateTargets, callVars, ExactAccounting, InFlight
  <1>7. CASE UNCHANGED vars
    BY <1>7 DEF vars, callVars, ExactAccounting, InFlight
  <1> QED
    BY <1>1, <1>2, <1>3, <1>4, <1>5, <1>6, <1>7 DEF Next, Handle

-----------------------------------------------------------------------------
LEMMA AlwaysSafe == Spec => []SafetyInv
  <1>1. SafetyInv /\ [Next]_vars => SafetyInv'
    BY NextType, NextRequest, NextScan, NextSteady, NextAccounting DEF SafetyInv
  <1> QED
    BY <1>1, InitSafety, PTL DEF Spec

\* Whatever requests, health updates and new slices interleave, every variable
\* of the proxy keeps its type; in particular no decrement of activeConnections
\* takes a counter below zero.
THEOREM ProxyTypeOK == Spec => []TypeOK
  BY AlwaysSafe, PTL DEF SafetyInv

\* activeConnections of every target is the number of its requests without an
\* answer plus those the reverse proxy refused to send, for any number of
\* requests and targets: ServeHTTP and countingRoundTripper count in pairs.
THEOREM ProxyExactAccounting == Spec => []ExactAccounting
  BY AlwaysSafe, PTL DEF SafetyInv

\* leastConnectionsLoadBalancer.Next() returns the first of the healthy targets
\* with the fewest connections, for slices of any length, whenever no counter and
\* no slice changed since its loop began.
THEOREM ProxyLeastLoadedChosen == Spec => []LeastLoadedChosen
  <1>1. SteadyInv => LeastLoadedChosen
    BY DEF SteadyInv, SteadyChoice, Best, LeastLoadedChosen
  <1> QED
    BY <1>1, AlwaysSafe, PTL DEF SafetyInv
=============================================================================
