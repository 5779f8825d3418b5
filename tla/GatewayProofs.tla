---------------------------- MODULE GatewayProofs ----------------------------
(***************************************************************************)
(* Theorems about HealthChecker, and about Gateway, which runs it, for any *)
(* connections, entries, services and thresholds.                          *)
(***************************************************************************)
EXTENDS Gateway, TLAPS

-----------------------------------------------------------------------------
(* The health checker on its own. *)

\* A counter says how many of the newest results are alike.
Counts(i, n, result) ==
    /\ \A k \in 1..n : recent[i][k] = result
    /\ n < CountCap => recent[i][n + 1] # result

CountInv == \A i \in Entry : /\ Counts(i, failures[i], "fail")
                             /\ Counts(i, successes[i], "ok")

\* A counter at its threshold has moved the verdict.
ThresholdInv ==
    \A i \in Entry : /\ failures[i] >= UnhealthyThreshold => ~isHealthy[i]
                     /\ successes[i] >= HealthyThreshold => isHealthy[i]

\* A target that Start() has not reached yet has no monitor, and without one no
\* verdict but the initial one; Stop() has waited for all monitors.
MonitorInv ==
    /\ \A i \in Entry : i >= next => monitor[i] = "none"
    /\ \A i \in Entry : monitor[i] = "none" => isHealthy[i]
    /\ main = "stopped" => \A i \in Entry : monitor[i] \in {"none", "done"}

CheckerInv == TypeOK /\ CountInv /\ ThresholdInv /\ MonitorInv /\ FlagFollowsVerdict

\* Both thresholds are within the range of the counters.
LEMMA CapBound ==
    /\ CountCap \in Nat
    /\ UnhealthyThreshold \in 1..CountCap
    /\ HealthyThreshold \in 1..CountCap
  BY HealthCheckerAssumption DEF CountCap

LEMMA EntryType == Entry = 1..Len(Entries) /\ Len(Entries) \in Nat
  BY HealthCheckerAssumption DEF Entry

\* A saturating counter stays in its range and reaches every threshold on time.
LEMMA IncrementType ==
    ASSUME NEW n \in 0..CountCap
    PROVE  /\ Increment(n) \in 1..CountCap
           /\ \A t \in 1..CountCap : Increment(n) >= t <=> n + 1 >= t
  BY CapBound DEF Increment

LEMMA InitChecker == Init => CheckerInv
  <1> SUFFICES ASSUME Init PROVE CheckerInv
    OBVIOUS
  <1>1. TypeOK
    BY EntryType, CapBound DEF Init, TypeOK
  <1>2. CountInv
    BY CapBound DEF Init, CountInv, Counts
  <1>3. ThresholdInv
    BY CapBound DEF Init, ThresholdInv
  <1>4. MonitorInv /\ FlagFollowsVerdict
    BY DEF Init, MonitorInv, FlagFollowsVerdict
  <1> QED
    BY <1>1, <1>2, <1>3, <1>4 DEF CheckerInv

\* The results of a target after one more probe.
LEMMA ShiftedResults ==
    ASSUME TypeOK, NEW i \in Entry, NEW success \in BOOLEAN, ProcessCheckResult(i, success)
    PROVE  /\ recent' \in [Entry -> [1..CountCap -> {"ok", "fail", "none"}]]
           /\ recent'[i][1] = (IF success THEN "ok" ELSE "fail")
           /\ \A k \in 1..CountCap : k > 1 => recent'[i][k] = recent[i][k - 1]
           /\ \A j \in Entry : j # i => recent'[j] = recent[j]
  <1> DEFINE row == [k \in 1..CountCap |-> IF k > 1 THEN recent[i][k - 1]
                                           ELSE IF success THEN "ok" ELSE "fail"]
  <1>1. recent' = [recent EXCEPT ![i] = row]
    BY DEF ProcessCheckResult, Process
  <1>2. recent \in [Entry -> [1..CountCap -> {"ok", "fail", "none"}]]
    BY DEF TypeOK
  <1>3. row \in [1..CountCap -> {"ok", "fail", "none"}]
    <2>1. \A k \in 1..CountCap : k > 1 => k - 1 \in 1..CountCap
      BY CapBound
    <2> QED
      BY <1>2, <2>1
  <1>4. row[1] = (IF success THEN "ok" ELSE "fail")
    BY CapBound
  <1>5. \A k \in 1..CountCap : k > 1 => row[k] = recent[i][k - 1]
    OBVIOUS
  <1> HIDE DEF row
  <1> QED
    BY <1>1, <1>2, <1>3, <1>4, <1>5

\* processCheckResult keeps the counters in step with the results.
LEMMA ProcessCounts ==
    ASSUME TypeOK, CountInv, NEW i \in Entry, NEW success \in BOOLEAN,
           ProcessCheckResult(i, success)
    PROVE  CountInv'
  <1>1. /\ failures' = [failures EXCEPT ![i] = IF success THEN 0 ELSE Increment(failures[i])]
        /\ successes' = [successes EXCEPT ![i] = IF success THEN Increment(successes[i]) ELSE 0]
    BY DEF ProcessCheckResult
  <1>2. /\ failures[i] \in 0..CountCap /\ successes[i] \in 0..CountCap
        /\ failures \in [Entry -> 0..CountCap] /\ successes \in [Entry -> 0..CountCap]
    BY DEF TypeOK
  <1>3. ASSUME NEW n \in 0..CountCap, NEW res, Counts(i, n, res),
               recent'[i][1] = res
        PROVE  /\ \A k \in 1..Increment(n) : recent'[i][k] = res
               /\ Increment(n) < CountCap => recent'[i][Increment(n) + 1] # res
    <2>1. ASSUME NEW k \in 1..Increment(n) PROVE recent'[i][k] = res
      <3>1. k \in 1..CountCap /\ (k > 1 => k - 1 \in 1..n)
        BY CapBound DEF Increment
      <3> QED
        BY <1>3, <3>1, ShiftedResults DEF Counts
    <2>2. ASSUME Increment(n) < CountCap PROVE recent'[i][Increment(n) + 1] # res
      <3>1. /\ n < CountCap /\ Increment(n) = n + 1
            /\ n + 2 \in 1..CountCap /\ n + 2 > 1 /\ (n + 2) - 1 = n + 1
        BY <2>2, CapBound DEF Increment
      <3>2. recent'[i][n + 2] = recent[i][n + 1]
        BY <3>1, ShiftedResults
      <3>3. Increment(n) + 1 = n + 2
        BY <3>1
      <3> QED
        BY <1>3, <3>1, <3>2, <3>3 DEF Counts
    <2> QED
      BY <2>1, <2>2
  <1>4. ASSUME NEW j \in Entry, j # i
        PROVE  /\ Counts(j, failures[j], "fail")'
               /\ Counts(j, successes[j], "ok")'
    <2>1. /\ failures'[j] = failures[j] /\ successes'[j] = successes[j]
          /\ recent'[j] = recent[j]
      BY <1>1, <1>2, <1>4, ShiftedResults
    <2> QED
      BY <2>1 DEF CountInv, Counts
  <1>5. CASE success
    <2>1. failures'[i] = 0 /\ successes'[i] = Increment(successes[i]) /\ recent'[i][1] = "ok"
      BY <1>1, <1>2, <1>5, ShiftedResults
    <2>2. Counts(i, failures[i], "fail")'
      BY <2>1, CapBound DEF Counts
    <2>3. Counts(i, successes[i], "ok")
      BY DEF CountInv
    <2>4. Counts(i, successes[i], "ok")'
      BY <1>2, <1>3, <2>1, <2>3 DEF Counts
    <2> QED
      BY <1>4, <2>2, <2>4 DEF CountInv
  <1>6. CASE ~success
    <2>1. successes'[i] = 0 /\ failures'[i] = Increment(failures[i]) /\ recent'[i][1] = "fail"
      BY <1>1, <1>2, <1>6, ShiftedResults
    <2>2. Counts(i, successes[i], "ok")'
      BY <2>1, CapBound DEF Counts
    <2>3. Counts(i, failures[i], "fail")
      BY DEF CountInv
    <2>4. Counts(i, failures[i], "fail")'
      BY <1>2, <1>3, <2>1, <2>3 DEF Counts
    <2> QED
      BY <1>4, <2>2, <2>4 DEF CountInv
  <1> QED
    BY <1>5, <1>6

\* ... and the verdict in step with the counters.
LEMMA ProcessVerdict ==
    ASSUME TypeOK, ThresholdInv, NEW i \in Entry, NEW success \in BOOLEAN,
           ProcessCheckResult(i, success)
    PROVE  /\ ThresholdInv'
           /\ isHealthy[i] /\ ~isHealthy'[i] => failures'[i] >= UnhealthyThreshold
           /\ ~isHealthy[i] /\ isHealthy'[i] => successes'[i] >= HealthyThreshold
           /\ \A j \in Entry : j # i => isHealthy'[j] = isHealthy[j]
  <1> DEFINE f == failures[i] + 1 >= UnhealthyThreshold
             s == successes[i] + 1 >= HealthyThreshold
  <1>1. /\ failures' = [failures EXCEPT ![i] = IF success THEN 0 ELSE Increment(failures[i])]
        /\ successes' = [successes EXCEPT ![i] = IF success THEN Increment(successes[i]) ELSE 0]
        /\ isHealthy' = [isHealthy EXCEPT ![i] = IF success THEN isHealthy[i] \/ s
                                                            ELSE isHealthy[i] /\ ~f]
    BY DEF ProcessCheckResult, Process
  <1>2. /\ failures \in [Entry -> 0..CountCap]
        /\ successes \in [Entry -> 0..CountCap]
        /\ isHealthy \in [Entry -> BOOLEAN]
    BY DEF TypeOK
  <1>3. /\ f <=> Increment(failures[i]) >= UnhealthyThreshold
        /\ s <=> Increment(successes[i]) >= HealthyThreshold
    BY <1>2, IncrementType, CapBound
  <1>4. ~(0 >= UnhealthyThreshold) /\ ~(0 >= HealthyThreshold)
    BY CapBound
  <1> HIDE DEF f, s
  <1>5. \A j \in Entry : j # i => /\ failures'[j] = failures[j]
                                  /\ successes'[j] = successes[j]
                                  /\ isHealthy'[j] = isHealthy[j]
    BY <1>1, <1>2, Zenon
  <1>6. /\ failures'[i] = IF success THEN 0 ELSE Increment(failures[i])
        /\ successes'[i] = IF success THEN Increment(successes[i]) ELSE 0
        /\ isHealthy'[i] = IF success THEN isHealthy[i] \/ s ELSE isHealthy[i] /\ ~f
    BY <1>1, <1>2, Zenon
  <1> QED
    BY <1>3, <1>4, <1>5, <1>6 DEF ThresholdInv

\* The monitor goes on from a probe with an update exactly if the verdict moved.
LEMMA ProcessMonitor ==
    ASSUME TypeOK, NEW i \in Entry, NEW success \in BOOLEAN, ProcessCheckResult(i, success)
    PROVE  /\ isHealthy' \in [Entry -> BOOLEAN]
           /\ monitor' = [monitor EXCEPT ![i] = IF isHealthy'[i] # isHealthy[i]
                                                THEN "update" ELSE "select"]
  BY DEF ProcessCheckResult, Process, TypeOK

LEMMA ProcessType ==
    ASSUME TypeOK, NEW i \in Entry, NEW success \in BOOLEAN, ProcessCheckResult(i, success),
           UNCHANGED <<main, next, flag, ticked, up>>
    PROVE  TypeOK'
  <1>1. /\ failures' = [failures EXCEPT ![i] = IF success THEN 0 ELSE Increment(failures[i])]
        /\ successes' = [successes EXCEPT ![i] = IF success THEN Increment(successes[i]) ELSE 0]
    BY DEF ProcessCheckResult
  <1>2. /\ failures \in [Entry -> 0..CountCap] /\ successes \in [Entry -> 0..CountCap]
        /\ \A j \in Entry : failures[j] = 0 \/ successes[j] = 0
    BY DEF TypeOK
  <1>3. /\ 0 \in 0..CountCap
        /\ Increment(failures[i]) \in 0..CountCap
        /\ Increment(successes[i]) \in 0..CountCap
    BY <1>2, IncrementType, CapBound
  <1>4. failures' \in [Entry -> 0..CountCap] /\ successes' \in [Entry -> 0..CountCap]
    BY <1>1, <1>2, <1>3, Zenon
  <1>5. \A j \in Entry : failures'[j] = 0 \/ successes'[j] = 0
    BY <1>1, <1>2
  <1>6. monitor' \in [Entry -> {"none", "probe", "update", "select", "done"}]
    BY ProcessMonitor DEF TypeOK
  <1> QED
    BY <1>4, <1>5, <1>6, ProcessMonitor, ShiftedResults DEF TypeOK

\* What the proxy does for one entry leaves a target alone that another entry
\* stands for.
LEMMA UpdateFlag ==
    ASSUME TypeOK, NEW i \in Entry, NEW h \in BOOLEAN, UpdateTargetHealth(i, h)
    PROVE  /\ flag' \in [Entry -> BOOLEAN]
           /\ \A j \in Entry : Sole(j) => flag'[j] = IF j = i THEN h ELSE flag[j]
  BY DEF UpdateTargetHealth, Sole, TypeOK

\* A probe.
LEMMA PerformCheckInv ==
    ASSUME CheckerInv, NEW i \in Entry, PerformCheck(i)
    PROVE  CheckerInv'
  <1> USE DEF CheckerInv
  <1>0. monitor[i] = "probe" /\ UNCHANGED <<main, next, flag, ticked, up>>
    BY DEF PerformCheck
  <1>1. CASE ProcessCheckResult(i, up[i])
    <2>1. up[i] \in BOOLEAN
      BY DEF TypeOK
    <2>2. TypeOK' /\ CountInv' /\ ThresholdInv'
      BY <1>0, <1>1, <2>1, ProcessType, ProcessCounts, ProcessVerdict
    <2>3. /\ isHealthy' \in [Entry -> BOOLEAN]
          /\ monitor' = [monitor EXCEPT ![i] = IF isHealthy'[i] # isHealthy[i]
                                               THEN "update" ELSE "select"]
          /\ \A j \in Entry : j # i => isHealthy'[j] = isHealthy[j]
      BY <1>1, <2>1, ProcessMonitor, ProcessVerdict
    <2>4. MonitorInv'
      BY <1>0, <2>3 DEF MonitorInv, TypeOK
    <2>5. FlagFollowsVerdict'
      BY <1>0, <2>3 DEF FlagFollowsVerdict, TypeOK, Sole
    <2> QED
      BY <2>2, <2>4, <2>5
  <1>2. CASE monitor' = [monitor EXCEPT ![i] = "select"] /\ UNCHANGED verdictVars
    <2>1. TypeOK' /\ MonitorInv' /\ FlagFollowsVerdict'
      BY <1>0, <1>2 DEF verdictVars, TypeOK, MonitorInv, FlagFollowsVerdict, Sole
    <2>2. CountInv' /\ ThresholdInv'
      BY <1>2 DEF verdictVars, CountInv, Counts, ThresholdInv
    <2> QED
      BY <2>1, <2>2
  <1> QED
    BY <1>1, <1>2 DEF PerformCheck

LEMMA NextChecker == CheckerInv /\ [Next]_vars => CheckerInv'
  <1> SUFFICES ASSUME CheckerInv, [Next]_vars PROVE CheckerInv'
    OBVIOUS
  <1> USE DEF CheckerInv
  <1>1. ASSUME UNCHANGED verdictVars PROVE CountInv' /\ ThresholdInv'
    BY <1>1 DEF verdictVars, CountInv, Counts, ThresholdInv
  <1>2. CASE StartTarget
    <2>1. next \in Entry /\ next' = next + 1 /\ main = "starting"
          /\ UNCHANGED <<main, verdictVars, ticked, up>>
      BY <1>2 DEF StartTarget
    <2>2. next' \in 1..(Len(Entries) + 1)
      BY <2>1, EntryType
    <2>3. monitor[next] = "none" /\ isHealthy[next]
      BY <2>1, EntryType DEF MonitorInv
    <2>4. CASE UpdateTargetHealth(next, TRUE) /\ monitor' = [monitor EXCEPT ![next] = "probe"]
      <3>1. TypeOK'
        BY <2>1, <2>2, <2>4, UpdateFlag DEF TypeOK, verdictVars
      <3>2. FlagFollowsVerdict'
        BY <2>1, <2>3, <2>4, UpdateFlag DEF FlagFollowsVerdict, TypeOK, verdictVars, Sole
      <3>3. MonitorInv'
        <4>1. \A j \in Entry : j >= next + 1 => j >= next /\ j # next
          BY <2>1, EntryType
        <4> QED
          BY <2>1, <2>4, <4>1 DEF MonitorInv, TypeOK, verdictVars
      <3> QED
        BY <1>1, <2>1, <3>1, <3>2, <3>3
    <2>5. CASE UNCHANGED <<flag, monitor>>
      <3>1. TypeOK' /\ FlagFollowsVerdict'
        BY <2>1, <2>2, <2>5 DEF TypeOK, FlagFollowsVerdict, verdictVars, Sole
      <3>2. MonitorInv'
        <4>1. \A j \in Entry : j >= next + 1 => j >= next
          BY <2>1, EntryType
        <4> QED
          BY <2>1, <2>5, <4>1 DEF MonitorInv, verdictVars
      <3> QED
        BY <1>1, <2>1, <3>1, <3>2
    <2> QED
      BY <1>2, <2>4, <2>5 DEF StartTarget
  <1>3. CASE Started \/ Stop \/ Wait
    <2>1. UNCHANGED <<next, flag, verdictVars, monitor, ticked, up>>
      BY <1>3 DEF Started, Stop, Wait
    <2>2. TypeOK' /\ FlagFollowsVerdict'
      BY <1>3, <2>1 DEF Started, Stop, Wait, TypeOK, FlagFollowsVerdict, verdictVars, Sole
    <2>3. MonitorInv'
      BY <1>3, <2>1 DEF Started, Stop, Wait, MonitorInv, verdictVars
    <2> QED
      BY <1>1, <2>1, <2>2, <2>3
  <1>4. ASSUME NEW i \in Entry, Tick(i) \/ Flip(i) PROVE CheckerInv'
    <2>1. TypeOK' /\ FlagFollowsVerdict' /\ MonitorInv'
      BY <1>4 DEF Tick, Flip, TypeOK, FlagFollowsVerdict, MonitorInv, verdictVars, Sole
    <2>2. UNCHANGED verdictVars
      BY <1>4 DEF Tick, Flip
    <2> QED
      BY <1>1, <2>1, <2>2
  <1>5. ASSUME NEW i \in Entry, SelectTick(i) \/ SelectStop(i) PROVE CheckerInv'
    <2>1. TypeOK' /\ FlagFollowsVerdict' /\ MonitorInv'
      BY <1>5, ZenonT(60)
      DEF SelectTick, SelectStop, TypeOK, FlagFollowsVerdict, MonitorInv, verdictVars, Sole
    <2>2. UNCHANGED verdictVars
      BY <1>5 DEF SelectTick, SelectStop
    <2> QED
      BY <1>1, <2>1, <2>2
  <1>6. ASSUME NEW i \in Entry, PerformCheck(i) PROVE CheckerInv'
    BY <1>6, PerformCheckInv
  <1>7. ASSUME NEW i \in Entry, Update(i) PROVE CheckerInv'
    <2>1. /\ UpdateTargetHealth(i, isHealthy[i])
          /\ isHealthy[i] \in BOOLEAN
          /\ monitor[i] = "update"
          /\ monitor' = [monitor EXCEPT ![i] = "select"]
          /\ UNCHANGED <<main, next, verdictVars, ticked, up>>
      BY <1>7 DEF Update, TypeOK
    <2>2. TypeOK'
      BY <2>1, UpdateFlag DEF TypeOK, verdictVars
    <2>3. FlagFollowsVerdict'
      BY <2>1, UpdateFlag, ZenonT(60) DEF FlagFollowsVerdict, TypeOK, verdictVars, Sole
    <2>4. MonitorInv'
      BY <2>1 DEF MonitorInv, TypeOK, verdictVars
    <2> QED
      BY <1>1, <2>1, <2>2, <2>3, <2>4
  <1>8. CASE UNCHANGED vars
    <2>1. TypeOK' /\ FlagFollowsVerdict' /\ MonitorInv'
      BY <1>8 DEF vars, verdictVars, TypeOK, FlagFollowsVerdict, MonitorInv, Sole
    <2> QED
      BY <1>1, <1>8, <2>1 DEF vars
  <1> QED
    BY <1>2, <1>3, <1>4, <1>5, <1>6, <1>7, <1>8 DEF Next, Monitor

LEMMA CheckerInvariant == Spec => []CheckerInv
  BY InitChecker, NextChecker, PTL DEF Spec

-----------------------------------------------------------------------------
\* The checker keeps every variable within its type, and of the two counters of
\* a target one is always zero.
THEOREM HealthCheckerTypeOK == Spec => []TypeOK
  <1>1. CheckerInv => TypeOK
    BY DEF CheckerInv
  <1> QED
    BY <1>1, CheckerInvariant, PTL

\* Between probes the balancer's flag is the monitor's verdict.
THEOREM HealthCheckerFlagFollowsVerdict == Spec => []FlagFollowsVerdict
  <1>1. CheckerInv => FlagFollowsVerdict
    BY DEF CheckerInv
  <1> QED
    BY <1>1, CheckerInvariant, PTL

\* A row that starts with exactly n equal results starts with t of them iff the
\* count n has reached t.
LEMMA ExactRow ==
    ASSUME NEW row, NEW res, NEW n \in 0..CountCap, NEW t \in 1..CountCap,
           \A k \in 1..n : row[k] = res,
           n < CountCap => row[n + 1] # res
    PROVE  (\A k \in 1..t : row[k] = res) <=> n >= t
  <1>1. ASSUME n >= t PROVE \A k \in 1..t : row[k] = res
    BY <1>1, CapBound
  <1>2. ASSUME ~(n >= t) PROVE ~\A k \in 1..t : row[k] = res
    <2>1. n < CountCap /\ n + 1 \in 1..t
      BY <1>2, CapBound
    <2> QED
      BY <2>1
  <1> QED
    BY <1>1, <1>2

\* A full row of equal results means that the counter has reached it.
LEMMA RowIsCounted ==
    ASSUME CheckerInv, NEW i \in Entry
    PROVE  /\ LastAre(i, UnhealthyThreshold, "fail") <=> failures[i] >= UnhealthyThreshold
           /\ LastAre(i, HealthyThreshold, "ok") <=> successes[i] >= HealthyThreshold
  <1>1. failures[i] \in 0..CountCap /\ successes[i] \in 0..CountCap
    BY DEF CheckerInv, TypeOK
  <1>2. /\ \A k \in 1..failures[i] : recent[i][k] = "fail"
        /\ failures[i] < CountCap => recent[i][failures[i] + 1] # "fail"
    BY DEF CheckerInv, CountInv, Counts
  <1>3. /\ \A k \in 1..successes[i] : recent[i][k] = "ok"
        /\ successes[i] < CountCap => recent[i][successes[i] + 1] # "ok"
    BY DEF CheckerInv, CountInv, Counts
  <1>4. (\A k \in 1..UnhealthyThreshold : recent[i][k] = "fail")
            <=> failures[i] >= UnhealthyThreshold
    BY <1>1, <1>2, ExactRow, CapBound
  <1>5. (\A k \in 1..HealthyThreshold : recent[i][k] = "ok")
            <=> successes[i] >= HealthyThreshold
    BY <1>1, <1>3, ExactRow, CapBound
  <1> QED
    BY <1>4, <1>5 DEF LastAre

\* The same after a step.
LEMMA RowIsCountedNext ==
    ASSUME CheckerInv', NEW i \in Entry
    PROVE  /\ LastAre(i, UnhealthyThreshold, "fail")' <=> failures'[i] >= UnhealthyThreshold
           /\ LastAre(i, HealthyThreshold, "ok")' <=> successes'[i] >= HealthyThreshold
  <1>1. failures'[i] \in 0..CountCap /\ successes'[i] \in 0..CountCap
    BY DEF CheckerInv, TypeOK
  <1>2. /\ \A k \in 1..failures'[i] : recent'[i][k] = "fail"
        /\ failures'[i] < CountCap => recent'[i][failures'[i] + 1] # "fail"
    BY DEF CheckerInv, CountInv, Counts
  <1>3. /\ \A k \in 1..successes'[i] : recent'[i][k] = "ok"
        /\ successes'[i] < CountCap => recent'[i][successes'[i] + 1] # "ok"
    BY DEF CheckerInv, CountInv, Counts
  <1>4. (\A k \in 1..UnhealthyThreshold : recent'[i][k] = "fail")
            <=> failures'[i] >= UnhealthyThreshold
    BY <1>1, <1>2, ExactRow, CapBound
  <1>5. (\A k \in 1..HealthyThreshold : recent'[i][k] = "ok")
            <=> successes'[i] >= HealthyThreshold
    BY <1>1, <1>3, ExactRow, CapBound
  <1> QED
    BY <1>4, <1>5 DEF LastAre

\* The verdict is never behind the probes.
THEOREM HealthCheckerVerdictFollowsProbes == Spec => []VerdictFollowsProbes
  <1>1. ASSUME CheckerInv PROVE VerdictFollowsProbes
    BY <1>1, RowIsCounted DEF VerdictFollowsProbes, CheckerInv, ThresholdInv
  <1> QED
    BY <1>1, CheckerInvariant, PTL

\* Only a probe moves a verdict, and only with a full row of results.
LEMMA VerdictMoves ==
    ASSUME CheckerInv, CheckerInv', [Next]_vars, NEW i \in Entry
    PROVE  /\ isHealthy[i] /\ ~isHealthy'[i] => LastAre(i, UnhealthyThreshold, "fail")'
           /\ ~isHealthy[i] /\ isHealthy'[i] => LastAre(i, HealthyThreshold, "ok")'
  <1>1. ASSUME NEW j \in Entry, ProcessCheckResult(j, up[j])
        PROVE  /\ isHealthy[i] /\ ~isHealthy'[i] => failures'[i] >= UnhealthyThreshold
               /\ ~isHealthy[i] /\ isHealthy'[i] => successes'[i] >= HealthyThreshold
    <2>1. up[j] \in BOOLEAN
      BY DEF CheckerInv, TypeOK
    <2> QED
      BY <1>1, <2>1, ProcessVerdict DEF CheckerInv
  <1>2. CASE UNCHANGED isHealthy
    BY <1>2
  <1>3. \/ UNCHANGED isHealthy
        \/ \E j \in Entry : ProcessCheckResult(j, up[j])
    BY DEF Next, Monitor, StartTarget, Started, Stop, Wait, Tick, SelectTick, SelectStop,
           PerformCheck, Update, Flip, vars, verdictVars
  <1>4. /\ LastAre(i, UnhealthyThreshold, "fail")' <=> failures'[i] >= UnhealthyThreshold
        /\ LastAre(i, HealthyThreshold, "ok")' <=> successes'[i] >= HealthyThreshold
    BY RowIsCountedNext
  <1> QED
    BY <1>1, <1>2, <1>3, <1>4

\* The verdict flips on a full row of results only.
THEOREM HealthCheckerDebouncedVerdict == Spec => DebouncedVerdict
  <1>1. CheckerInv /\ CheckerInv' /\ [Next]_vars
        => [\A i \in Entry :
              /\ isHealthy[i] /\ ~isHealthy'[i] => LastAre(i, UnhealthyThreshold, "fail")'
              /\ ~isHealthy[i] /\ isHealthy'[i] => LastAre(i, HealthyThreshold, "ok")']_vars
    BY VerdictMoves
  <1> QED
    BY <1>1, CheckerInvariant, PTL DEF Spec, DebouncedVerdict

\* Nothing moves after Stop() has returned.
THEOREM HealthCheckerQuietAfterStop == Spec => QuietAfterStop
  <1>1. CheckerInv /\ [Next]_vars => [main = "stopped" => UNCHANGED <<flag, monitor>>]_vars
    BY DEF CheckerInv, MonitorInv, Next, Monitor, StartTarget, Started, Stop, Wait, Tick,
           SelectTick, SelectStop, PerformCheck, Update, Flip, vars
  <1> QED
    BY <1>1, CheckerInvariant, PTL DEF Spec, QuietAfterStop

-----------------------------------------------------------------------------
(* The life of the process. *)

ServerType ==
    /\ phase \in {"load", "checker", "router", "start", "wait", "shutdown", "stop",
                  "stopping", "stopped", "exited"}
    /\ listener \in {"none", "starting", "open", "closed"}
    /\ conn \in [Conn -> {"none", "new", "active", "idle", "upgraded", "cut", "severed"}]
    /\ polled \in BOOLEAN
    /\ timedOut \in BOOLEAN

\* The checker runs from the moment it is started until the server is down.
CheckerPhase ==
    /\ phase \in {"load", "checker"} => main = "starting"
    /\ phase \in {"router", "start", "wait", "shutdown", "stop"} => main = "running"

\* There are connections only once the listener has been open, which is not
\* before main() waits for a signal and not after it has begun to shut down.
ListenerPhase ==
    /\ phase \in {"load", "checker", "router", "start"} => listener = "none"
    /\ phase \in {"shutdown", "stop", "stopping", "stopped"} => listener # "open"
    /\ listener \in {"none", "starting"} => \A c \in Conn : conn[c] = "none"

\* During the shutdown no connection is idle, and when it has ended in time no
\* connection is left that could begin a request; an upgraded one may be.
ConnPhase ==
    \A c \in Conn :
        /\ phase # "exited" => conn[c] # "cut"
        /\ phase = "exited" => conn[c] # "active"
        /\ phase \in {"shutdown", "stop", "stopping", "stopped"} => conn[c] # "idle"
        /\ phase \in {"stop", "stopping", "stopped"} /\ ~timedOut => conn[c] \in {"none", "upgraded", "severed"}

GatewayInv ==
    /\ ServerType
    /\ CheckerPhase
    /\ ListenerPhase
    /\ ConnPhase
    /\ InFlightHandled

-----------------------------------------------------------------------------
LEMMA InitGateway == GatewayInit => GatewayInv
  BY DEF GatewayInit, Init, GatewayInv, ServerType, CheckerPhase, ListenerPhase,
         ConnPhase, InFlightHandled

\* The steps of monitors and upstreams leave the main goroutine where it is.
LEMMA MonitorsAside ==
    ASSUME NEW i \in Entry, Monitor(i) \/ Flip(i)
    PROVE  main' = main
  BY DEF Monitor, Flip, Tick, SelectTick, SelectStop, PerformCheck,
         Update

\* The end of the process keeps the invariant wherever a handler under way is
\* excused: the shutdown timed out or the listener failed.
LEMMA ExitKeeps ==
    ASSUME GatewayInv, Exit,
           \A c \in Conn : conn[c] = "active" => timedOut \/ listener # "closed",
           phase # "exited"
    PROVE  GatewayInv'
  <1>1. ServerType'
    BY DEF GatewayInv, ServerType, Exit
  <1>2. CheckerPhase' /\ ListenerPhase'
    BY DEF GatewayInv, ServerType, CheckerPhase, ListenerPhase, Exit
  <1>3. ConnPhase' /\ InFlightHandled'
    BY DEF GatewayInv, ServerType, ConnPhase, InFlightHandled, Exit
  <1> QED
    BY <1>1, <1>2, <1>3 DEF GatewayInv

LEMMA NextGateway == GatewayInv /\ [GatewayNext]_gatewayVars => GatewayInv'
  <1> SUFFICES ASSUME GatewayInv, [GatewayNext]_gatewayVars PROVE GatewayInv'
    OBVIOUS
  <1> USE DEF GatewayInv
  <1>1. CASE Load
    <2>1. CASE phase' = "checker" /\ UNCHANGED serverVars
      BY <1>1, <2>1 DEF Load, vars, serverVars, ServerType, CheckerPhase,
                        ListenerPhase, ConnPhase, InFlightHandled
    <2>2. CASE Exit
      BY <1>1, <2>2, ExitKeeps DEF Load, ListenerPhase
    <2> QED
      BY <1>1, <2>1, <2>2 DEF Load
  <1>2. CASE StartChecker
    BY <1>2 DEF StartChecker, StartTarget, Started, serverVars, ServerType,
                CheckerPhase, ListenerPhase, ConnPhase, InFlightHandled
  <1>3. CASE NewRouter
    BY <1>3 DEF NewRouter, serverVars, vars, ServerType, CheckerPhase,
                ListenerPhase, ConnPhase, InFlightHandled
  <1>4. CASE Start
    BY <1>4 DEF Start, vars, ServerType, CheckerPhase, ListenerPhase, ConnPhase,
                InFlightHandled
  <1>5. CASE Listen
    BY <1>5 DEF Listen, Alive, vars, ServerType, CheckerPhase, ListenerPhase,
                ConnPhase, InFlightHandled
  <1>6. CASE ListenFails
    BY <1>6, ExitKeeps DEF ListenFails, Alive
  <1>7. CASE Signal
    <2>1. CASE phase \in {"load", "checker", "router", "start"}
      BY <1>7, <2>1, ExitKeeps DEF Signal, ListenerPhase
    <2>2. CASE phase \notin {"load", "checker", "router", "start"}
      BY <1>7, <2>2 DEF Signal, vars, ServerType, CheckerPhase, ListenerPhase,
                        ConnPhase, InFlightHandled
    <2> QED
      BY <2>1, <2>2
  <1>8. ASSUME NEW c \in Conn, Accept(c) PROVE GatewayInv'
    BY <1>8 DEF Accept, Alive, vars, ServerType, CheckerPhase, ListenerPhase,
                ConnPhase, InFlightHandled
  <1>9. ASSUME NEW c \in Conn, Request(c) PROVE GatewayInv'
    BY <1>9 DEF Request, Alive, vars, ServerType, CheckerPhase, ListenerPhase,
                ConnPhase, InFlightHandled
  <1>10. ASSUME NEW c \in Conn, Respond(c) PROVE GatewayInv'
    BY <1>10 DEF Respond, Alive, vars, ServerType, CheckerPhase, ListenerPhase,
                 ConnPhase, InFlightHandled
  <1>11. ASSUME NEW c \in Conn, Disconnect(c) PROVE GatewayInv'
    BY <1>11 DEF Disconnect, Alive, vars, ServerType, CheckerPhase,
                 ListenerPhase, ConnPhase, InFlightHandled
  <1>20. ASSUME NEW c \in Conn, Upgrade(c) \/ HangUp(c) PROVE GatewayInv'
    BY <1>20 DEF Upgrade, HangUp, Alive, vars, ServerType, CheckerPhase,
                 ListenerPhase, ConnPhase, InFlightHandled
  <1>12. CASE Receive
    BY <1>12 DEF Receive, vars, ServerType, CheckerPhase, ListenerPhase,
                 ConnPhase, InFlightHandled
  <1>13. CASE Poll
    BY <1>13 DEF Poll, vars, ServerType, CheckerPhase, ListenerPhase, ConnPhase,
                 InFlightHandled
  <1>14. CASE ShutdownReturns
    <2>1. \A c \in Conn : conn[c] \in {"none", "upgraded", "severed"}
      BY <1>14 DEF ShutdownReturns, Busy, ServerType, ConnPhase
    <2> QED
      BY <1>14, <2>1 DEF ShutdownReturns, serverVars, vars, ServerType,
                         CheckerPhase, ListenerPhase, ConnPhase, InFlightHandled
  <1>15. CASE ShutdownTimesOut
    BY <1>15 DEF ShutdownTimesOut, GivesUp, vars, ServerType, CheckerPhase,
                 ListenerPhase, ConnPhase, InFlightHandled
  <1>16. CASE StopChecker
    BY <1>16 DEF StopChecker, Stop, serverVars, ServerType, CheckerPhase,
                 ListenerPhase, ConnPhase, InFlightHandled
  <1>17. CASE Return
    BY <1>17, ExitKeeps DEF Return, ConnPhase
  <1>21. CASE CheckerStopped
    BY <1>21 DEF CheckerStopped, Wait, serverVars, ServerType, CheckerPhase,
                 ListenerPhase, ConnPhase, InFlightHandled
  <1>18. ASSUME NEW i \in Entry, Probe(i) PROVE GatewayInv'
    <2>1. main' = main
      BY <1>18, MonitorsAside DEF Probe, Aside
    <2> QED
      BY <1>18, <2>1 DEF Probe, Aside, serverVars, ServerType, CheckerPhase,
                         ListenerPhase, ConnPhase, InFlightHandled
  <1>19. CASE UNCHANGED gatewayVars
    BY <1>19 DEF gatewayVars, serverVars, vars, ServerType, CheckerPhase,
                 ListenerPhase, ConnPhase, InFlightHandled
  <1> QED
    BY <1>1, <1>2, <1>3, <1>4, <1>5, <1>6, <1>7, <1>8, <1>9, <1>10, <1>11, <1>12,
       <1>13, <1>14, <1>15, <1>16, <1>17, <1>18, <1>19, <1>20, <1>21 DEF GatewayNext, MainSteps

\* Of any number of requests under way on connections the server owns, a shutdown
\* loses only those it has waited for until its timeout; otherwise only a failed
\* listener loses any.
THEOREM GatewayInFlightHandled == GatewaySpec => []InFlightHandled
  <1>1. GatewayInv => InFlightHandled
    BY DEF GatewayInv
  <1> QED
    BY <1>1, InitGateway, NextGateway, PTL DEF GatewaySpec

\* As long as the shutdown has not given up, every request that may still ask for
\* a target is handled while the health checker is running.
THEOREM GatewayServedUnderWatch == GatewaySpec => []ServedUnderWatch
  <1>1. GatewayInv => ServedUnderWatch
    BY DEF GatewayInv, ServerType, CheckerPhase, ListenerPhase, ConnPhase,
           ServedUnderWatch
  <1> QED
    BY <1>1, InitGateway, NextGateway, PTL DEF GatewaySpec

-----------------------------------------------------------------------------
\* Every step of the program is a step of the health checker or leaves it alone.
LEMMA NextIsChecker == [GatewayNext]_gatewayVars => [Next]_vars
  <1> SUFFICES ASSUME [GatewayNext]_gatewayVars PROVE Next \/ UNCHANGED vars
    OBVIOUS
  <1>1. CASE StartChecker \/ StopChecker \/ CheckerStopped
    BY <1>1 DEF StartChecker, StopChecker, CheckerStopped, Next
  <1>2. ASSUME NEW i \in Entry, Probe(i) PROVE Next
    BY <1>2 DEF Probe, Aside, Next
  <1>3. CASE \/ Load \/ Return \/ NewRouter \/ Start \/ Receive \/ Poll \/ ShutdownReturns
             \/ ShutdownTimesOut \/ Listen \/ ListenFails \/ Signal
             \/ \E c \in Conn : Accept(c) \/ Request(c) \/ Respond(c) \/ Disconnect(c)
                              \/ Upgrade(c) \/ HangUp(c)
    BY <1>3 DEF Load, Return, NewRouter, Start, Receive, Poll, ShutdownReturns,
                ShutdownTimesOut, GivesUp, Listen, ListenFails, Signal, Accept,
                Request, Respond, Disconnect, Upgrade, HangUp
  <1> QED
    BY <1>1, <1>2, <1>3 DEF GatewayNext, MainSteps, gatewayVars

\* In the running gateway, across start, shutdown and exit, a balancer's flag is
\* the verdict of the monitor between two probes, that verdict is what the probes
\* say, and nothing touches the balancers once hc.Stop() has returned.
THEOREM GatewayWatched ==
    GatewaySpec => /\ [](FlagFollowsVerdict /\ VerdictFollowsProbes)
                   /\ DebouncedVerdict /\ QuietAfterStop
  <1>0. GatewayInit => Init
    BY DEF GatewayInit
  <1>1. GatewaySpec => Spec
    BY <1>0, NextIsChecker, PTL DEF GatewaySpec, Spec
  <1> QED
    BY <1>1, HealthCheckerFlagFollowsVerdict, HealthCheckerVerdictFollowsProbes,
       HealthCheckerDebouncedVerdict, HealthCheckerQuietAfterStop, PTL
=============================================================================
