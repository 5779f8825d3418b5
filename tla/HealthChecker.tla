---------------------------- MODULE HealthChecker ----------------------------
(***************************************************************************)
(* The active health checker of app/healthchecker/healthchecker.go and the *)
(* way its verdicts reach the balancers: Proxy.UpdateTargetHealth in       *)
(* app/proxy/proxy.go.                                                     *)
(*                                                                         *)
(* Start() launches one monitor goroutine per configured target while the  *)
(* monitors launched before it already probe.  A monitor keeps its own     *)
(* verdict and tells the proxy only when the verdict changes; the proxy    *)
(* looks the target up by comparing URL strings.  Stop() closes a channel  *)
(* and waits for all monitors.                                             *)
(***************************************************************************)
EXTENDS Integers, Sequences

CONSTANTS
    Entries,             \* configured targets in order: [service, url] records
    Strategy,            \* load-balancing strategy of each service
    Checked,             \* services with a health_checks section
    Canonical,           \* url -> url.Parse(url).String(), or Unparsable
    Unparsable,
    UnhealthyThreshold,
    HealthyThreshold

Entry == DOMAIN Entries
ServiceOf(i) == Entries[i].service

ASSUME HealthCheckerAssumption ==
    /\ UnhealthyThreshold \in Nat \ {0}    \* config.go:259 and :263
    /\ HealthyThreshold \in Nat \ {0}
    /\ Entries \in Seq([service : DOMAIN Strategy, url : DOMAIN Canonical])

\* Counters beyond the larger threshold make no difference: they saturate.
CountCap == IF UnhealthyThreshold > HealthyThreshold THEN UnhealthyThreshold
                                                     ELSE HealthyThreshold

VARIABLES
    main,        \* the main goroutine: starting, running, stopping, stopped
    next,        \* the entry Start() looks at next
    flag,        \* UpstreamTarget.Healthy of the target made from each entry
    failures,    \* targetStatus.consecutiveFailures
    successes,   \* targetStatus.consecutiveSuccesses
    isHealthy,   \* targetStatus.isHealthy
    monitor,     \* none, probe, update, select or done
    ticked,      \* a tick waits in the ticker's channel
    up,          \* whether a probe of the target would succeed now
    \* History, read by the properties only:
    recent       \* the last CountCap probe results, newest first

verdictVars == <<failures, successes, isHealthy, recent>>
vars == <<main, next, flag, verdictVars, monitor, ticked, up>>

\* NewLoadBalancer skips an entry whose URL does not parse.
InPool(j) == Canonical[Entries[j].url] # Unparsable

\* The targets whose URL.String() equals the configured string of entry i.
Found(i) == {j \in Entry : /\ InPool(j)
                           /\ ServiceOf(j) = ServiceOf(i)
                           /\ Canonical[Entries[j].url] = Entries[i].url}

\* The target UpdateTargetHealth sets on behalf of entry i, if any: the first
\* match, and only for the two balancers its type switch knows.
Reached(i) == IF Strategy[ServiceOf(i)] \in {"round-robin", "random"}
              THEN {j \in Found(i) : \A k \in Found(i) : j <= k}
              ELSE {}

UpdateTargetHealth(i, h) ==
    flag' = [j \in Entry |-> IF j \in Reached(i) THEN h ELSE flag[j]]

Increment(n) == IF n < CountCap THEN n + 1 ELSE n

\* processCheckResult with the two threshold tests as parameters.
Process(i, success, nowUnhealthy, nowHealthy) ==
    LET verdict == IF success THEN isHealthy[i] \/ nowHealthy
                              ELSE isHealthy[i] /\ ~nowUnhealthy
    IN  /\ isHealthy' = [isHealthy EXCEPT ![i] = verdict]
        /\ monitor' = [monitor EXCEPT ![i] = IF verdict # isHealthy[i]
                                             THEN "update" ELSE "select"]
        /\ recent' = [recent EXCEPT ![i] =
               [k \in 1..CountCap |-> IF k > 1 THEN recent[i][k - 1]
                                      ELSE IF success THEN "ok" ELSE "fail"]]

-----------------------------------------------------------------------------
(* Seeded faults; no specification uses them. *)

\* processCheckResult flips the verdict late tests after the threshold, and
\* resets the failures after a success or not.
ProcessOff(i, success, late, reset) ==
    /\ Process(i, success, failures[i] + 1 - late >= UnhealthyThreshold,
                           successes[i] + 1 - late >= HealthyThreshold)
    /\ failures' = [failures EXCEPT ![i] = IF ~success THEN Increment(@)
                                           ELSE IF reset THEN 0 ELSE @]
    /\ successes' = [successes EXCEPT ![i] = IF success THEN Increment(@) ELSE 0]

ProcessCheckResultNoReset(i, success) == ProcessOff(i, success, 0, FALSE)
ProcessCheckResultLate(i, success) == ProcessOff(i, success, 1, TRUE)

\* The proxy is told about failures only.
UpdateIfUnhealthy(i) ==
    /\ monitor[i] = "update"
    /\ IF isHealthy[i] THEN UNCHANGED flag ELSE UpdateTargetHealth(i, FALSE)
    /\ monitor' = [monitor EXCEPT ![i] = "select"]
    /\ UNCHANGED <<main, next, verdictVars, ticked, up>>

\* Stop() returns without hc.wg.Wait().
WaitNot == main = "stopping" /\ main' = "stopped"
           /\ UNCHANGED <<next, flag, verdictVars, monitor, ticked, up>>

\* A pending tick has priority over the stop.
SelectStopLast(i) ==
    /\ monitor[i] = "select"
    /\ main \in {"stopping", "stopped"}
    /\ ~ticked[i]
    /\ monitor' = [monitor EXCEPT ![i] = "done"]
    /\ UNCHANGED <<main, next, flag, verdictVars, ticked, up>>

\* The monitor probes once and then only waits for the stop.
SelectTickNever(i) == FALSE /\ UNCHANGED vars

-----------------------------------------------------------------------------
\* NewProxy has made the targets and NewHealthChecker an empty checker.
Init ==
    /\ main = "starting"
    /\ next = 1
    /\ flag = [i \in Entry |-> TRUE]
    /\ failures = [i \in Entry |-> 0]
    /\ successes = [i \in Entry |-> 0]
    /\ isHealthy = [i \in Entry |-> TRUE]
    /\ monitor = [i \in Entry |-> "none"]
    /\ ticked = [i \in Entry |-> FALSE]
    /\ up \in [Entry -> BOOLEAN]
    /\ \A i \in Entry : up[i] => InPool(i)
    /\ recent = [i \in Entry |-> [k \in 1..CountCap |-> "none"]]

\* One iteration of the loops of Start(): a checked entry is announced to the
\* proxy as healthy and gets its monitor, which begins with a probe.
StartTarget ==
    /\ main = "starting"
    /\ next \in Entry
    /\ next' = next + 1
    /\ IF ServiceOf(next) \in Checked
       THEN /\ UpdateTargetHealth(next, TRUE)
            /\ monitor' = [monitor EXCEPT ![next] = "probe"]
       ELSE UNCHANGED <<flag, monitor>>
    /\ UNCHANGED <<main, verdictVars, ticked, up>>

Started ==
    /\ main = "starting"
    /\ next \notin Entry
    /\ main' = "running"
    /\ UNCHANGED <<next, flag, verdictVars, monitor, ticked, up>>

\* The server has shut down; Stop() closes stopChan ...
Stop ==
    /\ main = "running"
    /\ main' = "stopping"
    /\ UNCHANGED <<next, flag, verdictVars, monitor, ticked, up>>

\* ... and hc.wg.Wait() returns when every monitor is done.
Wait ==
    /\ main = "stopping"
    /\ \A i \in Entry : monitor[i] \in {"none", "done"}
    /\ main' = "stopped"
    /\ UNCHANGED <<next, flag, verdictVars, monitor, ticked, up>>

\* The ticker fires; its channel holds one tick and drops the others.
Tick(i) ==
    /\ monitor[i] \notin {"none", "done"}
    /\ ~ticked[i]
    /\ ticked' = [ticked EXCEPT ![i] = TRUE]
    /\ UNCHANGED <<main, next, flag, verdictVars, monitor, up>>

SelectTick(i) ==
    /\ monitor[i] = "select"
    /\ ticked[i]
    /\ ticked' = [ticked EXCEPT ![i] = FALSE]
    /\ monitor' = [monitor EXCEPT ![i] = "probe"]
    /\ UNCHANGED <<main, next, flag, verdictVars, up>>

\* The select's other branch; when both are ready either may be taken.
SelectStop(i) ==
    /\ monitor[i] = "select"
    /\ main \in {"stopping", "stopped"}
    /\ monitor' = [monitor EXCEPT ![i] = "done"]
    /\ UNCHANGED <<main, next, flag, verdictVars, ticked, up>>

ProcessCheckResult(i, success) ==
    /\ Process(i, success, failures[i] + 1 >= UnhealthyThreshold,
                           successes[i] + 1 >= HealthyThreshold)
    /\ failures' = [failures EXCEPT ![i] = IF success THEN 0 ELSE Increment(@)]
    /\ successes' = [successes EXCEPT ![i] = IF success THEN Increment(@) ELSE 0]

\* performCheck ends: with no result if the target's URL does not parse, else
\* with an answer, an error or the client's timeout.
PerformCheck(i) ==
    /\ monitor[i] = "probe"
    /\ IF InPool(i)
       THEN ProcessCheckResult(i, up[i])
       ELSE /\ monitor' = [monitor EXCEPT ![i] = "select"]
            /\ UNCHANGED verdictVars
    /\ UNCHANGED <<main, next, flag, ticked, up>>

\* The end of processCheckResult when the verdict has changed.
Update(i) ==
    /\ monitor[i] = "update"
    /\ UpdateTargetHealth(i, isHealthy[i])
    /\ monitor' = [monitor EXCEPT ![i] = "select"]
    /\ UNCHANGED <<main, next, verdictVars, ticked, up>>

\* An upstream goes down or comes back; a URL that does not parse has none.
Flip(i) ==
    /\ InPool(i)
    /\ up' = [up EXCEPT ![i] = ~@]
    /\ UNCHANGED <<main, next, flag, verdictVars, monitor, ticked>>

Monitor(i) == Tick(i) \/ SelectTick(i) \/ SelectStop(i) \/ PerformCheck(i) \/ Update(i)

Next ==
    \/ StartTarget \/ Started \/ Stop \/ Wait
    \/ \E i \in Entry : Monitor(i) \/ Flip(i)

Spec == Init /\ [][Next]_vars

-----------------------------------------------------------------------------
\* Every variable keeps its type, and of a target's two counters one is zero.
TypeOK ==
    /\ main \in {"starting", "running", "stopping", "stopped"}
    /\ next \in 1..(Len(Entries) + 1)
    /\ flag \in [Entry -> BOOLEAN]
    /\ failures \in [Entry -> 0..CountCap]
    /\ successes \in [Entry -> 0..CountCap]
    /\ \A i \in Entry : failures[i] = 0 \/ successes[i] = 0
    /\ isHealthy \in [Entry -> BOOLEAN]
    /\ monitor \in [Entry -> {"none", "probe", "update", "select", "done"}]
    /\ ticked \in [Entry -> BOOLEAN]
    /\ up \in [Entry -> BOOLEAN]
    /\ recent \in [Entry -> [1..CountCap -> {"ok", "fail", "none"}]]

\* Entry i is the only one whose monitor reaches the target made from it.
Sole(i) == /\ Reached(i) = {i}
           /\ \A k \in Entry : i \in Reached(k) => k = i

\* Between probes, the balancer's flag is the monitor's verdict: no update is
\* lost or overtaken, neither while Start() is still announcing other targets
\* nor across Stop().
FlagFollowsVerdict ==
    \A i \in Entry : Sole(i) /\ monitor[i] # "update" => flag[i] = isHealthy[i]

LastAre(i, n, result) == \A k \in 1..n : recent[i][k] = result

\* The verdict is never behind the probes: as many failures (successes) in a
\* row as the threshold asks for, and the target is judged unhealthy (healthy).
VerdictFollowsProbes ==
    \A i \in Entry :
        /\ LastAre(i, UnhealthyThreshold, "fail") => ~isHealthy[i]
        /\ LastAre(i, HealthyThreshold, "ok") => isHealthy[i]

\* ... and never ahead of them: the verdict of processCheckResult flips only on
\* a full row of results, an interrupted row counts for nothing.
DebouncedVerdict ==
    [][\A i \in Entry :
        /\ isHealthy[i] /\ ~isHealthy'[i] => LastAre(i, UnhealthyThreshold, "fail")'
        /\ ~isHealthy[i] /\ isHealthy'[i] => LastAre(i, HealthyThreshold, "ok")']_vars

\* Once Stop() has returned no monitor touches the balancers any more.
QuietAfterStop == [][main = "stopped" => UNCHANGED <<flag, monitor>>]_vars
=============================================================================
