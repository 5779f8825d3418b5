------------------------------ MODULE Balancers ------------------------------
(***************************************************************************)
(* The strategy switch of NewLoadBalancer (app/proxy/loadbalancer.go): the  *)
(* balancer of a service is made once, and from then on its steps are those *)
(* of RoundRobin or of WeightedRandom.  The random and least-connections    *)
(* balancers are in Proxy, with the requests that use them.                 *)
(***************************************************************************)
EXTENDS RoundRobin, WeightedRandom

CONSTANT Strategies    \* what services may be configured with

ASSUME StrategiesAssumption ==
    "random" \notin Strategies /\ "least-connections" \notin Strategies

VARIABLE made    \* the balancer NewLoadBalancer has returned

\* A strategy that is not supported is taken for round-robin.
Made(strategy) == IF strategy = "weighted" THEN "weighted" ELSE "round-robin"

\* The state of a balancer that is not made does not matter.
BalancersInit ==
    /\ \E strategy \in Strategies : made = Made(strategy)
    /\ Init
    /\ made # "round-robin" => \A p \in Pool : Len(p) <= Len(targets)
    /\ WeightedInit
    /\ made # "weighted" => slice = <<>>

BalancersNext ==
    \/ made = "round-robin" /\ Next /\ UNCHANGED <<made, weightedVars>>
    \/ made = "weighted" /\ WeightedNext /\ UNCHANGED <<made, vars>>

BalancersSpec ==
    /\ BalancersInit
    /\ [][BalancersNext]_<<made, vars, weightedVars>>
    /\ made = "round-robin" => Fairness
=============================================================================
