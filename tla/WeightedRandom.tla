--------------------------- MODULE WeightedRandom ---------------------------
(***************************************************************************)
(* weightedRandomLoadBalancer.Next() of app/proxy/loadbalancer.go as the   *)
(* two loops it is: one filters the healthy targets and adds up their      *)
(* weights, the other walks over them until the drawn number is covered.   *)
(* The slice of targets comes from NewLoadBalancer, which replaces weights *)
(* that are not positive, or from UpdateTargets, which takes any.          *)
(* A call runs under the read lock alone, so one call is modelled.         *)
(***************************************************************************)
EXTENDS Integers, Sequences

CONSTANTS
    Config,   \* weight sequences a service may be configured with
    Slice     \* slices UpdateTargets may be given: [weight, healthy] records

TargetType == [weight : Int, healthy : BOOLEAN]

ASSUME WeightedAssumption ==
    /\ Config \subseteq Seq(Int)
    /\ Slice \subseteq Seq(TargetType)

VARIABLES
    slice,           \* lb.targets
    at,              \* filter, draw, walk, return, error
    pos,             \* position of the loop under way
    healthyTargets,  \* positions of the targets kept by the filter
    totalWeight,
    randomNumber,
    cumulativeWeight,
    result,          \* the position returned, 0 for none
    \* History, read by the properties only:
    before           \* for each kept target, the weight kept before it

walkVars == <<at, pos, healthyTargets, totalWeight, randomNumber,
              cumulativeWeight, result, before>>
weightedVars == <<slice, walkVars>>

\* NewLoadBalancer: a new target is healthy and weighs at least 1.
NewTargets(weights) ==
    [i \in 1..Len(weights) |->
        [weight |-> IF weights[i] <= 0 THEN 1 ELSE weights[i], healthy |-> TRUE]]

\* One iteration of the walk, which ends when the sum covers the number.
WalkUntil(covered) ==
    LET sum == cumulativeWeight + slice[healthyTargets[pos]].weight IN
    /\ at = "walk"
    /\ pos <= Len(healthyTargets)
    /\ cumulativeWeight' = sum
    /\ IF covered
       THEN /\ result' = healthyTargets[pos]
            /\ at' = "return"
            /\ UNCHANGED pos
       ELSE /\ pos' = pos + 1
            /\ UNCHANGED <<at, result>>
    /\ UNCHANGED <<slice, healthyTargets, totalWeight, randomNumber, before>>

\* A number is drawn from a range, and the walk begins.
DrawFrom(range) ==
    /\ at = "draw"
    /\ totalWeight > 0
    /\ randomNumber' \in range
    /\ pos' = 1
    /\ at' = "walk"
    /\ UNCHANGED <<slice, healthyTargets, totalWeight, cumulativeWeight, result, before>>

-----------------------------------------------------------------------------
(* Seeded faults; no specification uses them. *)

\* The walk compares with <= instead of <.
WalkLate ==
    WalkUntil(randomNumber <= cumulativeWeight + slice[healthyTargets[pos]].weight)

\* The number is drawn from 0 to totalWeight inclusive.
DrawInclusive == DrawFrom(0..totalWeight)

-----------------------------------------------------------------------------
\* A call of Next() begins, on a slice of either origin.
WeightedInit ==
    /\ slice \in {NewTargets(c) : c \in Config} \cup Slice
    /\ at = "filter"
    /\ pos = 1
    /\ healthyTargets = <<>>
    /\ before = <<>>
    /\ totalWeight = 0
    /\ randomNumber = 0
    /\ cumulativeWeight = 0
    /\ result = 0

\* An iteration of the first loop.
Filter ==
    /\ at = "filter"
    /\ pos <= Len(slice)
    /\ pos' = pos + 1
    /\ IF slice[pos].healthy
       THEN /\ healthyTargets' = Append(healthyTargets, pos)
            /\ before' = Append(before, totalWeight)
            /\ totalWeight' = totalWeight + slice[pos].weight
       ELSE UNCHANGED <<healthyTargets, before, totalWeight>>
    /\ UNCHANGED <<slice, at, randomNumber, cumulativeWeight, result>>

\* The first loop is over; no target at all, or none that is healthy, is an
\* error.
Filtered ==
    /\ at = "filter"
    /\ pos > Len(slice)
    /\ at' = IF healthyTargets = <<>> THEN "error" ELSE "draw"
    /\ UNCHANGED <<slice, pos, healthyTargets, totalWeight, randomNumber,
                   cumulativeWeight, result, before>>

\* Weights that do not add up to anything: any healthy target.
DrawUnweighted ==
    /\ at = "draw"
    /\ totalWeight <= 0
    /\ \E k \in 1..Len(healthyTargets) : result' = healthyTargets[k]
    /\ at' = "return"
    /\ UNCHANGED <<slice, pos, healthyTargets, totalWeight, randomNumber,
                   cumulativeWeight, before>>

\* randomNumber := lb.rand.Intn(totalWeight)
Draw == DrawFrom(0..(totalWeight - 1))

\* An iteration of the second loop.
Walk ==
    WalkUntil(randomNumber < cumulativeWeight + slice[healthyTargets[pos]].weight)

\* The call returns; the next one starts afresh, on the same slice or after
\* UpdateTargets on another.
WeightedReturn ==
    /\ at \in {"return", "error"}
    /\ slice' \in {slice} \cup Slice
    /\ at' = "filter"
    /\ pos' = 1
    /\ healthyTargets' = <<>>
    /\ before' = <<>>
    /\ totalWeight' = 0
    /\ randomNumber' = 0
    /\ cumulativeWeight' = 0
    /\ result' = 0

WeightedNext == Filter \/ Filtered \/ DrawUnweighted \/ Draw \/ Walk \/ WeightedReturn

WeightedSpec == WeightedInit /\ [][WeightedNext]_weightedVars

-----------------------------------------------------------------------------
\* The walk never runs off the end, not even for slices with zero or negative
\* weights: the second loop adds up to what the first one did.  The lines of
\* Next() after it, marked "Should not be reached", have no step in this model.
FallbackUnreachable == at = "walk" => pos <= Len(healthyTargets)

\* If all weights are positive, each number that can be drawn belongs to exactly
\* one healthy target and a target of weight w to exactly w numbers: those from
\* the weight kept before it on.  This is what "weighted" promises.
ExactShare ==
    at = "return" /\ (\A k \in 1..Len(healthyTargets) : slice[healthyTargets[k]].weight > 0)
    => \E k \in 1..Len(healthyTargets) :
          /\ result = healthyTargets[k]
          /\ randomNumber \in before[k]..(before[k] + slice[result].weight - 1)
=============================================================================
