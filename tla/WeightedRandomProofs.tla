------------------------ MODULE WeightedRandomProofs ------------------------
(***************************************************************************)
(* The two loops of weightedRandomLoadBalancer.Next() agree: theorems about *)
(* module WeightedRandom for every set of configurations and slices, with   *)
(* weights of either sign.                                                  *)
(***************************************************************************)
EXTENDS WeightedRandom, TLAPS

\* The types of the variables of Next().
WeightedTypeOK ==
    /\ slice \in Seq(TargetType)
    /\ at \in {"filter", "draw", "walk", "return", "error"}
    /\ pos \in Nat \ {0}
    /\ healthyTargets \in Seq(Nat)
    /\ before \in Seq(Int)
    /\ totalWeight \in Int
    /\ randomNumber \in Int
    /\ cumulativeWeight \in Int
    /\ result \in Nat

\* The weight of the k-th target the filter kept.
KeptWeight(k) == slice[healthyTargets[k]].weight

\* The kept targets are targets, each with one weight kept before it.
KeptInv ==
    /\ Len(before) = Len(healthyTargets)
    /\ \A k \in 1..Len(healthyTargets) : healthyTargets[k] \in 1..Len(slice)

\* The weights kept before are the partial sums of which totalWeight is the
\* last, although the code never stores them.
SumInv ==
    /\ IF healthyTargets = <<>> THEN totalWeight = 0 ELSE before[1] = 0
    /\ \A k \in 1..Len(healthyTargets) :
          before[k] + KeptWeight(k) =
              IF k = Len(healthyTargets) THEN totalWeight ELSE before[k + 1]

\* Positive weights add up to a positive sum, so such a slice is never drawn
\* from without its weights.
PositiveInv ==
    (\A k \in 1..Len(healthyTargets) : KeptWeight(k) > 0)
    => IF healthyTargets = <<>> THEN totalWeight = 0 ELSE totalWeight > 0

\* The walk stands at a kept target, with the sum of all before it, and the
\* number it looks for lies beyond that sum but not beyond the total.
WalkInv ==
    /\ at \in {"filter", "draw"} => cumulativeWeight = 0
    /\ at = "draw" => healthyTargets # <<>>
    /\ at = "walk" => /\ pos \in 1..Len(healthyTargets)
                      /\ cumulativeWeight = before[pos]
                      /\ cumulativeWeight <= randomNumber
                      /\ randomNumber < totalWeight

\* What is returned is a kept target and, if weights counted, the number lies in
\* the stretch of that target.
ReturnInv ==
    at = "return" =>
        \E k \in 1..Len(healthyTargets) :
            /\ result = healthyTargets[k]
            /\ totalWeight > 0 => /\ before[k] <= randomNumber
                                  /\ randomNumber < before[k] + KeptWeight(k)

\* The inductive invariant.
ShareInv == WeightedTypeOK /\ KeptInv /\ SumInv /\ PositiveInv /\ WalkInv /\ ReturnInv

-----------------------------------------------------------------------------
\* NewLoadBalancer makes a slice of targets of any weights of a configuration.
LEMMA NewTargetsType ==
    ASSUME NEW c \in Config
    PROVE  NewTargets(c) \in Seq(TargetType)
<1>1. c \in Seq(Int)
  BY WeightedAssumption
<1>2. \A i \in 1..Len(c) : c[i] \in Int
  BY <1>1
<1>3. \A i \in 1..Len(c) :
        [weight |-> IF c[i] <= 0 THEN 1 ELSE c[i], healthy |-> TRUE] \in TargetType
  BY <1>2 DEF TargetType
<1>4. NewTargets(c) \in [1..Len(c) -> TargetType]
  BY <1>3 DEF NewTargets
<1>5. Len(c) \in Nat
  BY <1>1
<1>6. QED
  BY <1>4, <1>5

\* A call that begins on any slice satisfies the invariant.
LEMMA FreshCall ==
    ASSUME slice \in Seq(TargetType), at = "filter", pos = 1,
           healthyTargets = <<>>, before = <<>>, totalWeight = 0,
           randomNumber = 0, cumulativeWeight = 0, result = 0
    PROVE  ShareInv
  BY DEF ShareInv, WeightedTypeOK, KeptInv, SumInv, PositiveInv, WalkInv, ReturnInv

\* The first call begins on a configured slice or one of UpdateTargets.
LEMMA InitShare == WeightedInit => ShareInv
<1>1. SUFFICES ASSUME WeightedInit PROVE ShareInv
  OBVIOUS
<1>2. slice \in Seq(TargetType)
  <2>1. CASE slice \in Slice
    BY <2>1, WeightedAssumption
  <2>2. CASE \E c \in Config : slice = NewTargets(c)
    BY <2>2, NewTargetsType
  <2>3. QED
    BY <1>1, <2>1, <2>2 DEF WeightedInit
<1>3. QED
  BY <1>1, <1>2, FreshCall DEF WeightedInit

\* An iteration of the first loop: a healthy target's weight joins the sums.
LEMMA FilterShare == ShareInv /\ Filter => ShareInv'
<1>1. SUFFICES ASSUME ShareInv, Filter PROVE ShareInv'
  OBVIOUS
<1>2. /\ slice \in Seq(TargetType) /\ pos \in Nat \ {0}
      /\ healthyTargets \in Seq(Nat) /\ before \in Seq(Int) /\ totalWeight \in Int
  BY <1>1 DEF ShareInv, WeightedTypeOK
<1>3. /\ slice' = slice /\ at = "filter" /\ at' = at /\ pos' = pos + 1
      /\ pos \in 1..Len(slice)
      /\ UNCHANGED <<randomNumber, cumulativeWeight, result>>
  BY <1>1, <1>2 DEF Filter
<1>4. slice[pos] \in TargetType
  BY <1>2, <1>3
<1>5. CASE ~slice[pos].healthy
  <2>1. UNCHANGED <<healthyTargets, before, totalWeight>>
    BY <1>1, <1>5 DEF Filter
  <2>2. WeightedTypeOK'
    BY <1>1, <1>3, <2>1 DEF ShareInv, WeightedTypeOK
  <2>3. KeptInv' /\ SumInv' /\ PositiveInv' /\ WalkInv' /\ ReturnInv'
    BY <1>1, <1>3, <2>1
       DEF ShareInv, KeptInv, SumInv, PositiveInv, WalkInv, ReturnInv, KeptWeight
  <2>4. QED
    BY <2>2, <2>3 DEF ShareInv
<1>6. CASE slice[pos].healthy
  <2> DEFINE w == slice[pos].weight
  <2>0. PICK n \in Nat : n = Len(healthyTargets)
    BY <1>2
  <2>1. /\ healthyTargets' = Append(healthyTargets, pos)
        /\ before' = Append(before, totalWeight)
        /\ totalWeight' = totalWeight + w
    BY <1>1, <1>6 DEF Filter
  <2>2. w \in Int /\ Len(before) = n
    BY <2>0, <1>1, <1>2, <1>4 DEF TargetType, ShareInv, KeptInv
  <2>3. WeightedTypeOK'
    BY <2>0, <1>1, <1>2, <1>3, <2>1, <2>2 DEF ShareInv, WeightedTypeOK
  <2>4. /\ Len(healthyTargets') = n + 1 /\ Len(before') = n + 1
        /\ healthyTargets'[n + 1] = pos /\ before'[n + 1] = totalWeight
        /\ \A k \in 1..n : /\ healthyTargets'[k] = healthyTargets[k]
                           /\ before'[k] = before[k]
    BY <2>0, <1>2, <2>1, <2>2
  <2>5. KeptInv'
    BY <2>0, <1>1, <1>3, <2>2, <2>4 DEF ShareInv, KeptInv
  <2>6. /\ KeptWeight(n + 1)' = w
        /\ \A k \in 1..n : KeptWeight(k)' = KeptWeight(k)
    BY <2>0, <1>3, <2>4 DEF KeptWeight
  <2>7. healthyTargets' # <<>>
    BY <2>0, <2>2, <2>4
  <2>8. n = 0 <=> healthyTargets = <<>>
    BY <2>0, <1>2
  <2>9. SumInv'
    <3>1. before'[1] = 0
      <4>1. CASE n = 0
        BY <2>0, <1>1, <2>4, <2>8, <4>1 DEF ShareInv, SumInv
      <4>2. CASE n > 0
        BY <2>0, <1>1, <2>2, <2>4, <2>8, <4>2 DEF ShareInv, SumInv
      <4>3. QED
        BY <2>0, <2>2, <4>1, <4>2
    <3>2. ASSUME NEW k \in 1..(n + 1)
          PROVE  before'[k] + KeptWeight(k)' =
                     IF k = n + 1 THEN totalWeight' ELSE before'[k + 1]
      <4>1. CASE k = n + 1
        BY <2>0, <2>1, <2>4, <2>6, <4>1
      <4>2. CASE k = n /\ k \in 1..n
        <5>1. before[n] + KeptWeight(n) = totalWeight
          BY <2>0, <1>1, <4>2 DEF ShareInv, SumInv
        <5>2. QED
          BY <2>0, <2>2, <2>4, <2>6, <4>2, <5>1
      <4>3. CASE k \in 1..n /\ k # n
        <5>1. before[k] + KeptWeight(k) = before[k + 1]
          BY <2>0, <1>1, <4>3 DEF ShareInv, SumInv
        <5>2. k + 1 \in 1..n
          BY <2>0, <2>2, <4>3
        <5>3. QED
          BY <2>0, <2>2, <2>4, <2>6, <4>3, <5>1, <5>2
      <4>4. QED
        BY <2>0, <2>2, <4>1, <4>2, <4>3
    <3>3. QED
      BY <2>0, <2>4, <2>7, <3>1, <3>2 DEF SumInv
  <2>10. PositiveInv'
    <3>1. SUFFICES ASSUME \A k \in 1..(n + 1) : KeptWeight(k)' > 0
                   PROVE  totalWeight' > 0
      BY <2>0, <2>4, <2>7 DEF PositiveInv
    <3>2. w > 0
      BY <2>0, <2>2, <2>6, <3>1
    <3>3. \A k \in 1..n : KeptWeight(k) > 0
      BY <2>0, <2>2, <2>6, <3>1
    <3>4. totalWeight >= 0
      BY <2>0, <1>1, <1>2, <3>3 DEF ShareInv, PositiveInv
    <3>5. QED
      BY <2>0, <1>2, <2>1, <2>2, <3>2, <3>4
  <2>11. WalkInv' /\ ReturnInv'
    BY <2>0, <1>1, <1>3 DEF ShareInv, WalkInv, ReturnInv
  <2>12. QED
    BY <2>0, <2>3, <2>5, <2>9, <2>10, <2>11 DEF ShareInv
<1>7. QED
  BY <1>5, <1>6

\* After the first loop nothing touches the slice or the sums until the call
\* returns.
LEMMA SumsStay ==
    ASSUME KeptInv /\ SumInv /\ PositiveInv,
           UNCHANGED <<slice, healthyTargets, before, totalWeight>>
    PROVE  KeptInv' /\ SumInv' /\ PositiveInv'
  BY DEF KeptInv, SumInv, PositiveInv, KeptWeight

\* The number is drawn: the walk starts at the first kept target with sum 0.
LEMMA DrawShare == ShareInv /\ Draw => ShareInv'
<1>1. SUFFICES ASSUME ShareInv, Draw PROVE ShareInv'
  OBVIOUS
<1>2. /\ healthyTargets \in Seq(Nat) /\ totalWeight \in Int
      /\ healthyTargets # <<>> /\ cumulativeWeight = 0
  BY <1>1 DEF ShareInv, WeightedTypeOK, WalkInv, Draw, DrawFrom
<1>3. /\ UNCHANGED <<slice, healthyTargets, totalWeight, before>>
      /\ UNCHANGED <<cumulativeWeight, result>>
      /\ at' = "walk" /\ pos' = 1 /\ totalWeight > 0
      /\ randomNumber' \in 0..(totalWeight - 1)
  BY <1>1 DEF Draw, DrawFrom
<1>4. WeightedTypeOK'
  BY <1>1, <1>2, <1>3 DEF ShareInv, WeightedTypeOK
<1>5. KeptInv' /\ SumInv' /\ PositiveInv'
  BY <1>1, <1>3, SumsStay DEF ShareInv
<1>6. before[1] = 0 /\ 1 \in 1..Len(healthyTargets)
  BY <1>1, <1>2 DEF ShareInv, SumInv
<1>7. WalkInv' /\ ReturnInv'
  BY <1>2, <1>3, <1>6 DEF WalkInv, ReturnInv
<1>8. QED
  BY <1>4, <1>5, <1>7 DEF ShareInv

\* An iteration of the walk: at the last kept target the sum is the total, which
\* covers every number drawn, so the walk goes on only to another kept target.
LEMMA WalkShare == ShareInv /\ Walk => ShareInv'
<1>1. SUFFICES ASSUME ShareInv, Walk PROVE ShareInv'
  OBVIOUS
<1> DEFINE n == Len(healthyTargets)
           sum == cumulativeWeight + KeptWeight(pos)
<1>2. /\ slice \in Seq(TargetType) /\ healthyTargets \in Seq(Nat)
      /\ before \in Seq(Int) /\ totalWeight \in Int /\ randomNumber \in Int
      /\ cumulativeWeight \in Int /\ n \in Nat
  BY <1>1 DEF ShareInv, WeightedTypeOK
<1>3. /\ at = "walk" /\ pos \in 1..n /\ cumulativeWeight = before[pos]
      /\ cumulativeWeight <= randomNumber /\ randomNumber < totalWeight
  BY <1>1 DEF Walk, WalkUntil, ShareInv, WalkInv
<1>4. /\ UNCHANGED <<slice, healthyTargets, totalWeight, before>>
      /\ randomNumber' = randomNumber
      /\ cumulativeWeight' = sum
  BY <1>1 DEF Walk, WalkUntil, KeptWeight
<1>5. /\ healthyTargets[pos] \in Nat
      /\ KeptWeight(pos) \in Int
      /\ Len(before) = n
  <2>1. healthyTargets[pos] \in 1..Len(slice) /\ Len(before) = n
    BY <1>1, <1>3 DEF ShareInv, KeptInv
  <2>2. slice[healthyTargets[pos]] \in TargetType
    BY <1>2, <2>1
  <2>3. QED
    BY <1>2, <1>3, <2>1, <2>2 DEF TargetType, KeptWeight
<1>6. sum = IF pos = n THEN totalWeight ELSE before[pos + 1]
  BY <1>1, <1>3 DEF ShareInv, SumInv
<1>7. KeptInv' /\ SumInv' /\ PositiveInv'
  BY <1>1, <1>4, SumsStay DEF ShareInv
<1>8. CASE randomNumber < sum
  <2>1. result' = healthyTargets[pos] /\ at' = "return" /\ pos' = pos
    BY <1>1, <1>8 DEF Walk, WalkUntil, KeptWeight
  <2>2. WeightedTypeOK'
    BY <1>1, <1>2, <1>4, <1>5, <2>1 DEF ShareInv, WeightedTypeOK
  <2>3. KeptWeight(pos)' = KeptWeight(pos)
    BY <1>4, <2>1 DEF KeptWeight
  <2>4. PICK k \in 1..n : k = pos
    BY <1>3
  <2>5. ReturnInv'
    <3>1. k \in 1..Len(healthyTargets')
      BY <1>4
    <3>2. result' = healthyTargets'[k]
      BY <1>4, <2>1, <2>4
    <3>3. before'[k] <= randomNumber' /\ randomNumber' < before'[k] + KeptWeight(k)'
      BY <1>3, <1>4, <1>8, <2>4 DEF KeptWeight
    <3>4. QED
      BY <3>1, <3>2, <3>3 DEF ReturnInv
  <2>6. WalkInv'
    BY <2>1 DEF WalkInv
  <2>7. QED
    BY <1>7, <2>2, <2>5, <2>6 DEF ShareInv
<1>9. CASE ~(randomNumber < sum)
  <2>1. pos' = pos + 1 /\ at' = at /\ result' = result
    BY <1>1, <1>9 DEF Walk, WalkUntil, KeptWeight
  <2>2. WeightedTypeOK'
    BY <1>1, <1>2, <1>3, <1>4, <1>5, <2>1 DEF ShareInv, WeightedTypeOK
  <2>3. pos # n
    BY <1>3, <1>6, <1>9
  <2>4. pos + 1 \in 1..n /\ sum = before[pos + 1]
    BY <1>2, <1>3, <1>6, <2>3
  <2>5. sum <= randomNumber
    BY <1>2, <1>5, <1>9
  <2>6. WalkInv' /\ ReturnInv'
    BY <1>3, <1>4, <2>1, <2>4, <2>5 DEF WalkInv, ReturnInv
  <2>7. QED
    BY <1>7, <2>2, <2>6 DEF ShareInv
<1>10. QED
  BY <1>8, <1>9

\* Every step keeps the invariant.
LEMMA NextShare == ShareInv /\ [WeightedNext]_weightedVars => ShareInv'
<1>1. SUFFICES ASSUME ShareInv, [WeightedNext]_weightedVars PROVE ShareInv'
  OBVIOUS
<1>2. CASE Filter
  BY <1>1, <1>2, FilterShare
<1>3. CASE Filtered
  <2>1. /\ UNCHANGED <<slice, healthyTargets, before, totalWeight>>
        /\ UNCHANGED <<pos, randomNumber, cumulativeWeight, result>>
        /\ at = "filter"
        /\ at' = IF healthyTargets = <<>> THEN "error" ELSE "draw"
    BY <1>3 DEF Filtered
  <2>2. KeptInv' /\ SumInv' /\ PositiveInv'
    BY <1>1, <2>1, SumsStay DEF ShareInv
  <2>3. WeightedTypeOK' /\ WalkInv' /\ ReturnInv'
    BY <1>1, <2>1 DEF ShareInv, WeightedTypeOK, WalkInv, ReturnInv
  <2>4. QED
    BY <2>2, <2>3 DEF ShareInv
<1>4. CASE DrawUnweighted
  <2>1. /\ UNCHANGED <<slice, healthyTargets, before, totalWeight>>
        /\ UNCHANGED <<pos, randomNumber, cumulativeWeight>>
        /\ at' = "return" /\ totalWeight <= 0
    BY <1>4 DEF DrawUnweighted
  <2>2. PICK k \in 1..Len(healthyTargets) : result' = healthyTargets[k]
    BY <1>4 DEF DrawUnweighted
  <2>3. KeptInv' /\ SumInv' /\ PositiveInv'
    BY <1>1, <2>1, SumsStay DEF ShareInv
  <2>4. totalWeight \in Int /\ result' \in Nat
    BY <1>1, <2>2 DEF ShareInv, WeightedTypeOK
  <2>5. WeightedTypeOK' /\ WalkInv'
    BY <1>1, <2>1, <2>4 DEF ShareInv, WeightedTypeOK, WalkInv
  <2>6. ReturnInv'
    BY <2>1, <2>2, <2>4 DEF ReturnInv
  <2>7. QED
    BY <2>3, <2>5, <2>6 DEF ShareInv
<1>5. CASE Draw
  BY <1>1, <1>5, DrawShare
<1>6. CASE Walk
  BY <1>1, <1>6, WalkShare
<1>7. CASE WeightedReturn
  <2>1. slice' \in Seq(TargetType)
    BY <1>1, <1>7, WeightedAssumption DEF WeightedReturn, ShareInv, WeightedTypeOK
  <2>2. /\ at' = "filter" /\ pos' = 1 /\ healthyTargets' = <<>> /\ before' = <<>>
        /\ totalWeight' = 0 /\ randomNumber' = 0 /\ cumulativeWeight' = 0
        /\ result' = 0
    BY <1>7 DEF WeightedReturn
  <2>3. QED
    BY <2>1, <2>2
       DEF ShareInv, WeightedTypeOK, KeptInv, SumInv, PositiveInv, WalkInv, ReturnInv
<1>8. CASE UNCHANGED weightedVars
  <2>1. /\ UNCHANGED <<slice, healthyTargets, before, totalWeight>>
        /\ UNCHANGED <<at, pos, randomNumber, cumulativeWeight, result>>
    BY <1>8 DEF weightedVars, walkVars
  <2>2. KeptInv' /\ SumInv' /\ PositiveInv'
    BY <1>1, <2>1, SumsStay DEF ShareInv
  <2>3. WeightedTypeOK' /\ WalkInv'
    BY <1>1, <2>1 DEF ShareInv, WeightedTypeOK, WalkInv
  <2>4. ReturnInv'
    BY <1>1, <2>1 DEF ShareInv, ReturnInv, KeptWeight
  <2>5. QED
    BY <2>2, <2>3, <2>4 DEF ShareInv
<1>9. QED
  BY <1>1, <1>2, <1>3, <1>4, <1>5, <1>6, <1>7, <1>8 DEF WeightedNext

\* The invariant holds throughout.
LEMMA AlwaysShare == WeightedSpec => []ShareInv
<1>1. QED
  BY InitShare, NextShare, PTL DEF WeightedSpec

-----------------------------------------------------------------------------
\* For every slice, whatever the signs of its weights, the walk of Next() finds
\* the number before it runs out of targets: the fallback after the loop is dead
\* code.
THEOREM WeightedFallbackUnreachable == WeightedSpec => []FallbackUnreachable
<1>1. ShareInv => FallbackUnreachable
  BY DEF ShareInv, WalkInv, WeightedTypeOK, FallbackUnreachable
<1>2. QED
  BY <1>1, AlwaysShare, PTL

\* For every slice of positive weights, whatever of it is healthy, Next() gives
\* the number drawn to the one target whose stretch of it that is.
THEOREM WeightedExactShare == WeightedSpec => []ExactShare
<1>1. ASSUME ShareInv PROVE ExactShare
  <2>1. SUFFICES ASSUME at = "return",
                        \A k \in 1..Len(healthyTargets) : KeptWeight(k) > 0
                 PROVE  \E k \in 1..Len(healthyTargets) :
                           /\ result = healthyTargets[k]
                           /\ randomNumber \in before[k]..(before[k] + slice[result].weight - 1)
    BY DEF ExactShare, KeptWeight
  <2>2. PICK k \in 1..Len(healthyTargets) :
            /\ result = healthyTargets[k]
            /\ totalWeight > 0 => /\ before[k] <= randomNumber
                                  /\ randomNumber < before[k] + KeptWeight(k)
    BY <1>1, <2>1 DEF ShareInv, ReturnInv
  <2>3. healthyTargets # <<>>
    BY <2>2
  <2>4. totalWeight > 0
    BY <1>1, <2>1, <2>3 DEF ShareInv, PositiveInv
  <2>5. before[k] \in Int /\ randomNumber \in Int
    BY <1>1 DEF ShareInv, WeightedTypeOK, KeptInv
  <2>6. KeptWeight(k) \in Int /\ KeptWeight(k) = slice[result].weight
    <3>1. healthyTargets[k] \in 1..Len(slice) /\ slice \in Seq(TargetType)
      BY <1>1 DEF ShareInv, KeptInv, WeightedTypeOK
    <3>2. slice[healthyTargets[k]] \in TargetType
      BY <3>1
    <3>3. QED
      BY <2>2, <3>2 DEF TargetType, KeptWeight
  <2>7. QED
    BY <2>2, <2>4, <2>5, <2>6
<1>2. QED
  BY <1>1, AlwaysShare, PTL
=============================================================================
