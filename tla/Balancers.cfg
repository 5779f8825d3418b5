\* Slices of 0..3 targets.  Round robin: the index range is a multiple of every
\* length.  Weighted: configured weights -1..3, updated ones -2..2.
CONSTANTS
    t1 = t1
    t2 = t2
    t3 = t3
    Target <- AllTargets
    Pool <- Pools
    Caller = {c1, c2}
    IndexRange = 6
    NoTarget = NoTarget
    Config <- Configs
    Slice <- Slices
    Strategies = {"round-robin", "weighted", "fastest"}
SPECIFICATION BalancersSpec
INVARIANTS
    LoneErrorIsTruthful
    BalancedClaims
    FallbackUnreachable
    ExactShare
PROPERTIES
    EveryCallReturns
    EveryWriteHappens
    AnswersAtomically
