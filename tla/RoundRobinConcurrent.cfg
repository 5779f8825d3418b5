\* Two callers, two targets, no harmful wrap.
CONSTANTS
    t1 = t1
    t2 = t2
    t3 = t3
    Target <- AllTargets
    Pool <- TwoTargets
    Caller = {c1, c2}
    IndexRange = 4
    NoTarget = NoTarget
    Config <- Configs
    Slice <- Slices
    Strategies = {"round-robin"}
SPECIFICATION BalancersSpec
INVARIANT ErrorMeansNoneHealthy
