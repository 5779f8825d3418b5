\* One request, and the strategy the counters are for.
CONSTANTS
    t1 = t1
    t2 = t2
    t3 = t3
    Target <- ThreeTargets
    Pool <- Pools
    Request = {r1}
    Strategies = {"least-connections"}
    MaxRefused = 1
    NoTarget = NoTarget
SPECIFICATION Spec
INVARIANTS
    ActiveIsHandled
