\* Three requests over up to three targets, with each of the strategies.
CONSTANTS
    t1 = t1
    t2 = t2
    t3 = t3
    Target <- ThreeTargets
    Pool <- Pools
    Request = {r1, r2, r3}
    Strategies = {"random", "weighted", "least-connections"}
    MaxRefused = 1
    NoTarget = NoTarget
SPECIFICATION Spec
SYMMETRY RequestSymmetry
INVARIANTS
    TypeOK
    ExactAccounting
    LeastLoadedChosen
