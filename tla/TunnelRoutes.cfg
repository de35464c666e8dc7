CONSTANTS
    t1 = t1
    t2 = t2
    t3 = t3
    c1 = c1
    c2 = c2
    Tunnels = {t1, t2, t3}
    CIDRs = {c1, c2}
    Metrics = {100}
    Names = {0, 1, 2}
    Idx = {1, 2, 3, 4}
    NoIdx = NoIdx
    NoTun = NoTun
    NoCfg = NoCfg
    Faults = {"link", "dev", "key"}
    CanCrash = FALSE
    Combined = FALSE
SYMMETRY Symmetry
SPECIFICATION Spec
INVARIANTS OwnersLive RouteFollowsOwners NoBlackhole
PROPERTY DiskFollowsKernel
