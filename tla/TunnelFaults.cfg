CONSTANTS
    t1 = t1
    t2 = t2
    c1 = c1
    Tunnels = {t1, t2}
    CIDRs = {c1}
    Metrics = {100}
    Names = {0, 1}
    Idx = {1, 2, 3}
    NoIdx = NoIdx
    NoTun = NoTun
    NoCfg = NoCfg
    Faults = {"link", "dev", "peer", "route", "key", "save"}
    CanCrash = TRUE
    Combined = TRUE
SYMMETRY Symmetry
SPECIFICATION Spec
INVARIANTS TypeOK NamesDistinct
PROPERTY Isolation
