CONSTANTS
    t1 = t1
    c1 = c1
    c2 = c2
    Tunnels = {t1}
    CIDRs = {c1, c2}
    Metrics = {100}
    Names = {0}
    Idx = {1, 2, 3, 4}
    NoIdx = NoIdx
    NoTun = NoTun
    NoCfg = NoCfg
    Faults = {"link", "dev", "peer", "route", "key", "save"}
    CanCrash = FALSE
    Combined = TRUE
SPECIFICATION Spec
CHECK_DEADLOCK FALSE
PROPERTY OperationsReturn
