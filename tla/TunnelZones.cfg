SPECIFICATION S2sSpec
CONSTANTS
    t1 = t1
    t2 = t2
    Tunnel = {t1, t2}
    Config <- TunnelConfigs
    First <- CreatedWith
    MaxZone = 2
    MaxS2sCalls = 1
    MaxRefusals = 1
INVARIANTS
    ZoneInUseKept
    
    

    
CHECK_DEADLOCK FALSE
