SPECIFICATION Spec
CONSTANTS
    Content = {a, b}
    Fresh = Fresh
    V1 = V1
    Migrated = Migrated
    Absent = Absent
    Torn = Torn
    Idle = Idle
    MaxPowerLoss = 2
    Client = {c1, c2}
    Caster = {g1, g2}
    MaxSSEClients = 1
    SSEChannelBuffer = 2
    MaxWorld = 3
    RequestedSize = {0, 1, 2, 3}
    LogEntry = {l1, l2}
    MaxLogged = 7
    MaxRewrites = 3
    MaxRules = 4
    MaxSaveErrors = 1
    MaxTouches = 4
    MaxNgErrors = 2
    Checker = {k1, k2}
    Running = 1
    MaxRelease = 3
    MaxFetches = 4
    Version <- VersionsAround
    Unreadable = Unreadable
    unifiGateAttempts = 3
    Width = 2
    MaxNets = 2
    NoNet = NoNet
    Port = {1, 2}
    BootPort = 1
    Request <- Requests
    MaxPolicyId = 3
    MaxRequests = 2
    MaxWanFaults = 1
    MaxUpsets = 1
INVARIANTS
    NoOrphanTmp
    NoStateMissed
    SnapshotIsTail
    
    ShutdownIsNot78
    
    OnePolicyPerName
    EntryNamesItsPolicy
    
    NoPolicyLost
PROPERTIES
    
    FileIsDurable
    
    SnippetPutBack
    UpdateNotForgotten
    GateDecides
CHECK_DEADLOCK FALSE
