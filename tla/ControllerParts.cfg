SPECIFICATION Spec
CONSTANTS
    MaxTsZone = 2
    MaxKeyCalls = 1
    MaxSetupFaults = 1
    MaxCleanRuns = 2
    MaxCleanFaults = 1
INVARIANTS
    OneTailscaleZone
    DeviceCleared
    ControllerCleared
    OthersKept
PROPERTIES
    ValidKeyKept
    
CHECK_DEADLOCK FALSE
