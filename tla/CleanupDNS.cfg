SPECIFICATION CleanupSpec
CONSTANTS
 MaxCleanRuns=2
 MaxCleanFaults=1
INVARIANTS DnsPoliciesGo
CHECK_DEADLOCK FALSE
