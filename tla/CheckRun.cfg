SPECIFICATION FairSpec
CONSTANTS
    MaxChecks = 2
    MaxCrashes = 1
    Faults = {"cleanup", "store", "spawn"}
INVARIANTS ResultIsTrue WorkspaceQuiet RunExcludesSave ShutdownWaits
PROPERTIES GateContract CheckEnds
CHECK_DEADLOCK FALSE
