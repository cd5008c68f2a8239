CONSTANTS
    Faults = {"badError"}
    Users = {}
    MaxTurns = 1
    MaxTools = 1
    MaxFaults = 0
    MaxRepairs = 0
SPECIFICATION FairSpec
CHECK_DEADLOCK FALSE
PROPERTIES
    RunEnds
