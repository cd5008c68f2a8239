CONSTANTS
    Faults = {"garbage", "badNote", "exit"}
    Users = {}
    MaxTurns = 2
    MaxTools = 1
    MaxFaults = 1
    MaxRepairs = 1
SPECIFICATION FairSpec
CHECK_DEADLOCK FALSE
INVARIANTS
    OutcomeMatchesJournal
    EndedLeavesNoChild
PROPERTIES
    JournalEndsOnce
    RunEnds
