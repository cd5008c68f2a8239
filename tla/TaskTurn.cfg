SPECIFICATION FairSpec
CONSTANTS
    r1 = r1
    r2 = r2
    Requests = {r1, r2}
    A = A
    B = B
    Projects = {A, B}
    Home = A
    None = None
    Kinds = {"submit", "first", "approved", "continue", "followup", "undo", "restore", "answer", "draftAnswer"}
    MaxExtras = 1
INVARIANTS OneOpenTurn LiveTurnIsOwned LeaseHeldThroughout  BindingIsLive
PROPERTIES TurnEndsOnce OnlyTheseInterrupt RequestSettles
CHECK_DEADLOCK FALSE
