SPECIFICATION FairSpec
CONSTANTS
    d1 = d1
    d2 = d2
    t0 = t0
    t1 = t1
    Draft = {d1, d2}
    None = None
    Question = Question
    Tree = {t0, t1}
    EmptyTree = t0
    Found = {t0, t1}
    Mixed = Mixed
    Edited = Edited
    Outcomes = {"passed", "failed"}
    MaxHead = 2
    StopKinds = {"crash", "edit", "git"}
    MaxStops = 3
PROPERTIES SaveEndsEventually RunEndsEventually
CHECK_DEADLOCK FALSE
