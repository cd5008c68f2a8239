SPECIFICATION Spec
CONSTANTS
    d1 = d1
    d2 = d2
    t0 = t0
    t1 = t1
    Draft = {d1, d2}
    None = None
    Question = Question
    Tree = {t0, t1}
    EmptyTree = t0
    Found = {t0, t1}
    Mixed = Mixed
    Edited = Edited
    Outcomes = {"passed", "failed"}
    MaxHead = 3
    StopKinds = {}
    MaxStops = 0
INVARIANTS DecidedOnce

CHECK_DEADLOCK FALSE
