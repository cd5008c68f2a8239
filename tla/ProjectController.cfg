SPECIFICATION Spec
CONSTANTS
    A = A
    B = B
    Projects = {A, B}
    Bound = {}
    d1 = d1
    d2 = d2
    Drafts = {d1, d2}
    o1 = o1
    o2 = o2
    Slots = {o1, o2}
    None = None
SYMMETRY Symmetric
INVARIANTS
    RunsWhereShown
    RetryIsPossible
    WaitsForSomething
CHECK_DEADLOCK FALSE
