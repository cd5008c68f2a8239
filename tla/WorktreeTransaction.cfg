SPECIFICATION Spec
CONSTANTS
    a = a
    b = b
    c = c
    x = x
    y = y
    Path = {a, b, c}
    Rank <- MCRank
    Content = {x, y}
    Edit = {edited}
    UserFiles = {edited}
    Absent = Absent
    Tree <- MCTree
    Oid = {c1}
    NoOid = NoOid
    TornWrites = TRUE
    CleanupMayFail = TRUE
INVARIANTS Recoverable
PROPERTIES AtomicOutcome OutcomeTellsTree EditsKept ForwardNeverRefused BackwardNeverRefused
