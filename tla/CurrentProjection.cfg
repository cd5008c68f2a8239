SPECIFICATION CPSpec
CONSTANTS
    a = a
    b = b
    c = c
    x = x
    y = y
    c1 = c1
    c2 = c2
    d2 = d2
    Path = {a, b}
    Rank <- MCRank
    Content = {x, y}
    Edit = {}
    UserFiles = {}
    Absent = Absent
    Tree <- MCTree
    Oid = {c1, c2}
    NoOid = NoOid
    TreeOf <- MCTreeOf
    BaseOf <- MCBaseOf
    TornWrites = FALSE
    CleanupMayFail = TRUE
    StopKinds = {"crash", "file", "git"}
    MaxStops = 2
INVARIANTS CPTypeOK
PROPERTIES Spec AtomicMove SuccessIsReal
