SPECIFICATION Spec
CONSTANTS
    r1 = r1
    r2 = r2
    Requests = {r1, r2}
    A = A
    B = B
    Projects = {A, B}
    Home = A
    None = None
    Kinds = {"submit", "draftAnswer"}
    MaxExtras = 0
PROPERTY RunIsNotInterrupted
CHECK_DEADLOCK FALSE
