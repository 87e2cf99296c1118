SPECIFICATION Spec
CONSTANTS
    t1 = t1
    t2 = t2
    p1 = p1
    p2 = p2
    x1 = x1
    x2 = x2
    x3 = x3
    b1 = b1
    b2 = b2
    ida = ida
    idb = idb
    Null = Null
    Threads = {t1, t2}
    Programs = {p1, p2}
    Identifiers = {ida, idb}
    Addresses = {b1, b2}
    Arrays = {x1, x2, x3}
    Users <- OwnPrograms
    Calls = {"rebind"}
    InvalidatesWhileRunning = TRUE
    ClearCanFail = FALSE
    MaxGeneration = 2
SYMMETRY MCSymmetry
INVARIANTS
    RunsLiveCode
