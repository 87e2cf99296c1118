SPECIFICATION Spec
CONSTANTS
    t1 = t1
    t2 = t2
    p1 = p1
    p2 = p2
    x1 = x1
    x2 = x2
    x3 = x3
    b1 = b1
    b2 = b2
    ida = ida
    idb = idb
    Null = Null
    Threads = {t1, t2}
    Programs = {p1, p2}
    Identifiers = {ida}
    Addresses = {b1}
    Arrays = {x1, x2, x3}
    Users <- OwnPrograms
    Calls = {"rebind", "fresh"}
    InvalidatesWhileRunning = TRUE
    ClearCanFail = TRUE
    MaxGeneration = 1
SYMMETRY MCSymmetry
INVARIANTS
    TypeOK
    WritesItsOwnOutputs
    OverflowsAreReported
