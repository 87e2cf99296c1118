SPECIFICATION Spec
CONSTANTS
    c1 = c1
    c2 = c2
    m1 = m1
    m2 = m2
    a1 = a1
    a2 = a2
    ida = ida
    idb = idb
    Null = Null
    Contexts = {c1, c2}
    Impls = {m1, m2}
    Addresses = {a1, a2}
    Identifiers = {ida, idb}
    Signatures <- MCSignatures
    Callers <- MCCallers
    Policies <- AllPolicies
    Limits = {1, 2}
    Debugs <- MCDebugs
    HostVectorizes = TRUE
    MaxLookups = 2
    MaxNesting = 2
SYMMETRY MCSymmetry
CONSTRAINT Focus
VIEW Contents
INVARIANTS
    TypeOK
    CodeMatchesItsRecord
    StatisticsAddUp
    CacheOwnsItsCode
    HandlesStayValid
    ParentsAgree
PROPERTIES
    CacheGrowsWithinLimit
    SnapshotIsOfLastAttempt
    ImplementsLibrary
