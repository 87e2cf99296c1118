SPECIFICATION Spec
CONSTANTS
    a = a
    b = b
    c = c
    h1 = h1
    h2 = h2
    n1 = n1
    n2 = n2
    n3 = n3
    v1 = v1
    v2 = v2
    Absent = Absent
    Identifiers = {a, b, c}
    Values = {v1, v2}
    Nodes = {n1, n2, n3}
    Hashes = {h1, h2}
    Hash <- MCHash
INVARIANTS
    TypeOK
    OneRecordPerIdentifier
PROPERTY
    ImplementsDictionary
