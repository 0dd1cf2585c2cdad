CONSTANTS
    k1 = k1
    k2 = k2
    v1 = v1
    v2 = v2
    w1 = w1
    w2 = w2
    w3 = w3
    Absent = Absent
    Keys = {k1, k2}
    Values = {v1, v2}
    Versions = {w1, w2, w3}
    NumCaches = 2
    Faults = {"pinned"}
SPECIFICATION Spec
INVARIANTS
    TransparentReads
SYMMETRY Symmetry
