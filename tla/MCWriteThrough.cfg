CONSTANTS
    k1 = k1
    k2 = k2
    v1 = v1
    v2 = v2
    w1 = w1
    w2 = w2
    w3 = w3
    Absent = Absent
    Keys = {k1}
    Values = {v1, v2}
    Versions = {w1, w2}
    NumCaches = 3
    Faults = {"cachePut", "cacheGet", "cacheDelete", "cacheLate", "compensate",
              "canonical", "canonicalLate", "crash", "refill", "pinned"}
SPECIFICATION Spec
INVARIANTS
    TypeOK
    StrictAgreement
    WholeWritesConverge
SYMMETRY Symmetry
