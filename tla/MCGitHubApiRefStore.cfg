CONSTANTS
    p1 = p1
    p2 = p2
    k1 = k1
    k2 = k2
    v1 = v1
    v2 = v2
    Absent = Absent
    Clients = {p1, p2}
    Keys = {k1, k2}
    Values = {v1}
    RetryBudget = 1
    HistoryLimit = 3
    PerPage = 2
    MaxCommits = 5
    MaxFaults = 1
SPECIFICATION Spec
INVARIANTS
    TypeOK
    EveryWriteCountsOnce
    ReadsAreFresh
PROPERTIES
    ImplementsContract
    ConflictAfterBudget
SYMMETRY Symmetry
