CONSTANTS
    p1 = p1
    p2 = p2
    k1 = k1
    k2 = k2
    v1 = v1
    v2 = v2
    Absent = Absent
    Procs = {p1, p2}
    Writers = {p1, p2}
    Keys = {k1, k2}
    Values = {v1, v2}
    Worktree <- NoWorktree
    Seeded = TRUE
    RevParseMayFail = FALSE
    MaxCommits = 3
SPECIFICATION Spec
INVARIANTS
    TypeOK
    AckedPutDurable
    RejectedNeverPublished
    HistoryAgreesWithGet
PROPERTIES
    SessionsNeverGoBack
    ImplementsWeakContract
SYMMETRY Symmetry
