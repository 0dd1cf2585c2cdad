CONSTANTS
    t1 = t1
    t2 = t2
    refs = refs
    notes = notes
    k1 = k1
    k2 = k2
    v1 = v1
    v2 = v2
    None = None
    Tabs = {t1, t2}
    Stores = {refs, notes}
    Keys = {k1}
    Values = {v1}
    Left <- LeftRecords
    MaxRecord = 3
    MaxWrites = 2
    MaxOpens = 3
SPECIFICATION Spec
INVARIANTS
    FailedWritesAreReported
CHECK_DEADLOCK FALSE
