CONSTANTS
    c1 = c1
    c2 = c2
    s1 = s1
    s2 = s2
    e1 = e1
    e2 = e2
    w1 = w1
    w2 = w2
    w3 = w3
    Absent = Absent
    Clients = {c1, c2}
    Streams = {s1, s2}
    EventIds = {e1, e2}
    Versions = {w1, w2, w3}
    MaxBatch = 2
SPECIFICATION Spec
INVARIANTS
    TypeOK
    StoredStreamsLoad
    AckedBatchAtItsVersion
    AckedEventsKeepTheirRevision
    PollingMissesNothing
SYMMETRY Symmetry
