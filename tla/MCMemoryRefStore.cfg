CONSTANTS
    k1 = k1
    k2 = k2
    v1 = v1
    v2 = v2
    Absent = Absent
    Keys = {k1, k2}
    Values = {v1, v2}
    MaxVersion = 5
SPECIFICATION Spec
INVARIANTS
    TypeOK
    PinnedReadsSurvive
    ListAgreesWithGet
    HistoryNewestFirst
PROPERTIES
    OnlyAckedPutsShow
SYMMETRY Symmetry
