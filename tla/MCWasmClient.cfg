CONSTANTS
    None = None
    Values = {1, 2, 3, 4}
    Docs = {1, 2, 3}
    Filters = {{1, 2, 3}, {1, 3}}
    Limits = {1, 2}
    HistoryLimit = 2
    MaxPuts = 3
    MaxItems = 3
SPECIFICATION Spec
INVARIANTS
    TypeOK
    ErrorsNameTheirCause
    PinnedReadsNeverLie
    ListWalkComplete
    HistoryWalkComplete
