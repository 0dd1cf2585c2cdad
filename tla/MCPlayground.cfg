CONSTANTS
    one = one
    two = two
    oneWithSlash = oneWithSlash
    malformed = malformed
    Empty = Empty
    None = None
    Inputs = {Empty, one, two, oneWithSlash, malformed}
    Repos = {one, two}
    Parsed <- ParsedInputs
    MaxRequests = 3
SPECIFICATION Spec
INVARIANTS
    TypeOK
    ShownIsRequested
    PanelTruthful
PROPERTIES
    LoadingEnds
CHECK_DEADLOCK FALSE
