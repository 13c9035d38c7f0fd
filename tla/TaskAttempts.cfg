SPECIFICATION Spec
CONSTANTS
    a1 = a1
    a2 = a2
    e1 = e1
    e2 = e2
    NoGraph = NoGraph
    Nobody = Nobody
    Authors <- MCAuthors
    Edits <- MCEdits
    MaxRequests = 2
    MaxVersions = 2
    MaxRevision = 3
    MaxAttempts = 2
CONSTRAINT Load
SYMMETRY Symmetry
INVARIANT ExecutesWhatWasSaved
PROPERTY HistorySpec
CHECK_DEADLOCK FALSE
