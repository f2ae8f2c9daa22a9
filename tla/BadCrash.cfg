SPECIFICATION SpecCrash
CONSTANTS
    d1 = d1
    d2 = d2
    v1 = v1
    v2 = v2
    Docs <- MCDocs
    Vecs <- MCVecs
    None = None
    Threshold = 1
    MaxSegs = 3
    MaxLog = 3
INVARIANTS
    LoggedSurvives
