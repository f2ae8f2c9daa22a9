SPECIFICATION Spec
CONSTANTS
    d1 = d1
    d2 = d2
    v1 = v1
    v2 = v2
    Docs <- MCDocs
    Vecs <- OneVec
    None = None
    Threshold = 2
    MaxSegs = 3
    MaxLog = 2
SYMMETRY SymmetryOfDocs
INVARIANTS
    TypeOK
    DistinctLogs
    MetadataAgrees
PROPERTIES
    ListedFrozen
