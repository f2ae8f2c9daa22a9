SPECIFICATION SpecListed
CONSTANTS
    d1 = d1
    d2 = d2
    v1 = v1
    v2 = v2
    Docs <- MCDocs
    Vecs <- MCVecs
    None = None
    Threshold = 2
    MaxSegs = 2
    MaxLog = 3
VIEW BesidesMetadata
SYMMETRY Symmetry
INVARIANTS
    IndexIsLog
    CountIsLog
    SearchIsExact
PROPERTIES
    SealedFrozen
    IsDocumentStore
