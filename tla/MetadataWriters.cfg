SPECIFICATION Spec
CONSTANTS
    i1 = i1
    i2 = i2
    red = red
    blue = blue
    w1 = w1
    w2 = w2
    Ids <- MCIds
    Tags <- MCTags
    Metas <- MCMetas
    NoDoc = NoDoc
    Writers <- MCWriters
    Readers = {r1}
    MaxTotal = 3
SYMMETRY Symmetry
INVARIANTS
    TypeOK
    IndexExact
    TotalExact
    IndexComplete
    SelectivityIsFraction
    IntersectStable
