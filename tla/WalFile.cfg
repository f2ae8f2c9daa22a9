SPECIFICATION Spec
CONSTANTS
    Bodies <- MCInserts
    Policies = {"ALWAYS", "PERIODIC"}
    Junk <- MCJunk
    MaxEntries = 3
    MaxSeq = 2
    MaxRot = 1
INVARIANTS
    TypeOK
    NoFabrication
    SkipsOnlyDamaged
    SurvivesPowerLoss
