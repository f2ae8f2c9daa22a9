SPECIFICATION Spec
CONSTANTS
    Docs <- Ruler3
    Points <- Ruler3
    Cells = 3
    MaxIter = 300
    Trainings <- MCTrainings
    M = 2
    EfConstruction = 2
    MaxLevel = 0
    Retrainings <- MCRetrainings
    MaxTrainings = 2
    MaxCount = 3
INVARIANTS
    TypeOK
    Trained
    SearchIsExact
PROPERTY
    InertiaFalls
