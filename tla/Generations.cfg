CONSTANTS
    Weights <- MCWeights
    PendCap = 1
    MaxUnits = 3
    MaxGens = 3
    Scenes <- MCScenes
SPECIFICATION Spec
INVARIANTS
    TypeOK
    RecordedInOrder
    MapsNameTheLiving
    ReservationsSettle
    OneOutcome
PROPERTIES
    NoRevival
