CONSTANTS
    Weights <- MCUneven
    PendCap = 2
    MaxUnits = 2
    MaxGens = 2
    Scenes <- MCQuiet
SPECIFICATION Spec
INVARIANTS
    RecordedOnce
