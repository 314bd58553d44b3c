CONSTANTS
    Weights <- MCWeights
    PendCap = 1
    MaxUnits = 2
    MaxGens = 2
    Scenes <- MCRecorded
SPECIFICATION Spec
INVARIANTS
    ClaimedIsDriven
