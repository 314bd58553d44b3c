CONSTANTS
    Sizes <- MCSizes
    Generations = 2
    Attachments = 2
    Birth = 1
    FrameUnits = 1
    ReplayUnits = 1
    WireFrames = 1
    Prepare = 1
    Fixed = 2
    Floor = 1
    TailCap = 3
    CatchUpCap = 3
    ReaderCap = 9
    Attempts = 2
    MaxResizes = 0
    MaxHappenings = 4
SPECIFICATION Spec
INVARIANTS TypeOK BudgetBalances
PROPERTIES PageFollowsRecording
CHECK_DEADLOCK FALSE
