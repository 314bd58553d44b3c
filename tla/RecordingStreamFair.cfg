CONSTANTS
    Sizes <- MCSizes
    Generations = 2
    Attachments = 1
    Birth = 1
    FrameUnits = 1
    ReplayUnits = 1
    WireFrames = 1
    Prepare = 1
    Fixed = 2
    Floor = 1
    TailCap = 3
    CatchUpCap = 3
    ReaderCap = 9
    Attempts = 2
    MaxResizes = 1
    MaxHappenings = 3
SPECIFICATION Spec
PROPERTIES EveryReaderSettles
CHECK_DEADLOCK FALSE
