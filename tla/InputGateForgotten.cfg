SPECIFICATION Spec
CONSTANTS
    Sizes <- MCSizes
    FlowWindow = 2
    StallTimeout = 3
    ReceiptInterval = 1
    Window = 2
    Resolution = 2
    Quiet = 1
    FrontierMarks = 3
    DeliveredMarks = 1
    MaxInputBacklog = 2
    ConnCap = 1
    Scenes <- MCScenes
PROPERTY AdmittedIsFresh
