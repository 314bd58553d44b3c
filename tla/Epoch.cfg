SPECIFICATION FairSpec
CONSTANTS
    Scenarios <- MCScenarios
    ReplayCap = 2
    HeldCap = 2
    MaxInputFrames = 2
    MaxTransitionalModeRequests = 2
INVARIANTS
    TypeOK
    OutputPreserved
    InputSettledOnce
    AttachmentOwned
PROPERTIES
    SchedulerAgrees
    EveryWaitEnds
CHECK_DEADLOCK FALSE
