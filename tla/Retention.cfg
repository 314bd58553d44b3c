SPECIFICATION Spec
CONSTANTS
    k1 = k1
    k2 = k2
    Keys <- MCKeys
    MaxPanes = 2
    MaxCommands = 9
    MaxEnvelopes = 60
    MaxBytes = 4
    MaxBatch = 2
    Sizes <- MCSizes
    Rooms <- MCRooms
    MaxReservations = 7
    MaxOutputs = 2
    Scenes <- MCScenes
INVARIANTS TypeOK LedgersBalance StreamsInOrder SealIsCommitted NothingStranded
