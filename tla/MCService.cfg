SPECIFICATION MCSpec
CONSTANTS
    Limit = 2
    GapChannel = 1
    SignatureChannel = 1
    GapWorkers = 2
    TransactionWorkers = 2
    Connections = 2
    MaxErrors = 1
    Messages <- MCMessages
    Length = 2
    WorkerCount = 2
    MaxTroubles = 2
    None = None
    MaxLimit = 2
    MaxChanges = 1
    Null = Null
INVARIANTS
    GapsAreQueued
    AckedIsApplied
    
    NegationIsComplement
PROPERTIES
    RunEnds
    StreamDrains
CHECK_DEADLOCK FALSE
