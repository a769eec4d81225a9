CONSTANTS
    nBlocks = 2
    PerTrack = 1
    Val = {0, 1}
    MaxBlks = 2
    Data <- SomeData
    nRetrys = 2
    MaxMsgs = 2
    Inits = TRUE
    FreeTBs = TRUE
    None = None
SPECIFICATION Spec
PROPERTIES ImplementsBlockDevice OpEnds
