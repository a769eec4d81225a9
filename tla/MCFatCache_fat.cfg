CONSTANTS
    A = A
    C = C
    D = D
    Drive = {A, C, D}
    Kind <- KindOf
    sFAT <- sFATOf
    LBAFAT <- LBAFATOf
    nFATBufs = 3
    nFATS = 2
    PerSect = 2
    Clstr = {2, 5}
    MaxClstr = 9
    Val = {0, 1}
    StartMod = 8
    MaxTick = 2
    TickMod = 8
    Systems <- Both
SPECIFICATION Spec
INVARIANTS OneCopy OnDisk
PROPERTY ImplementsFatMap
