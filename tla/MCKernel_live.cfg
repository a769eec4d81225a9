CONSTANTS
    t1 = t1
    t2 = t2
    t3 = t3
    j1 = j1
    j2 = j2
    Task = {t1, t2, t3}
    LB = {b1, b2}
    Job = {j1, j2}
    MonJob = j2
    NIL = NIL
    nExch = 2
    nPRI = 2
    SliceTicks = 3
    Calls <- CallsLive
    ISends = {0}
    First = t2
    Job0 <- Job3
    Priority0 <- LiveTwo3
    Ready0 <- ReadyLive3
    Owner0 <- OwnerTwo
SPECIFICATION FairSpec
PROPERTIES ReadyRuns WokenReturns
