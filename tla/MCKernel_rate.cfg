CONSTANTS
    t1 = t1
    t2 = t2
    t3 = t3
    j1 = j1
    j2 = j2
    Task = {t1, t2, t3}
    LB = {b1, b2}
    Job = {j1, j2}
    MonJob = j2
    NIL = NIL
    nExch = 3
    nPRI = 3
    SliceTicks = 1
    Calls <- CallsRate
    ISends = {0, 2}
    First = t1
    Job0 <- Job3
    Priority0 <- Rate3
    Ready0 <- ReadyRate3
    Owner0 <- Owner3
SPECIFICATION Spec
INVARIANTS ExchHoldsOneKind LinkBlocksConserved
PROPERTY ImplementsMailbox
