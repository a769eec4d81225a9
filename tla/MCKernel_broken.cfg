CONSTANTS
    t1 = t1
    t2 = t2
    t3 = t3
    j1 = j1
    j2 = j2
    Task = {t1, t2, t3}
    LB = {b1, b2}
    Job = {j1, j2}
    MonJob = j2
    NIL = NIL
    nExch = 1
    nPRI = 1
    SliceTicks = 3
    Calls <- CallsRace
    ISends = {0}
    First = t1
    Job0 <- Job3
    Priority0 <- Equal3
    Ready0 <- ReadyEq3
    Owner0 <- Owner1
SPECIFICATION Spec
SYMMETRY LBSymmetry
INVARIANT ExchHoldsOneKind
