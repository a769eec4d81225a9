CONSTANTS
    t1 = t1
    t2 = t2
    t3 = t3
    j1 = j1
    j2 = j2
    Task = {t1, t2, t3}
    LB = {b1, b2}
    Job = {j1, j2}
    MonJob = j2
    NIL = NIL
    nExch = 2
    nPRI = 2
    SliceTicks = 1
    Calls <- CallsAll
    ISends = {0}
    First = t1
    Job0 <- JobAll
    Priority0 <- Two3
    Ready0 <- ReadyTwo3
    Owner0 <- OwnerHalf
SPECIFICATION Spec
SYMMETRY LBSymmetry
INVARIANTS TypeOK LinkBlocksDisjoint TasksDisjoint ReadyByPriority WokenWithMessage
PROPERTIES OnlySendBreaks OnlyWindowsCut WholeLosesNothing MailboxTillBroken
CHECK_DEADLOCK FALSE
