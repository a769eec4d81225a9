CONSTANTS
    nBlocks = 2
    dcbBlocks = 2
    Val = {0, 1}
    MaxCount = 2
    MaxBlks = 3
    AnswersLate = FALSE
    WritesAny = FALSE
    None = None
SPECIFICATION Spec
INVARIANT FirstAlarmIsOwn
PROPERTIES ImplementsBlockDevice OpEnds
