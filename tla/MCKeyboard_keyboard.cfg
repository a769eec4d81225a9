SPECIFICATION Spec
CONSTANTS
    RQB = {r1, r2, r3}
    nLB = 3
    Job = {"mon", "cli"}
    Monitor = "mon"
    Pollers = {"mon"}
    Key = {"a"}
    sKbdBuf = 1
    sKB = 1
    MaxInts = 1
    None = None
    Exch <- MCExch
CHECK_DEADLOCK FALSE
SYMMETRY MCSymmetry
INVARIANTS RqbsOnce NoneOfTheDead NoneWaitsForNothing
PROPERTY ImplementsKeyFeed
