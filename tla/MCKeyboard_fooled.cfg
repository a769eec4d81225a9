\* The keyboard service with the monitor and two jobs: the last answer to a job that is
\* killed is taken for the one to its abort.
SPECIFICATION Spec
CONSTANTS
    RQB = {r1, r2, r3}
    nLB = 3
    Job = {"mon", "cli", "edit"}
    Monitor = "mon"
    Pollers = {}
    Key = {"a"}
    sKbdBuf = 1
    sKB = 1
    MaxInts = 1
    None = None
    Exch <- MCExch
CHECK_DEADLOCK FALSE
SYMMETRY MCSymmetry
INVARIANTS AbortAnswered
