------------------------------ MODULE BlockDevice ------------------------------
(***************************************************************************)
(* What the callers of DeviceOp expect of a disk: blocks, and one          *)
(* operation at a time that reads or changes the blocks it names.          *)
(***************************************************************************)
EXTENDS Naturals

CONSTANTS
    LBA,        \* the addresses of the blocks
    Val,        \* the contents of a block
    Ops,        \* the operations: cmd, lba, n, and the data of a write
    None        \* no operation

VARIABLES
    blocks,     \* what is on the disk
    op,         \* the operation in progress
    late,       \* an operation that failed and that the device has not given up
    ret         \* when it has ended: its error, and the blocks that it read

vars == <<blocks, op, late, ret>>

\* No error, and nothing read.
Nothing == [erc |-> "ok", out |-> <<>>]

Init ==
    /\ blocks \in [LBA -> Val]
    /\ op = None /\ late = None
    /\ ret = Nothing

Start(o) ==
    /\ op = None /\ op' = o
    /\ ret' = Nothing /\ late' \in {late, None}
    /\ UNCHANGED blocks

\* A write changes its blocks, one at a time, and no others.
Put(w) ==
    /\ w # None /\ w.cmd = "write"
    /\ \E i \in DOMAIN w.data :
        /\ w.lba + i - 1 \in LBA
        /\ blocks' = [blocks EXCEPT ![w.lba + i - 1] = w.data[i]]
    /\ UNCHANGED <<op, ret>>
    /\ late' \in {late, None}

\* The device may still be at it, or at the one that failed before.
Fail ==
    /\ ret'.erc # "ok" /\ ret'.out = <<>>
    /\ late' \in {late, op, None}

\* The device gives up what failed.
Forget == late' = None /\ UNCHANGED <<blocks, op, ret>>

\* A read that is reported as done returns its blocks; after a write that is
\* reported as done they are there.
Done ==
    /\ op.cmd \in {"read", "readsect", "write"} => \A i \in 1 .. op.n : op.lba + i - 1 \in LBA
    /\ LET there == [i \in 1 .. op.n |-> blocks[op.lba + i - 1]]
       IN  /\ op.cmd = "write" => there = op.data
           /\ late' \in {late, None}
           /\ ret' = [erc |-> "ok", out |-> IF op.cmd \in {"read", "readsect"} THEN there ELSE <<>>]

End ==
    /\ op # None /\ op' = None
    /\ Fail \/ Done
    /\ UNCHANGED blocks

Next ==
    \/ End \/ Forget
    \/ \E o \in Ops : Start(o)
    \/ \E w \in {op, late} : Put(w)

Spec == Init /\ [][Next]_vars
=============================================================================
