----------------------------- MODULE FloppyProofs -----------------------------
(***************************************************************************)
(* The proof that Floppy implements BlockDevice, for drives, operations    *)
(* and tries of any number.                                                *)
(***************************************************************************)
EXTENDS Floppy, TLAPS

Pc   == {"idle", "badlba", "select", "switch", "block", "seek", "transfer", "reset", "wait",
         "results", "sense"}
What == {"status", "recal", "seek", "reset"}

FdcType == [phase : {"cmd", "exec", "result"}, op : Ops \cup {None}, i : Nat, st : Endings,
            move : {"none", "recal", "seek", "reset"}, target : Nat, done : BOOLEAN,
            good : BOOLEAN, head : Nat]
DrvType == [pc : Pc, op : Ops \cup {None}, retrys : 0 .. 255, n : Nat, got : Seq(Val),
            again : BOOLEAN, what : What, unmoved : BOOLEAN]

TypeOK ==
    /\ fdc \in FdcType
    /\ disk \in [LBA -> Val] /\ sectbuf \in Val
    /\ drv \in DrvType
    /\ At("idle") <=> drv.op = None

Moving == {"read", "write"}

\* While a block is tried.
Trying == {"seek", "transfer", "wait", "results", "sense"}

\* The first k blocks of the operation o were moved, and got has what was read.
Moved(o, k, got) ==
    /\ k <= o.n
    /\ o.cmd = "read" => got = [i \in 1 .. k |-> disk[o.lba + i - 1]]
    /\ o.cmd = "write" => got = <<>> /\ \A i \in 1 .. k : disk[o.lba + i - 1] = o.data[i]

\* Block k of the operation o is in sectbuf.
Copied(o, k) == k \in 1 .. o.n /\ (o.cmd = "write" => sectbuf = o.data[k])

\* Block k of the operation o was moved.
There(o, k) ==
    /\ o.cmd = "write" => disk[o.lba + k - 1] = o.data[k]
    /\ o.cmd = "read" => disk[o.lba + k - 1] = sectbuf

\* Where the driver is, and what it has done.
DrvOK ==
    /\ drv.pc \in {"badlba", "switch"} => drv.op.cmd # "init"
    /\ drv.pc = "reset" => drv.op.cmd = "init"
    /\ drv.pc \in {"block", "seek", "transfer", "results"} => drv.op.cmd \in Moving
    /\ drv.pc \in {"wait", "sense"} =>
            IF drv.what = "reset" THEN drv.op.cmd = "init" ELSE drv.op.cmd \in Moving
    /\ drv.pc = "sense" => drv.what # "status"
    /\ drv.pc \in {"badlba", "select", "switch", "reset"}
            \/ (drv.pc \in {"wait", "sense"} /\ drv.what = "reset") => drv.n = 0 /\ drv.got = <<>>

\* The blocks done, if each of them was moved.
SoFar(d) == d.n <= d.op.n /\ (~d.unmoved => Moved(d.op, d.n, d.got))

\* An operation that moves blocks.
OpOK ==
    drv.pc # "idle" /\ drv.op.cmd \in Moving =>
        /\ SoFar(drv)
        /\ drv.pc \in Trying => Copied(drv.op, drv.n + 1)

\* The transfer of a block, which may be one of an operation that failed.
FdcOK ==
    fdc.phase = "exec" =>
        /\ fdc.op \in Ops /\ fdc.op.cmd \in Moving /\ Copied(fdc.op, fdc.i)
        /\ drv.pc = "idle" => ret.failed
        /\ drv.pc # "idle" =>
            \/ /\ drv.op.cmd \notin Moving /\ ret.failed
               /\ drv.pc \in {"badlba", "select", "switch", "reset"}
            \/ drv.pc \in Trying /\ fdc.op = drv.op /\ fdc.i = drv.n + 1

\* The results that the driver waits for are those of its last command.
ResultOK ==
    drv.pc = "results" \/ (drv.pc = "wait" /\ drv.what = "status") =>
        /\ fdc.phase # "cmd"
        /\ fdc.phase = "result" /\ fdc.st = "ok" => There(drv.op, drv.n + 1)

IInv == TypeOK /\ DrvOK /\ OpOK /\ FdcOK /\ ResultOK


-----------------------------------------------------------------------------
(* The invariant, step by step. *)

LEMMA OpsShape ==
    ASSUME NEW o \in Ops
    PROVE  /\ o.cmd \in Moving \cup {"null", "fmtblk", "init"}
           /\ o.lba \in Nat /\ o.n \in Nat /\ o.lba + o.n <= nBlocks
           /\ o.cmd = "write" => o.data \in [1 .. o.n -> Val] /\ Len(o.data) = o.n
           /\ o.cmd \notin Moving => o.n = 1
<1>1. o.lba + o.n <= nBlocks /\ LBA \subseteq Nat /\ 1 .. MaxBlks \subseteq Nat /\ 0 \in Nat
  BY FloppyAssumption DEF Ops, LBA
<1>2. CASE o \in [cmd : {"read"}, lba : LBA, n : 1 .. MaxBlks, data : {<<>>}]
  BY <1>1, <1>2 DEF Moving
<1>3. CASE o \in [cmd : {"null", "fmtblk", "init"}, lba : {0}, n : {1}, data : {<<>>}]
  BY <1>1, <1>3 DEF Moving
<1>4. ASSUME NEW d \in Data, o \in [cmd : {"write"}, lba : LBA, n : {Len(d)}, data : {d}]
      PROVE  /\ o.cmd = "write" /\ o.lba \in Nat /\ o.n \in Nat
             /\ o.data \in [1 .. o.n -> Val] /\ Len(o.data) = o.n
  <2>1. d \in Seq(Val)
    BY FloppyAssumption
  <2>2. Len(d) \in Nat /\ d \in [1 .. Len(d) -> Val]
    BY <2>1
  <2> QED
    BY <1>1, <1>4, <2>2
<1>5. \/ o \in [cmd : {"read"}, lba : LBA, n : 1 .. MaxBlks, data : {<<>>}]
      \/ o \in [cmd : {"null", "fmtblk", "init"}, lba : {0}, n : {1}, data : {<<>>}]
      \/ \E d \in Data : o \in [cmd : {"write"}, lba : LBA, n : {Len(d)}, data : {d}]
  <2> DEFINE R == [cmd : {"read"}, lba : LBA, n : 1 .. MaxBlks, data : {<<>>}]
             WW(d) == [cmd : {"write"}, lba : LBA, n : {Len(d)}, data : {d}]
             W == UNION {WW(d) : d \in Data}
             N == [cmd : {"null", "fmtblk", "init"}, lba : {0}, n : {1}, data : {<<>>}]
  <2>1. Ops = {x \in R \cup W \cup N : x.lba + x.n <= nBlocks}
    BY DEF Ops
  <2> HIDE DEF R, N, WW
  <2>2. o \in R \/ o \in N \/ \E d \in Data : o \in WW(d)
    BY <2>1
  <2> QED
    BY <2>2 DEF R, N, WW
<1>6. "write" \in Moving
  BY DEF Moving
<1> QED
  BY <1>1, <1>2, <1>3, <1>4, <1>5, <1>6

\* A driver that is not idle has an operation.
LEMMA NotIdle == ASSUME TypeOK, drv.pc # "idle" PROVE drv.op \in Ops /\ drv.op # None
BY NoneAssumption DEF TypeOK, DrvType, At

LEMMA IdleType == Idle \in DrvType /\ Idle.pc = "idle" /\ Idle.op = None
<1>1. <<>> \in Seq(Val) /\ nRetrys \in 0 .. 255
  BY FloppyAssumption
<1> QED
  BY <1>1 DEF Idle, DrvType, Pc, What

LEMMA InitIInv == Init => IInv
<1> SUFFICES ASSUME Init PROVE IInv
  OBVIOUS
<1>1. drv \in DrvType /\ drv.pc = "idle" /\ drv.op = None
  BY IdleType DEF Init
<1>2. fdc \in FdcType /\ fdc.phase = "cmd"
  BY DEF Init, FdcType, Endings
<1> QED
  BY <1>1, <1>2 DEF Init, IInv, TypeOK, At, DrvOK, OpOK, FdcOK, ResultOK

\* An operation ends.  What goes on is a transfer of one that failed.
LEMMA ReturnIInv ==
    ASSUME IInv, NEW erc, Return(erc), fdc' \in FdcType, UNCHANGED <<disk, sectbuf>>,
           fdc'.phase = "exec" =>
                fdc' = fdc /\ (erc # "ok" \/ (drv.pc = "switch" /\ drv.op.cmd \notin Moving))
    PROVE  IInv'
<1>1. drv' \in DrvType /\ drv'.pc = "idle" /\ drv'.op = None
      /\ ret'.failed = (erc # "ok" \/ (ret.failed /\ drv.op.cmd # "init"))
  BY IdleType DEF Return
<1>2. TypeOK'
  BY <1>1 DEF IInv, TypeOK, At
<1>3. FdcOK'
  <2>1. fdc'.phase = "exec" /\ erc = "ok" => ret.failed /\ drv.op.cmd # "init"
    BY DEF IInv, FdcOK, DrvOK, Trying
  <2> QED
    BY <1>1, <2>1 DEF IInv, FdcOK, Copied
<1> QED
  BY <1>1, <1>2, <1>3 DEF IInv, DrvOK, OpOK, ResultOK

\* A step of the driver while it tries a block.
LEMMA TryingIInv ==
    ASSUME IInv, drv.pc \in Trying, drv.op.cmd \in Moving,
           drv' \in DrvType, drv'.pc \in Trying,
           drv'.op = drv.op, drv'.n = drv.n, drv'.got = drv.got, drv'.unmoved = drv.unmoved,
           drv'.pc \in {"wait", "sense"} => drv'.what # "reset",
           drv'.pc = "sense" => drv'.what # "status",
           fdc' \in FdcType, UNCHANGED <<disk, sectbuf>>,
           fdc'.phase = "exec" => fdc' = fdc \/ (fdc'.op = drv.op /\ fdc'.i = drv.n + 1),
           ResultOK'
    PROVE  IInv'
<1>1. drv.op \in Ops /\ drv.op # None /\ drv.n \in Nat
  BY NotIdle DEF Trying, IInv, TypeOK, DrvType
<1>2. SoFar(drv) /\ Copied(drv.op, drv.n + 1) /\ SoFar(drv)' /\ Copied(drv.op, drv.n + 1)'
  <2>1. SoFar(drv) /\ Copied(drv.op, drv.n + 1)
    BY DEF IInv, OpOK, Trying
  <2> QED
    BY <2>1 DEF SoFar, Moved, Copied
<1>3. drv'.pc # "idle" /\ drv'.pc # "block" /\ drv'.pc \notin {"badlba", "select", "switch", "reset"}
  BY DEF Trying
<1>4. TypeOK'
  BY <1>1, <1>3 DEF IInv, TypeOK, At
<1>5. DrvOK'
  BY <1>3 DEF DrvOK, Trying
<1>6. OpOK'
  BY <1>2, <1>3 DEF OpOK
<1>7. FdcOK'
  <2>1. drv.op.cmd # "init"
    BY DEF Moving
  <2>2. fdc.phase = "exec" => fdc.op = drv.op /\ fdc.i = drv.n + 1
    BY <2>1 DEF IInv, FdcOK, Trying
  <2>3. fdc'.phase = "exec" => fdc'.op = drv.op /\ fdc'.i = drv.n + 1
    BY <2>2
  <2> QED
    BY <1>1, <1>2, <1>3, <2>3 DEF FdcOK
<1> QED
  BY <1>4, <1>5, <1>6, <1>7 DEF IInv

\* retrys counts the tries down.
LEMMA DecrementIs == ASSUME NEW r \in 0 .. 255 PROVE Decrement(r) \in 0 .. 255
BY DEF Decrement

LEMMA TryFailedIInv ==
    ASSUME IInv, drv.pc \in Trying, drv.op.cmd \in Moving, TryFailed, fdc' \in FdcType,
           fdc'.phase = "exec" => fdc' = fdc, UNCHANGED <<disk, sectbuf>>
    PROVE  IInv'
<1>1. CASE drv.retrys = 0
  <2>1. Return("erc")
    BY <1>1 DEF TryFailed
  <2> QED
    BY <2>1, ReturnIInv
<1>2. CASE drv.retrys # 0
  <2>1. drv' = [drv EXCEPT !.pc = "seek", !.retrys = Decrement(@), !.what = "status",
                           !.again = FALSE]
    BY <1>2 DEF TryFailed
  <2>2. drv \in DrvType /\ Decrement(drv.retrys) \in 0 .. 255
    BY DecrementIs DEF IInv, TypeOK, DrvType
  <2>3. /\ drv' \in DrvType /\ drv'.pc = "seek"
        /\ drv'.op = drv.op /\ drv'.n = drv.n /\ drv'.got = drv.got /\ drv'.unmoved = drv.unmoved
    BY <2>1, <2>2 DEF DrvType, Pc, What
  <2>4. ResultOK'
    BY <2>3 DEF ResultOK
  <2> QED
    BY <2>3, <2>4, TryingIInv DEF Trying
<1> QED
  BY <1>1, <1>2

LEMMA RecalFailedIInv ==
    ASSUME IInv, drv.pc \in Trying, drv.op.cmd \in Moving, RecalFailed, fdc' \in FdcType,
           fdc'.phase = "exec" => fdc' = fdc, UNCHANGED <<disk, sectbuf>>
    PROVE  IInv'
<1>1. CASE drv.again
  BY <1>1, TryFailedIInv DEF RecalFailed
<1>2. CASE ~drv.again
  <2>1. drv' = [drv EXCEPT !.pc = "seek", !.what = "status", !.again = TRUE]
    BY <1>2 DEF RecalFailed
  <2>2. drv \in DrvType
    BY DEF IInv, TypeOK
  <2>3. /\ drv' \in DrvType /\ drv'.pc = "seek"
        /\ drv'.op = drv.op /\ drv'.n = drv.n /\ drv'.got = drv.got /\ drv'.unmoved = drv.unmoved
    BY <2>1, <2>2 DEF DrvType, Pc, What
  <2>4. ResultOK'
    BY <2>3 DEF ResultOK
  <2> QED
    BY <2>3, <2>4, TryingIInv DEF Trying
<1> QED
  BY <1>1, <1>2

LEMMA GotoIs ==
    ASSUME drv \in DrvType, NEW pc \in Pc, Goto(pc)
    PROVE  /\ drv' \in DrvType /\ drv'.pc = pc /\ drv'.op = drv.op /\ drv'.n = drv.n
           /\ drv'.got = drv.got /\ drv'.unmoved = drv.unmoved /\ drv'.what = "status"
BY DEF Goto, DrvType, What

LEMMA WaitForIs ==
    ASSUME drv \in DrvType, NEW what \in What, WaitFor(what)
    PROVE  /\ drv' \in DrvType /\ drv'.pc = "wait" /\ drv'.op = drv.op /\ drv'.n = drv.n
           /\ drv'.got = drv.got /\ drv'.unmoved = drv.unmoved /\ drv'.what = what
BY DEF WaitFor, DrvType, Pc

\* The controller takes a command.
LEMMA CommandIs ==
    ASSUME TypeOK
    PROVE  /\ Accepts \in FdcType /\ Accepts.phase = "cmd"
           /\ \A what \in {"recal", "seek", "reset"}, to \in Nat :
                    Move(what, to) \in FdcType /\ Move(what, to).phase = "cmd"
           /\ [Accepts EXCEPT !.done = FALSE, !.good = FALSE] \in FdcType
           /\ [Accepts EXCEPT !.done = FALSE, !.good = FALSE].phase = "cmd"
<1>1. Accepts \in FdcType /\ Accepts.phase = "cmd"
  BY DEF TypeOK, FdcType, Accepts, Endings
<1> QED
  BY <1>1 DEF FdcType, Move

\* A step of another, which leaves the driver, the blocks and the transfer alone.
LEMMA OtherIInv ==
    ASSUME IInv, UNCHANGED <<disk, sectbuf, drv, ret>>, fdc' \in FdcType,
           fdc'.phase = fdc.phase, fdc'.op = fdc.op, fdc'.i = fdc.i, fdc'.st = fdc.st
    PROVE  IInv'
<1>1. TypeOK'
  BY DEF IInv, TypeOK, At
<1>2. DrvOK'
  BY DEF IInv, DrvOK
<1>3. OpOK'
  BY DEF IInv, OpOK, SoFar, Moved, Copied
<1>4. FdcOK'
  BY DEF IInv, FdcOK, Copied
<1>5. ResultOK'
  BY DEF IInv, ResultOK, There
<1> QED
  BY <1>1, <1>2, <1>3, <1>4, <1>5 DEF IInv

LEMMA MoveDoneIInv == ASSUME IInv, MoveDone PROVE IInv'
<1>1. PICK good \in BOOLEAN :
        fdc' = [fdc EXCEPT !.move = "none", !.target = 0, !.done = TRUE, !.good = good,
                           !.head = IF good /\ fdc.move # "reset" THEN fdc.target ELSE @]
  BY DEF MoveDone
<1>2. fdc \in FdcType
  BY DEF IInv, TypeOK
<1>3. /\ fdc' \in FdcType /\ fdc'.phase = fdc.phase /\ fdc'.op = fdc.op /\ fdc'.i = fdc.i
      /\ fdc'.st = fdc.st
  BY <1>1, <1>2 DEF FdcType
<1> QED
  BY <1>3, OtherIInv DEF MoveDone, dma

\* An operation that resets the controller.
LEMMA ResetIInv ==
    ASSUME IInv, drv.pc # "idle", drv.op.cmd = "init", drv.n = 0, drv.got = <<>>,
           drv' \in DrvType, drv'.op = drv.op, drv'.n = 0, drv'.got = <<>>,
           drv'.pc = "reset" \/ (drv'.pc \in {"wait", "sense"} /\ drv'.what = "reset"),
           fdc' \in FdcType, fdc'.phase = "exec" => fdc' = fdc /\ drv'.pc = "reset",
           UNCHANGED <<disk, sectbuf>>, fdc'.phase = "exec" => ret' = ret
    PROVE  IInv'
<1>1. drv.op \in Ops /\ drv.op # None /\ drv.op.cmd \notin Moving
  BY NotIdle DEF IInv, TypeOK, Moving
<1>2. drv'.pc \notin {"idle", "badlba", "select", "switch", "block", "seek", "transfer", "results"}
  OBVIOUS
<1>3. TypeOK'
  BY <1>1, <1>2 DEF IInv, TypeOK, At
<1>4. DrvOK'
  BY <1>2 DEF DrvOK
<1>5. FdcOK'
  <2>1. fdc'.phase = "exec" =>
            /\ fdc'.op \in Ops /\ fdc'.op.cmd \in Moving /\ Copied(fdc.op, fdc.i)'
            /\ ret'.failed
    BY <1>1 DEF IInv, FdcOK, Copied
  <2> QED
    BY <1>1, <1>2, <2>1 DEF FdcOK
<1> QED
  BY <1>1, <1>2, <1>3, <1>4, <1>5 DEF IInv, OpOK, ResultOK

LEMMA FailedIInv ==
    ASSUME IInv, drv.pc \in {"wait", "sense"}, Failed, fdc' \in FdcType,
           fdc'.phase = "exec" => fdc' = fdc, UNCHANGED <<disk, sectbuf>>
    PROVE  IInv'
<1>1. drv \in DrvType /\ drv.what \in What /\ drv.pc \in Trying
  BY DEF IInv, TypeOK, DrvType, Trying
<1>2. drv.what # "reset" => drv.op.cmd \in Moving
  BY DEF IInv, DrvOK
<1>3. CASE drv.what = "recal"
  <2>1. RecalFailed
    BY <1>3 DEF Failed
  <2> QED
    BY <1>1, <1>2, <1>3, <2>1, RecalFailedIInv
<1>4. CASE drv.what = "seek"
  <2>1. Goto("transfer")
    BY <1>4 DEF Failed
  <2>2. "transfer" \in Pc
    BY DEF Pc
  <2>3. drv' \in DrvType /\ drv'.pc = "transfer" /\ drv'.op = drv.op /\ drv'.n = drv.n
        /\ drv'.got = drv.got /\ drv'.unmoved = drv.unmoved
    BY <1>1, <2>1, <2>2, GotoIs
  <2>4. ResultOK'
    BY <2>3 DEF ResultOK
  <2> QED
    BY <1>1, <1>2, <1>4, <2>3, <2>4, TryingIInv DEF Trying
<1>5. CASE drv.what = "status"
  <2>1. TryFailed
    BY <1>5 DEF Failed
  <2> QED
    BY <1>1, <1>2, <1>5, <2>1, TryFailedIInv
<1>6. CASE drv.what = "reset"
  <2>1. Return("erc")
    BY <1>6 DEF Failed
  <2> QED
    BY <2>1, ReturnIInv
<1> QED
  BY <1>1, <1>3, <1>4, <1>5, <1>6 DEF What

LEMMA dev_opIInv ==
    ASSUME Inits, IInv, NEW o \in Ops, dev_op(o)
    PROVE  IInv'
<1>1. drv.pc = "idle" /\ UNCHANGED <<fdc, disk, sectbuf>> /\ (ret.failed => o.cmd \notin Moving)
  BY DEF dev_op, At, dma, Moving
<1>4. ret'.failed = ret.failed
  BY DEF dev_op
<1>2. PICK pc \in {"badlba", "select"} :
          drv' = [Idle EXCEPT !.op = o, !.pc = pc] /\ (pc = "badlba" => o.cmd # "init")
  BY DEF dev_op
<1>3. o # None
  BY NoneAssumption
<1>5. /\ drv' \in DrvType /\ drv'.pc = pc /\ drv'.op = o /\ drv'.n = 0 /\ drv'.got = <<>>
  <2>1. Idle \in DrvType
    BY IdleType
  <2> QED
    BY <1>2, <2>1 DEF DrvType, Pc, Idle
<1>6. TypeOK'
  BY <1>1, <1>2, <1>3, <1>5 DEF IInv, TypeOK, At
<1>7. DrvOK'
  BY <1>2, <1>5 DEF DrvOK
<1>8. OpOK'
  <2>1. SoFar(drv)'
    BY <1>5, OpsShape DEF SoFar, Moved
  <2> QED
    BY <1>2, <1>5, <2>1 DEF OpOK, Trying
<1>9. FdcOK'
  BY <1>1, <1>2, <1>4, <1>5 DEF IInv, FdcOK, Copied
<1>10. ResultOK'
  BY <1>2, <1>5 DEF ResultOK
<1> QED
  BY <1>6, <1>7, <1>8, <1>9, <1>10 DEF IInv

\* Before the blocks of an operation are tried, no transfer goes on.
LEMMA NoTransfer ==
    ASSUME IInv, drv.pc \in {"badlba", "switch", "block"}, drv.op.cmd \in Moving
    PROVE  fdc.phase # "exec"
BY DEF IInv, DrvOK, FdcOK, Trying, Moving

LEMMA fd_selectIInv == ASSUME IInv, fd_select PROVE IInv'
<1>1. drv.pc = "select" /\ UNCHANGED <<fdc, disk, sectbuf, ret>> /\ drv \in DrvType
  BY DEF fd_select, At, dma, Stays, IInv, TypeOK
<1>2. drv.n = 0 /\ drv.got = <<>>
  BY <1>1 DEF IInv, DrvOK
<1>3. CASE drv.op.cmd = "init"
  <2>1. Goto("reset") /\ "reset" \in Pc
    BY <1>3 DEF fd_select, Pc
  <2>2. drv' \in DrvType /\ drv'.pc = "reset" /\ drv'.op = drv.op /\ drv'.n = drv.n
        /\ drv'.got = drv.got /\ drv'.unmoved = drv.unmoved
    BY <1>1, <2>1, GotoIs
  <2> QED
    BY <1>1, <1>2, <1>3, <2>2, ResetIInv DEF IInv, TypeOK
<1>4. CASE drv.op.cmd # "init"
  <2>1. Goto("switch") /\ "switch" \in Pc
    BY <1>4 DEF fd_select, Pc
  <2>2. drv' \in DrvType /\ drv'.pc = "switch" /\ drv'.op = drv.op /\ drv'.n = drv.n
        /\ drv'.got = drv.got /\ drv'.unmoved = drv.unmoved
    BY <1>1, <2>1, GotoIs
  <2>3. fdc.phase = "exec" => drv.op.cmd \notin Moving /\ ret.failed
    BY <1>1, <1>4 DEF IInv, FdcOK, Trying
  <2>4. drv.op \in Ops /\ drv.op # None
    BY <1>1, NotIdle DEF IInv
  <2>5. TypeOK'
    BY <1>1, <2>2, <2>4 DEF IInv, TypeOK, At
  <2>6. DrvOK'
    BY <1>2, <1>4, <2>2 DEF DrvOK
  <2>7. OpOK'
    BY <1>1, <2>2 DEF IInv, OpOK, SoFar, Moved, Trying
  <2>8. FdcOK'
    BY <1>1, <2>2, <2>3 DEF IInv, FdcOK, Copied
  <2> QED
    BY <2>2, <2>5, <2>6, <2>7, <2>8 DEF IInv, ResultOK
<1> QED
  BY <1>3, <1>4

LEMMA purge_fdcIInv == ASSUME IInv, purge_fdc PROVE IInv'
<1>1. drv.pc = "switch" /\ UNCHANGED <<disk, sectbuf, drv, ret>>
  BY DEF purge_fdc, At, dma
<1>2. fdc' \in FdcType /\ fdc'.phase = "cmd"
  BY CommandIs DEF purge_fdc, IInv
<1>3. TypeOK'
  BY <1>1, <1>2 DEF IInv, TypeOK, At
<1>4. DrvOK'
  BY <1>1 DEF IInv, DrvOK
<1>5. OpOK'
  BY <1>1 DEF IInv, OpOK, SoFar, Moved, Copied
<1> QED
  BY <1>1, <1>2, <1>3, <1>4, <1>5 DEF IInv, FdcOK, ResultOK

LEMMA SwitchIInv == ASSUME IInv, Switch PROVE IInv'
<1>1. drv.pc = "switch" /\ UNCHANGED <<disk, sectbuf>> /\ drv \in DrvType
  BY DEF Switch, At, dma, IInv, TypeOK
<1>2. drv.n = 0 /\ drv.got = <<>> /\ drv.op.cmd # "init"
  BY <1>1 DEF IInv, DrvOK
<1>3. fdc' = fdc /\ fdc \in FdcType
  BY DEF Switch, IInv, TypeOK
<1>4. drv.op \in Ops /\ drv.op # None
  BY <1>1, NotIdle DEF IInv
<1>5. ASSUME NEW erc, Return(erc), drv.op.cmd \notin Moving PROVE IInv'
  BY <1>1, <1>3, <1>5, ReturnIInv
<1>6. CASE drv.op.cmd \in Moving
  <2>1. Goto("block") /\ ret' = ret /\ "block" \in Pc
    BY <1>6 DEF Switch, Moving, Pc
  <2>2. drv' \in DrvType /\ drv'.pc = "block" /\ drv'.op = drv.op /\ drv'.n = drv.n
        /\ drv'.got = drv.got /\ drv'.unmoved = drv.unmoved
    BY <1>1, <2>1, GotoIs
  <2>3. TypeOK'
    BY <1>1, <1>3, <1>4, <2>2 DEF IInv, TypeOK, At
  <2>4. DrvOK'
    BY <1>6, <2>2 DEF DrvOK
  <2>5. OpOK'
    BY <1>1, <1>2, <2>2 DEF IInv, OpOK, SoFar, Moved, Trying
  <2>6. fdc'.phase # "exec"
    BY <1>1, <1>3, <1>6, NoTransfer
  <2> QED
    BY <2>2, <2>3, <2>4, <2>5, <2>6 DEF IInv, FdcOK, ResultOK
<1>7. CASE drv.op.cmd \notin Moving
  <2>1. drv.op.cmd \in {"null", "fmtblk"}
    BY <1>2, <1>4, <1>7, OpsShape
  <2> QED
    BY <1>5, <1>7, <2>1 DEF Switch
<1> QED
  BY <1>6, <1>7

LEMMA RdWrtVerfIInv == ASSUME IInv, RdWrtVerf PROVE IInv'
<1>1. drv.pc = "block" /\ UNCHANGED <<fdc, disk>> /\ drv \in DrvType /\ fdc \in FdcType
  BY DEF RdWrtVerf, At, dma, IInv, TypeOK
<1>2. fdc.phase # "exec"
  BY <1>1, NoTransfer DEF IInv, DrvOK
<1>3. CASE drv.n = drv.op.n
  <2>1. Return("ok") /\ UNCHANGED sectbuf
    BY <1>3 DEF RdWrtVerf
  <2> QED
    BY <1>1, <1>2, <2>1, ReturnIInv
<1>4. ASSUME drv.n # drv.op.n PROVE IInv'
  <2>1. drv.op \in Ops /\ drv.op # None /\ drv.op.cmd \in Moving /\ SoFar(drv)
    BY <1>1, NotIdle DEF IInv, OpOK, DrvOK
  <2>2. PICK o \in Ops, n \in Nat, s \in 0 .. 255, got \in Seq(Val) :
            o = drv.op /\ n = drv.n /\ s = Decrement(drv.retrys) /\ got = Got
    <3>1. Got \in Seq(Val)
      BY <1>1 DEF Got, DrvType, IInv, TypeOK
    <3> QED
      BY <1>1, <2>1, <3>1, DecrementIs DEF DrvType
  <2>3. n + 1 \in 1 .. o.n
    BY <1>4, <2>1, <2>2, OpsShape DEF SoFar
  <2>4. sectbuf' = IF o.cmd = "write" THEN o.data[n + 1] ELSE sectbuf
    BY <1>4, <2>2 DEF RdWrtVerf, CopyOut
  <2>5. sectbuf' \in Val
    BY <2>3, <2>4, OpsShape DEF IInv, TypeOK
  <2>6. CASE drv.retrys = 0
    <3>1. drv' = [drv EXCEPT !.retrys = s, !.pc = "block", !.n = n + 1, !.got = got,
                             !.again = FALSE, !.unmoved = TRUE]
      BY <1>1, <1>4, <2>2, <2>6 DEF RdWrtVerf, NextBlock, DrvType
    <3>2. /\ drv' \in DrvType /\ drv'.pc = "block" /\ drv'.op = o /\ drv'.n = n + 1
          /\ drv'.unmoved
      <4>1. "block" \in Pc /\ n + 1 \in Nat
        BY DEF Pc
      <4>2. drv' \in DrvType
        BY <1>1, <2>2, <3>1, <4>1 DEF DrvType
      <4> QED
        BY <1>1, <2>2, <3>1, <4>2 DEF DrvType
    <3>3. TypeOK'
      BY <1>1, <2>1, <2>2, <2>5, <3>2 DEF IInv, TypeOK, At
    <3>4. DrvOK'
      BY <2>1, <2>2, <3>2 DEF DrvOK
    <3>5. OpOK'
      BY <2>3, <3>2 DEF OpOK, SoFar, Trying
    <3> QED
      BY <1>1, <1>2, <3>2, <3>3, <3>4, <3>5 DEF IInv, FdcOK, ResultOK
  <2>7. CASE drv.retrys # 0
    <3>1. drv' = [drv EXCEPT !.retrys = s, !.pc = "seek"]
      BY <1>4, <2>2, <2>7 DEF RdWrtVerf
    <3>2. /\ drv' \in DrvType /\ drv'.pc = "seek" /\ drv'.op = o /\ drv'.n = n
          /\ drv'.got = drv.got /\ drv'.unmoved = drv.unmoved
      <4>1. "seek" \in Pc
        BY DEF Pc
      <4>2. drv' \in DrvType
        BY <1>1, <2>2, <3>1, <4>1 DEF DrvType
      <4> QED
        BY <1>1, <2>2, <3>1, <4>2 DEF DrvType
    <3>3. TypeOK'
      BY <1>1, <2>1, <2>2, <2>5, <3>2 DEF IInv, TypeOK, At
    <3>4. DrvOK'
      BY <2>1, <2>2, <3>2 DEF DrvOK
    <3>5. SoFar(drv)' /\ Copied(o, n + 1)'
      BY <1>1, <2>1, <2>2, <2>3, <2>4, <3>2 DEF SoFar, Moved, Copied
    <3>6. OpOK'
      BY <3>2, <3>5 DEF OpOK
    <3> QED
      BY <1>1, <1>2, <3>2, <3>3, <3>4, <3>6 DEF IInv, FdcOK, ResultOK
  <2> QED
    BY <2>6, <2>7
<1> QED
  BY <1>3, <1>4

LEMMA TrackIs == ASSUME IInv, drv.pc # "idle" PROVE track \in Nat
<1>1. drv.op \in Ops /\ drv.n \in Nat /\ PerTrack \in Nat \ {0}
  BY NotIdle, FloppyAssumption DEF IInv, TypeOK, DrvType
<1>2. PICK o \in Ops, n \in Nat, p \in Nat \ {0} : o = drv.op /\ n = drv.n /\ p = PerTrack
  BY <1>1
<1>3. o.lba \in Nat
  BY OpsShape
<1>4. PICK m \in Nat : m = o.lba + (n + 1) - 1
  BY <1>3
<1>5. m \div p \in Nat
  OBVIOUS
<1> QED
  BY <1>2, <1>4, <1>5 DEF track, Block

LEMMA recalIInv == ASSUME IInv, recal PROVE IInv'
<1>1. /\ drv.pc = "seek" /\ drv.pc \in Trying /\ drv.op.cmd \in Moving /\ drv \in DrvType
      /\ UNCHANGED <<disk, sectbuf>> /\ fdc \in FdcType
  BY DEF recal, At, dma, IInv, TypeOK, DrvOK, Trying
<1>2. CASE fdc' = Move("recal", 0) /\ WaitFor("recal")
  <2>1. /\ drv' \in DrvType /\ drv'.pc = "wait" /\ drv'.op = drv.op /\ drv'.n = drv.n
        /\ drv'.got = drv.got /\ drv'.unmoved = drv.unmoved /\ drv'.what = "recal"
    BY <1>1, <1>2, WaitForIs DEF What
  <2>2. fdc' \in FdcType /\ fdc'.phase = "cmd"
    BY <1>2, CommandIs DEF IInv
  <2>3. ResultOK'
    BY <2>1 DEF ResultOK
  <2> QED
    BY <1>1, <2>1, <2>2, <2>3, TryingIInv DEF Trying
<1>3. CASE RecalFailed /\ UNCHANGED <<fdc, kernel>>
  BY <1>1, <1>3, RecalFailedIInv
<1> QED
  BY <1>2, <1>3 DEF recal

LEMMA seekIInv == ASSUME IInv, seek PROVE IInv'
<1>1. /\ drv.pc = "seek" /\ drv.pc \in Trying /\ drv.op.cmd \in Moving /\ drv \in DrvType
      /\ UNCHANGED <<disk, sectbuf>> /\ fdc \in FdcType
  BY DEF seek, At, dma, IInv, TypeOK, DrvOK, Trying
<1>2. CASE fdc' = Move("seek", track) /\ WaitFor("seek")
  <2>1. /\ drv' \in DrvType /\ drv'.pc = "wait" /\ drv'.op = drv.op /\ drv'.n = drv.n
        /\ drv'.got = drv.got /\ drv'.unmoved = drv.unmoved /\ drv'.what = "seek"
    BY <1>1, <1>2, WaitForIs DEF What
  <2>2. fdc' \in FdcType /\ fdc'.phase = "cmd"
    BY <1>1, <1>2, CommandIs, TrackIs DEF IInv
  <2>3. ResultOK'
    BY <2>1 DEF ResultOK
  <2> QED
    BY <1>1, <2>1, <2>2, <2>3, TryingIInv DEF Trying
<1>3. CASE Goto("transfer") /\ UNCHANGED <<fdc, kernel>>
  <2>1. "transfer" \in Pc
    BY DEF Pc
  <2>2. drv' \in DrvType /\ drv'.pc = "transfer" /\ drv'.op = drv.op /\ drv'.n = drv.n
        /\ drv'.got = drv.got /\ drv'.unmoved = drv.unmoved
    BY <1>1, <1>3, <2>1, GotoIs
  <2>3. ResultOK'
    BY <2>2 DEF ResultOK
  <2> QED
    BY <1>1, <1>3, <2>2, <2>3, TryingIInv DEF Trying
<1> QED
  BY <1>2, <1>3 DEF seek

LEMMA TransferIInv == ASSUME IInv, Transfer PROVE IInv'
<1>1. /\ drv.pc = "transfer" /\ drv.pc \in Trying /\ drv.op.cmd \in Moving /\ drv \in DrvType
      /\ UNCHANGED <<disk, sectbuf>> /\ fdc \in FdcType
  BY DEF Transfer, At, dma, IInv, TypeOK, DrvOK, Trying
<1>2. CASE fdc' = [Accepts EXCEPT !.phase = "exec", !.op = drv.op, !.i = drv.n + 1]
           /\ WaitFor("status")
  <2>1. /\ drv' \in DrvType /\ drv'.pc = "wait" /\ drv'.op = drv.op /\ drv'.n = drv.n
        /\ drv'.got = drv.got /\ drv'.unmoved = drv.unmoved /\ drv'.what = "status"
    BY <1>1, <1>2, WaitForIs DEF What
  <2>2. Accepts \in FdcType /\ drv.op \in Ops /\ drv.n + 1 \in Nat
    BY <1>1, CommandIs, NotIdle DEF IInv, DrvType
  <2>3. fdc' \in FdcType /\ fdc'.phase = "exec" /\ fdc'.op = drv.op /\ fdc'.i = drv.n + 1
    BY <1>2, <2>2 DEF FdcType
  <2>4. ResultOK'
    BY <2>3 DEF ResultOK
  <2> QED
    BY <1>1, <2>1, <2>3, <2>4, TryingIInv DEF Trying
<1>3. CASE TryFailed /\ UNCHANGED <<fdc, kernel>>
  BY <1>1, <1>3, TryFailedIInv
<1> QED
  BY <1>2, <1>3 DEF Transfer

LEMMA FDC_resetIInv == ASSUME IInv, FDC_reset PROVE IInv'
<1>1. /\ drv.pc = "reset" /\ drv.op.cmd = "init" /\ drv.n = 0 /\ drv.got = <<>>
      /\ drv \in DrvType /\ UNCHANGED <<disk, sectbuf>>
  BY DEF FDC_reset, At, dma, IInv, TypeOK, DrvOK
<1>2. /\ drv' \in DrvType /\ drv'.pc = "wait" /\ drv'.op = drv.op /\ drv'.n = drv.n
      /\ drv'.got = drv.got /\ drv'.unmoved = drv.unmoved /\ drv'.what = "reset"
  BY <1>1, WaitForIs DEF FDC_reset, What
<1>3. fdc' \in FdcType /\ fdc'.phase = "cmd"
  BY CommandIs DEF FDC_reset, IInv
<1> QED
  BY <1>1, <1>2, <1>3, ResetIInv

LEMMA WokenIInv == ASSUME IInv, Woken PROVE IInv'
<1>1. /\ drv.pc = "wait" /\ drv.pc \in Trying /\ drv \in DrvType /\ fdc \in FdcType
      /\ UNCHANGED <<disk, sectbuf, fdc>>
  BY DEF Woken, At, dma, IInv, TypeOK, Trying
<1>2. PICK pc \in {"results", "sense"} :
        /\ drv' = [drv EXCEPT !.pc = pc]
        /\ pc = "results" <=> drv.what = "status"
  BY DEF Woken
<1>3. /\ drv' \in DrvType /\ drv'.pc = pc /\ drv'.op = drv.op /\ drv'.n = drv.n
      /\ drv'.got = drv.got /\ drv'.unmoved = drv.unmoved /\ drv'.what = drv.what
  BY <1>1, <1>2 DEF DrvType, Pc
<1>4. CASE drv.what = "reset"
  <2>1. drv.op.cmd = "init" /\ drv.n = 0 /\ drv.got = <<>> /\ fdc.phase # "exec"
    BY <1>1, <1>4 DEF IInv, DrvOK, FdcOK, OpOK, Moving
  <2> QED
    BY <1>1, <1>2, <1>3, <1>4, <2>1, ResetIInv
<1>5. CASE drv.what # "reset"
  <2>1. drv.op.cmd \in Moving
    BY <1>1, <1>5 DEF IInv, DrvOK
  <2>2. ResultOK'
    <3>1. CASE pc = "results"
      <4>1. drv.what = "status"
        BY <1>2, <3>1
      <4> QED
        BY <1>1, <1>3, <3>1, <4>1 DEF IInv, ResultOK, There
    <3>2. CASE pc = "sense"
      BY <1>3, <3>2 DEF ResultOK
    <3> QED
      BY <3>1, <3>2
  <2>3. (drv'.pc = "sense" => drv'.what # "status") /\ drv'.pc \in Trying
    BY <1>2, <1>3 DEF Trying
  <2> QED
    BY <1>1, <1>3, <1>5, <2>1, <2>2, <2>3, TryingIInv
<1> QED
  BY <1>4, <1>5

LEMMA TimedOutIInv == ASSUME IInv, TimedOut PROVE IInv'
BY FailedIInv DEF TimedOut, At, dma, IInv, TypeOK

LEMMA SenseIInv == ASSUME IInv, Sense PROVE IInv'
<1>1. /\ drv.pc = "sense" /\ drv.pc \in Trying /\ drv \in DrvType /\ drv.what \in What
      /\ UNCHANGED <<disk, sectbuf>>
  BY DEF Sense, At, dma, IInv, TypeOK, DrvType, Trying
<1>2. fdc' \in FdcType /\ fdc'.phase = "cmd"
  BY CommandIs DEF Sense, IInv
<1>3. CASE drv.what = "reset"
  <2>1. Return("ok")
    BY <1>3 DEF Sense
  <2> QED
    BY <1>1, <1>2, <2>1, ReturnIInv
<1>4. CASE drv.what # "reset"
  <2>1. drv.op.cmd \in Moving /\ drv.what # "status"
    BY <1>1, <1>4 DEF IInv, DrvOK
  <2>2. PICK pc \in {"transfer", "seek"} : Goto(pc)
    BY <1>1, <1>4, <2>1 DEF Sense, What
  <2>3. pc \in Pc /\ pc \in Trying
    BY DEF Pc, Trying
  <2>4. drv' \in DrvType /\ drv'.pc = pc /\ drv'.op = drv.op /\ drv'.n = drv.n
        /\ drv'.got = drv.got /\ drv'.unmoved = drv.unmoved
    BY <1>1, <2>2, <2>3, GotoIs
  <2>5. ResultOK'
    BY <2>4 DEF ResultOK
  <2> QED
    BY <1>1, <1>2, <2>1, <2>3, <2>4, <2>5, TryingIInv
<1> QED
  BY <1>3, <1>4

LEMMA SenseErcIInv == ASSUME IInv, SenseErc PROVE IInv'
<1>1. /\ drv.pc = "sense" /\ drv.pc \in Trying /\ UNCHANGED <<disk, sectbuf>>
  BY DEF SenseErc, At, dma, Trying
<1>2. fdc' \in FdcType /\ (fdc'.phase = "exec" => fdc' = fdc)
  BY CommandIs DEF SenseErc, IInv, TypeOK
<1>3. CASE drv.what = "seek" /\ TryFailed
  <2>1. drv.op.cmd \in Moving
    BY <1>1, <1>3 DEF IInv, DrvOK
  <2> QED
    BY <1>1, <1>2, <1>3, <2>1, TryFailedIInv
<1>4. CASE Failed
  BY <1>1, <1>2, <1>4, FailedIInv
<1> QED
  BY <1>3, <1>4 DEF SenseErc

LEMMA NoResultsIInv == ASSUME IInv, NoResults PROVE IInv'
<1>1. drv.pc = "results" /\ drv.pc \in Trying /\ UNCHANGED <<disk, sectbuf, fdc>> /\ TryFailed
  BY DEF NoResults, At, dma, Trying
<1>2. drv.op.cmd \in Moving /\ fdc \in FdcType
  BY <1>1 DEF IInv, DrvOK, TypeOK
<1> QED
  BY <1>1, <1>2, TryFailedIInv

\* One block more.
LEMMA MovedMore ==
    ASSUME NEW o \in Ops, NEW n \in Nat, NEW got \in Seq(Val), sectbuf \in Val,
           Moved(o, n, got), Copied(o, n + 1), There(o, n + 1)
    PROVE  Moved(o, n + 1, IF o.cmd = "read" THEN Append(got, sectbuf) ELSE <<>>)
<1>1. n + 1 <= o.n /\ o.lba \in Nat
  BY OpsShape DEF Copied
<1>2. CASE o.cmd = "read"
  <2>1. got = [i \in 1 .. n |-> disk[o.lba + i - 1]] /\ disk[o.lba + (n + 1) - 1] = sectbuf
    BY <1>2 DEF Moved, There
  <2>2. Append(got, sectbuf) = [i \in 1 .. n + 1 |-> disk[o.lba + i - 1]]
    <3> DEFINE s == Append(got, sectbuf)
    <3>1. Len(got) = n /\ \A i \in 1 .. n : got[i] = disk[o.lba + i - 1]
      BY <2>1
    <3>2. s \in Seq(Val) /\ Len(s) = n + 1 /\ s[n + 1] = sectbuf /\ \A i \in 1 .. n : s[i] = got[i]
      BY <3>1
    <3>3. ASSUME NEW i \in 1 .. n + 1 PROVE s[i] = disk[o.lba + i - 1]
      <4>1. CASE i = n + 1
        BY <2>1, <3>2, <4>1
      <4>2. CASE i \in 1 .. n
        BY <3>1, <3>2, <4>2
      <4>3. i = n + 1 \/ i \in 1 .. n
        OBVIOUS
      <4> QED
        BY <4>1, <4>2, <4>3
    <3> HIDE DEF s
    <3>4. s \in [1 .. n + 1 -> Val]
      BY <3>2
    <3>5. s = [i \in 1 .. n + 1 |-> disk[o.lba + i - 1]]
      BY <3>3, <3>4
    <3> QED
      BY <3>5 DEF s
  <2> QED
    BY <1>1, <1>2, <2>2 DEF Moved
<1>3. CASE o.cmd = "write"
  <2>1. \A i \in 1 .. n : disk[o.lba + i - 1] = o.data[i]
    BY <1>3 DEF Moved
  <2>2. disk[o.lba + (n + 1) - 1] = o.data[n + 1]
    BY <1>3 DEF There
  <2>3. \A i \in 1 .. n + 1 : i \in 1 .. n \/ i = n + 1
    OBVIOUS
  <2> QED
    BY <1>1, <1>3, <2>1, <2>2, <2>3 DEF Moved
<1> QED
  BY <1>1, <1>2, <1>3 DEF Moved

LEMMA ResultsIInv == ASSUME IInv, Results PROVE IInv'
<1>1. /\ drv.pc = "results" /\ drv.pc \in Trying /\ UNCHANGED <<disk, sectbuf>>
      /\ fdc.phase = "result" /\ drv \in DrvType
  BY DEF Results, At, dma, Trying, IInv, TypeOK
<1>2. drv.op.cmd \in Moving /\ drv.op \in Ops /\ drv.op # None
  BY <1>1, NotIdle DEF IInv, DrvOK
<1>3. fdc' \in FdcType /\ fdc'.phase = "cmd"
  BY CommandIs DEF Results, IInv
<1>4. CASE fdc.st = "tested"
  <2>1. TryFailed
    BY <1>4 DEF Results
  <2> QED
    BY <1>1, <1>2, <1>3, <2>1, TryFailedIInv
<1>5. CASE fdc.st # "tested"
  <2>1. drv' = NextBlock(drv, Got, fdc.st = "ok") /\ ret' = ret
    BY <1>5 DEF Results
  <2>2. PICK o \in Ops, n \in Nat, got \in Seq(Val) : o = drv.op /\ n = drv.n /\ got = drv.got
    BY <1>1, <1>2 DEF DrvType
  <2>3. /\ Copied(o, n + 1) /\ (fdc.st = "ok" => There(o, n + 1))
        /\ ~drv.unmoved => Moved(o, n, got)
    BY <1>1, <1>2, <2>2 DEF IInv, OpOK, SoFar, ResultOK
  <2>4. sectbuf \in Val
    BY DEF IInv, TypeOK
  <2>5. PICK more \in Seq(Val), bad \in BOOLEAN :
            /\ more = Got /\ bad = (drv.unmoved \/ fdc.st # "ok")
            /\ ~bad => Moved(o, n + 1, more)
    <3>1. Got = IF o.cmd = "read" THEN Append(got, sectbuf) ELSE <<>>
      BY <2>2 DEF Got
    <3>2. ASSUME ~drv.unmoved, fdc.st = "ok" PROVE Moved(o, n + 1, Got)
      BY <2>3, <2>4, <3>1, <3>2, MovedMore
    <3>3. Got \in Seq(Val)
      BY <2>4, <3>1
    <3> QED
      BY <3>2, <3>3
  <2>6. drv' = [drv EXCEPT !.pc = "block", !.n = n + 1, !.got = more, !.again = FALSE,
                           !.unmoved = bad]
    <3>1. bad = (drv.unmoved \/ ~(fdc.st = "ok"))
      BY <2>5
    <3> QED
      BY <2>1, <2>2, <2>5, <3>1 DEF NextBlock
  <2>7. /\ drv' \in DrvType /\ drv'.pc = "block" /\ drv'.op = o /\ drv'.n = n + 1
        /\ drv'.got = more /\ drv'.unmoved = bad
    <3>1. "block" \in Pc /\ n + 1 \in Nat
      BY DEF Pc
    <3> QED
      BY <1>1, <2>2, <2>6, <3>1 DEF DrvType
  <2>8. TypeOK'
    BY <1>1, <1>2, <1>3, <2>2, <2>7 DEF IInv, TypeOK, At
  <2>9. DrvOK'
    BY <1>2, <2>2, <2>7 DEF DrvOK
  <2>10. OpOK'
    <3>1. ~bad => Moved(o, n + 1, more)'
      BY <1>1, <2>5 DEF Moved
    <3>2. n + 1 <= o.n
      BY <2>3 DEF Copied
    <3>3. SoFar(drv)'
      BY <2>7, <3>1, <3>2 DEF SoFar
    <3> QED
      BY <2>7, <3>3 DEF OpOK, Trying
  <2> QED
    BY <1>3, <2>7, <2>8, <2>9, <2>10 DEF IInv, FdcOK, ResultOK
<1> QED
  BY <1>4, <1>5

\* The transfer of a block that is the driver's leaves what was moved before, and
\* what fails or succeeds tells the truth.
LEMMA TransferDoneIInv ==
    ASSUME IInv, TransferDone
    PROVE  IInv'
<1>1. /\ fdc.phase = "exec" /\ UNCHANGED <<drv, ret>> /\ fdc \in FdcType /\ drv \in DrvType
      /\ disk \in [LBA -> Val] /\ sectbuf \in Val
  BY DEF TransferDone, IInv, TypeOK
<1>2. fdc.op \in Ops /\ fdc.op.cmd \in Moving /\ Copied(fdc.op, fdc.i) /\ fdc.i \in Nat
  BY <1>1 DEF IInv, FdcOK, FdcType
<1>3. PICK f \in Ops, j \in Nat : f = fdc.op /\ j = fdc.i
  BY <1>2
<1>4. PICK b : b = f.lba + j - 1
  OBVIOUS
<1>5. PICK st \in Endings, v \in Val :
        /\ st = "ok" => b \in LBA
        /\ fdc' = [fdc EXCEPT !.phase = "result", !.op = None, !.i = 0, !.st = st]
        /\ f.cmd = "write" => /\ v = sectbuf /\ UNCHANGED sectbuf
                              /\ disk' = IF st = "ok" THEN [disk EXCEPT ![b] = v] ELSE disk
        /\ f.cmd # "write" => /\ st = "ok" => v = disk[b]
                              /\ sectbuf' = v /\ UNCHANGED disk
  BY <1>3, <1>4 DEF TransferDone, Block
<1>6. fdc' \in FdcType /\ fdc'.phase = "result" /\ fdc'.st = st
  BY <1>1, <1>5 DEF FdcType
<1>7. disk' \in [LBA -> Val] /\ sectbuf' \in Val
  BY <1>1, <1>5
<1>8. TypeOK'
  BY <1>1, <1>6, <1>7 DEF IInv, TypeOK, At
<1>9. DrvOK'
  BY <1>1 DEF IInv, DrvOK
<1>10. FdcOK'
  BY <1>6 DEF FdcOK
<1>11. CASE drv.pc = "idle" \/ drv.op.cmd \notin Moving
  <2>1. OpOK'
    BY <1>1, <1>11 DEF OpOK
  <2>2. ResultOK'
    BY <1>1, <1>11 DEF IInv, DrvOK, ResultOK, Moving
  <2> QED
    BY <1>8, <1>9, <1>10, <2>1, <2>2 DEF IInv
<1>12. CASE drv.pc # "idle" /\ drv.op.cmd \in Moving
  <2>1. drv.pc \in Trying /\ fdc.op = drv.op /\ fdc.i = drv.n + 1
    BY <1>1, <1>12 DEF IInv, FdcOK
  <2>2. drv.op.cmd \in Moving /\ f = drv.op /\ f.cmd \in Moving
    BY <1>2, <1>3, <2>1
  <2>3. PICK n \in Nat, got \in Seq(Val) : n = drv.n /\ j = n + 1 /\ got = drv.got
    BY <1>1, <1>3, <2>1 DEF DrvType
  <2>4. n <= f.n /\ (~drv.unmoved => Moved(f, n, got)) /\ Copied(f, n + 1)
    BY <1>12, <2>1, <2>2, <2>3 DEF IInv, OpOK, SoFar
  <2>5. b = f.lba + n /\ f.lba \in Nat /\ f.n \in Nat
    BY <1>4, <2>3, OpsShape
  <2>6. ASSUME ~drv.unmoved PROVE Moved(f, n, got)'
    <3>1. ASSUME NEW i \in 1 .. n PROVE disk'[f.lba + i - 1] = disk[f.lba + i - 1]
      <4>1. n <= f.n /\ f.lba + f.n <= nBlocks /\ nBlocks \in Nat
        BY <2>4, OpsShape, FloppyAssumption
      <4>2. PICK c \in LBA : c = f.lba + i - 1 /\ c # b
        BY <2>5, <4>1 DEF LBA
      <4> QED
        BY <1>1, <1>5, <4>2
    <3>2. f.cmd = "read" => disk' = disk
      BY <1>5
    <3> QED
      BY <2>4, <2>6, <3>1, <3>2 DEF Moved
  <2>7. Copied(f, n + 1)'
    BY <1>5, <2>4 DEF Copied
  <2>8. st = "ok" => There(f, n + 1)'
    <3>1. f.lba + (n + 1) - 1 = b
      BY <2>5
    <3>2. CASE f.cmd = "write"
      <4>1. sectbuf = f.data[n + 1]
        BY <2>4, <3>2 DEF Copied
      <4>2. st = "ok" => disk'[b] = f.data[n + 1]
        BY <1>1, <1>5, <3>2, <4>1
      <4> QED
        BY <3>1, <3>2, <4>2 DEF There
    <3>3. CASE f.cmd = "read"
      BY <1>5, <3>1, <3>3 DEF There
    <3> QED
      BY <2>2, <3>2, <3>3 DEF Moving
  <2>10. OpOK'
    <3>1. drv' = drv
      BY <1>1
    <3> QED
      BY <2>2, <2>3, <2>4, <2>6, <2>7, <3>1 DEF OpOK, SoFar
  <2>11. ResultOK'
    BY <1>1, <1>6, <2>2, <2>3, <2>8 DEF ResultOK
  <2> QED
    BY <1>8, <1>9, <1>10, <2>10, <2>11 DEF IInv
<1> QED
  BY <1>11, <1>12

LEMMA NextIInv ==
    ASSUME Inits
    PROVE  IInv /\ [Next]_vars => IInv'
<1> SUFFICES ASSUME IInv, [Next]_vars PROVE IInv'
  OBVIOUS
<1>1. fdc \in FdcType
  BY DEF IInv, TypeOK
<1>2. ASSUME UNCHANGED <<disk, sectbuf, drv, ret, fdc>> PROVE IInv'
  BY <1>1, <1>2, OtherIInv
<1>3. CASE \E o \in Ops : dev_op(o)
  BY <1>3, dev_opIInv
<1>4. CASE BadLBA
  <2>1. Return("erc") /\ UNCHANGED <<fdc, disk, sectbuf>>
    BY <1>4 DEF BadLBA, dma
  <2> QED
    BY <1>1, <2>1, ReturnIInv
<1>5. CASE Driver /\ ~BadLBA
  BY <1>5, fd_selectIInv, SwitchIInv, RdWrtVerfIInv, recalIInv, seekIInv, TransferIInv,
     FDC_resetIInv, WokenIInv, TimedOutIInv, SenseIInv, SenseErcIInv, ResultsIInv,
     NoResultsIInv DEF Driver
<1>6. CASE fdmotor_task \/ purge_fdc
  BY <1>2, <1>6, purge_fdcIInv DEF fdmotor_task, dma
<1>7. CASE Age
  BY <1>2, <1>7 DEF Age, dma
<1>8. CASE MoveDone
  BY <1>8, MoveDoneIInv
<1>9. CASE TransferDone
  BY <1>9, TransferDoneIInv
<1>10. CASE AlarmGoesOff
  BY <1>2, <1>10 DEF AlarmGoesOff, dma
<1>11. CASE UNCHANGED vars
  BY <1>2, <1>11 DEF vars, dma
<1> QED
  BY <1>3, <1>4, <1>5, <1>6, <1>7, <1>8, <1>9, <1>10, <1>11 DEF Next

-----------------------------------------------------------------------------
(* The refinement: every step is one of the abstract disk, or none. *)

\* A step that the abstract disk does not see, or that gives up a transfer.
LEMMA QuietMaps ==
    ASSUME UNCHANGED <<disk, ret>>, drv'.op = drv.op,
           fdc'.phase = "exec" => fdc'.op = drv.op \/ (fdc' = fdc)
    PROVE  BD!Next \/ UNCHANGED BD!vars
<1>1. Late' = Late \/ Late' = None
  BY DEF Late
<1> QED
  BY <1>1 DEF BD!Next, BD!Forget, BD!vars, Told, Late

LEMMA FailMaps ==
    ASSUME drv.op # None, Return("erc"), disk' = disk, fdc'.phase = "exec" => fdc' = fdc
    PROVE  BD!Next
<1>1. drv'.op = None /\ Told' = [erc |-> "erc", out |-> <<>>]
  BY DEF Return, Idle, Told
<1>2. Late' \in {Late, drv.op, None}
  BY <1>1 DEF Late
<1>3. BD!Fail
  BY <1>1, <1>2 DEF BD!Fail, Late
<1> QED
  BY <1>1, <1>3 DEF BD!Next, BD!End

\* An operation that moved its blocks, or that did not and counted them all the same.
LEMMA DoneMaps ==
    ASSUME TypeOK, drv.pc # "idle", Return("ok"), disk' = disk,
           fdc'.phase = "exec" => fdc' = fdc /\ fdc.op # drv.op,
           ~drv.unmoved => IF drv.op.cmd \in Moving
                           THEN Moved(drv.op, drv.op.n, drv.got) ELSE drv.got = <<>>
    PROVE  BD!Next
<1>0. Late' \in {Late, None}
  BY DEF Late, Return, Idle
<1>1. CASE drv.unmoved
  <2>1. drv'.op = None /\ Told' = [erc |-> "erc", out |-> <<>>]
    BY <1>1 DEF Return, Idle, Told
  <2>2. BD!Fail
    BY <1>0, <2>1 DEF BD!Fail
  <2>3. drv.op # None
    BY NotIdle
  <2> QED
    BY <2>1, <2>2, <2>3 DEF BD!Next, BD!End
<1>2. CASE ~drv.unmoved
  <2>1. PICK o \in Ops, got \in Seq(Val) : o = drv.op /\ got = drv.got /\ o # None
    BY NotIdle DEF TypeOK, DrvType
  <2>2. drv'.op = None /\ Told' = [erc |-> "ok", out |-> got]
    BY <1>2, <2>1 DEF Return, Idle, Told
  <2>3. o.lba \in Nat /\ o.n \in Nat /\ o.lba + o.n <= nBlocks /\ nBlocks \in Nat
    BY OpsShape, FloppyAssumption
  <2>4. \A i \in 1 .. o.n : o.lba + i - 1 \in LBA
    BY <2>3 DEF LBA
  <2>5. Late' \in {Late, None}
    BY <1>0
  <2> DEFINE there == [i \in 1 .. o.n |-> disk[o.lba + i - 1]]
  <2>6. o.cmd = "write" => there = o.data /\ got = <<>>
    <3>1. o.cmd = "write" => /\ o.data \in [1 .. o.n -> Val] /\ got = <<>>
                             /\ \A i \in 1 .. o.n : there[i] = o.data[i]
      BY <1>2, <2>1, OpsShape DEF Moved, Moving
    <3> QED
      BY <3>1
  <2>7. o.cmd = "read" => there = got
    BY <1>2, <2>1 DEF Moved, Moving
  <2>8. o.cmd \notin Moving => got = <<>>
    BY <1>2, <2>1
  <2>9. o.cmd # "readsect"
    BY OpsShape DEF Moving
  <2> HIDE DEF there
  <2>10. Told' = [erc |-> "ok", out |-> IF o.cmd \in {"read", "readsect"} THEN there ELSE <<>>]
    BY <2>2, <2>6, <2>7, <2>8, <2>9 DEF Moving
  <2>11. BD!Done
    BY <2>1, <2>4, <2>5, <2>6, <2>10 DEF BD!Done, there, Late
  <2> QED
    BY <2>1, <2>2, <2>11 DEF BD!Next, BD!End
<1> QED
  BY <1>1, <1>2

\* The next block of a write, of the operation in progress or of one that failed.
LEMMA PutMaps ==
    ASSUME IInv, TransferDone
    PROVE  BD!Next \/ UNCHANGED BD!vars
<1>1. /\ fdc.phase = "exec" /\ UNCHANGED <<drv, ret>> /\ fdc \in FdcType
  BY DEF TransferDone, IInv, TypeOK
<1>2. PICK f \in Ops, j \in Nat : f = fdc.op /\ j = fdc.i /\ Copied(f, j)
  BY <1>1 DEF IInv, FdcOK, FdcType
<1>3. PICK b : b = f.lba + j - 1
  OBVIOUS
<1>4. /\ fdc'.phase # "exec"
      /\ \/ disk' = disk
         \/ f.cmd = "write" /\ b \in LBA /\ disk' = [disk EXCEPT ![b] = sectbuf]
  BY <1>1, <1>2, <1>3 DEF TransferDone, Block
<1>5. CASE disk' = disk
  BY <1>1, <1>4, <1>5, QuietMaps
<1>6. CASE f.cmd = "write" /\ b \in LBA /\ disk' = [disk EXCEPT ![b] = sectbuf]
  <2>1. j \in DOMAIN f.data /\ disk' = [disk EXCEPT ![f.lba + j - 1] = f.data[j]]
        /\ f.lba + j - 1 \in LBA
    BY <1>2, <1>3, <1>6, OpsShape DEF Copied
  <2>2. Late' = None
    BY <1>4 DEF Late
  <2>3. f # None /\ f \in {drv.op, Late}
    BY <1>1, <1>2, NoneAssumption DEF Late
  <2>4. BD!Put(f)
    BY <1>1, <1>6, <2>1, <2>2, <2>3 DEF BD!Put, Late, Told
  <2> QED
    BY <2>3, <2>4 DEF BD!Next, Late
<1> QED
  BY <1>4, <1>5, <1>6

\* What follows the end of a try.
LEMMA TryFailedMaps ==
    ASSUME drv \in DrvType, drv.op # None, TryFailed, disk' = disk,
           fdc'.phase = "exec" => fdc' = fdc
    PROVE  BD!Next \/ UNCHANGED BD!vars
<1>1. CASE Return("erc")
  BY <1>1, FailMaps
<1>2. CASE /\ drv' = [drv EXCEPT !.pc = "seek", !.retrys = Decrement(@), !.what = "status",
                                 !.again = FALSE]
           /\ UNCHANGED ret
  <2>1. drv'.op = drv.op /\ UNCHANGED <<disk, ret>>
    BY <1>2 DEF DrvType
  <2> QED
    BY <2>1, QuietMaps
<1> QED
  BY <1>1, <1>2 DEF TryFailed

LEMMA RecalFailedMaps ==
    ASSUME drv \in DrvType, drv.op # None, RecalFailed, disk' = disk,
           fdc'.phase = "exec" => fdc' = fdc
    PROVE  BD!Next \/ UNCHANGED BD!vars
<1>1. CASE TryFailed
  BY <1>1, TryFailedMaps
<1>2. CASE /\ drv' = [drv EXCEPT !.pc = "seek", !.what = "status", !.again = TRUE]
           /\ UNCHANGED ret
  <2>1. drv'.op = drv.op /\ UNCHANGED <<disk, ret>>
    BY <1>2 DEF DrvType
  <2> QED
    BY <2>1, QuietMaps
<1> QED
  BY <1>1, <1>2 DEF RecalFailed

LEMMA FailedMaps ==
    ASSUME drv \in DrvType, drv.op # None, Failed, disk' = disk,
           fdc'.phase = "exec" => fdc' = fdc
    PROVE  BD!Next \/ UNCHANGED BD!vars
<1>1. CASE drv.what = "recal"
  BY <1>1, RecalFailedMaps DEF Failed
<1>2. CASE drv.what = "seek"
  <2>1. Goto("transfer") /\ UNCHANGED ret /\ "transfer" \in Pc
    BY <1>2 DEF Failed, Pc
  <2>2. drv'.op = drv.op
    BY <2>1, GotoIs
  <2> QED
    BY <2>1, <2>2, QuietMaps
<1>3. CASE drv.what = "status"
  BY <1>3, TryFailedMaps DEF Failed
<1>4. CASE drv.what = "reset"
  BY <1>4, FailMaps DEF Failed
<1> QED
  BY <1>1, <1>2, <1>3, <1>4 DEF DrvType, What

LEMMA NextMaps == IInv /\ [Next]_vars => [BD!Next]_(BD!vars)
<1> SUFFICES ASSUME IInv, [Next]_vars PROVE BD!Next \/ UNCHANGED BD!vars
  OBVIOUS
<1>1. TypeOK /\ drv \in DrvType /\ fdc \in FdcType
  BY DEF IInv, TypeOK
<1>2. ASSUME drv.pc # "idle" PROVE drv.op \in Ops /\ drv.op # None
  BY <1>1, <1>2, NotIdle
<1>3. ASSUME UNCHANGED <<disk, ret, drv, fdc>> PROVE BD!Next \/ UNCHANGED BD!vars
  BY <1>3, QuietMaps
<1>4. ASSUME NEW o \in Ops, dev_op(o) PROVE BD!Next
  <2>1. drv.op = None /\ drv'.op = o /\ disk' = disk /\ Told' = [erc |-> "ok", out |-> <<>>]
        /\ fdc' = fdc
    BY <1>1, <1>4, IdleType DEF dev_op, Idle, TypeOK, At, dma, Told
  <2>2. Late' \in {Late, None}
    BY <2>1 DEF Late
  <2> QED
    BY <2>1, <2>2 DEF BD!Next, BD!Start, BD!Nothing, Told, Late
<1>5. CASE BadLBA
  BY <1>2, <1>5, FailMaps DEF BadLBA, At, dma
<1>6. CASE fd_select
  <2>1. UNCHANGED <<disk, ret, fdc>> /\ \E pc \in Pc : Goto(pc)
    BY <1>6 DEF fd_select, dma, Stays, Pc
  <2> QED
    BY <1>1, <2>1, GotoIs, QuietMaps
<1>7. CASE Switch
  <2>1. drv.pc = "switch" /\ disk' = disk /\ drv.op \in Ops /\ drv.op # None
    BY <1>2, <1>7 DEF Switch, At, dma
  <2>2. drv.got = <<>> /\ fdc' = fdc
    BY <1>7, <2>1 DEF IInv, DrvOK, Switch
  <2>3. CASE drv.op.cmd = "null"
    <3>1. Return("ok") /\ drv.op.cmd \notin Moving
      BY <1>7, <2>3 DEF Switch, Moving
    <3>2. fdc.phase = "exec" => fdc.op # drv.op
      BY <3>1 DEF IInv, FdcOK
    <3> QED
      BY <1>1, <2>1, <2>2, <3>1, <3>2, DoneMaps
  <2>4. CASE drv.op.cmd = "fmtblk"
    BY <1>7, <2>1, <2>2, <2>4, FailMaps DEF Switch
  <2>5. CASE drv.op.cmd \notin {"null", "fmtblk"}
    <3>1. Goto("block") /\ ret' = ret /\ "block" \in Pc
      BY <1>7, <2>5 DEF Switch, Pc
    <3>2. drv'.op = drv.op
      BY <1>1, <3>1, GotoIs
    <3> QED
      BY <2>1, <2>2, <3>1, <3>2, QuietMaps
  <2> QED
    BY <2>3, <2>4, <2>5
<1>8. CASE RdWrtVerf
  <2>1. drv.pc = "block" /\ UNCHANGED <<fdc, disk>> /\ fdc.phase # "exec"
    BY <1>8, NoTransfer DEF RdWrtVerf, At, IInv, DrvOK
  <2>2. CASE drv.n = drv.op.n
    <3>1. /\ Return("ok") /\ drv.op.cmd \in Moving
          /\ ~drv.unmoved => Moved(drv.op, drv.op.n, drv.got)
      BY <1>8, <2>1, <2>2 DEF RdWrtVerf, IInv, DrvOK, OpOK, SoFar
    <3> QED
      BY <1>1, <2>1, <3>1, DoneMaps
  <2>3. CASE drv.n # drv.op.n
    <3>1. drv'.op = drv.op /\ ret' = ret
      BY <1>1, <1>8, <2>3 DEF RdWrtVerf, DrvType, NextBlock
    <3> QED
      BY <2>1, <3>1, QuietMaps
  <2> QED
    BY <2>2, <2>3
<1>9. CASE recal
  <2>1. drv.op # None /\ disk' = disk
    BY <1>2, <1>9 DEF recal, At, dma
  <2>2. CASE fdc' = Move("recal", 0) /\ WaitFor("recal") /\ UNCHANGED ret
    <3>1. drv'.op = drv.op /\ fdc'.phase = "cmd"
      BY <1>1, <2>2, WaitForIs, CommandIs DEF What
    <3> QED
      BY <2>1, <2>2, <3>1, QuietMaps
  <2>3. CASE RecalFailed /\ UNCHANGED <<fdc, kernel>>
    BY <1>1, <2>1, <2>3, RecalFailedMaps
  <2> QED
    BY <1>9, <2>2, <2>3 DEF recal
<1>10. CASE seek
  <2>1. drv.pc = "seek" /\ UNCHANGED <<disk, ret>>
    BY <1>10 DEF seek, At, dma, Stays
  <2>2. CASE fdc' = Move("seek", track) /\ WaitFor("seek")
    <3>1. drv'.op = drv.op /\ fdc'.phase = "cmd"
      BY <1>1, <2>1, <2>2, WaitForIs, CommandIs, TrackIs DEF What
    <3> QED
      BY <2>1, <2>2, <3>1, QuietMaps
  <2>3. CASE Goto("transfer") /\ UNCHANGED <<fdc, kernel>>
    <3>1. drv'.op = drv.op
      BY <1>1, <2>3, GotoIs DEF Pc
    <3> QED
      BY <2>1, <2>3, <3>1, QuietMaps
  <2> QED
    BY <1>10, <2>2, <2>3 DEF seek
<1>11. CASE Transfer
  <2>1. drv.op # None /\ disk' = disk
    BY <1>2, <1>11 DEF Transfer, At, dma
  <2>2. CASE fdc' = [Accepts EXCEPT !.phase = "exec", !.op = drv.op, !.i = drv.n + 1]
             /\ WaitFor("status") /\ UNCHANGED ret
    <3>1. drv'.op = drv.op
      BY <1>1, <2>2, WaitForIs DEF What
    <3>2. fdc'.op = drv.op
      BY <1>1, <2>2, CommandIs DEF FdcType
    <3> QED
      BY <2>1, <2>2, <3>1, <3>2, QuietMaps
  <2>3. CASE TryFailed /\ UNCHANGED <<fdc, kernel>>
    BY <1>1, <2>1, <2>3, TryFailedMaps
  <2> QED
    BY <1>11, <2>2, <2>3 DEF Transfer
<1>12. CASE FDC_reset
  <2>1. drv'.op = drv.op /\ fdc'.phase = "cmd"
    BY <1>1, <1>12, WaitForIs, CommandIs DEF FDC_reset, What
  <2> QED
    BY <1>12, <2>1, QuietMaps DEF FDC_reset, dma, Stays
<1>13. CASE Woken
  <2>1. drv'.op = drv.op
    BY <1>1, <1>13 DEF Woken, DrvType
  <2> QED
    BY <1>13, <2>1, QuietMaps DEF Woken, dma, Stays
<1>14. CASE TimedOut
  BY <1>1, <1>2, <1>14, FailedMaps DEF TimedOut, At, dma
<1>15. CASE Sense
  <2>1. /\ drv.pc = "sense" /\ fdc'.phase = "cmd" /\ disk' = disk /\ drv.op \in Ops
    BY <1>1, <1>2, <1>15, CommandIs DEF Sense, At, dma
  <2>2. CASE drv.what = "reset"
    <3>1. Return("ok") /\ drv.op.cmd \notin Moving /\ drv.got = <<>>
      BY <1>15, <2>1, <2>2 DEF Sense, IInv, DrvOK, Moving
    <3> QED
      BY <1>1, <2>1, <3>1, DoneMaps
  <2>3. CASE drv.what # "reset"
    <3>1. PICK pc \in Pc : Goto(pc) /\ ret' = ret
      <4>1. drv.what \in {"recal", "seek"}
        BY <1>1, <2>1, <2>3 DEF IInv, DrvOK, DrvType, What
      <4> QED
        BY <1>15, <4>1 DEF Sense, Pc
    <3>2. drv'.op = drv.op
      BY <1>1, <3>1, GotoIs
    <3> QED
      BY <2>1, <3>1, <3>2, QuietMaps
  <2> QED
    BY <2>2, <2>3
<1>16. CASE SenseErc
  <2>1. /\ drv.op # None /\ disk' = disk /\ (fdc'.phase = "exec" => fdc' = fdc)
    BY <1>1, <1>2, <1>16, CommandIs DEF SenseErc, At, dma
  <2>2. TryFailed \/ Failed
    BY <1>16 DEF SenseErc
  <2> QED
    BY <1>1, <2>1, <2>2, TryFailedMaps, FailedMaps
<1>17. CASE Results
  <2>1. drv.op # None /\ disk' = disk /\ fdc'.phase = "cmd"
    BY <1>1, <1>2, <1>17, CommandIs DEF Results, At, dma
  <2>2. CASE fdc.st = "tested"
    BY <1>1, <1>17, <2>1, <2>2, TryFailedMaps DEF Results
  <2>3. CASE fdc.st # "tested"
    <3>1. drv'.op = drv.op /\ ret' = ret
      BY <1>1, <1>17, <2>3 DEF Results, NextBlock, DrvType
    <3> QED
      BY <2>1, <3>1, QuietMaps
  <2> QED
    BY <2>2, <2>3
<1>18. CASE NoResults
  BY <1>1, <1>2, <1>18, TryFailedMaps DEF NoResults, At, dma
<1>19. CASE Driver
  BY <1>5, <1>6, <1>7, <1>8, <1>9, <1>10, <1>11, <1>12, <1>13, <1>14, <1>15, <1>16, <1>17,
     <1>18, <1>19 DEF Driver
<1>20. CASE fdmotor_task \/ purge_fdc
  <2>1. CASE fdmotor_task
    BY <1>3, <2>1 DEF fdmotor_task, dma
  <2>2. CASE purge_fdc
    <3>1. fdc'.phase = "cmd" /\ UNCHANGED <<disk, ret, drv>>
      BY <1>1, <2>2, CommandIs DEF purge_fdc, dma
    <3> QED
      BY <3>1, QuietMaps
  <2> QED
    BY <1>20, <2>1, <2>2
<1>21. CASE Age
  BY <1>3, <1>21 DEF Age, dma
<1>22. CASE MoveDone
  <2>1. fdc'.phase = fdc.phase /\ fdc'.op = fdc.op /\ UNCHANGED <<disk, drv, ret>>
    BY <1>1, <1>22 DEF MoveDone, FdcType, dma
  <2> QED
    BY <2>1 DEF BD!vars, Late, Told
<1>23. CASE TransferDone
  BY <1>23, PutMaps
<1>24. CASE AlarmGoesOff
  BY <1>3, <1>24 DEF AlarmGoesOff, dma
<1>25. CASE UNCHANGED vars
  BY <1>3, <1>25 DEF vars, dma
<1> QED
  BY <1>4, <1>19, <1>20, <1>21, <1>22, <1>23, <1>24, <1>25 DEF Next

LEMMA InitMaps == Init => BD!Init
BY DEF Init, BD!Init, BD!Nothing, Idle, Told, Late

\* The drive with its controller is a disk of blocks: an operation that ends without
\* an error has moved exactly its blocks, unless a block was counted without a good
\* try, which ret.unmoved remembers.  It holds whatever was tried again, however many
\* blocks an operation has and tries are left, however the head moves and the
\* controller answers, and whether or not there are timer blocks for the alarms; a
\* DeviceInit goes well between an error and the next read or write (RdWrtVerf, get_fdc_status, wait_int, send_fdc).
THEOREM Implements ==
    ASSUME Inits
    PROVE  Spec => ImplementsBlockDevice
<1>1. Init => IInv
  BY InitIInv
<1>2. IInv /\ [Next]_vars => IInv'
  BY NextIInv
<1>3. Init => BD!Init
  BY InitMaps
<1>4. IInv /\ [Next]_vars => [BD!Next]_(BD!vars)
  BY NextMaps
<1> QED
  BY <1>1, <1>2, <1>3, <1>4, PTL DEF Spec, ImplementsBlockDevice, BD!Spec
=============================================================================
