------------------------------- MODULE HardDisk -------------------------------
(***************************************************************************)
(* The driver of an IDE disk, ossource/hardide.c: the code that talks to   *)
(* the controller, its interrupt, and the alarm that limits each wait.     *)
(*                                                                         *)
(* The drives of the driver share one semaphore exchange (devdrvr.asm), so *)
(* operations follow one another; one controller with one drive is         *)
(* modelled.  The ISR and the alarm send to the exchange where the driver  *)
(* waits.  The controller is modelled from the use that the driver makes   *)
(* of its registers.                                                       *)
(***************************************************************************)
EXTENDS Naturals, Sequences

CONSTANTS
    nBlocks,    \* the blocks of the disk
    dcbBlocks,  \* the blocks that the driver's DCB gives it, which are 524288
                \* until the drive was asked
    Val,        \* the contents of a block
    MaxCount,   \* the most blocks that a command takes: 256
    MaxBlks,    \* bound on the blocks of an operation
    AnswersLate,\* a controller may answer after check_busy gave it up
    WritesAny,  \* programs write 0 blocks, or more than a command takes
    None        \* no operation

ASSUME HardDiskAssumption ==
    /\ nBlocks \in Nat \ {0}
    /\ dcbBlocks \in Nat /\ MaxCount \in Nat \ {0}
    /\ MaxBlks \in Nat
    /\ AnswersLate \in BOOLEAN /\ WritesAny \in BOOLEAN

VARIABLES
    dev,        \* the controller: the command cmd, busy, drq and err of the
                \* status register, the block at that it has got to, the blocks
                \* left, fresh: nothing was transferred yet, and dead: it will
                \* not answer before a reset
    disk,       \* what is on the disk
    exch,       \* hd_exch: the messages that wait there
    alarm,      \* an alarm is set
    HDDInt,     \* the ISR has run since the wait began
    hd_Cmd,     \* the command bytes: the address and the number of blocks
    hd_type,    \* FALSE: "Not a valid drive"
    drv,        \* the driver: pc, the operation op, nSoFar, what it has read, the
                \* message that it took, and first: this is the first wait since
                \* the command went out
    ret         \* the operation that has ended: its error, and the blocks it read

vars == <<dev, disk, exch, alarm, HDDInt, hd_Cmd, hd_type, drv, ret>>
kernel == <<exch, alarm, HDDInt>>

LBA == 0 .. nBlocks - 1

\* Where programs ask for blocks: where the DCB has some, and past its end.
Asks == 0 .. dcbBlocks + 1

Reads  == {"read", "readsect"}
Simple == {"seek", "format", "init", "reset"}
Ops ==
    [cmd : {"read"}, lba : Asks, n : 0 .. MaxBlks, data : {<<>>}]
        \cup [cmd : {"readsect"}, lba : Asks, n : {1}, data : {<<>>}]
        \cup [cmd : Simple, lba : {0}, n : {1}, data : {<<>>}]
        \cup UNION {[cmd : {"write"}, lba : Asks, n : {n}, data : [1 .. n -> Val]] :
                       n \in {n \in 0 .. MaxBlks : WritesAny \/ n \in 1 .. MaxCount}}

ASSUME NoneAssumption == None \notin Ops

Idle == [pc |-> "idle", op |-> None, nSoFar |-> 0, got |-> <<>>, msg |-> "int", first |-> TRUE]

Init ==
    /\ dev = [cmd |-> "none", busy |-> FALSE, drq |-> FALSE, err |-> FALSE,
              at |-> 0, left |-> 0, fresh |-> FALSE, dead |-> FALSE]
    /\ disk \in [LBA -> Val]
    /\ exch = <<>> /\ alarm = FALSE /\ HDDInt = FALSE
    /\ hd_Cmd = [lba |-> 0, n |-> 1] /\ hd_type = TRUE
    /\ drv = Idle
    /\ ret = [erc |-> "ok", out |-> <<>>]

-----------------------------------------------------------------------------
(* The controller, and the interrupts. *)

hdisk_isr == exch' = Append(exch, "int") /\ HDDInt' = TRUE

\* There is no interrupt before the first block of a write or the data of a format.
Silent == dev.cmd = "format" \/ (dev.cmd = "write" /\ dev.fresh)

\* The controller gets to the point at which it wants or has data, or is done, or
\* finds an error, and interrupts; an interrupt may get lost.
DevDone ==
    /\ dev.busy /\ ~dev.dead
    /\ \E err \in BOOLEAN :
        /\ ~err => dev.left = 0 \/ dev.at \in LBA
        /\ dev' = [dev EXCEPT !.busy = FALSE, !.err = err, !.fresh = FALSE,
                              !.drq = ~err /\ (dev.left > 0 \/ dev.cmd = "format")]
        /\ \/ (err \/ ~Silent) /\ hdisk_isr
           \/ UNCHANGED <<exch, HDDInt>>
    /\ UNCHANGED <<disk, alarm, hd_Cmd, hd_type, drv, ret>>

AlarmGoesOff ==
    /\ alarm /\ alarm' = FALSE
    /\ exch' = Append(exch, "alarm")
    /\ UNCHANGED <<dev, disk, HDDInt, hd_Cmd, hd_type, drv, ret>>

\* A command byte written to the controller; a format waits for data that
\* hd_format_track does not send.
Command(cmd, lba, n) ==
    [cmd |-> cmd, busy |-> TRUE, drq |-> FALSE, err |-> FALSE,
     at |-> lba, left |-> IF cmd \in {"seek", "format", "reset"} THEN 0 ELSE n, fresh |-> TRUE, dead |-> FALSE]

\* After a block was transferred.
NextBlock ==
    [dev EXCEPT !.at = @ + 1, !.left = IF @ > 0 THEN @ - 1 ELSE 0, !.drq = FALSE,
                !.busy = dev.cmd = "write" \/ dev.left > 1]

\* InWords finds v: the block, or anything when the controller offers none.
InWords(v) ==
    /\ dev.drq /\ dev.cmd = "read" => v = disk[dev.at]
    /\ dev' = IF dev.drq THEN NextBlock ELSE dev
    /\ UNCHANGED disk

OutWords(v) ==
    /\ disk' = IF dev.cmd = "write" /\ dev.at \in LBA THEN [disk EXCEPT ![dev.at] = v] ELSE disk
    /\ dev' = NextBlock

-----------------------------------------------------------------------------
(* The driver. *)

At(pc) == drv.pc = pc
Goto(pc) == drv' = [drv EXCEPT !.pc = pc]

Return(erc, out) ==
    /\ drv' = Idle
    /\ ret' = [erc |-> IF erc # "ok" /\ drv.op.cmd = "init" THEN "ErcInvalidDrive" ELSE erc,
               out |-> IF erc = "ok" /\ drv.op.cmd \in Reads THEN out ELSE <<>>]
    /\ hd_type' = (hd_type /\ ~(erc # "ok" /\ drv.op.cmd = "init"))

Stays == UNCHANGED <<hd_type, ret>>

\* Mutant of NotReady: check_busy does not count.
NotReadyNever == FALSE

\* check_busy gives up after 3 seconds.
NotReady ==
    /\ dev.busy
    /\ dev' = [dev EXCEPT !.dead = @ \/ ~AnswersLate]

\* CheckMsg takes one message, if there is one.
EatOne == exch' = IF exch = <<>> THEN exch ELSE Tail(exch)

\* "make sure they don't exceed max blocks": where the operation begins, and the
\* block after the last passes.
BadLBA(o) == o.lba > dcbBlocks

\* hddev_op eats a message that is left over.
hddev_op(o) ==
    /\ At("idle")
    /\ EatOne
    /\ drv' = [Idle EXCEPT !.op = o,
                 !.pc = IF o.cmd = "init" \/ (hd_type /\ ~BadLBA(o)) THEN "setup" ELSE "invalid"]
    /\ ret' = [erc |-> "ok", out |-> <<>>]
    /\ UNCHANGED <<dev, disk, alarm, HDDInt, hd_Cmd, hd_type>>

Invalid ==
    /\ At("invalid")
    /\ Return(IF hd_type THEN "ErcBadLBA" ELSE "ErcInvalidDrive", <<>>)
    /\ UNCHANGED <<dev, disk, kernel, hd_Cmd>>

\* setupseek finds the number of blocks wrong.
BadCount(o) == o.n \notin 1 .. MaxCount

\* The blocks that the command bytes ask for; the ID counts as one.
Asked(o) ==
    IF BadCount(o) THEN hd_Cmd ELSE [lba |-> o.lba, n |-> o.n]

\* setupseek, whose error only hd_read and hd_seek look at.
setupseek ==
    /\ At("setup") /\ drv.op.cmd # "reset"
    /\ IF drv.op.cmd = "read" /\ BadCount(drv.op)
       THEN Return(IF drv.op.n = 0 THEN "ErcZeroBlks" ELSE "ErcTooManyBlks", <<>>)
            /\ UNCHANGED hd_Cmd
       ELSE hd_Cmd' = Asked(drv.op) /\ Goto("empty") /\ Stays
    /\ UNCHANGED <<dev, disk, kernel>>

\* Mutant of Empty: hddev_op has taken what was left over.
EmptyNone ==
    /\ At("empty")
    /\ Goto("send")
    /\ UNCHANGED <<dev, disk, kernel, hd_Cmd>> /\ Stays

\* "empty it"
Empty ==
    /\ At("empty")
    /\ exch' = <<>>
    /\ Goto("send")
    /\ UNCHANGED <<dev, disk, alarm, HDDInt, hd_Cmd>> /\ Stays

\* The command byte.
CmdByte(o) == IF o.cmd = "readsect" THEN "read" ELSE o.cmd

\* send_command, whose error hd_write, hd_format_track, ReadSector and hd_init
\* do not look at.
send_command ==
    /\ At("send")
    /\ LET then == IF drv.op.cmd = "write" THEN "ready" ELSE "arm"
       IN  \/ /\ ~dev.busy
              /\ dev' = Command(CmdByte(drv.op), hd_Cmd.lba, hd_Cmd.n)
              /\ Goto(then) /\ Stays
           \/ /\ NotReady
              /\ IF drv.op.cmd \in {"read", "seek"} THEN Return("ErcNotReady", <<>>)
                 ELSE Goto(then) /\ Stays
    /\ UNCHANGED <<disk, kernel, hd_Cmd>>

\* The block that a write puts out next; of none there is one in memory too.
NextOut(v) == drv.nSoFar < Len(drv.op.data) => v = drv.op.data[drv.nSoFar + 1]

\* "No INT occurs for first sector of write"
WriteReady ==
    /\ At("ready")
    /\ \/ /\ ~dev.busy /\ dev.drq
          /\ \E v \in Val : NextOut(v) /\ OutWords(v)
          /\ drv' = [drv EXCEPT !.pc = "arm", !.nSoFar = 1] /\ Stays
       \/ /\ ~dev.busy /\ ~dev.drq
          /\ Goto("arm") /\ Stays /\ UNCHANGED <<dev, disk>>
       \/ NotReady /\ Return("ErcNotReady", <<>>) /\ UNCHANGED disk
    /\ UNCHANGED <<kernel, hd_Cmd>>

\* hd_wait sets the alarm, for which there may be no timer block.
Arm ==
    /\ At("arm")
    /\ HDDInt' = FALSE
    /\ \/ alarm' = TRUE /\ Goto("wait") /\ Stays
       \/ alarm' = FALSE /\ Return("ErcNoMoreTBs", <<>>)
    /\ UNCHANGED <<dev, disk, exch, hd_Cmd>>

WaitMsg ==
    /\ At("wait") /\ exch # <<>>
    /\ exch' = Tail(exch)
    /\ drv' = [drv EXCEPT !.pc = "woken", !.msg = Head(exch)]
    /\ UNCHANGED <<dev, disk, alarm, HDDInt, hd_Cmd>> /\ Stays

\* hd_wait kills the alarm and looks at the message.
Woken ==
    /\ At("woken")
    /\ alarm' = FALSE
    /\ IF drv.msg = "int" THEN drv' = [drv EXCEPT !.pc = "status", !.first = FALSE] /\ Stays
       ELSE Return(IF HDDInt THEN "ErcMissHDDInt" ELSE "ErcHDCTimeOut", <<>>)
    /\ UNCHANGED <<dev, disk, exch, HDDInt, hd_Cmd>>

\* Mutant of Ready: the interrupt says that the controller is not busy.
Interrupted == TRUE

\* check_busy of hd_status: "We shouldn't see the controller busy."
Ready == ~dev.busy

\* hd_status finds an error, or the controller busy.
StatusErc ==
    /\ At("status")
    /\ \/ Ready /\ dev.err /\ Return("ErcBadBlock", <<>>) /\ UNCHANGED dev
       \/ NotReady /\ Return("ErcNotReady", <<>>)
    /\ UNCHANGED <<disk, kernel, hd_Cmd>>

\* A block is read, or the ID.
StatusRead ==
    /\ At("status") /\ drv.op.cmd \in Reads \cup {"init"}
    /\ Ready /\ ~dev.err
    /\ \E v \in Val :
        /\ InWords(v)
        /\ IF drv.op.cmd = "read" /\ drv.nSoFar + 1 < drv.op.n
           THEN drv' = [drv EXCEPT !.pc = "arm", !.nSoFar = @ + 1, !.got = Append(@, v)] /\ Stays
           ELSE Return("ok", Append(drv.got, v))
    /\ UNCHANGED <<kernel, hd_Cmd>>

\* A block is written, if the controller wants it, or the last was.
StatusWrite ==
    /\ At("status") /\ drv.op.cmd = "write"
    /\ Ready /\ ~dev.err
    /\ \/ /\ drv.nSoFar >= drv.op.n
          /\ Return("ok", <<>>) /\ UNCHANGED <<dev, disk>>
       \/ /\ drv.nSoFar < drv.op.n /\ dev.drq
          /\ \E v \in Val : NextOut(v) /\ OutWords(v)
          /\ drv' = [drv EXCEPT !.pc = "arm", !.nSoFar = @ + 1] /\ Stays
       \/ /\ drv.nSoFar < drv.op.n /\ ~dev.drq
          /\ Goto("arm") /\ Stays /\ UNCHANGED <<dev, disk>>
    /\ UNCHANGED <<kernel, hd_Cmd>>

\* A seek or a format is done.
StatusDone ==
    /\ At("status") /\ drv.op.cmd \in {"seek", "format"}
    /\ Ready /\ ~dev.err
    /\ Return("ok", <<>>)
    /\ UNCHANGED <<dev, disk, kernel, hd_Cmd>>

\* hd_reset drops what the controller did; 200 ms later it may still be busy.
hd_reset ==
    /\ At("setup") /\ drv.op.cmd = "reset"
    /\ dev' = Command("reset", 0, 0)
    /\ Goto("reset")
    /\ UNCHANGED <<disk, kernel, hd_Cmd>> /\ Stays

\* "Eat Int if one came back"
ResetEnd ==
    /\ At("reset")
    /\ EatOne
    /\ Return("ok", <<>>)
    /\ UNCHANGED <<dev, disk, alarm, HDDInt, hd_Cmd>>

Driver ==
    \/ setupseek \/ Invalid \/ Empty \/ send_command \/ WriteReady \/ Arm \/ WaitMsg \/ Woken
    \/ StatusErc \/ StatusRead \/ StatusWrite \/ StatusDone \/ hd_reset \/ ResetEnd

Next ==
    \/ \E o \in Ops : hddev_op(o)
    \/ Driver
    \/ DevDone
    \/ AlarmGoesOff

\* The driver runs when it may, and the timer ticks; nothing is assumed of the
\* controller.
Fairness == WF_vars(Driver) /\ WF_vars(AlarmGoesOff)

Spec == Init /\ [][Next]_vars /\ Fairness

-----------------------------------------------------------------------------
(* Properties. *)

Messages(m) == {i \in DOMAIN exch : exch[i] = m}

\* An interrupt message left over from a command that was given up does not make
\* an operation end early: what it reads are its blocks, what it writes goes to
\* its blocks and is there when it ends without an error (hd_wait, hd_status).
BD == INSTANCE BlockDevice WITH blocks <- disk, op <- drv.op, late <- None

ImplementsBlockDevice == BD!Spec

\* The first wait after a command can only be ended by its own alarm: no alarm of
\* an earlier wait is left in the exchange (send_command, hd_wait).
FirstAlarmIsOwn ==
    At("wait") /\ drv.first => Messages("alarm") = {} \/ (~alarm /\ \A i, j \in Messages("alarm") : i = j)

\* Every operation ends, whatever the controller does (hd_wait, check_busy).
OpEnds == (~At("idle")) ~> At("idle")
=============================================================================
