------------------------------- MODULE Floppy -------------------------------
(***************************************************************************)
(* The floppy driver, ossource/floppy.c: the operation in progress, the    *)
(* task that turns the motor off, the controller (FDC) with its interrupt, *)
(* and the alarm that limits each wait.                                    *)
(*                                                                         *)
(* Both drives share one semaphore exchange (devdrvr.asm), so operations   *)
(* follow one another; one drive is modelled.  The motor task and the      *)
(* driver are tasks of different priorities: any step of one may come      *)
(* between two of the other.  A track is the unit of a seek; where on it a *)
(* block is does not matter here.                                          *)
(***************************************************************************)
EXTENDS Naturals, Sequences

CONSTANTS
    nBlocks,    \* the blocks of the drive, rgSectorMax
    PerTrack,   \* the blocks of a track
    Val,        \* the contents of a block
    MaxBlks,    \* bound on the blocks of an operation
    Data,       \* what programs write: sequences of contents
    nRetrys,    \* retrys: the tries that an operation has (5)
    MaxMsgs,    \* bound on the messages that wait at fd_exch
    Inits,      \* programs make no read or write after an error until a DeviceInit went well
    FreeTBs,    \* there is always a timer block for an alarm
    None        \* no operation

ASSUME FloppyAssumption ==
    /\ nBlocks \in Nat \ {0} /\ PerTrack \in Nat \ {0}
    /\ MaxBlks \in Nat /\ Data \subseteq Seq(Val)
    /\ MaxMsgs \in Nat \ {0}
    /\ nRetrys \in 1 .. 127
    /\ Inits \in BOOLEAN /\ FreeTBs \in BOOLEAN

VARIABLES
    fdc,        \* the controller: phase of the command register; of a transfer
                \* op and i, the block of op it is at, and st, how it ended; move:
                \* what the head does, to the track target; done: the interrupt of a move
                \* that was not sensed, good: it ended well; head: its track
    disk,       \* what is on the disk
    sectbuf,    \* the buffer of the DMA channel
    exch,       \* fd_exch: the messages that wait there
    alarms,     \* the number of alarms set for fd_exch
    motor,      \* the motor runs: its bit in the DOR
    dor_crnt,   \* the same bit in dor_crnt
    aged,       \* more than 300 ticks since fd_tick
    mtask,      \* fdmotor_task: it sleeps, or is about to turn the motor off
    seek_status,\* the drive was recalibrated
    LAST_TRACK,
    BlocksMax,
    drv,        \* the driver: pc, the operation op, retrys, what it got, n: the
                \* blocks done, again: this recal is the second, what it waits for
    ret         \* the operation that has ended: its error, and the blocks it read
                \* (drv.unmoved and ret.unmoved are history: one of the blocks that
                \* were counted as done was not moved by any try; ret.failed: there was an
                \* error after the last DeviceInit that went well)

dma    == <<disk, sectbuf>>
kernel == <<exch, alarms>>
mot    == <<motor, dor_crnt, aged, mtask>>
heads  == <<seek_status, LAST_TRACK>>
vars   == <<fdc, dma, kernel, mot, heads, BlocksMax, drv, ret>>

LBA == 0 .. nBlocks - 1

\* Programs name blocks of the drive.
Ops ==
    {o \in [cmd : {"read"}, lba : LBA, n : 1 .. MaxBlks, data : {<<>>}]
           \cup (UNION {[cmd : {"write"}, lba : LBA, n : {Len(d)}, data : {d}] : d \in Data})
           \cup [cmd : {"null", "fmtblk", "init"}, lba : {0}, n : {1}, data : {<<>>}] :
        o.lba + o.n <= nBlocks}

ASSUME NoneAssumption == None \notin Ops

Idle == [pc |-> "idle", op |-> None, retrys |-> nRetrys, n |-> 0, got |-> <<>>, again |-> FALSE,
         what |-> "status", unmoved |-> FALSE]

\* After fdisk_setup.
Init ==
    /\ fdc = [phase |-> "cmd", op |-> None, i |-> 0, st |-> "ok", move |-> "none",
              target |-> 0, done |-> FALSE, good |-> FALSE, head |-> 0]
    /\ disk \in [LBA -> Val] /\ sectbuf \in Val
    /\ exch = <<>> /\ alarms = 0
    /\ motor = TRUE /\ dor_crnt = TRUE /\ aged = FALSE
    /\ mtask = "sleep"
    /\ seek_status = FALSE /\ LAST_TRACK = 0 /\ BlocksMax = 0
    /\ drv = Idle
    /\ ret = [erc |-> "ok", out |-> <<>>, unmoved |-> FALSE, failed |-> FALSE]

-----------------------------------------------------------------------------
(* The controller, its interrupt, and the alarms. *)

\* An interrupt may be lost.
fdisk_isr ==
    \/ Len(exch) < MaxMsgs /\ exch' = Append(exch, "int")
    \/ UNCHANGED exch

AlarmGoesOff ==
    /\ alarms > 0 /\ Len(exch) < MaxMsgs
    /\ alarms' = alarms - 1 /\ exch' = Append(exch, "alarm")
    /\ UNCHANGED <<fdc, dma, mot, heads, BlocksMax, drv, ret>>

\* The head got where it should, or did not; or the controller was reset.
MoveDone ==
    /\ fdc.move # "none"
    /\ \E good \in BOOLEAN :
        fdc' = [fdc EXCEPT !.move = "none", !.target = 0, !.done = TRUE, !.good = good,
                           !.head = IF good /\ fdc.move # "reset" THEN fdc.target ELSE @]
    /\ fdisk_isr
    /\ UNCHANGED <<dma, alarms, mot, heads, BlocksMax, drv, ret>>

At(pc) == drv.pc = pc

\* The block that the driver is at, and its track.
Block(o, i) == o.lba + i - 1
track == Block(drv.op, drv.n + 1) \div PerTrack

\* How a transfer ends: well, with one of the bits of ST1 that get_fdc_status
\* tests, or not well and with none of them.
Endings == {"ok", "tested", "untested"}

\* A block goes between the disk and sectbuf, when the disk turns and the head is
\* on its track; or something goes wrong.
TransferDone ==
    /\ fdc.phase = "exec" /\ motor
    /\ LET b == Block(fdc.op, fdc.i)
       IN  \E st \in Endings, v \in Val :
            /\ st = "ok" => b \in LBA /\ fdc.move = "none" /\ fdc.head = b \div PerTrack
            /\ fdc' = [fdc EXCEPT !.phase = "result", !.op = None, !.i = 0, !.st = st]
            /\ IF fdc.op.cmd = "write"
               THEN /\ v = sectbuf /\ UNCHANGED sectbuf
                    /\ disk' = IF st = "ok" THEN [disk EXCEPT ![b] = v] ELSE disk
               ELSE /\ st = "ok" => v = disk[b]
                    /\ sectbuf' = v /\ UNCHANGED disk
    /\ fdisk_isr
    /\ UNCHANGED <<alarms, mot, heads, BlocksMax, drv, ret>>

\* send_fdc eats results that wait; while a transfer goes on it gives up.
Takes == fdc.phase # "exec"

Accepts == [fdc EXCEPT !.phase = "cmd", !.op = None, !.i = 0, !.st = "ok"]

Move(what, to) == [Accepts EXCEPT !.move = what, !.target = to, !.done = FALSE, !.good = FALSE]

-----------------------------------------------------------------------------
(* The motor. *)

Age ==
    /\ ~aged /\ aged' = TRUE
    /\ UNCHANGED <<fdc, dma, kernel, motor, dor_crnt, mtask, heads, BlocksMax, drv, ret>>

\* motor0_want is never set.
Unused == aged /\ dor_crnt

\* Every 3 seconds: the ticks since fd_tick, and then the motor.
MotorLoop ==
    /\ mtask = "sleep" /\ Unused
    /\ mtask' = "off"
    /\ UNCHANGED <<motor, dor_crnt>>

MotorOff ==
    /\ mtask = "off"
    /\ motor' = FALSE /\ dor_crnt' = FALSE
    /\ mtask' = "sleep"

fdmotor_task ==
    /\ MotorLoop \/ MotorOff
    /\ UNCHANGED <<fdc, dma, kernel, aged, heads, BlocksMax, drv, ret>>

-----------------------------------------------------------------------------
(* The driver. *)

Goto(pc) == drv' = [drv EXCEPT !.pc = pc, !.what = "status", !.again = FALSE]
Stays == UNCHANGED <<BlocksMax, ret>>

Return(erc) ==
    /\ drv' = Idle
    /\ ret' = [erc |-> erc, out |-> IF erc = "ok" THEN drv.got ELSE <<>>, unmoved |-> drv.unmoved,
               failed |-> erc # "ok" \/ (ret.failed /\ drv.op.cmd # "init")]

\* Mutant of Decrement: a try is not counted.
DecrementNot(r) == r

\* retrys is a signed byte.
Decrement(r) == (r + 255) % 256

\* while (retrys--) ends with the error, or tries again.
TryFailed ==
    IF drv.retrys = 0
    THEN Return("erc")
    ELSE /\ drv' = [drv EXCEPT !.pc = "seek", !.retrys = Decrement(@), !.what = "status",
                               !.again = FALSE]
         /\ UNCHANGED ret

\* wait_int sets an alarm, for which there may be no timer block.
WaitFor(what) ==
    /\ drv' = [drv EXCEPT !.pc = "wait", !.what = what]
    /\ alarms' = alarms + 1 \/ (~FreeTBs /\ UNCHANGED alarms)
    /\ UNCHANGED exch

\* dev_op eats one message that is left over; dev_init does not.
dev_op(o) ==
    /\ At("idle")
    /\ Inits /\ ret.failed => o.cmd \notin {"read", "write"}
    /\ exch' = IF exch = <<>> \/ o.cmd = "init" THEN exch ELSE Tail(exch)
    /\ drv' = [Idle EXCEPT !.op = o,
                           !.pc = IF o.cmd # "init" /\ o.lba > BlocksMax THEN "badlba" ELSE "select"]
    /\ ret' = [ret EXCEPT !.erc = "ok", !.out = <<>>, !.unmoved = FALSE]
    /\ UNCHANGED <<fdc, dma, alarms, mot, heads, BlocksMax>>

BadLBA ==
    /\ At("badlba")
    /\ Return("erc")
    /\ UNCHANGED <<fdc, dma, kernel, mot, heads, BlocksMax>>

\* fd_tick becomes the tick.  When the motor task has read an earlier one and is
\* about to subtract, its difference is negative, which is a large number.
fd_select ==
    /\ At("select")
    /\ aged' = FALSE
    /\ mtask' \in {mtask, "off"}
    /\ dor_crnt' = TRUE /\ motor' = (dor_crnt => motor)
    /\ Goto(IF drv.op.cmd = "init" THEN "reset" ELSE "switch")
    /\ UNCHANGED <<fdc, dma, kernel, heads>> /\ Stays

\* purge_fdc reads the controller for as long as it has something to say.
purge_fdc ==
    /\ At("switch") /\ fdc.phase = "result"
    /\ fdc' = Accepts
    /\ UNCHANGED <<dma, kernel, mot, heads, BlocksMax, drv, ret>>

\* The switch of dev_op: a seek and the formatting of a track do what the null
\* command does.
Switch ==
    /\ At("switch") /\ fdc.phase # "result"
    /\ BlocksMax' = nBlocks
    /\ CASE drv.op.cmd = "null" -> Return("ok")
         [] drv.op.cmd = "fmtblk" -> Return("erc")
         [] OTHER -> Goto("block") /\ UNCHANGED ret
    /\ UNCHANGED <<fdc, dma, kernel, mot, heads>>

NextBlock(d, got, moved) ==
    [d EXCEPT !.pc = "block", !.n = @ + 1, !.got = got, !.again = FALSE,
              !.unmoved = @ \/ ~moved]

Got == IF drv.op.cmd = "read" THEN Append(drv.got, sectbuf) ELSE <<>>

\* Mutant of CopyOut: always the first block.
CopyOutFirst ==
    sectbuf' = IF drv.op.cmd = "write" THEN drv.op.data[1] ELSE sectbuf

CopyOut ==
    sectbuf' = IF drv.op.cmd = "write" THEN drv.op.data[drv.n + 1] ELSE sectbuf

\* The while of RdWrtVerf up to the first try.  retrys is not set again for the
\* next block: without a try left the block counts as done.
RdWrtVerf ==
    /\ At("block")
    /\ IF drv.n = drv.op.n
       THEN Return("ok") /\ UNCHANGED sectbuf
       ELSE /\ CopyOut
            /\ LET d == [drv EXCEPT !.retrys = Decrement(@)]
               IN  drv' = IF drv.retrys = 0 THEN NextBlock(d, Got, FALSE) ELSE [d EXCEPT !.pc = "seek"]
            /\ UNCHANGED ret
    /\ UNCHANGED <<fdc, disk, kernel, mot, heads, BlocksMax>>

\* The second recal that fails ends the try.
RecalFailed ==
    IF drv.again THEN TryFailed
    ELSE /\ drv' = [drv EXCEPT !.pc = "seek", !.what = "status", !.again = TRUE]
         /\ UNCHANGED ret

recal ==
    /\ At("seek") /\ ~seek_status
    /\ \/ Takes /\ fdc' = Move("recal", 0) /\ WaitFor("recal") /\ UNCHANGED ret
       \/ ~Takes /\ RecalFailed /\ UNCHANGED <<fdc, kernel>>
    /\ UNCHANGED <<dma, mot, heads, BlocksMax>>

\* LAST_TRACK is set before the head moves, and seek returns ok when the command
\* could not be sent.
seek ==
    /\ At("seek") /\ seek_status
    /\ LAST_TRACK' = track
    /\ \/ /\ LAST_TRACK # track /\ Takes
          /\ fdc' = Move("seek", track) /\ WaitFor("seek")
       \/ /\ LAST_TRACK = track \/ ~Takes
          /\ Goto("transfer") /\ UNCHANGED <<fdc, kernel>>
    /\ UNCHANGED <<dma, mot, seek_status>> /\ Stays

Transfer ==
    /\ At("transfer")
    /\ \/ /\ Takes
          /\ fdc' = [Accepts EXCEPT !.phase = "exec", !.op = drv.op, !.i = drv.n + 1]
          /\ WaitFor("status") /\ UNCHANGED ret
       \/ ~Takes /\ TryFailed /\ UNCHANGED <<fdc, kernel>>
    /\ UNCHANGED <<dma, mot, heads, BlocksMax>>

\* FDC_reset writes the DOR with the motor off, and dor_crnt keeps its value.
FDC_reset ==
    /\ At("reset")
    /\ seek_status' = FALSE /\ motor' = FALSE
    /\ fdc' = Move("reset", 0)
    /\ WaitFor("reset")
    /\ UNCHANGED <<dma, dor_crnt, aged, mtask, LAST_TRACK>> /\ Stays

\* wait_int takes a message of the ISR and kills the alarm.
Woken ==
    /\ At("wait") /\ exch # <<>> /\ Head(exch) = "int"
    /\ exch' = Tail(exch) /\ alarms' = 0
    /\ drv' = [drv EXCEPT !.pc = IF drv.what = "status" THEN "results" ELSE "sense"]
    /\ UNCHANGED <<fdc, dma, mot, heads>> /\ Stays

\* What follows an error after a wait: seek returns ok all the same.
Failed ==
    CASE drv.what = "recal"  -> RecalFailed
      [] drv.what = "seek"   -> Goto("transfer") /\ UNCHANGED ret
      [] drv.what = "status" -> TryFailed
      [] drv.what = "reset"  -> Return("erc")

\* It takes a message of an alarm, of this wait or of an earlier one.
TimedOut ==
    /\ At("wait") /\ exch # <<>> /\ Head(exch) = "alarm"
    /\ exch' = Tail(exch) /\ UNCHANGED alarms
    /\ Failed
    /\ UNCHANGED <<fdc, dma, mot, heads, BlocksMax>>

\* The sense command has no results when no move ended.
Sensed(good) == Takes /\ fdc.done /\ fdc.good = good

\* send_fdc(8), results(2) after a move that ended well.
Sense ==
    /\ At("sense") /\ Sensed(TRUE)
    /\ fdc' = [Accepts EXCEPT !.done = FALSE, !.good = FALSE]
    /\ CASE drv.what = "recal" -> /\ seek_status' = TRUE /\ LAST_TRACK' = 0
                                  /\ Goto(IF track = 0 THEN "transfer" ELSE "seek") /\ UNCHANGED ret
         [] drv.what = "seek"  -> Goto("transfer") /\ UNCHANGED <<heads, ret>>
         [] drv.what = "reset" -> Return("ok") /\ UNCHANGED heads
    /\ UNCHANGED <<dma, kernel, mot, BlocksMax>>

\* After one that did not, or without results.
SenseErc ==
    /\ At("sense") /\ ~Sensed(TRUE)
    /\ fdc' = IF Takes THEN [Accepts EXCEPT !.done = FALSE, !.good = FALSE] ELSE fdc
    /\ IF drv.what = "seek" /\ Sensed(FALSE)
       THEN seek_status' = FALSE /\ TryFailed
       ELSE Failed /\ UNCHANGED seek_status
    /\ UNCHANGED <<dma, kernel, mot, LAST_TRACK, BlocksMax>>

\* get_fdc_status has its results: without a bit that it tests it returns ok, also
\* after an end that was not normal.
Results ==
    /\ At("results") /\ fdc.phase = "result"
    /\ fdc' = Accepts
    /\ IF fdc.st = "tested" THEN TryFailed
       ELSE drv' = NextBlock(drv, Got, fdc.st = "ok") /\ UNCHANGED ret
    /\ UNCHANGED <<dma, kernel, mot, heads, BlocksMax>>

\* results(7): the driver polls, and gives up at last.
NoResults ==
    /\ At("results") /\ fdc.phase # "result"
    /\ TryFailed
    /\ UNCHANGED <<fdc, dma, kernel, mot, heads, BlocksMax>>

Driver ==
    \/ BadLBA \/ fd_select \/ Switch \/ RdWrtVerf \/ recal \/ seek \/ Transfer \/ FDC_reset
    \/ Woken \/ TimedOut \/ Sense \/ SenseErc \/ Results \/ NoResults

Next ==
    \/ \E o \in Ops : dev_op(o)
    \/ Driver \/ purge_fdc
    \/ fdmotor_task \/ Age
    \/ MoveDone \/ TransferDone
    \/ AlarmGoesOff

\* Tasks run when they may, and time passes.  Of the controller it is assumed that it
\* runs out of results (it has seven bytes of them) when purge_fdc reads them, and
\* nothing else.
Fairness == WF_vars(Driver) /\ WF_vars(AlarmGoesOff) /\ WF_vars(purge_fdc)

Spec == Init /\ [][Next]_vars /\ Fairness

-----------------------------------------------------------------------------
(* Properties. *)

\* A transfer of an operation that failed may still go on.
Late == IF fdc.phase = "exec" /\ fdc.op # drv.op THEN fdc.op ELSE None

\* The abstract disk must not say "ok" of an operation with a block that nobody moved.
Told ==
    IF ret.unmoved THEN [erc |-> "erc", out |-> <<>>] ELSE [erc |-> ret.erc, out |-> ret.out]

BD == INSTANCE BlockDevice WITH blocks <- disk, op <- drv.op, late <- Late, ret <- Told

\* An operation that ends without an error has moved exactly its blocks, whatever was
\* tried again, unless one of them was counted without a good try: the tries had run
\* out before it, or its try ended badly in a way that get_fdc_status does not see.
\* No command of an earlier operation changes anything else (RdWrtVerf, wait_int).
ImplementsBlockDevice == BD!Spec

\* "exit loop with good operation": a block is counted as done after a good try
\* (RdWrtVerf), so that what DeviceOp reports as done was moved.
DoneIsMoved == ret.erc = "ok" => ~ret.unmoved

\* Every operation ends, whatever the controller and the motor do: the tries
\* run out (retrys) and each wait has its alarm (wait_int).
OpEnds == (~At("idle")) ~> At("idle")

\* "last value sent to DOR port": dor_crnt tells whether the motor runs.
MotorAsSent == motor = dor_crnt
=============================================================================
