-------------------------------- MODULE Serial --------------------------------
(***************************************************************************)
(* One channel of the RS-232 driver, ossource/rs232.c: its calls, its      *)
(* interrupt function, and the chip (8250, with no FIFO).                  *)
(*                                                                         *)
(* comISR enables interrupts at once, so the timer may take the processor  *)
(* away from handleISR at any place that no CLI protects, and the task     *)
(* that has the driver's semaphore may go on.  The calls of the tasks      *)
(* follow one another.  The compiled driver (rs232.asm) changes a count    *)
(* with one instruction, and has the STI that ends the case RVCDATA        *)
(* inside the branch that wraps head_recv.                                 *)
(***************************************************************************)
EXTENDS Naturals, Sequences

CONSTANTS
    Byte,
    sSendBuf,   \* the size of the send buffer
    sRecvBuf,   \* the size of the receive buffer
    SRECVBUF,   \* where head_recv wraps
    ClosesBusy  \* programs close a channel with bytes still to be sent or received

ASSUME SerialAssumption ==
    /\ sSendBuf \in Nat \ {0} /\ sRecvBuf \in Nat \ {0} /\ SRECVBUF \in Nat \ {0}
    /\ ClosesBusy \in BOOLEAN

VARIABLES
    open,       \* commJob is set
    chip,       \* thr and rbr: the bytes in the holding registers, or <<>>;
                \* txint: the interrupt TXEMPTY is pending
    wire,       \* the byte that went out last
    S,          \* pSendBuf, head_send, tail_send and cSendBuf
    R,          \* pRecvBuf, head_recv, tail_recv and cRecvBuf
    fExpectInt, \* an interrupt TXEMPTY will come
    recv_error,
    isr,        \* where handleISR is, or "off"
    CLI,        \* handleISR runs with interrupts disabled
    task,       \* the call that is executed, or "idle"
    ret         \* the last call: "ok" or "error", and the byte that it returned

vars == <<open, chip, wire, S, R, fExpectInt, recv_error, isr, CLI, task, ret>>

Stale == CHOOSE b \in Byte : TRUE
Empty(n) == [buf |-> [i \in 0 .. n - 1 |-> Stale], head |-> 0, tail |-> 0, c |-> 0]

Init ==
    /\ open = FALSE
    /\ chip = [thr |-> <<>>, rbr |-> <<>>, txint |-> FALSE]
    /\ wire \in Byte
    /\ S = Empty(sSendBuf) /\ R = Empty(sRecvBuf)
    /\ fExpectInt = FALSE /\ recv_error = FALSE
    /\ isr = "off" /\ CLI = FALSE
    /\ task = "idle" /\ ret = [erc |-> "ok", out |-> <<>>]

\* A byte is put into a buffer whose head wraps at n, or taken from it; what a
\* slot that is not in use holds is left out.
PutIn(q, b, n) ==
    [q EXCEPT !.buf[q.head] = b, !.head = IF @ + 1 = n THEN 0 ELSE @ + 1, !.c = @ + 1]
TakeOut(q, n) ==
    [q EXCEPT !.buf[q.tail] = Stale, !.tail = IF @ + 1 = n THEN 0 ELSE @ + 1, !.c = @ - 1]

-----------------------------------------------------------------------------
(* The chip. *)

Line == UNCHANGED <<open, S, R, fExpectInt, recv_error, isr, CLI, task, ret>>

\* A byte has gone out; the interrupt comes when the channel is open.
GoesOut ==
    /\ chip.thr # <<>>
    /\ wire' = chip.thr[1]
    /\ chip' = [chip EXCEPT !.thr = <<>>, !.txint = open]
    /\ Line

\* A byte has come in.  One that is still in the register is overwritten: the
\* error that the chip reports (RCVSTAT) is read, and forgotten.
ComesIn(b) ==
    /\ open
    /\ chip' = [chip EXCEPT !.rbr = <<b>>]
    /\ UNCHANGED wire /\ Line

-----------------------------------------------------------------------------
(* The interrupt function. *)

Interrupt ==
    /\ isr = "off" /\ open
    /\ chip.rbr # <<>> \/ chip.txint
    /\ isr' = "id"
    /\ UNCHANGED <<open, chip, wire, S, R, fExpectInt, recv_error, CLI, task, ret>>

\* The ID byte is read: received bytes come first, and reading TXEMPTY clears it.
ReadRVCDATA ==
    /\ isr = "id" /\ chip.rbr # <<>>
    /\ isr' = "RVCDATA"
    /\ UNCHANGED <<open, chip, wire, S, R, fExpectInt, recv_error, CLI, task, ret>>

ReadTXEMPTY ==
    /\ isr = "id" /\ chip.rbr = <<>> /\ chip.txint
    /\ isr' = "TXEMPTY" /\ chip' = [chip EXCEPT !.txint = FALSE]
    /\ UNCHANGED <<open, wire, S, R, fExpectInt, recv_error, CLI, task, ret>>

ReadNOINT ==
    /\ isr = "id" /\ chip.rbr = <<>> /\ ~chip.txint
    /\ isr' = "off" /\ CLI' = FALSE
    /\ UNCHANGED <<open, chip, wire, S, R, fExpectInt, recv_error, task, ret>>

\* "Overflow!!"
RecvFull ==
    /\ isr = "RVCDATA"
    /\ isr' = IF R.c = sRecvBuf THEN "trash" ELSE "store"
    /\ UNCHANGED <<open, chip, wire, S, R, fExpectInt, recv_error, CLI, task, ret>>

Trash ==
    /\ isr = "trash"
    /\ recv_error' = TRUE
    /\ chip' = [chip EXCEPT !.rbr = <<>>]
    /\ isr' = "id"
    /\ UNCHANGED <<open, wire, S, R, fExpectInt, CLI, task, ret>>

\* The byte of the chip; anything, when the channel was closed meanwhile.
Store ==
    /\ isr = "store"
    /\ \E b \in Byte :
        /\ chip.rbr # <<>> => b = chip.rbr[1]
        /\ R' = PutIn(R, b, SRECVBUF)
    /\ chip' = [chip EXCEPT !.rbr = <<>>]
    /\ IF R'.head = 0 THEN CLI' = FALSE /\ isr' = "stored" /\ UNCHANGED recv_error
       ELSE CLI' = TRUE /\ isr' = "id" /\ recv_error' = FALSE
    /\ UNCHANGED <<open, wire, S, fExpectInt, task, ret>>

Stored ==
    /\ isr = "stored"
    /\ recv_error' = FALSE
    /\ isr' = "id"
    /\ UNCHANGED <<open, chip, wire, S, R, fExpectInt, CLI, task, ret>>

\* Mutant of SendNext: the flag is left as it is.
SendNextExpecting ==
    IF S.c > 0
    THEN /\ chip' = [chip EXCEPT !.thr = <<S.buf[S.tail]>>]
         /\ S' = TakeOut(S, sSendBuf)
         /\ fExpectInt' = TRUE
    ELSE UNCHANGED <<chip, S, fExpectInt>>

SendNext ==
    IF S.c > 0
    THEN /\ chip' = [chip EXCEPT !.thr = <<S.buf[S.tail]>>]
         /\ S' = TakeOut(S, sSendBuf)
         /\ fExpectInt' = TRUE
    ELSE fExpectInt' = FALSE /\ UNCHANGED <<chip, S>>

TxEmpty ==
    /\ isr = "TXEMPTY"
    /\ SendNext
    /\ isr' = "id" /\ CLI' = FALSE
    /\ UNCHANGED <<open, wire, R, recv_error, task, ret>>

handleISR ==
    \/ ReadRVCDATA \/ ReadTXEMPTY \/ ReadNOINT
    \/ RecvFull \/ Trash \/ Store \/ Stored \/ TxEmpty

-----------------------------------------------------------------------------
(* The calls. *)

Returns(erc, out) == ret' = [erc |-> erc, out |-> out]

\* Tasks run while the interrupt function has not disabled interrupts.
Idle == task = "idle" /\ ~CLI
Chip == UNCHANGED <<chip, wire, isr, CLI>>

\* The IIR is read, which clears TXEMPTY unless a byte has just come in.
OpenCommC ==
    /\ Idle /\ ~open
    /\ open' = TRUE
    /\ S' = Empty(sSendBuf) /\ R' = Empty(sRecvBuf)
    /\ recv_error' = FALSE
    /\ \/ chip' = [chip EXCEPT !.rbr = <<>>, !.txint = FALSE]
       \/ \E b \in Byte : chip' = [chip EXCEPT !.rbr = <<b>>, !.txint = chip.thr = <<>>]
    /\ task' = "open"
    /\ Returns("ok", <<>>)
    /\ UNCHANGED <<wire, fExpectInt, isr, CLI>>

\* UnMaskIRQ: an interrupt that is pending is served before OpenCommC returns.
Opened ==
    /\ task = "open" /\ isr = "off" /\ ~chip.txint
    /\ task' = "idle"
    /\ Chip /\ UNCHANGED <<open, S, R, fExpectInt, recv_error, ret>>

Quiet == chip.thr = <<>> /\ chip.rbr = <<>> /\ ~fExpectInt /\ isr = "off"

CloseCommC ==
    /\ Idle /\ open
    /\ ClosesBusy \/ Quiet
    /\ open' = FALSE
    /\ chip' = [chip EXCEPT !.rbr = <<>>, !.txint = FALSE]
    /\ Returns("ok", <<>>)
    /\ UNCHANGED <<wire, S, R, fExpectInt, recv_error, isr, CLI, task>>

\* ErcNotOpen
NotOpen ==
    /\ Idle /\ ~open
    /\ Returns("error", <<>>)
    /\ Chip /\ UNCHANGED <<open, S, R, fExpectInt, recv_error, task>>

\* Mutant of WriteByteC: it sends the byte itself when the buffer is empty.
WriteByteCEmpty(b) ==
    /\ Idle /\ open /\ S.c < sSendBuf
    /\ IF S.c = 0
       THEN chip' = [chip EXCEPT !.thr = <<b>>] /\ fExpectInt' = TRUE /\ UNCHANGED S
       ELSE S' = PutIn(S, b, sSendBuf) /\ UNCHANGED <<chip, fExpectInt>>
    /\ Returns("ok", <<>>)
    /\ UNCHANGED <<open, wire, R, recv_error, isr, CLI, task>>

\* "Xmit buf empty, send ourself"
WriteByteC(b) ==
    /\ Idle /\ open /\ S.c < sSendBuf
    /\ IF ~fExpectInt
       THEN chip' = [chip EXCEPT !.thr = <<b>>] /\ fExpectInt' = TRUE /\ UNCHANGED S
       ELSE S' = PutIn(S, b, sSendBuf) /\ UNCHANGED <<chip, fExpectInt>>
    /\ Returns("ok", <<>>)
    /\ UNCHANGED <<open, wire, R, recv_error, isr, CLI, task>>

\* ErcXmitTimeout: "never got sent"
XmitTimeout ==
    /\ Idle /\ open /\ S.c = sSendBuf
    /\ Returns("error", <<>>)
    /\ Chip /\ UNCHANGED <<open, S, R, fExpectInt, recv_error, task>>

\* ReadByteC, and each turn of ReadRecordC and DiscardRecvC, looks for
\* ErcRcvBufOvr first.
ReadByteC(call) ==
    /\ ~CLI /\ open
    /\ task = "idle"
    /\ IF recv_error THEN Returns("error", <<>>) /\ UNCHANGED task
       ELSE task' = call /\ UNCHANGED ret
    /\ Chip /\ UNCHANGED <<open, S, R, fExpectInt, recv_error>>

\* A byte is there, now or before the time is over; DiscardRecvC goes on.
TakeByte ==
    /\ ~CLI /\ task \in {"read", "discard"} /\ R.c > 0
    /\ R' = TakeOut(R, sRecvBuf)
    /\ IF task = "read" THEN Returns("ok", <<R.buf[R.tail]>>) /\ task' = "idle"
       ELSE IF recv_error THEN Returns("ok", <<>>) /\ task' = "idle"
       ELSE UNCHANGED <<task, ret>>
    /\ Chip /\ UNCHANGED <<open, S, fExpectInt, recv_error>>

RecvTimeout ==
    /\ ~CLI /\ task \in {"read", "discard"} /\ R.c = 0
    /\ Returns(IF task = "read" THEN "error" ELSE "ok", <<>>)
    /\ task' = "idle"
    /\ Chip /\ UNCHANGED <<open, S, R, fExpectInt, recv_error>>

Next ==
    \/ GoesOut \/ Interrupt \/ handleISR
    \/ OpenCommC \/ Opened \/ CloseCommC \/ NotOpen \/ XmitTimeout \/ TakeByte \/ RecvTimeout
    \/ \E b \in Byte : ComesIn(b) \/ WriteByteC(b)
    \/ \E call \in {"read", "discard"} : ReadByteC(call)

\* Bytes go out at the speed of the line, and interrupts are served; programs
\* need not call.  The loop of handleISR is faster than the line: it is not
\* always a received byte that it finds.
Fairness ==
    /\ WF_vars(GoesOut) /\ WF_vars(Interrupt) /\ WF_vars(handleISR)
    /\ SF_vars(ReadTXEMPTY)

Spec == Init /\ [][Next]_vars /\ Fairness

-----------------------------------------------------------------------------
(* Properties. *)

\* The bytes in a buffer of size n, the one to take first in front.
Held(q, n) == [i \in 1 .. q.c |-> q.buf[(q.tail + i - 1) % n]]

\* Written bytes go out in order, each once, whoever of WriteByteC and the
\* interrupt function hands them to the chip; bytes that come in are read in
\* order, each once, and lost only if the next one came before the interrupt
\* function fetched it, or if the buffer was full when it looked (handleISR,
\* ReadByteC, WriteByteC).
SL == INSTANCE SerialLine WITH
    outq <- chip.thr \o (IF open THEN Held(S, sSendBuf) ELSE <<>>),
    door <- IF ~open \/ isr = "trash" THEN <<>> ELSE chip.rbr,
    inq <- IF ~open THEN <<>> ELSE Held(R, sRecvBuf)

ImplementsSerialLine == SL!Spec

\* Bytes do not wait to be sent for ever with none going out (WriteByteC, fExpectInt).
BytesGoOut ==
    []<>(~open \/ (S.c = 0 /\ chip.thr = <<>>)) \/ []<><<GoesOut>>_vars
=============================================================================
