------------------------------ MODULE SerialLine ------------------------------
(***************************************************************************)
(* What the owner of a serial channel expects of it: the bytes written go  *)
(* out in order, each once, and the bytes that come in are read in order,  *)
(* each once.  A byte that comes in is lost only at the door: when the     *)
(* next one comes before it was let in, or when as many as the buffer      *)
(* holds are waiting.                                                      *)
(***************************************************************************)
EXTENDS Naturals, Sequences

CONSTANTS Byte, sRecvBuf

VARIABLES
    open,       \* the channel is open
    outq,       \* written, and not on the line yet
    wire,       \* the byte that went out last
    door,       \* came in last, and not let in yet: <<>> or one byte
    inq,        \* let in, and not read yet
    ret         \* the last call: "ok" or "error", and the byte that it returned

vars == <<open, outq, wire, door, inq, ret>>

Init ==
    /\ open = FALSE /\ outq = <<>> /\ door = <<>> /\ inq = <<>>
    /\ wire \in Byte
    /\ ret = [erc |-> "ok", out |-> <<>>]

Returns(erc, out) == ret' = [erc |-> erc, out |-> out]

\* What waits is dropped; a byte may come in while the channel is opened.
OpenOrClose ==
    /\ open' = ~open
    /\ outq' = <<>> /\ inq' = <<>>
    /\ door' = <<>> \/ (open' /\ \E b \in Byte : door' = <<b>>)
    /\ Returns("ok", <<>>)
    /\ UNCHANGED wire

WriteByte(b) ==
    /\ open
    /\ outq' = Append(outq, b)
    /\ Returns("ok", <<>>)
    /\ UNCHANGED <<open, wire, door, inq>>

GoesOut ==
    /\ outq # <<>>
    /\ outq' = Tail(outq)
    /\ wire' = Head(outq)
    /\ UNCHANGED <<open, door, inq, ret>>

\* A byte that is still at the door is lost.
ComesIn(b) ==
    /\ open
    /\ door' = <<b>>
    /\ UNCHANGED <<open, outq, wire, inq, ret>>

LetIn ==
    /\ door # <<>> /\ Len(inq) < sRecvBuf
    /\ inq' = inq \o door /\ door' = <<>>
    /\ UNCHANGED <<open, outq, wire, ret>>

GetsLost ==
    /\ door # <<>> /\ Len(inq) = sRecvBuf
    /\ door' = <<>>
    /\ UNCHANGED <<open, outq, wire, inq, ret>>

ReadByte ==
    /\ open /\ inq # <<>>
    /\ Returns("ok", <<Head(inq)>>)
    /\ inq' = Tail(inq)
    /\ UNCHANGED <<open, outq, wire, door>>

\* The owner has what came in thrown away.
Discard ==
    /\ open /\ inq # <<>>
    /\ inq' = Tail(inq)
    /\ Returns("ok", <<>>) \/ UNCHANGED ret
    /\ UNCHANGED <<open, outq, wire, door>>

\* An error leaves everything as it is.
Fail ==
    /\ ret'.out = <<>>
    /\ UNCHANGED <<open, outq, wire, door, inq>>

Next ==
    \/ OpenOrClose \/ GoesOut \/ LetIn \/ GetsLost \/ ReadByte \/ Discard \/ Fail
    \/ \E b \in Byte : WriteByte(b) \/ ComesIn(b)

Spec == Init /\ [][Next]_vars
=============================================================================
