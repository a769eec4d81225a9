------------------------------- MODULE ByteFile -------------------------------
(***************************************************************************)
(* What a program expects of a file in stream mode: bytes, and a place     *)
(* among them where the next read or write goes on.                        *)
(***************************************************************************)
EXTENDS Naturals, Sequences

CONSTANTS
    Byte,       \* the contents of a byte
    MaxSize     \* bound on the size of the file

VARIABLES
    mode,       \* "closed", "read" or "modify"
    bytes,      \* the file
    pos,        \* the bytes in front of the place
    ret         \* the last call: its error, and the bytes that it returned

vars == <<mode, bytes, pos, ret>>

Init == mode = "closed" /\ bytes = <<>> /\ pos = 0 /\ ret = [erc |-> "ok", out |-> <<>>]

Returns(erc, out) == ret' = [erc |-> erc, out |-> out]

\* A call with an error that is not the end of the file changes no byte.
Fail ==
    /\ ret'.erc \notin {"ok", "ErcEOF"}
    /\ UNCHANGED <<mode, bytes>>

OpenFile(m) ==
    /\ mode = "closed" /\ mode' = m /\ pos' = 0
    /\ Returns("ok", <<>>)
    /\ UNCHANGED bytes

CloseFile ==
    /\ mode # "closed" /\ mode' = "closed"
    /\ Returns("ok", <<>>)
    /\ UNCHANGED <<bytes, pos>>

\* The bytes that are there, up to n; ErcEOF says that the last was read.
ReadBytes(n) ==
    /\ mode # "closed"
    /\ pos' = IF pos + n > Len(bytes) THEN Len(bytes) ELSE pos + n
    /\ Returns(IF pos' = Len(bytes) THEN "ErcEOF" ELSE "ok", SubSeq(bytes, pos + 1, pos'))
    /\ UNCHANGED <<mode, bytes>>

\* n bytes that are all v, from the place on.
WriteBytes(n, v) ==
    /\ mode = "modify"
    /\ pos' = pos + n
    /\ bytes' = [i \in 1 .. (IF pos' > Len(bytes) THEN pos' ELSE Len(bytes)) |->
                    IF pos < i /\ i <= pos' THEN v ELSE bytes[i]]
    /\ Returns("ok", <<>>)
    /\ UNCHANGED mode

SetFileLFA(n) ==
    /\ mode # "closed" /\ n <= Len(bytes)
    /\ pos' = n
    /\ Returns("ok", <<>>)
    /\ UNCHANGED <<mode, bytes>>

Next ==
    \/ Fail
    \/ CloseFile
    \/ \E m \in {"read", "modify"} : OpenFile(m)
    \/ \E n \in 1 .. MaxSize : ReadBytes(n) \/ \E v \in Byte : WriteBytes(n, v)
    \/ \E n \in 0 .. MaxSize : SetFileLFA(n)

Spec == Init /\ [][Next]_vars
=============================================================================
