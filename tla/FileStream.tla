------------------------------ MODULE FileStream ------------------------------
(***************************************************************************)
(* A file in stream mode, ossource/fsys.c: bytes are read and written      *)
(* through a buffer of some sectors, which is filled and written with the  *)
(* block operations of module FileSys.                                     *)
(*                                                                         *)
(* A file open to be modified has one handle, so one handle is modelled.   *)
(* Where its blocks are on the disk is the subject of FileSys: what        *)
(* matters here is which clusters there are, and whether the handle        *)
(* remembers the end mark of the chain as if it were a cluster.            *)
(***************************************************************************)
EXTENDS Naturals, Sequences

CONSTANTS
    Sector,     \* the bytes of a sector, 512
    sBuf,       \* the bytes of the buffer, 4096
    bpc,        \* the bytes of a cluster
    Byte,       \* the contents of a byte
    Sizes,      \* the sizes that the file may get
    MaxBytes,   \* bound on the bytes of one call
    ReadsDirty, \* programs read what follows what they wrote, with no SetFileLFA
    SeeksEnd    \* programs set the LFA to an end of file that no cluster holds

MaxSize == CHOOSE n \in Sizes : \A m \in Sizes : m <= n

ASSUME FileStreamAssumption ==
    /\ Sector \in Nat \ {0}
    /\ sBuf \in Nat \ {0} /\ sBuf % Sector = 0
    /\ bpc \in Nat \ {0} /\ bpc % Sector = 0
    /\ 0 \in Byte
    /\ Sizes \subseteq Nat /\ 0 \in Sizes
    /\ \E n \in Sizes \ {0} : \A m \in Sizes : m <= n
    /\ MaxBytes \in Nat
    /\ ReadsDirty \in BOOLEAN /\ SeeksEnd \in BOOLEAN

VARIABLES
    mode,   \* "closed", "read" or "modify"
    size,   \* FileSize of the FCB
    FUB,    \* the disk under the file, and its FUB:
            \*   disk       what the clusters of the file have
            \*   buf        the stream buffer
            \*   LFABuf     the address in the file of its first byte
            \*   fModified  it has bytes that are not on the disk
            \*   CrntLFA    where the next byte is read or written
            \*   end        the address, in clusters, at which the handle has
            \*              the end mark for a cluster, or 0
            \* and of the call that is executed:
            \*   out        the bytes returned so far
            \*   erc        its error
    reply   \* the last call: its error, and the bytes that it returned

streamVars == <<mode, size, FUB, reply>>

StreamInit ==
    /\ mode = "closed" /\ size = 0
    /\ FUB = [disk |-> [i \in 0 .. MaxSize + bpc |-> 0], buf |-> [i \in 0 .. sBuf - 1 |-> 0],
              LFABuf |-> 0, fModified |-> FALSE, CrntLFA |-> 0, end |-> 0,
              out |-> <<>>, erc |-> "ok"]
    /\ reply = [erc |-> "ok", out |-> <<>>]

-----------------------------------------------------------------------------
(* The buffer. *)

\* The clusters of a file of n bytes: one at least.
nClstrs(n) == IF n = 0 THEN 1 ELSE (n + bpc - 1) \div bpc

\* Where a handle gets with an address, when n clusters are there: to a cluster,
\* to the end mark, which it takes for one, or to an error.
Reaches(f, n, lfa) ==
    LET c == lfa \div bpc
    IN  IF c > n \/ (f.end > 0 /\ c > f.end) THEN "ErcBrokenFile"
        ELSE IF c = n \/ (f.end > 0 /\ c = f.end) THEN "end"
        ELSE "cluster"

\* "If the LFA is already in the buffer we just exit OK."
InBuf(f, lfa) == f.LFABuf <= lfa /\ lfa < f.LFABuf + sBuf

\* ReadBlock into the buffer, of a file of n clusters, and the address put in
\* the FUB even after an error.  The end of the chain is no error.  Where the end
\* mark leads, the device returns an error (g is empty), or bytes like g's.
LoadBuff(f, n, lfa, g) ==
    LET at == Reaches(f, n, lfa)
    IN  [f EXCEPT
          !.LFABuf = lfa,
          !.erc = IF at = "ErcBrokenFile" THEN at
                  ELSE IF at = "end" /\ g = <<>> THEN "ErcDisk" ELSE "ok",
          !.end = IF at = "end" THEN lfa \div bpc ELSE IF at = "cluster" THEN 0 ELSE @,
          !.buf = IF at = "cluster"
                  THEN [i \in 0 .. sBuf - 1 |->
                          IF lfa + i < n * bpc THEN f.disk[lfa + i] ELSE @[i]]
                  ELSE IF at = "end" /\ g # <<>> THEN [i \in 0 .. sBuf - 1 |-> g[1]]
                  ELSE @]

FillStreamBuff(f, n, g) ==
    IF InBuf(f, f.CrntLFA) THEN [f EXCEPT !.erc = "ok"]
    ELSE LoadBuff(f, n, f.CrntLFA - (f.CrntLFA % Sector), g)

\* "Blocks in buf belonging to file", of a file of sz bytes.
Blocks(sz, lfa) ==
    LET j == (sz - lfa + Sector - 1) \div Sector
    IN  IF j < sBuf \div Sector THEN j ELSE sBuf \div Sector

\* FlushStreamBuff, with WriteBlock, of a file of sz bytes.
FlushStreamBuff(f, sz, g) ==
    LET at == Reaches(f, nClstrs(sz), f.LFABuf)
        k == Blocks(sz, f.LFABuf)
    IN  IF ~f.fModified THEN [f EXCEPT !.erc = "ok"]
        ELSE [f EXCEPT
               !.fModified = FALSE,
               !.erc = IF at = "ErcBrokenFile" THEN at
                       ELSE IF at = "end" /\ k > 0 /\ g = <<>> THEN "ErcDisk" ELSE "ok",
               !.end = IF k = 0 \/ at = "ErcBrokenFile" THEN @
                       ELSE IF at = "end" THEN f.LFABuf \div bpc ELSE 0,
               !.disk = IF at # "cluster" THEN @
                        ELSE [i \in DOMAIN @ |->
                                IF f.LFABuf <= i /\ i < f.LFABuf + k * Sector
                                THEN f.buf[i - f.LFABuf] ELSE @[i]]]

\* The last byte of the buffer that belongs to a file of sz bytes.  (It is one
\* too far when the buffer ends one byte behind the file.)
lfaEOB(f, sz) ==
    IF f.LFABuf + sBuf - 1 > sz THEN sz - 1 ELSE f.LFABuf + sBuf - 1

Smaller(a, b) == IF a < b THEN a ELSE b

-----------------------------------------------------------------------------
(* The loops: a buffer at a time. *)

\* The calls on a buffer that bytes of one call may take.
MaxTurns == MaxBytes

\* One turn of ReadBytes.
ReadTurn(f, n, g) ==
    LET b == FillStreamBuff(f, nClstrs(size), g)
        k == Smaller(lfaEOB(b, size) + 1 - f.CrntLFA, n - Len(f.out))
    IN  IF Len(f.out) >= n \/ f.CrntLFA >= size \/ f.erc # "ok" THEN f
        ELSE [b EXCEPT !.out = @ \o [i \in 1 .. k |-> b.buf[f.CrntLFA - b.LFABuf + i - 1]],
                       !.CrntLFA = @ + k]

ReadLoop(f, n, g) ==
    LET at[i \in 0 .. MaxTurns] == IF i = 0 THEN f ELSE ReadTurn(at[i - 1], n, g)
    IN  at[MaxTurns]

\* Mutant of TurnOver: what was modified is not written first.
TurnOverUnflushed(f, sz, g) ==
    IF f.CrntLFA > lfaEOB(f, sz) \/ f.CrntLFA < f.LFABuf
    THEN FillStreamBuff(f, nClstrs(sz), g)
    ELSE f

\* "If the next byte to write goes outside the current buffer".
TurnOver(f, sz, g) ==
    LET w == FlushStreamBuff(f, sz, g)
    IN  IF f.CrntLFA > lfaEOB(f, sz) \/ f.CrntLFA < f.LFABuf
        THEN IF w.erc # "ok" THEN w ELSE FillStreamBuff(w, nClstrs(sz), g)
        ELSE f

\* One turn of WriteBytes, which writes v up to the address last.
WriteTurn(f, sz, last, v, g) ==
    LET b == TurnOver(f, sz, g)
        k == Smaller(lfaEOB(b, sz) + 1, last) - f.CrntLFA
        from == f.CrntLFA - b.LFABuf
    IN  IF f.CrntLFA >= last \/ f.CrntLFA >= sz \/ f.erc # "ok" THEN f
        ELSE IF b.erc # "ok" THEN b
        ELSE [b EXCEPT !.buf = [i \in DOMAIN @ |->
                                 IF from <= i /\ i < from + k THEN v ELSE @[i]],
                       !.fModified = TRUE, !.CrntLFA = @ + k]

WriteLoop(f, sz, last, v, g) ==
    LET at[i \in 0 .. MaxTurns] == IF i = 0 THEN f ELSE WriteTurn(at[i - 1], sz, last, v, g)
    IN  at[MaxTurns]

-----------------------------------------------------------------------------
(* The calls. *)

\* What a call leaves in FUB: the bytes it returned and its error are in reply.
Kept(f) == [f EXCEPT !.out = <<>>, !.erc = "ok"]

Failed(erc) ==
    /\ reply' = [erc |-> erc, out |-> <<>>]
    /\ UNCHANGED <<mode, size, FUB>>

\* OpenFile fills the buffer with the begin of the file.
OpenFile(m, g) ==
    /\ mode = "closed" /\ mode' = m
    /\ FUB' = Kept(LoadBuff([FUB EXCEPT !.CrntLFA = 0, !.fModified = FALSE, !.end = 0],
                            nClstrs(size), 0, g))
    /\ reply' = [erc |-> "ok", out |-> <<>>]
    /\ UNCHANGED size

\* CloseFile writes what is left; the handle is closed after an error too.
CloseFile(g) ==
    LET w == FlushStreamBuff(FUB, size, g)
    IN  /\ mode # "closed" /\ mode' = "closed"
        /\ FUB' = Kept(w)
        /\ reply' = [erc |-> w.erc, out |-> <<>>]
        /\ UNCHANGED size

\* After an error of the device the bytes are counted all the same.
ReadBytes(n, g) ==
    LET r == ReadLoop(FUB, n, g)
    IN  IF mode = "closed" THEN Failed("ErcBadFileHandle")
        ELSE IF FUB.CrntLFA >= size THEN Failed("ErcEOF")
        ELSE /\ FUB' = Kept(r)
             /\ reply' = [erc |-> IF r.erc = "ok" /\ r.CrntLFA = size THEN "ErcEOF" ELSE r.erc,
                        out |-> r.out]
             /\ UNCHANGED <<mode, size>>

\* SetFileSize, which may find the disk full when a cluster is needed.
WriteBytes(n, v, g) ==
    LET last == FUB.CrntLFA + n
        sz == IF last > size THEN last ELSE size
        w == WriteLoop(FUB, sz, last, v, g)
    IN  IF mode = "closed" THEN Failed("ErcBadFileHandle")
        ELSE IF mode = "read" THEN Failed("ErcReadOnly")
        ELSE \/ nClstrs(sz) > nClstrs(size) /\ Failed("ErcDiskFull")
             \/ /\ size' = sz
                /\ FUB' = Kept(w)
                /\ reply' = [erc |-> w.erc, out |-> <<>>]
                /\ UNCHANGED mode

\* SetFileLFA writes what was modified, then looks at the address.
SetFileLFA(n, g) ==
    LET w == FlushStreamBuff(FUB, size, g)
        b == FillStreamBuff([w EXCEPT !.CrntLFA = n], nClstrs(size), g)
        erc == IF n > size THEN "ErcBeyondEOF" ELSE w.erc
    IN  IF mode = "closed" THEN Failed("ErcBadFileHandle")
        ELSE /\ FUB' = Kept(IF erc = "ok" THEN b ELSE w)
             /\ reply' = [erc |-> IF erc = "ok" THEN b.erc ELSE erc, out |-> <<>>]
             /\ UNCHANGED <<mode, size>>

-----------------------------------------------------------------------------
(* What the programs ask. *)

MayRead == ReadsDirty \/ ~FUB.fModified
MaySeek(n) == SeeksEnd \/ n < nClstrs(size) * bpc \/ InBuf(FUB, n)
MayWrite(n) == FUB.CrntLFA + n \in Sizes \/ FUB.CrntLFA + n <= size

StreamNext ==
    \E g \in {<<>>} \cup {<<v>> : v \in Byte} :
        \/ \E m \in {"read", "modify"} : OpenFile(m, g)
        \/ CloseFile(g)
        \/ \E n \in 1 .. MaxBytes :
            \/ MayRead /\ ReadBytes(n, g)
            \/ \E v \in Byte : MayWrite(n) /\ WriteBytes(n, v, g)
        \/ \E n \in 0 .. MaxSize + 1 : MaySeek(n) /\ SetFileLFA(n, g)

StreamSpec == StreamInit /\ [][StreamNext]_streamVars

-----------------------------------------------------------------------------
(* Properties. *)

StreamTypeOK ==
    /\ mode \in {"closed", "read", "modify"}
    /\ size \in 0 .. MaxSize
    /\ FUB.disk \in [0 .. MaxSize + bpc -> Byte]
    /\ FUB.buf \in [0 .. sBuf - 1 -> Byte]
    /\ FUB.fModified \in BOOLEAN /\ FUB.end \in Nat
    /\ FUB.LFABuf \in Nat /\ FUB.LFABuf % Sector = 0
    /\ FUB.CrntLFA \in 0 .. size
    /\ FUB.fModified => mode = "modify"

\* Byte i of the file: in the buffer while that is not written, or on the disk.
Current(i) ==
    IF FUB.fModified /\ InBuf(FUB, i) THEN FUB.buf[i - FUB.LFABuf] ELSE FUB.disk[i]

\* The bytes read are those written last, at the place where the reads, the
\* writes and SetFileLFA left off, whatever the buffer held in between; a file
\* that was closed has them all on the disk.
BF == INSTANCE ByteFile WITH
    bytes <- [i \in 1 .. size |-> Current(i - 1)], pos <- FUB.CrntLFA, ret <- reply

ImplementsByteFile == BF!Spec
=============================================================================
