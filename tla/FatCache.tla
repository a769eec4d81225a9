------------------------------- MODULE FatCache -------------------------------
(***************************************************************************)
(* The FAT buffers of the file system, ossource/fsys.c: sectors of the     *)
(* file allocation tables in memory, found by drive and first cluster,     *)
(* replaced in LRU order, written back to both copies of the FAT.          *)
(*                                                                         *)
(* The file system is one task, so a call is one step; the steps inside it *)
(* that can fail are the transfers from and to the disk.  The lock bit of  *)
(* a buffer is set and cleared but nothing looks at it: it is left out.    *)
(* A floppy (FAT12) uses three sectors at a time, in buffer 0: these three *)
(* are one sector here.                                                    *)
(***************************************************************************)
EXTENDS Naturals, FiniteSets

CONSTANTS
    Drive,      \* the logical drives
    Kind,       \* Kind[d]: "FAT12", "FAT16" or "FAT32"
    nFATBufs,   \* buffer 0 is for FAT12, the others for the rest
    nFATS,      \* the copies of the FAT on a drive
    PerSect,    \* the entries in a sector
    sFAT,       \* sFAT[d]: the sectors in a FAT of d, as its boot sector has them
    LBAFAT,     \* LBAFAT[d]: the sector where the first FAT of d begins
    Clstr,      \* the clusters that the file system asks for
    MaxClstr,   \* from here on a value means the end of a chain
    Val,        \* the values of an entry
    StartMod,   \* the number of values of the field iClstrStart, 2^16
    MaxTick,    \* bound on the timer ticks
    TickMod,    \* the number of values of the tick count, 2^32
    Systems     \* the sets of drives in use together, and the transfers, "read"
                \* and "write", that may fail with them

Buf    == 0 .. nFATBufs - 1
Copies == 1 .. nFATS

ASSUME FatCacheAssumption ==
    /\ Drive # {}
    /\ Kind \in [Drive -> {"FAT12", "FAT16", "FAT32"}]
    /\ nFATBufs \in Nat /\ nFATBufs > 1
    /\ nFATS \in Nat \ {0}
    /\ PerSect \in Nat \ {0}
    /\ sFAT \in [Drive -> Nat] /\ LBAFAT \in [Drive -> Nat]
    /\ Clstr \subseteq Nat
    /\ MaxClstr \in Nat
    /\ 0 \in Val
    /\ StartMod \in Nat \ {0}
    /\ MaxTick \in Nat /\ TickMod \in Nat \ {0}
    /\ \A s \in Systems : s.drives \subseteq Drive /\ s.faults \subseteq {"read", "write"}

VARIABLES
    Fat,    \* the buffers
    disk,   \* disk[d][k][s]: sector s of copy k of the FAT of drive d
    Tick,   \* TimerTick
    ret,    \* the last call: its drive, cluster, value and error
    system  \* the system, which never changes

vars == <<Fat, disk, Tick, ret, system>>

Data == [0 .. PerSect - 1 -> Val]
Zero == [e \in 0 .. PerSect - 1 |-> 0]

\* The sectors in a FAT of d, as they are counted here.
Sects == [d \in Drive |-> IF Kind[d] = "FAT12" THEN (sFAT[d] + 2) \div 3 ELSE sFAT[d]]

Drives(k) == {d \in Drive : Kind[d] = k}

\* The sector with the entry of cluster c, and the first cluster in it.
Sect(c)  == c \div PerSect
First(c) == c - (c % PerSect)

\* A Fat record that was never used.
Unused ==
    [LastUsed |-> 0, LBASect |-> 0, iClstrStart |-> 0,
     Drive |-> CHOOSE d \in Drive : TRUE, fMod |-> FALSE, pBuf |-> Zero]

\* Between the calls.
NoCall == [erc |-> "ok", drive |-> CHOOSE d \in Drive : TRUE, clstr |-> 0, val |-> 0]

Init ==
    /\ Fat = [j \in Buf |-> Unused]
    /\ disk = [d \in Drive |-> [k \in Copies |-> [s \in 0 .. Sects[d] - 1 |-> Zero]]]
    /\ Tick = 1
    /\ ret = NoCall
    /\ system \in Systems

-----------------------------------------------------------------------------
(* Transfers. *)

\* The disk after the first n copies of the sector in buffer j are written.
Written(dk, j, n) ==
    [dk EXCEPT ![Fat[j].Drive] =
        [k \in Copies |-> IF k <= n THEN [@[k] EXCEPT ![Fat[j].LBASect] = Fat[j].pBuf]
                                    ELSE @[k]]]

\* How many copies a write may reach: all, or fewer if one fails.
Reached == IF "write" \in system.faults THEN 0 .. nFATS ELSE {nFATS}

\* Mutant of UpdateFAT: the second copy is not written.
UpdateFATFirst(dk, j) ==
    IF Fat[j].fMod
    THEN {[disk |-> Written(dk, j, IF n > 1 THEN 1 ELSE n), fMod |-> n = 0,
           ok |-> n = nFATS] : n \in Reached}
    ELSE {[disk |-> dk, fMod |-> FALSE, ok |-> TRUE]}

\* Mutant of UpdateFAT: a failed write clears the mark too.
UpdateFATForget(dk, j) ==
    IF Fat[j].fMod
    THEN {[disk |-> Written(dk, j, n), fMod |-> FALSE, ok |-> n = nFATS] : n \in Reached}
    ELSE {[disk |-> dk, fMod |-> FALSE, ok |-> TRUE]}

\* The outcomes of UpdateFAT on disk dk.  The mark is cleared when the first
\* copy was written, before the second.
UpdateFAT(dk, j) ==
    IF Fat[j].fMod
    THEN {[disk |-> Written(dk, j, n), fMod |-> n = 0, ok |-> n = nFATS] : n \in Reached}
    ELSE {[disk |-> dk, fMod |-> FALSE, ok |-> TRUE]}

-----------------------------------------------------------------------------
(* FindFatSect: the buffer for a cluster. *)

\* Mutant of Holds: a modified buffer is not looked at.
HoldsClean(j, d, start) ==
    /\ Fat[j].LastUsed > 0 /\ ~Fat[j].fMod
    /\ Fat[j].iClstrStart = start
    /\ Fat[j].Drive = d

\* Mutant of Holds: the drive is not compared.
HoldsAnyDrive(j, d, start) == Fat[j].LastUsed > 0 /\ Fat[j].iClstrStart = start

Holds(j, d, start) ==
    /\ Fat[j].LastUsed > 0
    /\ Fat[j].iClstrStart = start
    /\ Fat[j].Drive = d

\* The loops over the buffers stop at the first that holds the sector.
Found(J, d, start) == {j \in J : Holds(j, d, start)}
FirstOf(J) == CHOOSE j \in J : \A k \in J : j <= k
Oldest(J)  == FirstOf({j \in J : \A k \in J : Fat[j].LastUsed <= Fat[k].LastUsed})

\* Buffer j is written if it was modified, and then filled.  When the write
\* fails nothing is read; when the read fails the buffer is labelled with the
\* new sector all the same.
Load(j, d, c) ==
    UNION {
        IF ~u.ok
        THEN {[buf |-> j, disk |-> u.disk, erc |-> "ErcDisk",
               rec |-> [Fat[j] EXCEPT !.fMod = u.fMod]]}
        ELSE {[buf |-> j, disk |-> u.disk, erc |-> IF ok THEN "ok" ELSE "ErcDisk",
               rec |-> [LastUsed |-> Tick, LBASect |-> Sect(c),
                        iClstrStart |-> First(c) % StartMod, Drive |-> d, fMod |-> FALSE,
                        pBuf |-> IF ok THEN u.disk[d][1][Sect(c)] ELSE Fat[j].pBuf]] :
              ok \in IF "read" \in system.faults THEN BOOLEAN ELSE {TRUE}}
        : u \in UpdateFAT(disk, j)}

\* The buffers 1 .. of the hard disks.
FindHard(d, c) ==
    LET J == Buf \ {0}
        found == Found(J, d, First(c))
    IN  IF found # {}
        THEN LET j == FirstOf(found)
             IN  {[buf |-> j, disk |-> disk, erc |-> "ok",
                   rec |-> [Fat[j] EXCEPT !.LastUsed = Tick]]}
        ELSE Load(Oldest(J), d, c)

\* The only buffer for floppies: found there, it is used as it is.
FindFloppy(d, c) ==
    IF Holds(0, d, First(c))
    THEN {[buf |-> 0, disk |-> disk, erc |-> "ok", rec |-> Fat[0]]}
    ELSE Load(0, d, c)

\* The outcomes of FindFatSect for a cluster of the FAT.
FindFatSect(d, c) == IF Kind[d] = "FAT12" THEN FindFloppy(d, c) ELSE FindHard(d, c)

\* Sector s is past the FAT of d.  For a floppy the number of the sector on the
\* disk is compared with the length of the FAT, so that the last three sectors
\* of a FAT may be out of reach, or all of them where the FAT begins late.
PastFAT(d, s) ==
    IF Kind[d] = "FAT12" THEN 3 * s + LBAFAT[d] >= sFAT[d] ELSE s >= sFAT[d]

\* The errors found before any buffer is looked at.
RangeErc(d, c) ==
    IF c >= MaxClstr THEN "ErcEOF"
    ELSE IF c < 2 \/ PastFAT(d, Sect(c)) THEN "ErcBadFATClstr"
    ELSE "ok"

OutOfRange(d, c) ==
    /\ RangeErc(d, c) # "ok"
    /\ ret' = [erc |-> RangeErc(d, c), drive |-> d, clstr |-> c, val |-> 0]
    /\ UNCHANGED <<Fat, disk, Tick, system>>

-----------------------------------------------------------------------------
(* The calls. *)

\* The offset of a cluster in a buffer, which lies outside of it when the
\* buffer was labelled with a cluster number that was cut off.
Offset(rec, c) == c - rec.iClstrStart

GetClstrValue(d, c) ==
    /\ RangeErc(d, c) = "ok"
    /\ \E o \in FindFatSect(d, c) :
        /\ Fat' = [Fat EXCEPT ![o.buf] = o.rec]
        /\ disk' = o.disk
        /\ \E v \in Val :
            /\ o.erc = "ok" /\ Offset(o.rec, c) < PerSect => v = o.rec.pBuf[Offset(o.rec, c)]
            /\ o.erc # "ok" => v = 0
            /\ ret' = [erc |-> o.erc, drive |-> d, clstr |-> c, val |-> v]
    /\ UNCHANGED <<Tick, system>>

\* A write outside the buffer ends the behaviour.
SetClstrValue(d, c, v) ==
    /\ RangeErc(d, c) = "ok"
    /\ \E o \in FindFatSect(d, c) :
        /\ IF o.erc = "ok"
           THEN /\ Offset(o.rec, c) < PerSect
                /\ Fat' = [Fat EXCEPT ![o.buf] =
                            [o.rec EXCEPT !.pBuf[Offset(o.rec, c)] = v, !.fMod = TRUE]]
           ELSE Fat' = [Fat EXCEPT ![o.buf] = o.rec]
        /\ disk' = o.disk
        /\ ret' = [erc |-> o.erc, drive |-> d, clstr |-> c,
                   val |-> IF o.erc = "ok" THEN v ELSE 0]
    /\ UNCHANGED <<Tick, system>>

\* One step of the loop that writes all modified buffers at the end of
\* CloseFile, CreateFile and DeleteFile; its error is ignored.
Flush(j) ==
    /\ Fat[j].fMod
    /\ \E u \in UpdateFAT(disk, j) :
        /\ disk' = u.disk
        /\ Fat' = [Fat EXCEPT ![j].fMod = u.fMod]
    /\ ret' = NoCall
    /\ UNCHANGED <<Tick, system>>

\* Time passes, up to MaxTick; the count wraps.
TimerTick ==
    /\ Tick # MaxTick
    /\ Tick' = (Tick + 1) % TickMod
    /\ UNCHANGED <<Fat, disk, ret, system>>

Next ==
    \/ TimerTick
    \/ \E j \in Buf : Flush(j)
    \/ \E d \in system.drives, c \in Clstr :
        \/ OutOfRange(d, c)
        \/ GetClstrValue(d, c)
        \/ \E v \in Val : SetClstrValue(d, c, v)

Spec == Init /\ [][Next]_vars

-----------------------------------------------------------------------------
(* Properties. *)

TypeOK ==
    /\ Fat \in [Buf -> [LastUsed : Nat, LBASect : Nat, iClstrStart : 0 .. StartMod - 1,
                        Drive : Drive, fMod : BOOLEAN, pBuf : Data]]
    /\ \A d \in Drive : disk[d] \in [Copies -> [0 .. Sects[d] - 1 -> Data]]
    /\ Tick \in Nat
    /\ ret \in [erc : {"ok", "ErcEOF", "ErcBadFATClstr", "ErcDisk"},
                drive : Drive, clstr : Clstr \cup {0}, val : Val]
    /\ system \in Systems

\* Buffer j is in use for sector s of drive d.
BufferOf(j, d, s) == Fat[j].LastUsed > 0 /\ Fat[j].Drive = d /\ Fat[j].LBASect = s

\* "We never want to have more than one copy of a FAT sector in memory":
\* otherwise what is set in one copy is not seen in the other, and is
\* overwritten by it.
OneCopy ==
    \A d \in Drive, j, k \in Buf : \A s \in 0 .. Sects[d] - 1 :
        /\ Fat[j].Drive = d /\ Fat[j].LBASect = s /\ (Fat[j].LastUsed > 0 \/ Fat[j].fMod)
        /\ Fat[k].Drive = d /\ Fat[k].LBASect = s /\ (Fat[k].LastUsed > 0 \/ Fat[k].fMod)
        => j = k

\* A buffer that is not marked as modified has what the disk has: otherwise it
\* is dropped, or used, with contents that no disk ever had.
CleanIsOnDisk ==
    \A d \in Drive, j \in Buf : \A s \in 0 .. Sects[d] - 1 :
        BufferOf(j, d, s) /\ ~Fat[j].fMod => Fat[j].pBuf = disk[d][1][s]

\* "updates the second copy if it exists": where no buffer waits to be
\* written, the copies of the FAT on the disk are the same, if no write fails.
CopiesAgree ==
    "write" \notin system.faults => \A d \in Drive : \A s \in 0 .. Sects[d] - 1 :
        (\A j \in Buf : BufferOf(j, d, s) => ~Fat[j].fMod)
            => \A k \in Copies : disk[d][k][s] = disk[d][1][s]

\* The disk has what no buffer has still to write, in every copy (UpdateFAT).
OnDisk == CleanIsOnDisk /\ CopiesAgree

\* The map that the buffers and the disk stand for.
Entry(d, c) ==
    IF \E j \in Buf : BufferOf(j, d, Sect(c))
    THEN Fat[FirstOf({j \in Buf : BufferOf(j, d, Sect(c))})].pBuf[c % PerSect]
    ELSE disk[d][1][Sect(c)][c % PerSect]

Valid(d) == {c \in Clstr : RangeErc(d, c) = "ok"}

\* The file system sees one map of clusters, wherever their sectors are and
\* whatever was replaced, and sees no effect of calls that failed.
FM == INSTANCE FatMap WITH
    fat <- [d \in Drive |-> [c \in Clstr |-> IF c \in Valid(d) THEN Entry(d, c) ELSE 0]]

ImplementsFatMap == FM!Spec
=============================================================================
