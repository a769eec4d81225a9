-------------------------------- MODULE FileSys --------------------------------
(***************************************************************************)
(* The files of one logical drive, ossource/fsys.c: the directory, the FAT *)
(* and its chains of clusters, the control blocks of the open files (FCBs) *)
(* and of their users (FUBs), and the requests that FSysTask serves for    *)
(* files opened in block mode.                                             *)
(*                                                                         *)
(* FSysTask is one task, so a request is one step.  The FAT in memory is   *)
(* one map (module FatCache shows that its buffers are); disk is the FAT   *)
(* on the disk.  The directory is its root directory, of one sector, on    *)
(* the disk.  Sizes and addresses count blocks of 512 bytes.               *)
(***************************************************************************)
EXTENDS Naturals, FiniteSets, Sequences

CONSTANTS
    LastClstr,  \* the last entry of the FAT, which fills whole sectors: nothing tells
                \* the code where before that the clusters of the volume end
    PerSect,    \* the entries of the FAT in a sector
    SecPerClstr,
    nEntries,   \* the entries of the directory
    Name,       \* the names of files
    Job,        \* the jobs
    nFCBs,
    nFUBs,      \* the handles are 4 .. nFUBs - 1
    Sizes,      \* the sizes asked of SetFileSize
    MaxBlks,    \* bound on the blocks of one ReadBlock or WriteBlock
    Val,        \* the contents of a block
    Attrs,      \* the attributes given to CreateFile: read-only or not
    Renames,    \* programs rename files
    ReadsPast,  \* programs read further than the size of a file
    CutsBehind  \* programs make a file shorter than where their handle is

EOF   == LastClstr + 1
Clstr == 2 .. LastClstr
Slot  == 1 .. nEntries
Handle == 4 .. nFUBs - 1
FCBs  == 0 .. nFCBs - 1
MaxSize == CHOOSE n \in Sizes \cup {0} : \A m \in Sizes : m <= n

ASSUME FileSysAssumption ==
    /\ LastClstr \in Nat /\ 2 <= LastClstr
    /\ PerSect \in Nat \ {0} /\ SecPerClstr \in Nat \ {0}
    /\ nEntries \in Nat \ {0} /\ nFCBs \in Nat \ {0} /\ nFUBs \in Nat
    /\ Sizes \subseteq Nat /\ \E n \in Sizes \cup {0} : \A m \in Sizes : m <= n
    /\ MaxBlks \in Nat /\ 0 \in Val
    /\ "free" \notin Job /\ "none" \notin Name
    /\ Attrs \subseteq BOOLEAN /\ Renames \in BOOLEAN
    /\ ReadsPast \in BOOLEAN /\ CutsBehind \in BOOLEAN

VARIABLES
    Dir,    \* the directory
    fat,    \* the FAT, as the file system sees it
    disk,   \* the FAT on the disk
    data,   \* data[c][i]: what block i of cluster c has
    FCB,    \* the control blocks of open files
    FUB,    \* the control blocks of their users
    ret     \* the last call: its error; if there is none, what was asked for
            \* and the answer

vars == <<Dir, fat, disk, data, FCB, FUB, ret>>

\* A deleted entry, and one that was never used.
NoFile == [Name |-> "none", ReadOnly |-> FALSE, StartClstr |-> 0, FileSize |-> 0]
FreeFCB == [ent |-> NoFile, slot |-> 1, Mode |-> 0, nUsers |-> 0]
FreeFUB == [Job |-> "free", iFCB |-> 0, Clstr |-> 0, relClstr |-> 0]
\* What a free FCB or FUB has left is never looked at: it is cleared here.
Cleared(F) == IF F.nUsers = 0 THEN FreeFCB ELSE F
Returned(erc) == [erc |-> erc, call |-> <<>>]
Done(call) == [erc |-> "ok", call |-> call]

Init ==
    /\ Dir = [s \in Slot |-> NoFile]
    /\ fat = [c \in Clstr |-> 0] /\ disk = fat
    /\ data = [c \in Clstr |-> [i \in 0 .. SecPerClstr - 1 |-> 0]]
    /\ FCB = [i \in FCBs |-> FreeFCB]
    /\ FUB = [h \in Handle |-> FreeFUB]
    /\ ret = Returned("ok")

-----------------------------------------------------------------------------
(* Chains of clusters. *)

\* The cluster n steps after c in the FAT f: 0 and the end mark stay.
Follow(f, c, n) ==
    LET at[i \in 0 .. n] ==
            IF i = 0 THEN c ELSE IF at[i - 1] \in Clstr THEN f[at[i - 1]] ELSE at[i - 1]
    IN  at[n]

\* The clusters from c on.
ChainOf(f, c) == {Follow(f, c, n) : n \in 0 .. LastClstr} \cap Clstr

RangeErc(c) == IF c >= EOF THEN "ErcEOF" ELSE "ErcBadFATClstr"

\* The first of a set of clusters.
Lowest(C) == CHOOSE c \in C : \A d \in C : c <= d

\* Mutant of ExtendClstrChain: the new cluster is not marked as the last.
ExtendOpenEnd(f, last) ==
    LET free == {c \in Clstr : c > last /\ f[c] = 0}
    IN  IF last \notin Clstr THEN [erc |-> RangeErc(last), fat |-> f, Clstr |-> 0]
        ELSE IF f[last] # EOF THEN [erc |-> "ok", fat |-> f, Clstr |-> f[last]]
        ELSE IF free = {} THEN [erc |-> "ErcBadFATClstr", fat |-> f, Clstr |-> 0]
        ELSE [erc |-> "ok", Clstr |-> Lowest(free), fat |-> [f EXCEPT ![last] = Lowest(free)]]

\* ExtendClstrChain: the search goes forward only, to where the sectors of the
\* FAT end.
ExtendClstrChain(f, last) ==
    LET free == {c \in Clstr : c > last /\ f[c] = 0}
    IN  IF last \notin Clstr THEN [erc |-> RangeErc(last), fat |-> f, Clstr |-> 0]
        ELSE IF f[last] # EOF THEN [erc |-> "ok", fat |-> f, Clstr |-> f[last]]
        ELSE IF free = {} THEN [erc |-> "ErcBadFATClstr", fat |-> f, Clstr |-> 0]
        ELSE [erc |-> "ok", Clstr |-> Lowest(free),
              fat |-> [f EXCEPT ![last] = Lowest(free), ![Lowest(free)] = EOF]]

\* The loop of SetFileSize: n clusters more, until an error.
ExtendBy(f, last, n) ==
    LET ext[i \in 0 .. n] ==
            IF i = 0 THEN [erc |-> "ok", fat |-> f, Clstr |-> last]
            ELSE IF ext[i - 1].erc # "ok" THEN ext[i - 1]
            ELSE ExtendClstrChain(ext[i - 1].fat, ext[i - 1].Clstr)
    IN  ext[n]

\* Mutant of TruncClstrChain: only the next cluster is freed.
TruncNext(f, c) ==
    IF c \notin Clstr THEN [erc |-> RangeErc(c), fat |-> f]
    ELSE IF f[c] = EOF THEN [erc |-> "ok", fat |-> f]
    ELSE [erc |-> "ok",
          fat |-> [d \in Clstr |-> IF d = c THEN EOF ELSE IF d = f[c] THEN 0 ELSE f[d]]]

TruncClstrChain(f, c) ==
    IF c \notin Clstr THEN [erc |-> RangeErc(c), fat |-> f]
    ELSE IF f[c] = EOF THEN [erc |-> "ok", fat |-> f]
    ELSE [erc |-> "ok",
          fat |-> [d \in Clstr |-> IF d \in ChainOf(f, f[c]) \ {c} THEN 0
                                   ELSE IF d = c THEN EOF ELSE f[d]]]

\* Mutant of GetAbsoluteClstr: it always starts from the cluster of the handle.
GetAbsoluteForward(h, want) ==
    [erc |-> "ok",
     Clstr |-> Follow(fat, FUB[h].Clstr,
                      IF want < FUB[h].relClstr THEN 0 ELSE want - FUB[h].relClstr)]

\* GetAbsoluteClstr: the cluster that is want clusters into the file, from the
\* one that the handle had last, or from the first.  The one after the last
\* is the end mark, without an error.
GetAbsoluteClstr(h, want) ==
    LET F     == FUB[h]
        back  == want < F.relClstr
        start == IF back THEN FCB[F.iFCB].ent.StartClstr ELSE F.Clstr
        n     == IF back THEN want ELSE want - F.relClstr
    IN  IF n > 0 /\ Follow(fat, start, n - 1) \notin Clstr
        THEN [erc |-> "ErcBrokenFile", Clstr |-> 0]
        ELSE [erc |-> "ok", Clstr |-> Follow(fat, start, n)]

\* The clusters of a file of n blocks: one at least.
nClstrs(n) == IF n = 0 THEN 1 ELSE (n + SecPerClstr - 1) \div SecPerClstr

-----------------------------------------------------------------------------
(* Open files. *)

Used(h) == FUB[h].Job # "free"
FileOf(h) == FCB[FUB[h].iFCB]

UpdateDirEnt(D, F) == [D EXCEPT ![F.slot] = F.ent]

\* The FCBs of the file at s that OpenFile finds: by name and first cluster.
Found(s) ==
    {i \in FCBs : /\ FCB[i].nUsers > 0
                  /\ FCB[i].ent.StartClstr = Dir[s].StartClstr
                  /\ FCB[i].ent.Name = Dir[s].Name}

\* The entries with a name; the first one counts.
Entries(n) == {s \in Slot : Dir[s].Name = n}

\* The errors of OpenFile, in the order in which they are found.
OpenErc(n, mode) ==
    IF Entries(n) = {} THEN "ErcNoSuchFile"
    ELSE LET s == Lowest(Entries(n))
         IN  IF mode = 1 /\ Dir[s].ReadOnly THEN "ErcReadOnly"
             ELSE IF Found(s) # {} /\ FCB[Lowest(Found(s))].Mode = 1 THEN "ErcFileInUse"
             ELSE IF Found(s) = {} /\ \A i \in FCBs : FCB[i].nUsers > 0 THEN "ErcNoFreeFCB"
             ELSE IF \A h \in Handle : Used(h) THEN "ErcNoFreeFUB"
             ELSE "ok"

\* The FCB that an open gives to the file at s.
OpenFCB(s) ==
    IF Found(s) # {} THEN Lowest(Found(s)) ELSE Lowest({i \in FCBs : FCB[i].nUsers = 0})

\* Mutant of OpenedFCB: a file that is open is not joined.
OpenedFCBAnew(s, mode) == [ent |-> Dir[s], slot |-> s, Mode |-> mode, nUsers |-> 1]

\* Mutant of OpenedFCB: the new user is not counted.
OpenedFCBUncounted(s, mode) ==
    IF Found(s) # {} THEN FCB[OpenFCB(s)]
    ELSE [ent |-> Dir[s], slot |-> s, Mode |-> mode, nUsers |-> 1]

\* ... and what is in it then: a file that is open already keeps its mode.
OpenedFCB(s, mode) ==
    IF Found(s) # {}
    THEN [FCB[OpenFCB(s)] EXCEPT !.nUsers = @ + 1]
    ELSE [ent |-> Dir[s], slot |-> s, Mode |-> mode, nUsers |-> 1]

Failed(erc) ==
    /\ ret' = Returned(erc)
    /\ UNCHANGED <<Dir, fat, disk, data, FCB, FUB>>

OpenFile(job, n, mode) ==
    LET erc == OpenErc(n, mode)
        s == Lowest(Entries(n))
        h == Lowest({g \in Handle : ~Used(g)})
    IN  IF erc # "ok" THEN Failed(erc)
        ELSE /\ FCB' = [FCB EXCEPT ![OpenFCB(s)] = OpenedFCB(s, mode)]
             /\ FUB' = [FUB EXCEPT ![h] = [Job |-> job, iFCB |-> OpenFCB(s),
                                           Clstr |-> Dir[s].StartClstr, relClstr |-> 0]]
             /\ ret' = Done(<<"OpenFile", n, mode, h>>)
             /\ UNCHANGED <<Dir, fat, disk, data>>

\* The files after the handles H were closed, in any order, and the FAT written.
Closing(H) ==
    /\ FCB' = [i \in FCBs |->
                Cleared([FCB[i] EXCEPT !.nUsers =
                            @ - Cardinality({h \in H : FUB[h].iFCB = i})])]
    /\ FUB' = [h \in Handle |-> IF h \in H THEN FreeFUB ELSE FUB[h]]
    /\ Dir' = [s \in Slot |->
                LET mod == {h \in H : FileOf(h).Mode = 1 /\ FileOf(h).slot = s}
                IN  IF mod = {} THEN Dir[s]
                    ELSE UpdateDirEnt(Dir, FileOf(CHOOSE h \in mod : TRUE))[s]]
    /\ disk' = IF H = {} THEN disk ELSE fat

CloseFile(h) ==
    IF ~Used(h) THEN Failed("ErcBadFileHandle")
    ELSE /\ Closing({h})
         /\ ret' = Done(<<"CloseFile", h>>)
         /\ UNCHANGED <<fat, data>>

\* JobAbort, when a job ends: all its files are closed.
JobAbort(job) ==
    /\ Closing({h \in Handle : FUB[h].Job = job})
    /\ ret' = Returned("ok")
    /\ UNCHANGED <<fat, data>>

-----------------------------------------------------------------------------
(* Create, delete, rename. *)

\* Where the search for a free cluster may start: at the first cluster of a FAT
\* sector in memory, or at 2 when that is 0 or none is.
Starts == {2} \cup {c \in Clstr : c > 2 /\ c % PerSect = 0}

\* The clusters tried, in two passes: after the start, then after 2 up to the
\* start.  The start itself is not tried.
Tried(start) ==
    LET after == {c \in Clstr : c > start /\ fat[c] = 0}
    IN  IF after # {} THEN after ELSE {c \in 3 .. start - 1 : fat[c] = 0}

\* Mutant of CreateFile: the FAT is not written at the end.
CreateFileUnsaved(n, ro) ==
    /\ Entries(n) = {} /\ Entries("none") # {}
    /\ \E start \in Starts :
        /\ Tried(start) # {}
        /\ LET c == Lowest(Tried(start))
           IN  /\ Dir' = [Dir EXCEPT ![Lowest(Entries("none"))] =
                            [Name |-> n, ReadOnly |-> ro, StartClstr |-> c, FileSize |-> 0]]
               /\ fat' = [fat EXCEPT ![c] = EOF]
    /\ ret' = Done(<<"CreateFile", n>>)
    /\ UNCHANGED <<disk, data, FCB, FUB>>

\* CreateFile opens the file to see whether it exists.
CreateFile(n, ro) ==
    LET erc == OpenErc(n, 0)
    IN  IF erc = "ok"
        THEN /\ ret' = Returned("ErcDupName")
             /\ disk' = fat
             /\ UNCHANGED <<Dir, fat, data, FCB, FUB>>
        ELSE IF erc = "ErcFileInUse" THEN Failed("ErcDupName")
        ELSE IF erc # "ErcNoSuchFile" THEN Failed(erc)
        ELSE IF Entries("none") = {} THEN Failed("ErcRootFull")
        ELSE \E start \in Starts :
                IF Tried(start) = {} THEN Failed("ErcDiskFull")
                ELSE LET c == Lowest(Tried(start))
                     IN  /\ Dir' = [Dir EXCEPT ![Lowest(Entries("none"))] =
                                [Name |-> n, ReadOnly |-> ro, StartClstr |-> c, FileSize |-> 0]]
                         /\ fat' = [fat EXCEPT ![c] = EOF]
                         /\ disk' = fat'
                         /\ ret' = Done(<<"CreateFile", n>>)
                         /\ UNCHANGED <<data, FCB, FUB>>

\* A handle that may only read is closed all the same.
DeleteFile(h) ==
    IF ~Used(h) THEN Failed("ErcBadFileHandle")
    ELSE IF FileOf(h).Mode = 0
    THEN /\ Closing({h})
         /\ ret' = Returned("ErcReadOnly")
         /\ UNCHANGED <<fat, data>>
    ELSE LET start == FileOf(h).ent.StartClstr
             t == TruncClstrChain(fat, start)
         IN  /\ fat' = IF t.erc = "ok" THEN [t.fat EXCEPT ![start] = 0] ELSE t.fat
             /\ disk' = fat'
             /\ Dir' = UpdateDirEnt(Dir, [FileOf(h) EXCEPT !.ent = NoFile])
             /\ FCB' = [FCB EXCEPT ![FUB[h].iFCB] =
                            Cleared([FileOf(h) EXCEPT !.nUsers = @ - 1])]
             /\ FUB' = [FUB EXCEPT ![h] = FreeFUB]
             /\ ret' = IF t.erc = "ok" THEN Done(<<"DeleteFile", h>>) ELSE Returned(t.erc)
             /\ UNCHANGED data

\* RenameFile opens the file to modify it, which joins those that read it, puts
\* the new name in its FCB and its entry, and closes it.
RenameFile(n, new) ==
    LET erc == OpenErc(n, 1)
        s == Lowest(Entries(n))
        F == [OpenedFCB(s, 1) EXCEPT !.ent.Name = new, !.nUsers = @ - 1]
    IN  IF erc # "ok" THEN Failed(erc)
        ELSE /\ FCB' = [FCB EXCEPT ![OpenFCB(s)] = Cleared(F)]
             /\ Dir' = UpdateDirEnt(Dir, F)
             /\ disk' = fat
             /\ ret' = Done(<<"RenameFile", n, new>>)
             /\ UNCHANGED <<fat, data, FUB>>

-----------------------------------------------------------------------------
(* Size, reading and writing. *)

\* What SetFileSize does to the handle when it makes a file shorter: the test
\* is on the first FUB of the table, which is no handle and whose address is 0,
\* and only the cluster is reset.
Rewound(h, n) ==
    IF 0 >= n THEN [FUB[h] EXCEPT !.Clstr = FileOf(h).ent.StartClstr] ELSE FUB[h]

\* The last cluster of a file of n blocks, in the file.
LastRel(n) == nClstrs(n) - 1

SetFileSize(h, n) ==
    LET F == FileOf(h)
        old == F.ent.FileSize
        abs == GetAbsoluteClstr(h, LastRel(IF n > old THEN old ELSE n))
        new == IF abs.erc # "ok" \/ nClstrs(n) = nClstrs(old) THEN [erc |-> abs.erc, fat |-> fat]
               ELSE IF n > old THEN ExtendBy(fat, abs.Clstr, nClstrs(n) - nClstrs(old))
               ELSE TruncClstrChain(fat, abs.Clstr)
        erc == IF nClstrs(n) = nClstrs(old) THEN "ok" ELSE new.erc
    IN  IF ~Used(h) THEN Failed("ErcBadFileHandle")
        ELSE IF F.Mode = 0 THEN Failed("ErcReadOnly")
        ELSE /\ fat' = new.fat
             /\ FUB' = IF nClstrs(n) < nClstrs(old) THEN [FUB EXCEPT ![h] = Rewound(h, n)] ELSE FUB
             /\ FCB' = IF erc = "ok" THEN [FCB EXCEPT ![FUB[h].iFCB].ent.FileSize = n] ELSE FCB
             /\ ret' = IF erc = "ok" THEN Done(<<"SetFileSize", h, n>>) ELSE Returned(erc)
             /\ UNCHANGED <<Dir, disk, data>>

\* How many of k blocks, from block b of the file on, are reached from cluster
\* c: the first cluster is taken as it is, the next ones are looked at.
Reach(c, b, k) ==
    Cardinality({i \in 0 .. k - 1 :
        LET step == ((b % SecPerClstr) + i) \div SecPerClstr
        IN  step = 0 \/ Follow(fat, c, step) \in Clstr})

\* The cluster and the block in it of the i-th block from block b on.
Place(c, b, i) ==
    [Clstr |-> Follow(fat, c, ((b % SecPerClstr) + i) \div SecPerClstr),
     blk |-> (b + i) % SecPerClstr]

\* Mutant of Moved: the address of the cluster is one too low.
MovedBehind(h, c, b, i) ==
    [FUB[h] EXCEPT !.Clstr = Place(c, b, i).Clstr, !.relClstr = b \div SecPerClstr]

\* The FUB after blocks up to the i-th were transferred.
Moved(h, c, b, i) ==
    [FUB[h] EXCEPT !.Clstr = Place(c, b, i).Clstr, !.relClstr = (b + i) \div SecPerClstr]

\* What the k blocks from block b on have, from cluster c.
Contents(c, b, k) == [i \in 1 .. k |-> data[Place(c, b, i - 1).Clstr][Place(c, b, i - 1).blk]]

\* The end mark as a cluster lies outside of the volume: the device returns an
\* error, or what is there.
ReadBlock(h, b, k) ==
    LET abs == GetAbsoluteClstr(h, b \div SecPerClstr)
        done == Reach(abs.Clstr, b, k)
    IN  IF ~Used(h) THEN Failed("ErcBadFileHandle")
        ELSE IF abs.erc # "ok" THEN Failed(abs.erc)
        ELSE /\ FUB' = [FUB EXCEPT ![h] = Moved(h, abs.Clstr, b, done - 1)]
             /\ IF abs.Clstr \notin Clstr
                THEN ret' \in {Returned("ErcDisk"), Done(<<"ReadBlock", h, b, <<>>>>)}
                ELSE ret' = IF done < k THEN Returned("ErcEOF")
                            ELSE Done(<<"ReadBlock", h, b, Contents(abs.Clstr, b, k)>>)
             /\ UNCHANGED <<Dir, fat, disk, data, FCB>>

\* The blocks written all get v.
WriteBlock(h, b, k, v) ==
    LET abs == GetAbsoluteClstr(h, b \div SecPerClstr)
        done == Reach(abs.Clstr, b, k)
        at == {Place(abs.Clstr, b, i) : i \in 0 .. done - 1}
    IN  IF ~Used(h) THEN Failed("ErcBadFileHandle")
        ELSE IF FileOf(h).Mode = 0 THEN Failed("ErcReadOnly")
        ELSE IF b + k > FileOf(h).ent.FileSize THEN Failed("ErcBeyondEOF")
        ELSE IF abs.erc # "ok" THEN Failed(abs.erc)
        ELSE /\ FUB' = [FUB EXCEPT ![h] = Moved(h, abs.Clstr, b, done - 1)]
             /\ data' = [c \in Clstr |-> [i \in 0 .. SecPerClstr - 1 |->
                            IF [Clstr |-> c, blk |-> i] \in at THEN v ELSE data[c][i]]]
             /\ ret' = IF done < k THEN Returned("ErcBeyondEOF")
                      ELSE Done(<<"WriteBlock", h, b, [i \in 1 .. k |-> v]>>)
             /\ UNCHANGED <<Dir, fat, disk, FCB>>

\* A FAT buffer is written before another sector takes its place.
UpdateFAT(s) ==
    /\ disk' = [c \in Clstr |-> IF c \div PerSect = s THEN fat[c] ELSE disk[c]]
    /\ ret' = Returned("ok")
    /\ UNCHANGED <<Dir, fat, data, FCB, FUB>>

\* What the programs ask.
MaySetSize(h, n) == Used(h) => CutsBehind \/ FUB[h].relClstr < nClstrs(n)
MayRead(h, b, k) == Used(h) => ReadsPast \/ b + k <= FileOf(h).ent.FileSize

Next ==
    \/ \E s \in 0 .. LastClstr \div PerSect : UpdateFAT(s)
    \/ \E j \in Job : JobAbort(j) \/ \E n \in Name, mode \in {0, 1} : OpenFile(j, n, mode)
    \/ \E n \in Name :
        \/ \E ro \in Attrs : CreateFile(n, ro)
        \/ Renames /\ \E new \in Name : RenameFile(n, new)
    \/ \E h \in Handle :
        \/ CloseFile(h)
        \/ DeleteFile(h)
        \/ \E n \in Sizes : MaySetSize(h, n) /\ SetFileSize(h, n)
        \/ \E b \in 0 .. MaxSize, k \in 1 .. MaxBlks :
            \/ MayRead(h, b, k) /\ ReadBlock(h, b, k)
            \/ \E v \in Val : WriteBlock(h, b, k, v)

Spec == Init /\ [][Next]_vars

-----------------------------------------------------------------------------
(* Properties. *)

TypeOK ==
    /\ Dir \in [Slot -> [Name : Name \cup {"none"}, ReadOnly : BOOLEAN,
                         StartClstr : Clstr \cup {0}, FileSize : Sizes \cup {0}]]
    /\ fat \in [Clstr -> Clstr \cup {0, EOF}]
    /\ disk \in [Clstr -> Clstr \cup {0, EOF}]
    /\ data \in [Clstr -> [0 .. SecPerClstr - 1 -> Val]]
    /\ \A i \in FCBs : FCB[i].nUsers \in 0 .. nFUBs /\ FCB[i].slot \in Slot
    /\ \A h \in Handle : FUB[h].iFCB \in FCBs /\ FUB[h].Clstr \in Clstr \cup {0, EOF}

Live == {s \in Slot : Dir[s].Name # "none"}
Open(s) == {i \in FCBs : FCB[i].nUsers > 0 /\ FCB[i].slot = s}

\* The entry that counts is the one in the FCB while the file is open.
Entry(s) == IF Open(s) = {} THEN Dir[s] ELSE FCB[Lowest(Open(s))].ent
Chain(s) == ChainOf(fat, Entry(s).StartClstr)

\* A file open in mode modify, whose entry on the disk may be behind.
Changing(s) == \E i \in Open(s) : FCB[i].Mode = 1

\* No cluster belongs to two files, and every cluster that is not free belongs
\* to one: whatever was extended, cut, created and deleted, in any order.
ClustersOwned ==
    /\ \A s, t \in Live : s # t => Chain(s) \cap Chain(t) = {}
    /\ {c \in Clstr : fat[c] # 0} = UNION {Chain(s) : s \in Live}

\* A chain ends with the end mark, and is long enough for the size of its file.
ChainsWhole ==
    \A s \in Live :
        /\ Follow(fat, Entry(s).StartClstr, Cardinality(Chain(s))) = EOF
        /\ Cardinality(Chain(s)) >= nClstrs(Entry(s).FileSize)

\* The FAT and the directory agree: no cluster is lost or in two files, and every
\* file has all of its own, wherever an extension or a cut stopped.
VolumeSound == ClustersOwned /\ ChainsWhole

\* "the cluster helper": the cluster kept in a handle is the one of its file at
\* the address kept with it.  GetAbsoluteClstr starts from it and does not look.
HelperInFile ==
    \A h \in Handle : Used(h) =>
        /\ FUB[h].Clstr \in Chain(FileOf(h).slot)
        /\ FUB[h].Clstr = Follow(fat, FileOf(h).ent.StartClstr, FUB[h].relClstr)

\* An FCB counts its FUBs, no file has two FCBs, and a file open to be modified
\* has one user.
UsersCounted ==
    /\ \A i \in FCBs : FCB[i].nUsers = Cardinality({h \in Handle : Used(h) /\ FUB[h].iFCB = i})
    /\ \A i \in FCBs : FCB[i].nUsers > 0 => FCB[i].slot \in Live
    /\ \A i \in FCBs : FCB[i].nUsers > 0 /\ FCB[i].Mode = 1 => FCB[i].nUsers = 1
    /\ \A s \in Slot : Cardinality(Open(s)) <= 1

\* What is lost when the machine stops now: nothing of the files that are not
\* open to be modified, whose entries and chains are all on the disk.
ClosedIsOnDisk ==
    \A s \in Live : ~Changing(s) =>
        /\ Dir[s] = Entry(s)
        /\ \A c \in Chain(s) : disk[c] = fat[c]

\* "Name exists as a file or dir already": no two files have one name.
NamesUnique == \A s, t \in Live : s # t => Dir[s].Name # Dir[t].Name

\* "No more free CLUSTERS!!!": CreateFile says so when there are none.
FullWhenFull == ret.erc = "ErcDiskFull" => \A c \in Clstr : fat[c] # 0

\* "File is open in an incompatible mode": an open to modify that succeeds may
\* modify, and nobody else has the file.
ModifyGranted ==
    ret.call # <<>> /\ ret.call[1] = "OpenFile" /\ ret.call[3] = 1
        => FileOf(ret.call[4]).Mode = 1 /\ FileOf(ret.call[4]).nUsers = 1

\* A block of a file, where GetAbsoluteClstr should find it.
Block(s, b) ==
    LET c == Follow(fat, Entry(s).StartClstr, b \div SecPerClstr)
    IN  IF c \in Clstr THEN data[c][b % SecPerClstr] ELSE 0

\* The files and the handles as programs see them.
StoredDir ==
    [s \in Slot |->
        IF s \in Live
        THEN [Name |-> Entry(s).Name,
              blocks |-> [b \in 1 .. Entry(s).FileSize |-> Block(s, b - 1)]]
        ELSE [Name |-> "none", blocks |-> <<>>]]
OpenedAt == [h \in Handle |-> IF Used(h) THEN FileOf(h).slot ELSE 0]

FS == INSTANCE FileStore WITH dir <- StoredDir, opened <- OpenedAt

\* Every call changes the file it was made for, at the blocks it was made for,
\* and no other; and reads what was written there.
ImplementsFileStore == FS!Spec
=============================================================================
