---------------------------- MODULE FsysBufferProofs ----------------------------
(***************************************************************************)
(* Proofs about the two buffers of fsys.c: the FAT buffers (FatCache), for *)
(* any drives, buffers and clusters, and the buffer of a file in stream    *)
(* mode (FileStream), for buffers, clusters and files of any sizes.  The   *)
(* conditions they need are named here and stated with each theorem.       *)
(***************************************************************************)
EXTENDS FatCache, FileStream, SequenceTheorems, WellFoundedInduction, TLAPS

-----------------------------------------------------------------------------
(* The FAT buffers. *)

\* The first cluster of every sector fits into the field iClstrStart.
LabelsFit == \A d \in Drive : PerSect * Sects[d] <= StartMod

\* The count of the timer does not wrap.
TicksFit == 1 <= MaxTick /\ MaxTick < TickMod

\* The disk can always be read.
ReadsWork == \A s \in Systems : "read" \notin s.faults

\* Every nonempty set of naturals has a least element.
LEMMA NatMin ==
    ASSUME NEW T, T \subseteq Nat, T # {}
    PROVE  \E x \in T : \A y \in T : x <= y
<1>1. IsWellFoundedOn(OpToRel(<,Nat), Nat)
  BY NatLessThanWellFounded
<1>2. PICK x \in T : \A y \in T : ~(<<y, x>> \in OpToRel(<,Nat))
  BY <1>1, WFMin
<1>3. \A y \in T : ~(y < x)
  BY <1>2 DEF OpToRel
<1> QED
  BY <1>3

\* FirstOf finds it.
LEMMA FirstOfIn ==
    ASSUME NEW T, T \subseteq Nat, T # {}
    PROVE  FirstOf(T) \in T
BY NatMin DEF FirstOf

-----------------------------------------------------------------------------
(* The buffers. *)

Rec == [LastUsed : Nat, LBASect : Nat, iClstrStart : 0 .. StartMod - 1, Drive : Drive,
        fMod : BOOLEAN, pBuf : Data]

\* The disk is a FAT for every copy of every drive.
DiskOK(dk) ==
    /\ DOMAIN dk = Drive
    /\ \A d \in Drive : dk[d] \in [Copies -> [0 .. Sects[d] - 1 -> Data]]

\* A buffer that was used is labelled with its sector, and one of the buffers for
\* drives of its kind.
Labelled(j, r) ==
    /\ r.fMod => r.LastUsed > 0
    /\ r.LastUsed > 0 =>
          /\ r.LBASect \in 0 .. Sects[r.Drive] - 1
          /\ r.iClstrStart = PerSect * r.LBASect
          /\ j = 0 <=> Kind[r.Drive] = "FAT12"

\* Buffer j of F is in use for sector s of drive d.
At(F, j, d, s) == F[j].LastUsed > 0 /\ F[j].Drive = d /\ F[j].LBASect = s

\* What holds of the buffers alone; no two of them that were used have the same
\* sector.
Struct(F) ==
    /\ F \in [Buf -> Rec]
    /\ \A j \in Buf : Labelled(j, F[j])
    /\ \A j, k \in Buf :
            F[j].LastUsed > 0 /\ At(F, k, F[j].Drive, F[j].LBASect) => j = k

IInv ==
    /\ Struct(Fat)
    /\ DiskOK(disk)
    /\ Tick \in 1 .. MaxTick
    /\ system \in Systems

\* The sector of a cluster.
LEMMA SectFacts ==
    ASSUME NEW c \in Nat
    PROVE  /\ Sect(c) \in Nat /\ c % PerSect \in 0 .. PerSect - 1
           /\ First(c) = PerSect * Sect(c)
           /\ c - First(c) = c % PerSect
<1>1. PerSect \in Nat \ {0}
  BY FatCacheAssumption
<1>2. c \div PerSect \in Nat
  BY <1>1
<1>3. c % PerSect \in 0 .. PerSect - 1
  BY <1>1
<1>4. c - (c % PerSect) = PerSect * (c \div PerSect)
  BY <1>1
<1>5. c - (c - (c % PerSect)) = c % PerSect
  BY <1>1, <1>3
<1> QED
  BY <1>2, <1>3, <1>4, <1>5 DEF Sect, First

\* Multiples of PerSect.
LEMMA Multiples ==
    ASSUME NEW m \in Nat, NEW n \in Nat
    PROVE  /\ PerSect * m \in Nat
           /\ PerSect * m = PerSect * n => m = n
           /\ m < n => PerSect * m < PerSect * n
<1>1. PerSect \in Nat \ {0}
  BY FatCacheAssumption
<1>2. PerSect * m \in Nat
  BY <1>1
<1>3. PerSect * m = PerSect * n => m = n
  BY <1>1
<1>4. m < n => PerSect * m < PerSect * n
  BY <1>1
<1> QED
  BY <1>2, <1>3, <1>4

\* The sectors of a FAT, and that no cluster of another sector passes.
LEMMA SectsFacts ==
    ASSUME NEW d \in Drive
    PROVE  /\ Sects[d] \in Nat
           /\ \A c \in Clstr : RangeErc(d, c) = "ok" => Sect(c) < Sects[d]
<1>1. sFAT[d] \in Nat /\ LBAFAT[d] \in Nat /\ Clstr \subseteq Nat
  BY FatCacheAssumption
<1>2. Sects[d] = IF Kind[d] = "FAT12" THEN (sFAT[d] + 2) \div 3 ELSE sFAT[d]
  BY DEF Sects
<1>3. ASSUME NEW s \in Nat, ~PastFAT(d, s) PROVE s < Sects[d]
  <2>1. CASE Kind[d] = "FAT12"
    <3>1. 3 * s + LBAFAT[d] < sFAT[d]
      BY <1>1, <1>3, <2>1 DEF PastFAT
    <3>2. 3 * (s + 1) <= sFAT[d] + 2
      BY <1>1, <3>1
    <3>3. s + 1 <= (sFAT[d] + 2) \div 3
      BY <1>1, <3>2
    <3> QED
      BY <1>1, <1>2, <2>1, <3>3
  <2>2. CASE Kind[d] # "FAT12"
    BY <1>1, <1>2, <1>3, <2>2 DEF PastFAT
  <2> QED
    BY <2>1, <2>2
<1>4. Sects[d] \in Nat
  BY <1>1, <1>2
<1>5. ASSUME NEW c \in Clstr, RangeErc(d, c) = "ok" PROVE Sect(c) < Sects[d]
  <2>1. Sect(c) \in Nat
    BY <1>1, SectFacts
  <2>2. ~PastFAT(d, Sect(c))
    BY <1>5 DEF RangeErc
  <2> QED
    BY <2>1, <2>2, <1>3
<1> QED
  BY <1>4, <1>5

\* A cluster of the FAT and the label of its sector.
LEMMA InRange ==
    ASSUME LabelsFit, NEW d \in Drive, NEW c \in Clstr, RangeErc(d, c) = "ok"
    PROVE  /\ c \in Nat /\ Sect(c) \in 0 .. Sects[d] - 1
           /\ First(c) % StartMod = PerSect * Sect(c)
           /\ PerSect * Sect(c) \in 0 .. StartMod - 1
<1>1. c \in Nat /\ Sects[d] \in Nat /\ StartMod \in Nat \ {0}
  BY FatCacheAssumption, SectsFacts
<1>2. Sect(c) \in Nat /\ First(c) = PerSect * Sect(c)
  BY <1>1, SectFacts
<1>3. Sect(c) < Sects[d]
  BY SectsFacts
<1>4. PerSect * Sect(c) \in Nat /\ PerSect * Sect(c) < PerSect * Sects[d] /\ PerSect * Sects[d] \in Nat
  BY <1>1, <1>2, <1>3, Multiples
<1>5. PerSect * Sect(c) < StartMod
  BY <1>1, <1>4 DEF LabelsFit
<1>6. ASSUME NEW m \in Nat, m < StartMod PROVE m % StartMod = m
  BY <1>1, <1>6
<1> QED
  BY <1>1, <1>2, <1>3, <1>4, <1>5, <1>6

\* A buffer is found by its label.
LEMMA HoldsBufferOf ==
    ASSUME LabelsFit, IInv, NEW d \in Drive, NEW c \in Clstr, RangeErc(d, c) = "ok", NEW j \in Buf
    PROVE  Holds(j, d, First(c)) <=> BufferOf(j, d, Sect(c))
<1>1. Labelled(j, Fat[j]) /\ Fat[j] \in Rec
  BY DEF IInv, Struct
<1>2. c \in Nat /\ Sect(c) \in Nat /\ First(c) = PerSect * Sect(c)
  BY InRange, SectFacts
<1>3. Fat[j].LBASect \in Nat
  BY <1>1 DEF Rec
<1>4. PerSect * Fat[j].LBASect = PerSect * Sect(c) <=> Fat[j].LBASect = Sect(c)
  BY <1>2, <1>3, Multiples
<1> QED
  BY <1>1, <1>2, <1>4 DEF Holds, BufferOf, Labelled

\* Oldest finds one of the buffers.
LEMMA OldestIn ==
    ASSUME IInv, NEW J, J \subseteq Buf, J # {}
    PROVE  Oldest(J) \in J
<1>1. J \subseteq Nat /\ \A j \in J : Fat[j].LastUsed \in Nat
  BY DEF IInv, Struct, Buf, Rec
<1> DEFINE T == {Fat[j].LastUsed : j \in J}
           O == {j \in J : \A k \in J : Fat[j].LastUsed <= Fat[k].LastUsed}
<1>2. T \subseteq Nat /\ T # {}
  BY <1>1
<1>3. PICK t \in T : \A y \in T : t <= y
  BY <1>2, NatMin
<1>4. O # {} /\ O \subseteq Nat
  <2>1. PICK j \in J : Fat[j].LastUsed = t
    BY <1>3
  <2>2. \A k \in J : Fat[j].LastUsed <= Fat[k].LastUsed
    BY <1>3, <2>1
  <2> QED
    BY <1>1, <2>2
<1>5. FirstOf(O) \in O
  BY <1>4, FirstOfIn
<1> QED
  BY <1>5 DEF Oldest

-----------------------------------------------------------------------------
(* What UpdateFAT and FindFatSect do. *)

\* UpdateFAT changes nothing but the sector of the buffer, which then has its
\* contents where it was written; the mark stays if no copy was written.
UpdateEffect(j, u) ==
    /\ u.fMod \in BOOLEAN
    /\ DiskOK(u.disk)
    /\ ~Fat[j].fMod => u.disk = disk /\ ~u.fMod
    /\ u.ok => ~u.fMod
    /\ Fat[j].fMod =>
          /\ \A d \in Drive : \A k \in Copies, s \in 0 .. Sects[d] - 1 :
                d # Fat[j].Drive \/ s # Fat[j].LBASect => u.disk[d][k][s] = disk[d][k][s]
          /\ ~u.fMod => u.disk[Fat[j].Drive][1][Fat[j].LBASect] = Fat[j].pBuf
          /\ "write" \notin system.faults =>
                /\ ~u.fMod
                /\ \A k \in Copies : u.disk[Fat[j].Drive][k][Fat[j].LBASect] = Fat[j].pBuf

\* UpdateFAT changes only the copies of its buffer's own sector, or nothing.
LEMMA UpdateFATEffect ==
    ASSUME IInv, NEW j \in Buf, NEW u \in UpdateFAT(disk, j)
    PROVE  UpdateEffect(j, u)
<1>1. Fat[j] \in Rec /\ Labelled(j, Fat[j]) /\ DiskOK(disk)
  BY DEF IInv, Struct
<1>2. CASE ~Fat[j].fMod
  <2>1. u = [disk |-> disk, fMod |-> FALSE, ok |-> TRUE]
    BY <1>2 DEF UpdateFAT
  <2>2. u.disk = disk /\ u.fMod = FALSE /\ u.ok = TRUE
    BY <2>1
  <2> QED
    BY <1>1, <1>2, <2>2 DEF UpdateEffect
<1>3. CASE Fat[j].fMod
  <2>1. PICK n \in Reached : u = [disk |-> Written(disk, j, n), fMod |-> n = 0, ok |-> n = nFATS]
    BY <1>3 DEF UpdateFAT
  <2>2. n \in 0 .. nFATS /\ nFATS \in Nat \ {0} /\ ("write" \notin system.faults => n = nFATS)
    BY FatCacheAssumption DEF Reached
  <2>0. PICK e \in Drive : e = Fat[j].Drive
    BY <1>1 DEF Rec
  <2>3. PICK t \in 0 .. Sects[e] - 1, p \in Data :
            e = Fat[j].Drive /\ t = Fat[j].LBASect /\ p = Fat[j].pBuf
    BY <1>1, <1>3, <2>0 DEF Rec, Labelled
  <2>4. u.disk = [disk EXCEPT ![e] =
                    [k \in Copies |-> IF k <= n THEN [disk[e][k] EXCEPT ![t] = p] ELSE disk[e][k]]]
    BY <1>1, <2>1, <2>3 DEF Written, DiskOK
  <2>5. \A d \in Drive : d # e => u.disk[d] = disk[d]
    BY <1>1, <2>4 DEF DiskOK
  <2>6. u.disk[e] = [k \in Copies |-> IF k <= n THEN [disk[e][k] EXCEPT ![t] = p] ELSE disk[e][k]]
    BY <1>1, <2>4 DEF DiskOK
  <2>7. disk[e] \in [Copies -> [0 .. Sects[e] - 1 -> Data]]
    BY <1>1 DEF DiskOK
  <2>8. u.disk[e] \in [Copies -> [0 .. Sects[e] - 1 -> Data]]
    BY <2>6, <2>7
  <2>9. DiskOK(u.disk)
    BY <1>1, <2>4, <2>5, <2>8 DEF DiskOK
  <2>10. \A k \in Copies, s \in 0 .. Sects[e] - 1 : s # t => u.disk[e][k][s] = disk[e][k][s]
    BY <2>6, <2>7
  <2>11. \A k \in Copies : k <= n => u.disk[e][k][t] = p
    BY <2>6, <2>7
  <2>12. 1 \in Copies /\ \A k \in Copies : k <= nFATS
    BY <2>2 DEF Copies
  <2>13. /\ u.fMod \in BOOLEAN /\ (u.fMod <=> n = 0) /\ (u.ok <=> n = nFATS)
    BY <2>1
  <2>14. /\ ~u.fMod => u.disk[e][1][t] = p
         /\ u.ok => ~u.fMod
    BY <2>2, <2>11, <2>12, <2>13
  <2>15. "write" \notin system.faults => ~u.fMod /\ \A k \in Copies : u.disk[e][k][t] = p
    BY <2>2, <2>11, <2>12, <2>13
  <2>16. \A d \in Drive : \A k \in Copies, s \in 0 .. Sects[d] - 1 :
            d # e \/ s # t => u.disk[d][k][s] = disk[d][k][s]
    BY <2>5, <2>10
  <2> HIDE DEF Copies
  <2> QED
    BY <1>3, <2>3, <2>9, <2>13, <2>14, <2>15, <2>16 DEF UpdateEffect
<1> QED
  BY <1>2, <1>3

\* The sector was in the buffer.
Hit(d, s, o) ==
    /\ BufferOf(o.buf, d, s)
    /\ o.disk = disk /\ o.erc = "ok"
    /\ \E t \in Nat \ {0} : o.rec = [Fat[o.buf] EXCEPT !.LastUsed = t]

\* The sector was in no buffer, and the write of what the buffer had has failed.
Stuck(d, s, o) ==
    /\ \A k \in Buf : ~BufferOf(k, d, s)
    /\ o.erc = "ErcDisk"
    /\ \E u \in UpdateFAT(disk, o.buf) :
        o.disk = u.disk /\ o.rec = [Fat[o.buf] EXCEPT !.fMod = u.fMod]

\* The sector was in no buffer, and the buffer is now for it; it has its contents if
\* they could be read.
Loaded(d, s, o) ==
    /\ \A k \in Buf : ~BufferOf(k, d, s)
    /\ o.erc \in {"ok", "ErcDisk"} /\ ("read" \notin system.faults => o.erc = "ok")
    /\ \E u \in UpdateFAT(disk, o.buf) :
        /\ ~u.fMod /\ o.disk = u.disk
        /\ o.rec = [LastUsed |-> Tick, LBASect |-> s, iClstrStart |-> PerSect * s, Drive |-> d,
                    fMod |-> FALSE,
                    pBuf |-> IF o.erc = "ok" THEN u.disk[d][1][s] ELSE Fat[o.buf].pBuf]

\* A buffer that is loaded again ends up stuck with its old label or loaded with the new one.
LEMMA LoadCases ==
    ASSUME LabelsFit, IInv, NEW d \in Drive, NEW c \in Clstr, RangeErc(d, c) = "ok",
           NEW j \in Buf, NEW o \in Load(j, d, c), \A k \in Buf : ~BufferOf(k, d, Sect(c))
    PROVE  o.buf = j /\ (Stuck(d, Sect(c), o) \/ Loaded(d, Sect(c), o))
<1>1. First(c) % StartMod = PerSect * Sect(c)
  BY InRange
<1>2. PICK u \in UpdateFAT(disk, j) :
        o \in IF ~u.ok
              THEN {[buf |-> j, disk |-> u.disk, erc |-> "ErcDisk",
                     rec |-> [Fat[j] EXCEPT !.fMod = u.fMod]]}
              ELSE {[buf |-> j, disk |-> u.disk, erc |-> IF ok THEN "ok" ELSE "ErcDisk",
                     rec |-> [LastUsed |-> Tick, LBASect |-> Sect(c),
                              iClstrStart |-> First(c) % StartMod, Drive |-> d, fMod |-> FALSE,
                              pBuf |-> IF ok THEN u.disk[d][1][Sect(c)] ELSE Fat[j].pBuf]] :
                    ok \in IF "read" \in system.faults THEN BOOLEAN ELSE {TRUE}}
  BY DEF Load
<1>3. UpdateEffect(j, u)
  BY UpdateFATEffect
<1>4. CASE ~u.ok
  BY <1>2, <1>4 DEF Stuck
<1>5. CASE u.ok
  <2>1. PICK ok \in (IF "read" \in system.faults THEN BOOLEAN ELSE {TRUE}) :
          o = [buf |-> j, disk |-> u.disk, erc |-> IF ok THEN "ok" ELSE "ErcDisk",
               rec |-> [LastUsed |-> Tick, LBASect |-> Sect(c),
                        iClstrStart |-> First(c) % StartMod, Drive |-> d, fMod |-> FALSE,
                        pBuf |-> IF ok THEN u.disk[d][1][Sect(c)] ELSE Fat[j].pBuf]]
    BY <1>2, <1>5
  <2>2. ok \in BOOLEAN /\ ("read" \notin system.faults => ok)
    OBVIOUS
  <2>3. o.erc = (IF ok THEN "ok" ELSE "ErcDisk") /\ (ok <=> o.erc = "ok")
    BY <2>1
  <2>4. ~u.fMod
    BY <1>3, <1>5 DEF UpdateEffect
  <2>5. /\ o.buf = j /\ o.disk = u.disk
        /\ o.rec = [LastUsed |-> Tick, LBASect |-> Sect(c),
                    iClstrStart |-> PerSect * Sect(c), Drive |-> d, fMod |-> FALSE,
                    pBuf |-> IF o.erc = "ok" THEN u.disk[d][1][Sect(c)] ELSE Fat[j].pBuf]
    BY <1>1, <2>1, <2>3
  <2> QED
    BY <2>2, <2>3, <2>4, <2>5 DEF Loaded
<1> QED
  BY <1>4, <1>5

\* FindFatSect finds the sector in a buffer, stays stuck, or loads it into the oldest one.
LEMMA FindCases ==
    ASSUME LabelsFit, IInv, NEW d \in Drive, NEW c \in Clstr, RangeErc(d, c) = "ok",
           NEW o \in FindFatSect(d, c)
    PROVE  /\ o.buf \in Buf /\ (o.buf = 0 <=> Kind[d] = "FAT12")
           /\ Hit(d, Sect(c), o) \/ Stuck(d, Sect(c), o) \/ Loaded(d, Sect(c), o)
<1>1. Tick \in Nat \ {0} /\ 0 \in Buf /\ Buf \ {0} # {} /\ Buf \subseteq Nat
  <2>1. 1 \in Buf \ {0} /\ 0 \in Buf
    BY FatCacheAssumption DEF Buf
  <2> QED
    BY <2>1 DEF IInv, Struct, Buf
<1>2. \A j \in Buf : Holds(j, d, First(c)) <=> BufferOf(j, d, Sect(c))
  BY HoldsBufferOf
<1>3. \A j \in Buf : BufferOf(j, d, Sect(c)) => (j = 0 <=> Kind[d] = "FAT12")
  BY DEF IInv, Struct, BufferOf, Labelled
<1>4. CASE Kind[d] = "FAT12"
  <2>1. o \in FindFloppy(d, c)
    BY <1>4 DEF FindFatSect
  <2>2. CASE Holds(0, d, First(c))
    <3>1. o = [buf |-> 0, disk |-> disk, erc |-> "ok", rec |-> Fat[0]]
      BY <2>1, <2>2 DEF FindFloppy
    <3>2. BufferOf(0, d, Sect(c)) /\ Fat[0] \in Rec
      BY <1>1, <1>2, <2>2 DEF IInv, Struct
    <3>3. Fat[0].LastUsed \in Nat \ {0} /\ Fat[0] = [Fat[0] EXCEPT !.LastUsed = Fat[0].LastUsed]
      BY <3>2 DEF BufferOf, Rec
    <3> QED
      BY <1>1, <1>4, <3>1, <3>2, <3>3 DEF Hit
  <2>3. CASE ~Holds(0, d, First(c))
    <3>1. o \in Load(0, d, c)
      BY <2>1, <2>3 DEF FindFloppy
    <3>2. \A k \in Buf : ~BufferOf(k, d, Sect(c))
      BY <1>1, <1>2, <1>3, <1>4, <2>3
    <3> QED
      BY <1>1, <1>4, <3>1, <3>2, LoadCases
  <2> QED
    BY <2>2, <2>3
<1>5. CASE Kind[d] # "FAT12"
  <2> DEFINE J == Buf \ {0}
             found == Found(J, d, First(c))
  <2>1. o \in FindHard(d, c)
    BY <1>5 DEF FindFatSect
  <2>2. CASE found # {}
    <3>1. FirstOf(found) \in found
      BY <1>1, <2>2, FirstOfIn DEF Found
    <3>2. PICK j \in J : j = FirstOf(found) /\ Holds(j, d, First(c))
      BY <3>1 DEF Found
    <3>3. o = [buf |-> j, disk |-> disk, erc |-> "ok", rec |-> [Fat[j] EXCEPT !.LastUsed = Tick]]
      BY <2>1, <2>2, <3>2 DEF FindHard
    <3> QED
      BY <1>1, <1>2, <1>5, <3>2, <3>3 DEF Hit
  <2>3. CASE found = {}
    <3>1. o \in Load(Oldest(J), d, c)
      BY <2>1, <2>3 DEF FindHard
    <3>2. Oldest(J) \in J
      BY <1>1, OldestIn
    <3>3. \A k \in Buf : ~BufferOf(k, d, Sect(c))
      BY <1>2, <1>3, <1>5, <2>3 DEF Found
    <3> QED
      BY <1>5, <3>1, <3>2, <3>3, LoadCases
  <2> QED
    BY <2>2, <2>3
<1> QED
  BY <1>4, <1>5
-----------------------------------------------------------------------------
(* No sector is in two buffers. *)

\* A buffer may be replaced by one for a sector that no other buffer has.
LEMMA Replace ==
    ASSUME NEW F, Struct(F), NEW j \in Buf, NEW r \in Rec, Labelled(j, r),
           r.LastUsed > 0 => \A k \in Buf \ {j} : ~At(F, k, r.Drive, r.LBASect)
    PROVE  Struct([F EXCEPT ![j] = r])
<1> DEFINE G == [F EXCEPT ![j] = r]
<1>1. G \in [Buf -> Rec] /\ G[j] = r /\ \A k \in Buf \ {j} : G[k] = F[k]
  BY DEF Struct
<1>2. \A k \in Buf : Labelled(k, G[k])
  BY <1>1 DEF Struct
<1>3. ASSUME NEW k \in Buf, NEW l \in Buf, G[k].LastUsed > 0,
             At(G, l, G[k].Drive, G[k].LBASect)
      PROVE  k = l
  <2>1. CASE k # j /\ l # j
    BY <1>1, <1>3, <2>1 DEF Struct, At
  <2>2. CASE k = j /\ l # j
    BY <1>1, <1>3, <2>2 DEF At
  <2>3. CASE k # j /\ l = j
    BY <1>1, <1>3, <2>3 DEF At
  <2> QED
    BY <2>1, <2>2, <2>3
<1> HIDE DEF G
<1>4. Struct(G)
  BY <1>1, <1>2, <1>3 DEF Struct
<1> QED
  BY <1>4 DEF G

\* What FindFatSect does to its buffer: it is one for drives of this kind, and when
\* the call succeeds it is the buffer for the cluster.
FindEffect(d, c, o) ==
    /\ o.buf \in Buf /\ o.rec \in Rec /\ Labelled(o.buf, o.rec) /\ DiskOK(o.disk)
    /\ o.rec.LastUsed > 0 => \A k \in Buf \ {o.buf} : ~At(Fat, k, o.rec.Drive, o.rec.LBASect)
    /\ o.erc \in {"ok", "ErcDisk"}
    /\ o.erc = "ok" =>
          /\ o.rec.LastUsed > 0 /\ o.rec.Drive = d /\ o.rec.LBASect = Sect(c)
          /\ Offset(o.rec, c) = c % PerSect

\* What FindFatSect leaves in the buffers, on the disk and in the buffer it answers with.
LEMMA FindFatSectEffect ==
    ASSUME LabelsFit, IInv, NEW d \in Drive, NEW c \in Clstr, RangeErc(d, c) = "ok",
           NEW o \in FindFatSect(d, c)
    PROVE  FindEffect(d, c, o)
<1>1. /\ o.buf \in Buf /\ (o.buf = 0 <=> Kind[d] = "FAT12")
      /\ Hit(d, Sect(c), o) \/ Stuck(d, Sect(c), o) \/ Loaded(d, Sect(c), o)
  BY FindCases
<1>2. PICK b \in Buf : b = o.buf
  BY <1>1
<1>3. Fat[b] \in Rec /\ Labelled(b, Fat[b]) /\ DiskOK(disk)
  BY DEF IInv, Struct
<1>4. /\ c \in Nat /\ Sect(c) \in 0 .. Sects[d] - 1 /\ Sect(c) \in Nat
      /\ PerSect * Sect(c) \in 0 .. StartMod - 1
      /\ c - PerSect * Sect(c) = c % PerSect
  BY InRange, SectFacts
<1>5. Fat[b].LastUsed > 0 => \A k \in Buf \ {b} : ~At(Fat, k, Fat[b].Drive, Fat[b].LBASect)
  BY DEF IInv, Struct
<1>6. CASE Hit(d, Sect(c), o)
  <2>1. PICK t \in Nat \ {0} : o.rec = [Fat[b] EXCEPT !.LastUsed = t]
    BY <1>2, <1>6 DEF Hit
  <2>2. /\ o.rec \in Rec /\ o.rec.LastUsed > 0 /\ o.rec.Drive = Fat[b].Drive
        /\ o.rec.LBASect = Fat[b].LBASect /\ o.rec.iClstrStart = Fat[b].iClstrStart
        /\ o.rec.fMod = Fat[b].fMod
    BY <1>3, <2>1 DEF Rec
  <2>3. Fat[b].LastUsed > 0 /\ Fat[b].Drive = d /\ Fat[b].LBASect = Sect(c)
    BY <1>2, <1>6 DEF Hit, BufferOf
  <2>4. Labelled(b, o.rec)
    BY <1>3, <2>2, <2>3 DEF Labelled
  <2>5. Offset(o.rec, c) = c % PerSect
    BY <1>3, <1>4, <2>2, <2>3 DEF Labelled, Offset
  <2>6. o.erc = "ok" /\ o.disk = disk
    BY <1>6 DEF Hit
  <2> QED
    BY <1>2, <1>3, <1>5, <2>2, <2>3, <2>4, <2>5, <2>6 DEF FindEffect
<1>7. CASE Stuck(d, Sect(c), o)
  <2>1. PICK u \in UpdateFAT(disk, b) : o.disk = u.disk /\ o.rec = [Fat[b] EXCEPT !.fMod = u.fMod]
    BY <1>2, <1>7 DEF Stuck
  <2>2. UpdateEffect(b, u)
    BY UpdateFATEffect
  <2>3. u.fMod \in BOOLEAN /\ DiskOK(u.disk) /\ (u.fMod => Fat[b].fMod)
    BY <2>2 DEF UpdateEffect
  <2>4. /\ o.rec \in Rec /\ o.rec.LastUsed = Fat[b].LastUsed /\ o.rec.Drive = Fat[b].Drive
        /\ o.rec.LBASect = Fat[b].LBASect /\ o.rec.iClstrStart = Fat[b].iClstrStart
        /\ o.rec.fMod = u.fMod
    BY <1>3, <2>1, <2>3 DEF Rec
  <2>5. Labelled(b, o.rec)
    BY <1>3, <2>3, <2>4 DEF Labelled
  <2>6. o.erc = "ErcDisk" /\ DiskOK(o.disk)
    BY <1>7, <2>1, <2>3 DEF Stuck
  <2> QED
    BY <1>2, <1>5, <2>4, <2>5, <2>6 DEF FindEffect
<1>8. CASE Loaded(d, Sect(c), o)
  <2>1. PICK u \in UpdateFAT(disk, b) :
            /\ ~u.fMod /\ o.disk = u.disk
            /\ o.rec = [LastUsed |-> Tick, LBASect |-> Sect(c), iClstrStart |-> PerSect * Sect(c),
                        Drive |-> d, fMod |-> FALSE,
                        pBuf |-> IF o.erc = "ok" THEN u.disk[d][1][Sect(c)] ELSE Fat[b].pBuf]
    BY <1>2, <1>8 DEF Loaded
  <2>2. UpdateEffect(b, u)
    BY UpdateFATEffect
  <2>3. DiskOK(u.disk)
    BY <2>2 DEF UpdateEffect
  <2>4. u.disk[d][1][Sect(c)] \in Data /\ Fat[b].pBuf \in Data
    <3>1. 1 \in Copies
      BY FatCacheAssumption DEF Copies
    <3>2. u.disk[d] \in [Copies -> [0 .. Sects[d] - 1 -> Data]]
      BY <2>3 DEF DiskOK
    <3> QED
      BY <1>3, <1>4, <3>1, <3>2 DEF Rec
  <2>5. Tick \in Nat /\ Tick > 0
    BY DEF IInv
  <2>6. o.rec \in Rec
    BY <1>4, <2>1, <2>4, <2>5 DEF Rec
  <2>7. /\ o.rec.LastUsed > 0 /\ o.rec.Drive = d /\ o.rec.LBASect = Sect(c)
        /\ o.rec.iClstrStart = PerSect * Sect(c) /\ o.rec.fMod = FALSE
    BY <2>1, <2>5
  <2>8. Labelled(b, o.rec)
    BY <1>1, <1>2, <1>4, <2>7 DEF Labelled
  <2>9. \A k \in Buf : ~At(Fat, k, d, Sect(c))
    BY <1>8 DEF Loaded, BufferOf, At
  <2>10. Offset(o.rec, c) = c % PerSect
    BY <1>4, <2>7 DEF Offset
  <2>11. o.erc \in {"ok", "ErcDisk"}
    BY <1>8 DEF Loaded
  <2> QED
    BY <1>2, <2>1, <2>3, <2>6, <2>7, <2>8, <2>9, <2>10, <2>11 DEF FindEffect
<1> QED
  BY <1>1, <1>6, <1>7, <1>8

\* The invariant holds at first: no buffer was used.
LEMMA InitIInv == ASSUME TicksFit, Init PROVE IInv
<1>1. PICK e \in Drive : e = CHOOSE d \in Drive : TRUE
  BY FatCacheAssumption
<1>2. Zero \in Data /\ 0 \in 0 .. StartMod - 1
  BY FatCacheAssumption DEF Zero, Data
<1>3. Unused \in Rec /\ Unused.LastUsed = 0 /\ Unused.fMod = FALSE
  BY <1>1, <1>2 DEF Unused, Rec
<1>4. Fat \in [Buf -> Rec] /\ \A j \in Buf : Fat[j] = Unused
  BY <1>3 DEF Init
<1>5. \A j \in Buf : ~(Fat[j].LastUsed > 0) /\ ~Fat[j].fMod
  BY <1>3, <1>4
<1>6. Struct(Fat)
  BY <1>4, <1>5 DEF Struct, Labelled
<1>7. DiskOK(disk)
  BY <1>2 DEF Init, DiskOK
<1> QED
  BY <1>6, <1>7 DEF Init, IInv, TicksFit

\* A buffer with an entry set.
Entered(r, i, v) == [r EXCEPT !.pBuf[i] = v, !.fMod = TRUE]

\* A buffer with an entry set keeps its label and counts as changed.
LEMMA EnteredRec ==
    ASSUME NEW j \in Buf, NEW r \in Rec, NEW i \in 0 .. PerSect - 1, NEW v \in Val,
           Labelled(j, r), r.LastUsed > 0
    PROVE  /\ Entered(r, i, v) \in Rec /\ Labelled(j, Entered(r, i, v))
           /\ Entered(r, i, v).LastUsed > 0
           /\ Entered(r, i, v).Drive = r.Drive
           /\ Entered(r, i, v).LBASect = r.LBASect
           /\ Entered(r, i, v).fMod
<1> DEFINE p == [r.pBuf EXCEPT ![i] = v]
           q == [r EXCEPT !.pBuf[i] = v, !.fMod = TRUE]
<1>1. r.pBuf \in Data /\ p \in Data
  BY DEF Rec, Data
<1>2. /\ q \in Rec /\ q.LastUsed = r.LastUsed /\ q.Drive = r.Drive /\ q.LBASect = r.LBASect
      /\ q.iClstrStart = r.iClstrStart /\ q.pBuf = p /\ q.fMod = TRUE
  BY <1>1 DEF Rec
<1>3. Labelled(j, q)
  BY <1>2 DEF Labelled
<1> QED
  BY <1>2, <1>3 DEF Entered

\* Setting an entry changes that entry of the buffer only.
LEMMA EnteredBuf ==
    ASSUME NEW r \in Rec, NEW i \in 0 .. PerSect - 1, NEW v \in Val
    PROVE  Entered(r, i, v).pBuf = [r.pBuf EXCEPT ![i] = v]
BY DEF Entered, Rec

\* Every step keeps the invariant.
LEMMA NextIInv == ASSUME LabelsFit, TicksFit, IInv, [Next]_vars PROVE IInv'
<1>1. CASE UNCHANGED vars
  BY <1>1 DEF vars, IInv
<1>2. CASE TimerTick
  <2>1. Tick' \in 1 .. MaxTick
    <3>1. Tick \in Nat /\ Tick >= 1 /\ Tick < MaxTick /\ MaxTick \in Nat /\ TickMod \in Nat \ {0}
      BY <1>2, FatCacheAssumption DEF TimerTick, IInv
    <3>2. Tick + 1 < TickMod
      BY <3>1 DEF TicksFit
    <3>3. (Tick + 1) % TickMod = Tick + 1
      BY <3>1, <3>2
    <3> QED
      BY <1>2, <3>1, <3>3 DEF TimerTick
  <2> QED
    BY <1>2, <2>1 DEF TimerTick, IInv
<1>3. ASSUME NEW j \in Buf, Flush(j) PROVE IInv'
  <2>1. PICK u \in UpdateFAT(disk, j) :
            disk' = u.disk /\ Fat' = [Fat EXCEPT ![j].fMod = u.fMod]
    BY <1>3 DEF Flush
  <2>2. UpdateEffect(j, u)
    BY UpdateFATEffect
  <2>3. u.fMod \in BOOLEAN /\ DiskOK(u.disk) /\ (u.fMod => Fat[j].fMod)
    BY <2>2 DEF UpdateEffect
  <2> DEFINE r == [Fat[j] EXCEPT !.fMod = u.fMod]
  <2>4. Fat[j] \in Rec /\ Labelled(j, Fat[j])
    BY DEF IInv, Struct
  <2>5. /\ r \in Rec /\ r.LastUsed = Fat[j].LastUsed /\ r.Drive = Fat[j].Drive
        /\ r.LBASect = Fat[j].LBASect /\ r.iClstrStart = Fat[j].iClstrStart /\ r.fMod = u.fMod
    BY <2>3, <2>4 DEF Rec
  <2>6. Labelled(j, r)
    BY <2>3, <2>4, <2>5 DEF Labelled
  <2>7. r.LastUsed > 0 => \A k \in Buf \ {j} : ~At(Fat, k, r.Drive, r.LBASect)
    BY <2>5 DEF IInv, Struct
  <2>8. Fat' = [Fat EXCEPT ![j] = r]
    BY <2>1
  <2> HIDE DEF r
  <2>9. Struct(Fat')
    BY <2>5, <2>6, <2>7, <2>8, Replace DEF IInv
  <2> QED
    BY <1>3, <2>1, <2>3, <2>9 DEF IInv, Flush
<1>4. ASSUME NEW d \in Drive, NEW c \in Clstr, OutOfRange(d, c) PROVE IInv'
  BY <1>4 DEF OutOfRange, IInv
<1>5. ASSUME NEW d \in Drive, NEW c \in Clstr, GetClstrValue(d, c) PROVE IInv'
  <2>1. PICK o \in FindFatSect(d, c) : Fat' = [Fat EXCEPT ![o.buf] = o.rec] /\ disk' = o.disk
    BY <1>5 DEF GetClstrValue
  <2>2. FindEffect(d, c, o)
    BY <1>5, FindFatSectEffect DEF GetClstrValue
  <2>3. Struct(Fat')
    BY <2>1, <2>2, Replace DEF FindEffect, IInv
  <2> QED
    BY <1>5, <2>1, <2>2, <2>3 DEF GetClstrValue, FindEffect, IInv
<1>6. ASSUME NEW d \in Drive, NEW c \in Clstr, NEW v \in Val, SetClstrValue(d, c, v) PROVE IInv'
  <2>1. PICK o \in FindFatSect(d, c) :
            /\ IF o.erc = "ok"
               THEN /\ Offset(o.rec, c) < PerSect
                    /\ Fat' = [Fat EXCEPT ![o.buf] =
                                [o.rec EXCEPT !.pBuf[Offset(o.rec, c)] = v, !.fMod = TRUE]]
               ELSE Fat' = [Fat EXCEPT ![o.buf] = o.rec]
            /\ disk' = o.disk
    BY <1>6 DEF SetClstrValue
  <2>2. FindEffect(d, c, o)
    BY <1>6, FindFatSectEffect DEF SetClstrValue
  <2>3. Struct(Fat')
    <3>1. CASE o.erc # "ok"
      BY <2>1, <2>2, <3>1, Replace DEF FindEffect, IInv
    <3>2. CASE o.erc = "ok"
      <4>1. PICK i \in 0 .. PerSect - 1 : i = c % PerSect
        BY SectFacts, FatCacheAssumption
      <4>2. PICK b \in Buf, r \in Rec : b = o.buf /\ r = o.rec
        BY <2>2 DEF FindEffect
      <4>3. Labelled(b, r) /\ r.LastUsed > 0 /\ Offset(r, c) = i
        BY <2>2, <3>2, <4>1, <4>2 DEF FindEffect
      <4> DEFINE q == Entered(r, i, v)
      <4>4. /\ q \in Rec /\ Labelled(b, q)
            /\ q.LastUsed > 0 /\ q.Drive = r.Drive /\ q.LBASect = r.LBASect
        BY <4>3, EnteredRec
      <4>5. Fat' = [Fat EXCEPT ![b] = q]
        BY <2>1, <3>2, <4>1, <4>2, <4>3 DEF Entered
      <4> HIDE DEF q
      <4>6. q.LastUsed > 0 => \A k \in Buf \ {b} : ~At(Fat, k, q.Drive, q.LBASect)
        BY <2>2, <4>2, <4>3, <4>4 DEF FindEffect
      <4> QED
        BY <4>4, <4>5, <4>6, Replace DEF IInv
    <3> QED
      BY <3>1, <3>2
  <2> QED
    BY <1>6, <2>1, <2>2, <2>3 DEF SetClstrValue, FindEffect, IInv
<1>7. system.drives \subseteq Drive
  BY FatCacheAssumption DEF IInv
<1> QED
  BY <1>1, <1>2, <1>3, <1>4, <1>5, <1>6, <1>7 DEF Next

\* A modified buffer was used.
LEMMA OneCopyHolds == ASSUME IInv PROVE OneCopy
<1>1. \A j \in Buf : Fat[j].fMod => Fat[j].LastUsed > 0
  BY DEF IInv, Struct, Labelled
<1> QED
  BY <1>1 DEF OneCopy, IInv, Struct, At

\* "We never want to have more than one copy of a FAT sector in memory": for any
\* drives, buffers and transfers that fail, as long as the first cluster of every
\* sector fits into the label of a buffer and the tick count does not wrap.
THEOREM NeverTwoCopies == ASSUME LabelsFit, TicksFit PROVE Spec => []OneCopy
<1>1. Init => IInv
  BY InitIInv
<1>2. IInv /\ [Next]_vars => IInv'
  BY NextIInv
<1>3. IInv => OneCopy
  BY OneCopyHolds
<1> QED
  BY <1>1, <1>2, <1>3, PTL DEF Spec

-----------------------------------------------------------------------------
(* What is on disk, and what the buffers and the disk stand for. *)

\* CleanIsOnDisk, of buffers F and disk dk.
Clean(F, dk) ==
    \A d \in Drive, j \in Buf : \A s \in 0 .. Sects[d] - 1 :
        At(F, j, d, s) /\ ~F[j].fMod => F[j].pBuf = dk[d][1][s]

\* CopiesAgree, of buffers F and disk dk.
Agree(F, dk) ==
    "write" \notin system.faults => \A d \in Drive : \A s \in 0 .. Sects[d] - 1 :
        (\A j \in Buf : At(F, j, d, s) => ~F[j].fMod)
            => \A k \in Copies : dk[d][k][s] = dk[d][1][s]

Good(F, dk) == Struct(F) /\ Clean(F, dk) /\ Agree(F, dk)

\* The contents p of sector s of drive d: those of its buffer, or else of the disk.
Shows(F, dk, d, s, p) ==
    /\ \A j \in Buf : At(F, j, d, s) => F[j].pBuf = p
    /\ (\A j \in Buf : ~At(F, j, d, s)) => dk[d][1][s] = p

\* Going from buffers F and disk dk to G and gk changes the contents of no sector.
Keeps(F, dk, G, gk) ==
    /\ Good(G, gk)
    /\ \A d \in Drive, p \in Data : \A s \in 0 .. Sects[d] - 1 :
            Shows(F, dk, d, s, p) => Shows(G, gk, d, s, p)

\* Two records of buffers for one sector, with one contents.
Same(r, q) ==
    /\ r.LastUsed > 0 <=> q.LastUsed > 0
    /\ r.Drive = q.Drive /\ r.LBASect = q.LBASect /\ r.pBuf = q.pBuf

\* A buffer replaced by one that is the same.
LEMMA SameAt ==
    ASSUME NEW F, F \in [Buf -> Rec], NEW j \in Buf, NEW r \in Rec, Same(r, F[j]),
           NEW G, G = [F EXCEPT ![j] = r]
    PROVE  /\ \A k \in Buf : Same(G[k], F[k])
           /\ G[j] = r /\ \A k \in Buf \ {j} : G[k] = F[k]
<1>1. G[j] = r /\ \A k \in Buf \ {j} : G[k] = F[k]
  OBVIOUS
<1>2. \A k \in Buf \ {j} : Same(G[k], F[k])
  BY <1>1 DEF Same
<1> QED
  BY <1>1, <1>2

\* A buffer that changes but keeps its label leaves no sector in two buffers.
LEMMA SameStruct ==
    ASSUME NEW F, Struct(F), NEW j \in Buf, NEW r \in Rec, Same(r, F[j]), Labelled(j, r),
           NEW G, G = [F EXCEPT ![j] = r]
    PROVE  Struct(G)
<1>1. r.LastUsed > 0 => \A k \in Buf \ {j} : ~At(F, k, r.Drive, r.LBASect)
  BY DEF Struct, Same, At
<1> QED
  BY <1>1, Replace

\* UpdateFAT changes what the disk has, and the mark of the buffer, and with that
\* nothing that the file system sees.
LEMMA WriteKeeps ==
    ASSUME IInv, Good(Fat, disk), NEW j \in Buf, NEW u \in UpdateFAT(disk, j),
           NEW r \in Rec, Same(r, Fat[j]), Labelled(j, r), r.fMod = u.fMod,
           NEW G, G = [Fat EXCEPT ![j] = r]
    PROVE  Keeps(Fat, disk, G, u.disk)
<1>1. UpdateEffect(j, u)
  BY UpdateFATEffect
<1>2. Struct(G)
  BY SameStruct DEF Good
<1>3. /\ \A k \in Buf : \A d, s : At(G, k, d, s) <=> At(Fat, k, d, s)
      /\ \A k \in Buf : G[k].pBuf = Fat[k].pBuf
      /\ G[j] = r /\ \A k \in Buf \ {j} : G[k] = Fat[k]
  <2>1. /\ \A k \in Buf : Same(G[k], Fat[k])
        /\ G[j] = r /\ \A k \in Buf \ {j} : G[k] = Fat[k]
    BY SameAt DEF Good, Struct
  <2> QED
    BY <2>1 DEF Same, At
<1>4. Labelled(j, Fat[j])
  BY DEF IInv, Struct
\* Other sectors of the disk are as they were.
<1>5. ASSUME NEW d \in Drive, NEW s \in 0 .. Sects[d] - 1, NEW k \in Copies,
             u.disk[d][k][s] # disk[d][k][s]
      PROVE  Fat[j].fMod /\ At(Fat, j, d, s)
  BY <1>1, <1>4, <1>5 DEF UpdateEffect, Labelled, At
<1>6. 1 \in Copies
  BY FatCacheAssumption DEF Copies
<1>7. Clean(G, u.disk)
  <2> SUFFICES ASSUME NEW d \in Drive, NEW k \in Buf, NEW s \in 0 .. Sects[d] - 1,
                      At(G, k, d, s), ~G[k].fMod
               PROVE  G[k].pBuf = u.disk[d][1][s]
    BY DEF Clean
  <2>1. At(Fat, k, d, s)
    BY <1>3
  <2>2. CASE k = j /\ Fat[j].fMod
    BY <1>1, <1>3, <2>1, <2>2 DEF UpdateEffect, At
  <2>3. CASE k = j /\ ~Fat[j].fMod
    BY <1>1, <1>3, <2>1, <2>3 DEF UpdateEffect, Good, Clean
  <2>4. CASE k # j
    <3>1. ~At(Fat, j, d, s)
      BY <2>1, <2>4 DEF Good, Struct, At
    <3>2. u.disk[d][1][s] = disk[d][1][s]
      BY <1>5, <1>6, <3>1
    <3> QED
      BY <1>3, <2>1, <2>4, <3>2 DEF Good, Clean
  <2> QED
    BY <2>2, <2>3, <2>4
<1>8. Agree(G, u.disk)
  <2> SUFFICES ASSUME "write" \notin system.faults,
                      NEW d \in Drive, NEW s \in 0 .. Sects[d] - 1,
                      \A k \in Buf : At(G, k, d, s) => ~G[k].fMod, NEW k \in Copies
               PROVE  u.disk[d][k][s] = u.disk[d][1][s]
    BY DEF Agree
  <2>1. CASE Fat[j].fMod /\ At(Fat, j, d, s)
    BY <1>1, <1>6, <2>1 DEF UpdateEffect, At
  <2>2. CASE ~(Fat[j].fMod /\ At(Fat, j, d, s))
    <3>1. u.disk[d][k][s] = disk[d][k][s] /\ u.disk[d][1][s] = disk[d][1][s]
      BY <1>5, <1>6, <2>2
    <3>2. \A l \in Buf : At(Fat, l, d, s) => ~Fat[l].fMod
      BY <1>3, <2>2
    <3> QED
      BY <3>1, <3>2 DEF Good, Agree
  <2> QED
    BY <2>1, <2>2
<1>9. ASSUME NEW d \in Drive, NEW p \in Data, NEW s \in 0 .. Sects[d] - 1,
             Shows(Fat, disk, d, s, p)
      PROVE  Shows(G, u.disk, d, s, p)
  <2>1. \A k \in Buf : At(G, k, d, s) => G[k].pBuf = p
    BY <1>3, <1>9 DEF Shows
  <2>2. ASSUME \A k \in Buf : ~At(G, k, d, s) PROVE u.disk[d][1][s] = p
    <3>1. \A k \in Buf : ~At(Fat, k, d, s)
      BY <1>3, <2>2
    <3>2. u.disk[d][1][s] = disk[d][1][s]
      BY <1>5, <1>6, <3>1
    <3> QED
      BY <1>9, <3>1, <3>2 DEF Shows
  <2> QED
    BY <2>1, <2>2 DEF Shows
<1> QED
  BY <1>2, <1>7, <1>8, <1>9 DEF Keeps, Good

\* A buffer that was found is used.
LEMMA TouchKeeps ==
    ASSUME NEW F, NEW dk, Good(F, dk), NEW j \in Buf,
           NEW r \in Rec, Same(r, F[j]), Labelled(j, r), r.fMod = F[j].fMod,
           NEW G, G = [F EXCEPT ![j] = r]
    PROVE  Keeps(F, dk, G, dk)
<1>1. Struct(G)
  BY SameStruct DEF Good
<1>2. /\ \A k \in Buf : \A d, s : At(G, k, d, s) <=> At(F, k, d, s)
      /\ \A k \in Buf : G[k].pBuf = F[k].pBuf
      /\ G[j] = r /\ \A k \in Buf \ {j} : G[k] = F[k]
  <2>1. /\ \A k \in Buf : Same(G[k], F[k])
        /\ G[j] = r /\ \A k \in Buf \ {j} : G[k] = F[k]
    BY SameAt DEF Good, Struct
  <2> QED
    BY <2>1 DEF Same, At
<1>3. \A k \in Buf : G[k].fMod = F[k].fMod
  BY <1>2
<1>4. Clean(G, dk)
  BY <1>2, <1>3 DEF Good, Clean
<1>6. Agree(G, dk)
  <2>1. ASSUME NEW d \in Drive, NEW s \in 0 .. Sects[d] - 1,
               \A k \in Buf : At(G, k, d, s) => ~G[k].fMod
        PROVE  \A k \in Buf : At(F, k, d, s) => ~F[k].fMod
    BY <1>2, <1>3, <2>1
  <2> QED
    BY <2>1 DEF Good, Agree
<1>5. ASSUME NEW d, NEW s, NEW p, Shows(F, dk, d, s, p) PROVE Shows(G, dk, d, s, p)
  BY <1>2, <1>5 DEF Shows
<1> QED
  BY <1>1, <1>4, <1>5, <1>6 DEF Keeps, Good

\* Buffer j, filled with sector s of drive d.
Filled(r, j, dk, d, s) ==
    /\ r \in Rec /\ Labelled(j, r) /\ ~r.fMod
    /\ r.LastUsed > 0 /\ r.Drive = d /\ r.LBASect = s /\ r.pBuf = dk[d][1][s]

\* A buffer that has nothing to write is filled with a sector that no buffer has.
LEMMA FillKeeps ==
    ASSUME NEW F, NEW dk, Good(F, dk), NEW j \in Buf, ~F[j].fMod,
           NEW d \in Drive, NEW s \in 0 .. Sects[d] - 1, \A k \in Buf : ~At(F, k, d, s),
           NEW r, Filled(r, j, dk, d, s), NEW G, G = [F EXCEPT ![j] = r]
    PROVE  Keeps(F, dk, G, dk)
<1>0. /\ r \in Rec /\ Labelled(j, r) /\ ~r.fMod
      /\ r.LastUsed > 0 /\ r.Drive = d /\ r.LBASect = s /\ r.pBuf = dk[d][1][s]
  BY DEF Filled
<1>1. Struct(G)
  BY <1>0, Replace DEF Good
<1>2. F \in [Buf -> Rec]
  BY DEF Good, Struct
<1>3. G[j] = r /\ \A k \in Buf \ {j} : G[k] = F[k]
  BY <1>2
<1>4. \A k \in Buf \ {j} : \A e, t : At(G, k, e, t) <=> At(F, k, e, t)
  BY <1>3 DEF At
<1>5. \A e, t : At(G, j, e, t) <=> e = d /\ t = s
  BY <1>0, <1>3 DEF At
<1>6. Clean(G, dk)
  <2> SUFFICES ASSUME NEW e \in Drive, NEW k \in Buf, NEW t \in 0 .. Sects[e] - 1,
                      At(G, k, e, t), ~G[k].fMod
               PROVE  G[k].pBuf = dk[e][1][t]
    BY DEF Clean
  <2>1. CASE k = j
    BY <1>0, <1>3, <1>5, <2>1
  <2>2. CASE k # j
    <3>1. At(F, k, e, t) /\ ~F[k].fMod /\ G[k] = F[k]
      BY <1>3, <1>4, <2>2
    <3> QED
      BY <3>1 DEF Good, Clean
  <2> QED
    BY <2>1, <2>2
<1>7. Agree(G, dk)
  <2> SUFFICES ASSUME "write" \notin system.faults,
                      NEW e \in Drive, NEW t \in 0 .. Sects[e] - 1,
                      \A k \in Buf : At(G, k, e, t) => ~G[k].fMod
               PROVE  \A k \in Copies : dk[e][k][t] = dk[e][1][t]
    BY DEF Agree
  <2>1. \A k \in Buf : At(F, k, e, t) => ~F[k].fMod
    BY <1>3, <1>4
  <2> QED
    BY <2>1 DEF Good, Agree
<1>8. ASSUME NEW e \in Drive, NEW p \in Data, NEW t \in 0 .. Sects[e] - 1,
             Shows(F, dk, e, t, p)
      PROVE  Shows(G, dk, e, t, p)
  <2>1. CASE e = d /\ t = s
    BY <1>0, <1>3, <1>4, <1>8, <2>1 DEF Shows
  <2>2. CASE ~(e = d /\ t = s)
    <3>1. ~At(G, j, e, t)
      BY <1>5, <2>2
    <3>2. \A k \in Buf : At(G, k, e, t) => G[k].pBuf = p
      BY <1>3, <1>4, <1>8, <3>1 DEF Shows
    <3>3. ASSUME \A k \in Buf : ~At(G, k, e, t) PROVE dk[e][1][t] = p
      <4>1. CASE At(F, j, e, t)
        BY <1>8, <4>1 DEF Shows, Good, Clean
      <4>2. CASE ~At(F, j, e, t)
        BY <1>4, <1>8, <3>3, <4>2 DEF Shows
      <4> QED
        BY <4>1, <4>2
    <3> QED
      BY <3>2, <3>3 DEF Shows
  <2> QED
    BY <2>1, <2>2
<1> QED
  BY <1>1, <1>6, <1>7, <1>8 DEF Keeps, Good

\* From buffers F to G the contents of sector s of drive d have entry i set to v,
\* and nothing else changes.
SetsEntry(F, G, dk, d, s, i, v) ==
    /\ \A e \in Drive, p \in Data : \A t \in 0 .. Sects[e] - 1 :
            (e # d \/ t # s) /\ Shows(F, dk, e, t, p) => Shows(G, dk, e, t, p)
    /\ \A p \in Data : Shows(F, dk, d, s, p) => Shows(G, dk, d, s, [p EXCEPT ![i] = v])

\* A buffer has an entry set: the contents of its sector have it set, and the
\* contents of no other sector change.
LEMMA SetKeeps ==
    ASSUME NEW F, NEW dk, Good(F, dk), NEW j \in Buf, NEW d \in Drive,
           NEW s \in 0 .. Sects[d] - 1, At(F, j, d, s),
           NEW i \in 0 .. PerSect - 1, NEW v \in Val,
           NEW G, G = [F EXCEPT ![j] = Entered(F[j], i, v)]
    PROVE  Good(G, dk) /\ SetsEntry(F, G, dk, d, s, i, v)
<1>0. PICK r \in Rec : r = F[j]
  BY DEF Good, Struct
<1> DEFINE q == Entered(r, i, v)
<1>1. F \in [Buf -> Rec] /\ F[j] = r /\ Labelled(j, r) /\ r.LastUsed > 0
  BY <1>0 DEF Good, Struct, At
<1>2. /\ q \in Rec /\ Labelled(j, q) /\ q.LastUsed > 0
      /\ q.Drive = r.Drive /\ q.LBASect = r.LBASect /\ q.fMod
  BY <1>1, EnteredRec
<1>3. q.pBuf = [r.pBuf EXCEPT ![i] = v]
  BY EnteredBuf
<1> HIDE DEF q
<1>4. G = [F EXCEPT ![j] = q]
  BY <1>1 DEF q
<1>5. G[j] = q /\ \A k \in Buf \ {j} : G[k] = F[k]
  BY <1>1, <1>4
<1>6. \A k \in Buf : \A e, t : At(G, k, e, t) <=> At(F, k, e, t)
  <2>1. \A e, t : At(G, j, e, t) <=> At(F, j, e, t)
    BY <1>1, <1>2, <1>5 DEF At
  <2> QED
    BY <1>5, <2>1 DEF At
<1>7. \A e, t : At(F, j, e, t) <=> e = d /\ t = s
  BY DEF At
<1>8. Struct(G)
  <2>1. q.LastUsed > 0 => \A k \in Buf \ {j} : ~At(F, k, q.Drive, q.LBASect)
    BY <1>1, <1>2 DEF Good, Struct, At
  <2>2. q \in Rec /\ Labelled(j, q) /\ Struct(F)
    BY <1>2 DEF Good
  <2>3. Struct([F EXCEPT ![j] = q])
    BY <2>1, <2>2, Replace
  <2> QED
    BY <1>4, <2>3
<1>9. Clean(G, dk)
  BY <1>2, <1>5, <1>6 DEF Good, Clean
<1>10. Agree(G, dk)
  <2> SUFFICES ASSUME "write" \notin system.faults,
                      NEW e \in Drive, NEW t \in 0 .. Sects[e] - 1,
                      \A k \in Buf : At(G, k, e, t) => ~G[k].fMod
               PROVE  \A k \in Copies : dk[e][k][t] = dk[e][1][t]
    BY DEF Agree
  <2>1. ~At(F, j, e, t)
    BY <1>2, <1>5, <1>6
  <2>2. \A k \in Buf : At(F, k, e, t) => ~F[k].fMod
    BY <1>5, <1>6, <2>1
  <2> QED
    BY <2>2 DEF Good, Agree
<1>11. ASSUME NEW e \in Drive, NEW p \in Data, NEW t \in 0 .. Sects[e] - 1,
              e # d \/ t # s, Shows(F, dk, e, t, p)
       PROVE  Shows(G, dk, e, t, p)
  <2>1. ~At(F, j, e, t)
    BY <1>7, <1>11
  <2>2. \A k \in Buf : At(G, k, e, t) => At(F, k, e, t) /\ G[k] = F[k]
    BY <1>5, <1>6, <2>1
  <2> QED
    BY <1>6, <1>11, <2>2 DEF Shows
<1>12. ASSUME NEW p \in Data, Shows(F, dk, d, s, p)
       PROVE  Shows(G, dk, d, s, [p EXCEPT ![i] = v])
  <2>1. \A k \in Buf : At(G, k, d, s) => k = j
    BY <1>6 DEF Good, Struct, At
  <2>2. At(G, j, d, s) /\ r.pBuf = p
    BY <1>0, <1>6, <1>12 DEF Shows
  <2>3. G[j].pBuf = [p EXCEPT ![i] = v]
    BY <1>3, <1>5, <2>2
  <2> QED
    BY <2>1, <2>2, <2>3 DEF Shows
<1>13. SetsEntry(F, G, dk, d, s, i, v)
  BY <1>11, <1>12 DEF SetsEntry
<1> QED
  BY <1>8, <1>9, <1>10, <1>13 DEF Good

\* A buffer with another mark.
LEMMA MarkedSame ==
    ASSUME NEW j \in Buf, NEW q \in Rec, Labelled(j, q), NEW m \in BOOLEAN, m => q.fMod,
           NEW r, r = [q EXCEPT !.fMod = m]
    PROVE  r \in Rec /\ Same(r, q) /\ Labelled(j, r) /\ r.fMod = m
<1>1. r \in Rec /\ Same(r, q) /\ r.fMod = m /\ r.iClstrStart = q.iClstrStart
  BY DEF Rec, Same
<1> QED
  BY <1>1 DEF Labelled, Same

\* FindFatSect changes the contents of no sector, when the disk can be read.
LEMMA FindKeeps ==
    ASSUME LabelsFit, IInv, Good(Fat, disk), "read" \notin system.faults,
           NEW d \in Drive, NEW c \in Clstr, RangeErc(d, c) = "ok",
           NEW o \in FindFatSect(d, c), NEW G, G = [Fat EXCEPT ![o.buf] = o.rec]
    PROVE  Keeps(Fat, disk, G, o.disk)
<1>1. Hit(d, Sect(c), o) \/ Stuck(d, Sect(c), o) \/ Loaded(d, Sect(c), o)
  BY FindCases
<1>2. FindEffect(d, c, o)
  BY FindFatSectEffect
<1>3. PICK b \in Buf, r \in Rec : b = o.buf /\ r = o.rec
  BY <1>2 DEF FindEffect
<1>4. Labelled(b, r) /\ G = [Fat EXCEPT ![b] = r]
  BY <1>2, <1>3 DEF FindEffect
<1>5. PICK q \in Rec : q = Fat[b] /\ Labelled(b, q)
  BY DEF IInv, Struct
<1>6. CASE Hit(d, Sect(c), o)
  <2>1. PICK t \in Nat \ {0} : r = [q EXCEPT !.LastUsed = t]
    BY <1>3, <1>5, <1>6 DEF Hit
  <2>2. q.LastUsed > 0 /\ o.disk = disk
    BY <1>3, <1>5, <1>6 DEF Hit, BufferOf
  <2>3. Same(r, q) /\ r.fMod = q.fMod
    BY <2>1, <2>2 DEF Rec, Same
  <2> QED
    BY <1>4, <1>5, <2>2, <2>3, TouchKeeps
<1>7. CASE Stuck(d, Sect(c), o)
  <2>1. PICK u \in UpdateFAT(disk, b) : o.disk = u.disk /\ r = [q EXCEPT !.fMod = u.fMod]
    BY <1>3, <1>5, <1>7 DEF Stuck
  <2>2. u.fMod \in BOOLEAN /\ (u.fMod => q.fMod)
    BY <1>5, UpdateFATEffect DEF UpdateEffect
  <2>3. Same(r, q) /\ r.fMod = u.fMod
    BY <1>5, <2>1, <2>2, MarkedSame
  <2>4. Keeps(Fat, disk, G, u.disk)
    BY <1>4, <1>5, <2>3, WriteKeeps
  <2> QED
    BY <2>1, <2>4
<1>8. CASE Loaded(d, Sect(c), o)
  <2>0. o.erc = "ok"
    BY <1>8 DEF Loaded
  <2>1. PICK u \in UpdateFAT(disk, b) :
            /\ ~u.fMod /\ o.disk = u.disk
            /\ r = [LastUsed |-> Tick, LBASect |-> Sect(c), iClstrStart |-> PerSect * Sect(c),
                    Drive |-> d, fMod |-> FALSE, pBuf |-> u.disk[d][1][Sect(c)]]
    BY <1>3, <1>8, <2>0 DEF Loaded
  <2>2. UpdateEffect(b, u)
    BY UpdateFATEffect
  <2>3. PICK r1 : r1 = [q EXCEPT !.fMod = u.fMod]
    OBVIOUS
  <2>4. u.fMod \in BOOLEAN /\ (u.fMod => q.fMod)
    BY <1>5, <2>2 DEF UpdateEffect
  <2>5. r1 \in Rec /\ Same(r1, q) /\ Labelled(b, r1) /\ r1.fMod = u.fMod
    BY <1>5, <2>3, <2>4, MarkedSame
  <2>6. PICK G1 : G1 = [Fat EXCEPT ![b] = r1]
    OBVIOUS
  <2>7. Keeps(Fat, disk, G1, u.disk)
    BY <1>5, <2>5, <2>6, WriteKeeps
  <2>8. /\ \A k \in Buf : Same(G1[k], Fat[k])
        /\ G1[b] = r1
    BY <1>5, <2>5, <2>6, SameAt DEF IInv, Struct
  <2>9. \A k \in Buf : ~At(G1, k, d, Sect(c))
    BY <1>8, <2>8 DEF Loaded, BufferOf, At, Same
  <2>10. ~G1[b].fMod
    BY <2>1, <2>5, <2>8
  <2>11. G = [G1 EXCEPT ![b] = r]
    BY <1>4, <2>6 DEF IInv, Struct
  <2>12. /\ r.LastUsed > 0 /\ r.Drive = d /\ r.LBASect = Sect(c) /\ ~r.fMod
         /\ r.pBuf = u.disk[d][1][Sect(c)]
    BY <2>1 DEF IInv
  <2>13. PICK s \in 0 .. Sects[d] - 1 : s = Sect(c)
    BY InRange
  <2>14. Good(G1, u.disk)
    BY <2>7 DEF Keeps
  <2>15. Keeps(G1, u.disk, G, u.disk)
    <3>1. Filled(r, b, u.disk, d, s)
      BY <1>4, <2>12, <2>13 DEF Filled
    <3>2. \A k \in Buf : ~At(G1, k, d, s)
      BY <2>9, <2>13
    <3> QED
      BY <2>10, <2>11, <2>14, <3>1, <3>2, FillKeeps
  <2> QED
    BY <2>1, <2>7, <2>15 DEF Keeps
<1> QED
  BY <1>1, <1>6, <1>7, <1>8

\* Flush changes the contents of no sector.
LEMMA FlushKeeps ==
    ASSUME IInv, Good(Fat, disk), NEW j \in Buf, Flush(j)
    PROVE  Keeps(Fat, disk, Fat', disk')
<1>1. PICK u \in UpdateFAT(disk, j) : disk' = u.disk /\ Fat' = [Fat EXCEPT ![j].fMod = u.fMod]
  BY DEF Flush
<1>2. PICK q \in Rec : q = Fat[j] /\ Labelled(j, q)
  BY DEF IInv, Struct
<1>3. PICK r : r = [q EXCEPT !.fMod = u.fMod]
  OBVIOUS
<1>4. u.fMod \in BOOLEAN /\ (u.fMod => q.fMod)
  BY <1>2, UpdateFATEffect DEF UpdateEffect
<1>5. r \in Rec /\ Same(r, q) /\ Labelled(j, r) /\ r.fMod = u.fMod
  BY <1>2, <1>3, <1>4, MarkedSame
<1>6. PICK G : G = [Fat EXCEPT ![j] = r]
  OBVIOUS
<1>7. Keeps(Fat, disk, G, u.disk)
  BY <1>2, <1>5, <1>6, WriteKeeps
<1>8. Fat' = G
  BY <1>1, <1>2, <1>3, <1>6
<1> QED
  BY <1>1, <1>7, <1>8

\* The map of the clusters, of buffers F and disk dk.
EntryOf(F, dk, d, c) ==
    IF \E j \in Buf : At(F, j, d, Sect(c))
    THEN F[FirstOf({j \in Buf : At(F, j, d, Sect(c))})].pBuf[c % PerSect]
    ELSE dk[d][1][Sect(c)][c % PerSect]

FatOf(F, dk) ==
    [d \in Drive |-> [c \in Clstr |-> IF c \in Valid(d) THEN EntryOf(F, dk, d, c) ELSE 0]]

\* An entry is what its sector has for it.
LEMMA EntryShows ==
    ASSUME NEW F, NEW dk, NEW d \in Drive, NEW c \in Clstr, NEW p, Shows(F, dk, d, Sect(c), p)
    PROVE  EntryOf(F, dk, d, c) = p[c % PerSect]
<1> DEFINE T == {j \in Buf : At(F, j, d, Sect(c))}
<1>1. CASE \E j \in Buf : At(F, j, d, Sect(c))
  <2>1. T # {} /\ T \subseteq Nat
    BY <1>1 DEF Buf
  <2>2. FirstOf(T) \in T
    BY <2>1, FirstOfIn
  <2>3. F[FirstOf(T)].pBuf = p
    BY <2>2 DEF Shows
  <2> QED
    BY <1>1, <2>3 DEF EntryOf
<1>2. CASE ~\E j \in Buf : At(F, j, d, Sect(c))
  BY <1>2 DEF EntryOf, Shows
<1> QED
  BY <1>1, <1>2

\* Every sector has contents.
LEMMA ShowsSome ==
    ASSUME NEW F, NEW dk, Struct(F), DiskOK(dk), NEW d \in Drive, NEW s \in 0 .. Sects[d] - 1
    PROVE  \E p \in Data : Shows(F, dk, d, s, p)
<1>1. CASE \E j \in Buf : At(F, j, d, s)
  <2>1. PICK j \in Buf : At(F, j, d, s)
    BY <1>1
  <2>2. F[j].pBuf \in Data
    BY DEF Struct, Rec
  <2>3. \A k \in Buf : At(F, k, d, s) => k = j
    BY <2>1 DEF Struct, At
  <2>4. Shows(F, dk, d, s, F[j].pBuf)
    BY <2>1, <2>3 DEF Shows
  <2> QED
    BY <2>2, <2>4
<1>2. CASE ~\E j \in Buf : At(F, j, d, s)
  <2>1. dk[d][1][s] \in Data
    <3>1. 1 \in Copies
      BY FatCacheAssumption DEF Copies
    <3>2. dk[d] \in [Copies -> [0 .. Sects[d] - 1 -> Data]]
      BY DEF DiskOK
    <3> QED
      BY <3>1, <3>2
  <2> QED
    BY <1>2, <2>1 DEF Shows
<1> QED
  BY <1>1, <1>2

\* A cluster of a FAT is in one of its sectors.
LEMMA ValidSect ==
    ASSUME NEW d \in Drive, NEW c \in Valid(d)
    PROVE  /\ c \in Clstr /\ RangeErc(d, c) = "ok" /\ c \in Nat
           /\ Sect(c) \in 0 .. Sects[d] - 1 /\ c % PerSect \in 0 .. PerSect - 1
<1>1. c \in Clstr /\ RangeErc(d, c) = "ok" /\ c \in Nat /\ Sects[d] \in Nat
  BY FatCacheAssumption, SectsFacts DEF Valid
<1>2. Sect(c) \in Nat /\ c % PerSect \in 0 .. PerSect - 1
  BY <1>1, SectFacts
<1>3. Sect(c) < Sects[d]
  BY <1>1, SectsFacts
<1> QED
  BY <1>1, <1>2, <1>3

\* Where no sector changes, no cluster does.
LEMMA KeepsFat ==
    ASSUME NEW F, NEW dk, Struct(F), DiskOK(dk), NEW G, NEW gk, Keeps(F, dk, G, gk)
    PROVE  FatOf(G, gk) = FatOf(F, dk)
<1>1. ASSUME NEW d \in Drive, NEW c \in Valid(d) PROVE EntryOf(G, gk, d, c) = EntryOf(F, dk, d, c)
  <2>1. c \in Clstr /\ Sect(c) \in 0 .. Sects[d] - 1
    BY ValidSect
  <2>2. PICK p \in Data : Shows(F, dk, d, Sect(c), p)
    BY <2>1, ShowsSome
  <2>3. Shows(G, gk, d, Sect(c), p)
    BY <2>1, <2>2 DEF Keeps
  <2> QED
    BY <2>1, <2>2, <2>3, EntryShows
<1> QED
  BY <1>1 DEF FatOf

\* Buffer j of F, which has cluster c of drive d, has it set to v in G.
SetAt(F, G, j, d, c, v) ==
    /\ At(F, j, d, Sect(c))
    /\ \E i \in 0 .. PerSect - 1 : i = c % PerSect /\ G = [F EXCEPT ![j] = Entered(F[j], i, v)]

\* Where an entry of one sector is set, one cluster changes.
LEMMA SetFat ==
    ASSUME NEW F, NEW dk, Good(F, dk), DiskOK(dk), NEW j \in Buf, NEW d \in Drive,
           NEW c \in Valid(d), NEW v \in Val, NEW G, SetAt(F, G, j, d, c, v)
    PROVE  FatOf(G, dk) = [FatOf(F, dk) EXCEPT ![d][c] = v]
<1>0. PICK i \in 0 .. PerSect - 1 :
        i = c % PerSect /\ At(F, j, d, Sect(c)) /\ G = [F EXCEPT ![j] = Entered(F[j], i, v)]
  BY DEF SetAt
<1>1. PICK s \in 0 .. Sects[d] - 1 : i = c % PerSect /\ s = Sect(c)
  BY <1>0, ValidSect
<1>2. G = [F EXCEPT ![j] = Entered(F[j], i, v)] /\ At(F, j, d, s)
  BY <1>0, <1>1
<1>3. SetsEntry(F, G, dk, d, s, i, v)
  BY <1>2, SetKeeps
<1>4. ASSUME NEW e \in Drive, NEW b \in Valid(e), e # d \/ b # c
      PROVE  EntryOf(G, dk, e, b) = EntryOf(F, dk, e, b)
  <2>1. b \in Clstr /\ Sect(b) \in 0 .. Sects[e] - 1 /\ b \in Nat /\ b % PerSect \in 0 .. PerSect - 1
    BY ValidSect
  <2>2. PICK p \in Data : Shows(F, dk, e, Sect(b), p)
    BY <2>1, ShowsSome DEF Good
  <2>3. CASE e # d \/ Sect(b) # s
    <3>1. Shows(G, dk, e, Sect(b), p)
      BY <1>3, <2>1, <2>2, <2>3 DEF SetsEntry
    <3> QED
      BY <2>1, <2>2, <3>1, EntryShows
  <2>4. CASE e = d /\ Sect(b) = s
    <3>1. b % PerSect # i
      <4>1. b # c /\ c \in Nat
        BY <1>4, <2>4, ValidSect
      <4>2. /\ b - First(b) = b % PerSect /\ First(b) = PerSect * Sect(b)
            /\ c - First(c) = c % PerSect /\ First(c) = PerSect * Sect(c)
        BY <2>1, <4>1, SectFacts
      <4>3. First(b) = First(c)
        BY <1>1, <2>4, <4>2
      <4>4. First(c) \in Int
        <5>1. Sect(c) \in Nat
          BY <4>1, SectFacts
        <5> QED
          BY <4>2, <5>1, FatCacheAssumption
      <4>5. b - First(c) = b % PerSect /\ c - First(c) = i
        BY <1>1, <4>2, <4>3
      <4> QED
        BY <2>1, <4>1, <4>4, <4>5
    <3>2. PICK w : w = [p EXCEPT ![i] = v]
      OBVIOUS
    <3>3. Shows(G, dk, e, Sect(b), w)
      BY <1>3, <2>2, <2>4, <3>2 DEF SetsEntry
    <3>4. w[b % PerSect] = p[b % PerSect]
      BY <2>1, <3>1, <3>2 DEF Data
    <3> QED
      BY <2>1, <2>2, <3>3, <3>4, EntryShows
  <2> QED
    BY <2>3, <2>4
<1>5. EntryOf(G, dk, d, c) = v
  <2>1. c \in Clstr
    BY ValidSect
  <2>2. PICK p \in Data : Shows(F, dk, d, s, p)
    BY ShowsSome DEF Good
  <2>3. PICK w : w = [p EXCEPT ![i] = v]
    OBVIOUS
  <2>4. Shows(G, dk, d, Sect(c), w)
    BY <1>1, <1>3, <2>2, <2>3 DEF SetsEntry
  <2>5. w[c % PerSect] = v
    BY <1>1, <2>3 DEF Data
  <2> QED
    BY <2>1, <2>4, <2>5, EntryShows
<1>6. c \in Clstr
  BY ValidSect
<1>7. ASSUME NEW e \in Drive, NEW b \in Clstr
      PROVE  FatOf(G, dk)[e][b] = (IF e = d /\ b = c THEN v ELSE FatOf(F, dk)[e][b])
  BY <1>4, <1>5, <1>7 DEF FatOf
<1> DEFINE f == FatOf(F, dk)
           g == FatOf(G, dk)
<1>8. /\ f = [e \in Drive |-> [b \in Clstr |-> f[e][b]]]
      /\ g = [e \in Drive |-> [b \in Clstr |-> g[e][b]]]
  BY DEF FatOf
<1> HIDE DEF f, g
<1>9. [f EXCEPT ![d][c] = v] = [e \in Drive |-> [b \in Clstr |-> IF e = d /\ b = c THEN v ELSE f[e][b]]]
  <2> DEFINE h == [e \in Drive |-> [b \in Clstr |-> IF e = d /\ b = c THEN v ELSE f[e][b]]]
             k == [f EXCEPT ![d][c] = v]
  <2>1. \A e \in Drive : f[e] = [b \in Clstr |-> f[e][b]]
    BY <1>8
  <2>2. DOMAIN f = Drive
    BY <1>8
  <2>3. k = [e \in Drive |-> IF e = d THEN [f[d] EXCEPT ![c] = v] ELSE f[e]]
    BY <1>8, <2>2
  <2>4. [f[d] EXCEPT ![c] = v] = [b \in Clstr |-> IF b = c THEN v ELSE f[d][b]]
    BY <2>1
  <2>5. \A e \in Drive : k[e] = h[e]
    BY <2>1, <2>3, <2>4
  <2> QED
    BY <2>3, <2>5
<1>10. \A e \in Drive : \A b \in Clstr : g[e][b] = (IF e = d /\ b = c THEN v ELSE f[e][b])
  BY <1>7 DEF f, g
<1>11. g = [e \in Drive |-> [b \in Clstr |-> IF e = d /\ b = c THEN v ELSE f[e][b]]]
  BY <1>8, <1>10
<1> QED
  BY <1>9, <1>11 DEF f, g

-----------------------------------------------------------------------------
(* The steps, when the disk can be read. *)

DInv == IInv /\ Good(Fat, disk)

\* Under ReadsWork no state of the program has a failing read.
LEMMA ReadsOf == ASSUME ReadsWork, IInv PROVE "read" \notin system.faults
BY DEF ReadsWork, IInv

\* A call for a cluster: its buffer, and what the file system then sees.
LEMMA GetStep ==
    ASSUME LabelsFit, ReadsWork, DInv, NEW d \in Drive, NEW c \in Clstr, GetClstrValue(d, c)
    PROVE  /\ Keeps(Fat, disk, Fat', disk')
           /\ \/ /\ ret'.erc = "ok"
                 /\ ret' = [erc |-> "ok", drive |-> d, clstr |-> c, val |-> FatOf(Fat, disk)[d][c]]
              \/ ret' = [erc |-> "ErcDisk", drive |-> d, clstr |-> c, val |-> 0]
<1>1. PICK o \in FindFatSect(d, c) :
        /\ Fat' = [Fat EXCEPT ![o.buf] = o.rec]
        /\ disk' = o.disk
        /\ \E v \in Val :
            /\ o.erc = "ok" /\ Offset(o.rec, c) < PerSect => v = o.rec.pBuf[Offset(o.rec, c)]
            /\ o.erc # "ok" => v = 0
            /\ ret' = [erc |-> o.erc, drive |-> d, clstr |-> c, val |-> v]
  BY DEF GetClstrValue
<1>2. c \in Valid(d)
  BY DEF GetClstrValue, Valid
<1>3. Keeps(Fat, disk, Fat', disk')
  <2>1. PICK G : G = [Fat EXCEPT ![o.buf] = o.rec]
    OBVIOUS
  <2>2. Keeps(Fat, disk, G, o.disk)
    BY <1>2, <2>1, ValidSect, ReadsOf, FindKeeps DEF DInv
  <2> QED
    BY <1>1, <2>1, <2>2
<1>4. FindEffect(d, c, o)
  BY <1>2, ValidSect, FindFatSectEffect DEF DInv
<1>5. CASE o.erc = "ok"
  <2>1. PICK v : /\ Offset(o.rec, c) < PerSect => v = o.rec.pBuf[Offset(o.rec, c)]
                 /\ ret' = [erc |-> "ok", drive |-> d, clstr |-> c, val |-> v]
    BY <1>1, <1>5
  <2>2. c % PerSect \in 0 .. PerSect - 1 /\ Sect(c) \in 0 .. Sects[d] - 1
    BY <1>2, ValidSect
  <2>3. v = o.rec.pBuf[c % PerSect]
    <3>1. c % PerSect < PerSect
      BY <2>2, FatCacheAssumption
    <3> QED
      BY <1>4, <1>5, <2>1, <3>1 DEF FindEffect
  <2>4. PICK p \in Data : Shows(Fat, disk, d, Sect(c), p)
    BY <2>2, ShowsSome DEF DInv, Good, IInv
  <2>5. Shows(Fat', disk', d, Sect(c), p)
    BY <1>3, <2>2, <2>4 DEF Keeps
  <2>6. Fat'[o.buf] = o.rec /\ o.buf \in Buf
    BY <1>1, <1>4 DEF FindEffect, DInv, IInv, Struct
  <2>7. At(Fat', o.buf, d, Sect(c))
    BY <1>4, <1>5, <2>6 DEF FindEffect, At
  <2>8. o.rec.pBuf = p
    BY <2>5, <2>6, <2>7 DEF Shows
  <2>9. FatOf(Fat, disk)[d][c] = p[c % PerSect]
    BY <1>2, <2>4, EntryShows DEF FatOf
  <2> QED
    BY <1>3, <2>1, <2>3, <2>8, <2>9
<1>6. CASE o.erc # "ok"
  <2>1. o.erc = "ErcDisk"
    BY <1>4, <1>6 DEF FindEffect
  <2> QED
    BY <1>1, <1>3, <1>6, <2>1
<1> QED
  BY <1>5, <1>6

\* A call that sets a cluster.
LEMMA SetStep ==
    ASSUME LabelsFit, ReadsWork, DInv, NEW d \in Drive, NEW c \in Clstr, NEW v \in Val,
           SetClstrValue(d, c, v)
    PROVE  \/ /\ Keeps(Fat, disk, Fat', disk')
              /\ ret' = [erc |-> "ErcDisk", drive |-> d, clstr |-> c, val |-> 0]
           \/ /\ Good(Fat', disk')
              /\ FatOf(Fat', disk') = [FatOf(Fat, disk) EXCEPT ![d][c] = v]
              /\ ret' = [erc |-> "ok", drive |-> d, clstr |-> c, val |-> v]
<1>1. PICK o \in FindFatSect(d, c) :
        /\ IF o.erc = "ok"
           THEN /\ Offset(o.rec, c) < PerSect
                /\ Fat' = [Fat EXCEPT ![o.buf] =
                            [o.rec EXCEPT !.pBuf[Offset(o.rec, c)] = v, !.fMod = TRUE]]
           ELSE Fat' = [Fat EXCEPT ![o.buf] = o.rec]
        /\ disk' = o.disk
        /\ ret' = [erc |-> o.erc, drive |-> d, clstr |-> c, val |-> IF o.erc = "ok" THEN v ELSE 0]
  BY DEF SetClstrValue
<1>2. c \in Valid(d)
  BY DEF SetClstrValue, Valid
<1>3. PICK G : G = [Fat EXCEPT ![o.buf] = o.rec]
  OBVIOUS
<1>4. Keeps(Fat, disk, G, o.disk)
  BY <1>2, <1>3, ValidSect, ReadsOf, FindKeeps DEF DInv
<1>5. FindEffect(d, c, o)
  BY <1>2, ValidSect, FindFatSectEffect DEF DInv
<1>6. CASE o.erc # "ok"
  <2>1. o.erc = "ErcDisk"
    BY <1>5, <1>6 DEF FindEffect
  <2> QED
    BY <1>1, <1>3, <1>4, <1>6, <2>1
<1>7. CASE o.erc = "ok"
  <2>1. PICK b \in Buf : b = o.buf
    BY <1>5 DEF FindEffect
  <2>2. G[b] = o.rec /\ G = [Fat EXCEPT ![b] = o.rec]
    BY <1>3, <2>1 DEF DInv, IInv, Struct
  <2>3. At(G, b, d, Sect(c)) /\ Offset(o.rec, c) = c % PerSect
    BY <1>5, <1>7, <2>2 DEF FindEffect, At
  <2>4. Fat' = [Fat EXCEPT ![b] = Entered(G[b], c % PerSect, v)]
    BY <1>1, <1>7, <2>1, <2>2, <2>3 DEF Entered
  <2>5. Fat' = [G EXCEPT ![b] = Entered(G[b], c % PerSect, v)]
    BY <2>2, <2>4 DEF DInv, IInv, Struct
  <2>6. Good(G, o.disk) /\ DiskOK(o.disk)
    BY <1>4, <1>5 DEF Keeps, FindEffect
  <2>7. PICK H, dk : H = Fat' /\ dk = o.disk
    OBVIOUS
  <2>8. PICK i \in 0 .. PerSect - 1, s \in 0 .. Sects[d] - 1 : i = c % PerSect /\ s = Sect(c)
    BY <1>2, ValidSect
  <2>9. H = [G EXCEPT ![b] = Entered(G[b], i, v)] /\ Good(G, dk) /\ DiskOK(dk)
    BY <2>5, <2>6, <2>7, <2>8
  <2>10. FatOf(H, dk) = [FatOf(G, dk) EXCEPT ![d][c] = v]
    <3>1. SetAt(G, H, b, d, c, v)
      BY <2>3, <2>8, <2>9 DEF SetAt
    <3> QED
      BY <1>2, <2>9, <3>1, SetFat
  <2>11. FatOf(G, dk) = FatOf(Fat, disk)
    BY <1>4, <2>7, KeepsFat DEF DInv, IInv
  <2>12. Good(H, dk)
    BY <2>3, <2>8, <2>9, SetKeeps
  <2> QED
    BY <1>1, <1>7, <2>7, <2>10, <2>11, <2>12
<1> QED
  BY <1>6, <1>7

\* At first no buffer was used, and all copies of the FAT are the same.
LEMMA InitDInv == ASSUME TicksFit, Init PROVE DInv
<1>1. IInv
  BY InitIInv
<1>2. \A j \in Buf : ~(Fat[j].LastUsed > 0)
  BY DEF Init, Unused
<1>3. Clean(Fat, disk)
  BY <1>2 DEF Clean, At
<1>4. 1 \in Copies
  BY FatCacheAssumption DEF Copies
<1>5. Agree(Fat, disk)
  BY <1>4 DEF Init, Agree
<1> QED
  BY <1>1, <1>3, <1>5 DEF DInv, Good, IInv

\* What a step of the file system does to the map of the clusters: nothing, or what
\* the call that it makes says.
Visible ==
    \/ FatOf(Fat', disk') = FatOf(Fat, disk) /\ ret' = ret
    \/ FatOf(Fat', disk') = FatOf(Fat, disk) /\ ret' = NoCall
    \/ \E d \in Drive, c \in Clstr :
        \/ /\ FatOf(Fat', disk') = FatOf(Fat, disk)
           /\ \/ \E e \in {"ErcEOF", "ErcBadFATClstr", "ErcDisk"} :
                    ret' = [erc |-> e, drive |-> d, clstr |-> c, val |-> 0]
              \/ ret' = [erc |-> "ok", drive |-> d, clstr |-> c, val |-> FatOf(Fat, disk)[d][c]]
        \/ \E v \in Val :
              /\ FatOf(Fat', disk') = [FatOf(Fat, disk) EXCEPT ![d][c] = v]
              /\ ret' = [erc |-> "ok", drive |-> d, clstr |-> c, val |-> v]

\* Every step keeps the invariant of the disk, and shows the file system a step of FatMap.
LEMMA NextDInv ==
    ASSUME LabelsFit, TicksFit, ReadsWork, DInv, [Next]_vars
    PROVE  DInv' /\ Visible
<1>1. IInv'
  BY NextIInv DEF DInv
<1>2. ASSUME Good(Fat', disk'), system' = system PROVE DInv'
  BY <1>1, <1>2 DEF DInv, Good, Agree
<1>3. ASSUME Keeps(Fat, disk, Fat', disk') PROVE FatOf(Fat', disk') = FatOf(Fat, disk)
  BY <1>3, KeepsFat DEF DInv, IInv
<1>4. ASSUME UNCHANGED <<Fat, disk>>, system' = system PROVE DInv'
  <2>1. Good(Fat', disk')
    BY <1>4 DEF DInv
  <2> QED
    BY <1>2, <1>4, <2>1
<1>5. CASE UNCHANGED vars
  BY <1>4, <1>5 DEF vars, Visible
<1>6. CASE TimerTick
  BY <1>4, <1>6 DEF TimerTick, Visible
<1>7. ASSUME NEW j \in Buf, Flush(j) PROVE DInv' /\ Visible
  <2>1. Keeps(Fat, disk, Fat', disk')
    BY <1>7, FlushKeeps DEF DInv
  <2>2. Good(Fat', disk')
    BY <2>1 DEF Keeps
  <2> QED
    BY <1>2, <1>3, <1>7, <2>1, <2>2 DEF Flush, Visible
<1>8. ASSUME NEW d \in Drive, NEW c \in Clstr, OutOfRange(d, c) PROVE DInv' /\ Visible
  <2>1. RangeErc(d, c) \in {"ErcEOF", "ErcBadFATClstr", "ErcDisk"}
    BY <1>8 DEF OutOfRange, RangeErc
  <2>2. /\ UNCHANGED <<Fat, disk>> /\ system' = system
        /\ ret' = [erc |-> RangeErc(d, c), drive |-> d, clstr |-> c, val |-> 0]
    BY <1>8 DEF OutOfRange
  <2> QED
    BY <1>4, <2>1, <2>2 DEF Visible
<1>9. ASSUME NEW d \in Drive, NEW c \in Clstr, GetClstrValue(d, c) PROVE DInv' /\ Visible
  <2>1. /\ Keeps(Fat, disk, Fat', disk')
        /\ \/ ret' = [erc |-> "ok", drive |-> d, clstr |-> c, val |-> FatOf(Fat, disk)[d][c]]
           \/ ret' = [erc |-> "ErcDisk", drive |-> d, clstr |-> c, val |-> 0]
    BY <1>9, GetStep
  <2>2. Good(Fat', disk') /\ FatOf(Fat', disk') = FatOf(Fat, disk)
    BY <1>3, <2>1 DEF Keeps
  <2>3. DInv'
    BY <1>2, <1>9, <2>2 DEF GetClstrValue
  <2> QED
    BY <2>1, <2>2, <2>3 DEF Visible
<1>10. ASSUME NEW d \in Drive, NEW c \in Clstr, NEW v \in Val, SetClstrValue(d, c, v)
       PROVE  DInv' /\ Visible
  <2>1. \/ /\ Keeps(Fat, disk, Fat', disk')
           /\ ret' = [erc |-> "ErcDisk", drive |-> d, clstr |-> c, val |-> 0]
        \/ /\ Good(Fat', disk')
           /\ FatOf(Fat', disk') = [FatOf(Fat, disk) EXCEPT ![d][c] = v]
           /\ ret' = [erc |-> "ok", drive |-> d, clstr |-> c, val |-> v]
    BY <1>10, SetStep
  <2>2. Good(Fat', disk')
    BY <2>1 DEF Keeps
  <2>3. DInv'
    BY <1>2, <1>10, <2>2 DEF SetClstrValue
  <2>4. Visible
    BY <1>3, <2>1 DEF Visible
  <2> QED
    BY <2>3, <2>4
<1>11. system.drives \subseteq Drive
  BY FatCacheAssumption DEF DInv, IInv
<1> QED
  BY <1>5, <1>6, <1>7, <1>8, <1>9, <1>10, <1>11 DEF Next

\* What has no buffer that waits to be written is on the disk, in every copy of the
\* FAT (UpdateFAT), for any drives, buffers, clusters and writes that fail.
THEOREM CleanBuffersOnDisk == ASSUME LabelsFit, TicksFit, ReadsWork PROVE Spec => []OnDisk
<1>1. Init => DInv
  BY InitDInv
<1>2. DInv /\ [Next]_vars => DInv'
  BY NextDInv
<1>3. DInv => OnDisk
  BY DEF DInv, Good, Clean, Agree, OnDisk, CleanIsOnDisk, CopiesAgree, BufferOf, At
<1> QED
  BY <1>1, <1>2, <1>3, PTL DEF Spec

\* The map of the refinement is the one of these proofs.
LEMMA EntryIs == \A d, c : Entry(d, c) = EntryOf(Fat, disk, d, c)
BY DEF Entry, EntryOf, BufferOf, At

\* The file system sees one map of clusters, wherever their sectors are and whatever
\* buffers were replaced, and no effect of calls that failed.
THEOREM FatBuffersAreAMap == ASSUME LabelsFit, TicksFit, ReadsWork PROVE Spec => ImplementsFatMap
<1> DEFINE fat == [d \in Drive |-> [c \in Clstr |-> IF c \in Valid(d) THEN Entry(d, c) ELSE 0]]
<1>1. fat = FatOf(Fat, disk)
  BY EntryIs DEF FatOf
<1>2. fat' = FatOf(Fat', disk')
  BY DEF Entry, FatOf, EntryOf, BufferOf, At, Valid, RangeErc, FirstOf
<1>3. ASSUME TicksFit, Init PROVE DInv /\ FM!Init
  <2>1. DInv
    BY <1>3, InitDInv
  <2>2. ASSUME NEW d \in Drive, NEW c \in Valid(d) PROVE EntryOf(Fat, disk, d, c) \in Val
    <3>1. c \in Clstr /\ Sect(c) \in 0 .. Sects[d] - 1 /\ c % PerSect \in 0 .. PerSect - 1
      BY ValidSect
    <3>2. PICK p \in Data : Shows(Fat, disk, d, Sect(c), p)
      BY <2>1, <3>1, ShowsSome DEF DInv, IInv
    <3>3. EntryOf(Fat, disk, d, c) = p[c % PerSect]
      BY <3>1, <3>2, EntryShows
    <3> QED
      BY <3>1, <3>3 DEF Data
  <2>3. FatOf(Fat, disk) \in [Drive -> [Clstr -> Val]]
    BY <2>2, FatCacheAssumption DEF FatOf
  <2> QED
    BY <1>1, <1>3, <2>1, <2>3 DEF FM!Init, FM!NoCall, Init, NoCall
<1>4. ASSUME DInv, [Next]_vars PROVE DInv' /\ [FM!Next]_FM!vars
  <2>1. DInv' /\ Visible
    BY <1>4, NextDInv
  <2>2. [FM!Next]_FM!vars
    <3>1. CASE fat' = fat /\ ret' = ret
      BY <3>1 DEF FM!vars
    <3>2. CASE fat' = fat /\ ret' = NoCall
      BY <3>2 DEF FM!Next, FM!Flush, FM!NoCall, NoCall
    <3>3. ASSUME NEW d \in Drive, NEW c \in Clstr, fat' = fat,
                 NEW e \in {"ErcEOF", "ErcBadFATClstr", "ErcDisk"},
                 ret' = [erc |-> e, drive |-> d, clstr |-> c, val |-> 0]
          PROVE  FM!Next
      BY <3>3 DEF FM!Next, FM!Fail
    <3>4. ASSUME NEW d \in Drive, NEW c \in Clstr, fat' = fat,
                 ret' = [erc |-> "ok", drive |-> d, clstr |-> c, val |-> fat[d][c]]
          PROVE  FM!Next
      BY <3>4 DEF FM!Next, FM!GetClstrValue
    <3>5. ASSUME NEW d \in Drive, NEW c \in Clstr, NEW v \in Val,
                 fat' = [fat EXCEPT ![d][c] = v],
                 ret' = [erc |-> "ok", drive |-> d, clstr |-> c, val |-> v]
          PROVE  FM!Next
      <4>1. FM!SetClstrValue(d, c, v)
        BY <3>5, Zenon DEF FM!SetClstrValue
      <4> QED
        BY <4>1 DEF FM!Next
    <3> HIDE DEF fat
    <3> QED
      BY <1>1, <1>2, <2>1, <3>1, <3>2, <3>3, <3>4, <3>5 DEF Visible
  <2> QED
    BY <2>1, <2>2
<1> QED
  BY <1>3, <1>4, PTL DEF Spec, ImplementsFatMap, FM!Spec

-----------------------------------------------------------------------------
(* The buffer of a file in stream mode. *)

\* No file ends one byte before a buffer may end: lfaEOB is right then.
EndsFit == \A n \in Sizes : n + 1 < sBuf \/ (n + 1) % Sector # 0

Disk == [0 .. MaxSize + bpc -> Byte]
Buff == [0 .. sBuf - 1 -> Byte]

\* What a FUB is when the handle never remembers the end mark and no call fails.
Fub == [disk : Disk, buf : Buff, LFABuf : Nat, fModified : BOOLEAN, CrntLFA : Nat,
        end : {0}, out : Seq(Byte), erc : {"ok"}]

\* The bytes that there are clusters for, in a file of n bytes.
Cap(n) == nClstrs(n) * bpc

\* Byte i of the file.
ByteAt(f, i) == IF f.fModified /\ InBuf(f, i) THEN f.buf[i - f.LFABuf] ELSE f.disk[i]

\* The buffer is at a place of a file of n bytes.
Placed(f, n) == f.LFABuf % Sector = 0 /\ f.LFABuf <= n /\ f.LFABuf < Cap(n)

\* It has what is on the disk, as far as the file goes, when nothing was modified.
Coherent(f, n) ==
    f.fModified \/ \A i \in 0 .. n - 1 : InBuf(f, i) => f.buf[i - f.LFABuf] = f.disk[i]

\* A handle in mode md, with the FUB f, of a file of n bytes.
Sound(md, n, f) ==
    /\ md \in {"closed", "read", "modify"}
    /\ n \in Sizes
    /\ f \in Fub /\ f.out = <<>> /\ f.CrntLFA <= n /\ f.LFABuf % Sector = 0
    /\ f.fModified => md = "modify"
    /\ md # "closed" => Placed(f, n) /\ Coherent(f, n)

StreamInv == Sound(mode, size, FUB)

\* The file of n bytes that f stands for.
Bytes(f, n) == [i \in 1 .. n |-> ByteAt(f, i - 1)]

-----------------------------------------------------------------------------
(* Numbers. *)

\* Induction, for a set of naturals.
LEMMA SetInduction ==
    ASSUME NEW S, S \subseteq Nat, 0 \in S, \A n \in S : n + 1 \in S
    PROVE  S = Nat
<1> SUFFICES ASSUME Nat \ S # {} PROVE FALSE
  OBVIOUS
<1>1. PICK x \in Nat \ S : \A y \in Nat \ S : x <= y
  BY NatMin
<1>2. x # 0 /\ x - 1 \in Nat /\ x - 1 \in S
  BY <1>1
<1> QED
  BY <1>1, <1>2

LEMMA Division ==
    ASSUME NEW a \in Nat, NEW n \in Nat \ {0}
    PROVE  /\ a \div n \in Nat /\ a % n \in 0 .. n - 1
           /\ a = (a \div n) * n + (a % n)
OBVIOUS

LEMMA Multiple ==
    ASSUME NEW a \in Nat, NEW n \in Nat \ {0}, a % n = 0
    PROVE  a = (a \div n) * n
BY Division

LEMMA Quotient ==
    ASSUME NEW n \in Nat \ {0}, NEW p \in Nat, NEW r \in 0 .. n - 1
    PROVE  (n * p + r) \div n = p
OBVIOUS

LEMMA DivBelow ==
    ASSUME NEW a \in Nat, NEW n \in Nat \ {0}, NEW b \in Nat, a < b * n
    PROVE  a \div n < b
OBVIOUS

LEMMA Monotone ==
    ASSUME NEW a \in Nat, NEW b \in Nat, NEW n \in Nat, a <= b
    PROVE  a * n <= b * n
OBVIOUS

LEMMA NoRest ==
    ASSUME NEW p \in Nat, NEW n \in Nat \ {0}
    PROVE  (p * n) % n = 0
<1>1. (n * p + 0) \div n = p
  BY Quotient
<1>2. PICK x \in Nat : x = p * n
  OBVIOUS
<1>3. x = (x \div n) * n + (x % n) /\ x % n \in Nat
  BY Division
<1>4. x \div n = p
  BY <1>1, <1>2
<1> QED
  BY <1>2, <1>3, <1>4

\* The sector of an address.
LEMMA SectorOf ==
    ASSUME NEW a \in Nat, NEW n \in Nat \ {0}
    PROVE  LET b == a - (a % n) IN b \in Nat /\ b % n = 0 /\ b <= a /\ a < b + n
<1>1. /\ a \div n \in Nat /\ a % n \in 0 .. n - 1
      /\ a = (a \div n) * n + (a % n)
  BY Division, Zenon
<1>2. PICK q \in Nat, r \in 0 .. n - 1 : r = a % n /\ a = q * n + r
  BY <1>1, Zenon
<1>3. q * n \in Nat /\ a - (a % n) = q * n
  BY <1>2
<1>4. (a - (a % n)) % n = 0
  BY <1>3, NoRest
<1> QED
  BY <1>2, <1>3, <1>4

LEMMA Rounded ==
    ASSUME NEW a \in Nat, NEW n \in Nat \ {0}
    PROVE  /\ (a + n - 1) \div n \in Nat
           /\ a <= ((a + n - 1) \div n) * n /\ ((a + n - 1) \div n) * n <= a + n - 1
<1>1. a + n - 1 \in Nat
  OBVIOUS
<1> QED
  BY <1>1, Division

LEMMA SumOfMultiples ==
    ASSUME NEW a \in Nat, NEW b \in Nat, NEW n \in Nat \ {0}, a % n = 0, b % n = 0
    PROVE  (a + b) % n = 0
<1>1. PICK p \in Nat : a = p * n
  BY Multiple, Division
<1>2. PICK q \in Nat : b = q * n
  BY Multiple, Division
<1>3. a + b = (p + q) * n /\ p + q \in Nat
  BY <1>1, <1>2
<1> QED
  BY <1>3, NoRest

\* Where the bytes end that a turn may take, when the buffer starts at a, has s
\* bytes, and has byte c of a file of z bytes.
LEMMA TakeTo ==
    ASSUME NEW a \in Nat, NEW c \in Nat, NEW z \in Nat, NEW s \in Nat, a <= c, c < a + s,
           c < z, a + s # z + 1, NEW e, e = IF a + s - 1 > z THEN z - 1 ELSE a + s - 1
    PROVE  e \in Nat /\ c <= e /\ e < z /\ e < a + s
OBVIOUS

LEMMA Take ==
    ASSUME NEW e \in Nat, NEW c \in Nat, c <= e, NEW n \in Nat, NEW l \in Nat, l < n,
           NEW k, k = Smaller(e + 1 - c, n - l)
    PROVE  k \in Nat \ {0} /\ c + k <= e + 1 /\ l + k <= n
BY DEF Smaller

LEMMA Concat ==
    ASSUME NEW S, NEW q \in Seq(S), NEW d \in Seq(S)
    PROVE  /\ q \o d \in Seq(S) /\ Len(q \o d) = Len(q) + Len(d)
           /\ \A i \in 1 .. Len(q) : (q \o d)[i] = q[i]
           /\ \A i \in Len(q) + 1 .. Len(q) + Len(d) : (q \o d)[i] = d[i - Len(q)]
<1> DEFINE u == q \o d
<1>1. /\ u \in Seq(S) /\ Len(u) = Len(q) + Len(d)
      /\ \A i \in 1 .. Len(q) : u[i] = q[i]
      /\ \A i \in Len(q) + 1 .. Len(q) + Len(d) : u[i] = d[i - Len(q)]
  OBVIOUS
<1> QED
  BY <1>1

\* The sizes.
LEMMA Constants ==
    /\ Sector \in Nat \ {0} /\ sBuf \in Nat \ {0} /\ bpc \in Nat \ {0} /\ sBuf % Sector = 0
    /\ Sector <= sBuf /\ (sBuf \div Sector) * Sector = sBuf /\ sBuf \div Sector \in Nat
    /\ MaxSize \in Nat \ {0} /\ MaxSize \in Sizes /\ 0 \in Sizes
    /\ \A n \in Sizes : n \in 0 .. MaxSize
<1>1. MaxSize \in Sizes /\ \A n \in Sizes : n <= MaxSize
  BY FileStreamAssumption DEF MaxSize
<1>2. MaxSize # 0
  BY <1>1, FileStreamAssumption
<1>3. Sector <= sBuf /\ (sBuf \div Sector) * Sector = sBuf /\ sBuf \div Sector \in Nat
  <2>1. sBuf = (sBuf \div Sector) * Sector /\ sBuf \div Sector \in Nat
    BY FileStreamAssumption, Multiple, Division
  <2>2. sBuf \div Sector >= 1
    BY <2>1, FileStreamAssumption
  <2>3. 1 * Sector <= (sBuf \div Sector) * Sector
    BY <2>1, <2>2, FileStreamAssumption, Monotone
  <2> QED
    BY <2>1, <2>3, FileStreamAssumption
<1> QED
  BY <1>1, <1>2, <1>3, FileStreamAssumption

LEMMA CapIs ==
    ASSUME NEW n \in Nat
    PROVE  nClstrs(n) \in Nat /\ Cap(n) \in Nat \ {0} /\ n <= Cap(n) /\ Cap(n) <= n + bpc
<1>1. CASE n = 0
  BY <1>1, Constants DEF nClstrs, Cap
<1>2. CASE n # 0
  <2>1. /\ (n + bpc - 1) \div bpc \in Nat /\ n <= ((n + bpc - 1) \div bpc) * bpc
        /\ ((n + bpc - 1) \div bpc) * bpc <= n + bpc - 1
    BY Constants, Rounded
  <2> QED
    BY <1>2, <2>1, Constants DEF nClstrs, Cap
<1> QED
  BY <1>1, <1>2

-----------------------------------------------------------------------------
(* The buffer. *)

LEMMA InCluster ==
    ASSUME NEW f \in Fub, NEW n \in Nat, NEW lfa \in Nat, lfa < n * bpc
    PROVE  Reaches(f, n, lfa) = "cluster"
<1>1. lfa \div bpc < n /\ lfa \div bpc \in Nat /\ f.end = 0
  BY Constants, DivBelow, Division DEF Fub
<1> QED
  BY <1>1 DEF Reaches

LEMMA LoadIs ==
    ASSUME NEW f \in Fub, NEW n \in Nat, NEW lfa \in Nat, lfa < n * bpc,
           n * bpc <= MaxSize + bpc, NEW g, NEW b, b = LoadBuff(f, n, lfa, g)
    PROVE  /\ b \in Fub /\ b.LFABuf = lfa /\ b.disk = f.disk /\ b.fModified = f.fModified
           /\ b.CrntLFA = f.CrntLFA /\ b.out = f.out
           /\ \A i \in 0 .. sBuf - 1 : lfa + i < n * bpc => b.buf[i] = f.disk[lfa + i]
<1> DEFINE data == [i \in 0 .. sBuf - 1 |->
                        IF lfa + i < n * bpc THEN f.disk[lfa + i] ELSE f.buf[i]]
<1>1. Reaches(f, n, lfa) = "cluster"
  BY InCluster
<1>2. b = [f EXCEPT !.LFABuf = lfa, !.erc = "ok", !.end = 0, !.buf = data]
  BY <1>1 DEF LoadBuff
<1>3. f.disk \in Disk /\ f.buf \in Buff
  BY DEF Fub
<1>4. n * bpc \in Nat
  BY Constants
<1>5. data \in Buff
  <2> SUFFICES ASSUME NEW i \in 0 .. sBuf - 1 PROVE data[i] \in Byte
    BY DEF Buff
  <2>1. CASE lfa + i < n * bpc
    <3>1. lfa + i \in 0 .. MaxSize + bpc
      BY <1>4, <2>1, Constants
    <3> QED
      BY <1>3, <2>1, <3>1 DEF Disk
  <2>2. CASE ~(lfa + i < n * bpc)
    BY <1>3, <2>2 DEF Buff
  <2> QED
    BY <2>1, <2>2
<1>6. \A i \in 0 .. sBuf - 1 : lfa + i < n * bpc => data[i] = f.disk[lfa + i]
  OBVIOUS
<1> HIDE DEF data
<1>7. b \in Fub
  BY <1>2, <1>5 DEF Fub
<1>8. b.buf = data /\ b.LFABuf = lfa /\ b.disk = f.disk /\ b.fModified = f.fModified
      /\ b.CrntLFA = f.CrntLFA /\ b.out = f.out
  BY <1>2 DEF Fub
<1> QED
  BY <1>6, <1>7, <1>8

\* The buffer is filled for the place where the next byte is.
LEMMA FillIs ==
    ASSUME NEW f \in Fub, NEW n \in 0 .. MaxSize, NEW m \in 0 .. n, ~f.fModified,
           f.CrntLFA <= n, f.CrntLFA < Cap(n) \/ InBuf(f, f.CrntLFA),
           InBuf(f, f.CrntLFA) => Placed(f, n) /\ Coherent(f, m),
           NEW g, NEW b, b = FillStreamBuff(f, nClstrs(n), g)
    PROVE  /\ b \in Fub /\ b.disk = f.disk /\ ~b.fModified /\ b.CrntLFA = f.CrntLFA
           /\ b.out = f.out /\ InBuf(b, b.CrntLFA) /\ Placed(b, n) /\ Coherent(b, m)
<1>1. CASE InBuf(f, f.CrntLFA)
  <2>1. b = [f EXCEPT !.erc = "ok"] /\ f.erc = "ok"
    BY <1>1 DEF FillStreamBuff, Fub
  <2>2. b = f
    BY <2>1 DEF Fub
  <2> QED
    BY <1>1, <2>2
<1>2. CASE ~InBuf(f, f.CrntLFA)
  <2>1. PICK lfa : lfa = f.CrntLFA - (f.CrntLFA % Sector)
    OBVIOUS
  <2>2. f.CrntLFA \in Nat /\ n \in Nat /\ m \in Nat
    BY DEF Fub
  <2>3. lfa \in Nat /\ lfa % Sector = 0 /\ lfa <= f.CrntLFA /\ f.CrntLFA < lfa + Sector
    BY <2>1, <2>2, Constants, SectorOf
  <2>4. nClstrs(n) \in Nat /\ n <= Cap(n) /\ Cap(n) <= MaxSize + bpc /\ Cap(n) \in Nat
    BY <2>2, CapIs, Constants
  <2>5. b = LoadBuff(f, nClstrs(n), lfa, g) /\ lfa < Cap(n)
    BY <1>2, <2>1, <2>2, <2>3, <2>4 DEF FillStreamBuff
  <2>6. /\ b \in Fub /\ b.LFABuf = lfa /\ b.disk = f.disk /\ b.fModified = f.fModified
        /\ b.CrntLFA = f.CrntLFA /\ b.out = f.out
        /\ \A i \in 0 .. sBuf - 1 : lfa + i < Cap(n) => b.buf[i] = f.disk[lfa + i]
    BY <2>3, <2>4, <2>5, LoadIs DEF Cap
  <2>7. InBuf(b, b.CrntLFA) /\ Placed(b, n)
    BY <2>2, <2>3, <2>5, <2>6, Constants DEF InBuf, Placed
  <2>8. ASSUME NEW i \in 0 .. m - 1, InBuf(b, i) PROVE b.buf[i - b.LFABuf] = b.disk[i]
    <3>1. i - lfa \in 0 .. sBuf - 1 /\ lfa + (i - lfa) = i /\ i < Cap(n)
      BY <2>2, <2>3, <2>4, <2>6, <2>8, Constants DEF InBuf
    <3> QED
      BY <2>6, <3>1
  <2> QED
    BY <2>6, <2>7, <2>8 DEF Coherent
<1> QED
  BY <1>1, <1>2

\* The blocks that are written have all the bytes of the buffer that belong to a
\* file of n bytes.
LEMMA BlocksCover ==
    ASSUME NEW n \in Nat, NEW lfa \in Nat, lfa <= n
    PROVE  /\ Blocks(n, lfa) \in Nat /\ Blocks(n, lfa) * Sector <= sBuf
           /\ \A i \in 0 .. n - 1 : i < lfa + sBuf => i < lfa + Blocks(n, lfa) * Sector
<1>1. PICK d \in Nat : d = n - lfa
  OBVIOUS
<1>2. PICK j : j = (d + Sector - 1) \div Sector
  OBVIOUS
<1>3. j \in Nat /\ d <= j * Sector
  BY <1>2, Rounded, Constants
<1>4. PICK s \in Nat : s = sBuf \div Sector /\ s * Sector = sBuf
  BY Constants
<1>5. Blocks(n, lfa) = IF j < s THEN j ELSE s
  BY <1>1, <1>2, <1>4 DEF Blocks
<1>6. CASE j < s
  <2>1. j * Sector <= s * Sector
    BY <1>3, <1>6, Constants, Monotone
  <2>2. j * Sector \in Nat
    BY <1>3, Constants
  <2>3. \A i \in 0 .. n - 1 : i < lfa + j * Sector
    BY <1>1, <1>3, <2>2
  <2> QED
    BY <1>3, <1>4, <1>5, <1>6, <2>1, <2>3
<1>7. CASE ~(j < s)
  BY <1>3, <1>4, <1>5, <1>7, Constants
<1> QED
  BY <1>6, <1>7

\* What was modified is written.
LEMMA FlushIs ==
    ASSUME NEW f \in Fub, NEW n \in 0 .. MaxSize, Placed(f, n),
           NEW g, NEW w, w = FlushStreamBuff(f, n, g)
    PROVE  /\ w \in Fub /\ ~w.fModified /\ w.CrntLFA = f.CrntLFA /\ w.out = f.out
           /\ w.LFABuf = f.LFABuf
           /\ \A i \in 0 .. n - 1 : ByteAt(w, i) = ByteAt(f, i)
           /\ \A m \in 0 .. n : Coherent(f, m) => Coherent(w, m)
<1>1. f.fModified \in BOOLEAN /\ f.LFABuf \in Nat /\ n \in Nat /\ f.erc = "ok" /\ f.end = 0
  BY DEF Fub
<1>2. CASE ~f.fModified
  <2>1. w = [f EXCEPT !.erc = "ok"]
    BY <1>2 DEF FlushStreamBuff
  <2>2. w = f
    BY <1>1, <2>1 DEF Fub
  <2> QED
    BY <1>2, <2>2
<1>3. CASE f.fModified
  <2>1. PICK k : k = Blocks(n, f.LFABuf)
    OBVIOUS
  <2>2. /\ k \in Nat /\ k * Sector <= sBuf
        /\ \A i \in 0 .. n - 1 : i < f.LFABuf + sBuf => i < f.LFABuf + k * Sector
    BY <1>1, <2>1, BlocksCover DEF Placed
  <2>3. Reaches(f, nClstrs(n), f.LFABuf) = "cluster"
    <3>1. nClstrs(n) \in Nat /\ f.LFABuf < nClstrs(n) * bpc
      BY <1>1, CapIs DEF Placed, Cap
    <3> QED
      BY <1>1, <3>1, InCluster
  <2> DEFINE data == [i \in DOMAIN f.disk |->
                        IF f.LFABuf <= i /\ i < f.LFABuf + k * Sector
                        THEN f.buf[i - f.LFABuf] ELSE f.disk[i]]
  <2>4. w = [f EXCEPT !.fModified = FALSE, !.erc = "ok", !.end = 0, !.disk = data]
    BY <1>1, <1>3, <2>1, <2>3 DEF FlushStreamBuff
  <2>5. f.disk \in Disk /\ f.buf \in Buff /\ DOMAIN f.disk = 0 .. MaxSize + bpc
    BY DEF Fub, Disk
  <2>6. k * Sector \in Nat
    BY <2>2, Constants
  <2>7. \A i \in 0 .. MaxSize + bpc :
            data[i] = IF f.LFABuf <= i /\ i < f.LFABuf + k * Sector
                      THEN f.buf[i - f.LFABuf] ELSE f.disk[i]
    BY <2>5
  <2>8. data \in Disk
    <3> SUFFICES ASSUME NEW i \in 0 .. MaxSize + bpc PROVE data[i] \in Byte
      BY <2>5 DEF Disk
    <3>1. CASE f.LFABuf <= i /\ i < f.LFABuf + k * Sector
      <4>1. i - f.LFABuf \in 0 .. sBuf - 1
        BY <1>1, <2>2, <2>6, <3>1, Constants
      <4> QED
        BY <2>5, <2>7, <3>1, <4>1 DEF Buff
    <3>2. CASE ~(f.LFABuf <= i /\ i < f.LFABuf + k * Sector)
      BY <2>5, <2>7, <3>2 DEF Disk
    <3> QED
      BY <3>1, <3>2
  <2> HIDE DEF data
  <2>9. w \in Fub
    BY <2>4, <2>8 DEF Fub
  <2>10. /\ w.disk = data /\ w.buf = f.buf /\ w.fModified = FALSE /\ w.LFABuf = f.LFABuf
         /\ w.CrntLFA = f.CrntLFA /\ w.out = f.out
    BY <2>4 DEF Fub
  <2>11. ASSUME NEW i \in 0 .. n - 1
         PROVE  data[i] = IF InBuf(f, i) THEN f.buf[i - f.LFABuf] ELSE f.disk[i]
    <3>1. i \in 0 .. MaxSize + bpc
      BY Constants
    <3>2. InBuf(f, i) <=> f.LFABuf <= i /\ i < f.LFABuf + k * Sector
      BY <1>1, <2>2, <2>6, Constants DEF InBuf
    <3> QED
      BY <2>7, <3>1, <3>2
  <2>12. \A i \in 0 .. n - 1 : ByteAt(w, i) = ByteAt(f, i)
    BY <1>3, <2>10, <2>11 DEF ByteAt
  <2>13. \A i : InBuf(w, i) <=> InBuf(f, i)
    BY <2>10 DEF InBuf
  <2>14. \A m \in 0 .. n : Coherent(w, m)
    <3> SUFFICES ASSUME NEW m \in 0 .. n, NEW i \in 0 .. m - 1, InBuf(w, i)
                 PROVE  w.buf[i - w.LFABuf] = w.disk[i]
      BY DEF Coherent
    <3>1. i \in 0 .. n - 1
      BY <1>1
    <3> QED
      BY <2>10, <2>11, <2>13, <3>1
  <2> QED
    BY <2>9, <2>10, <2>12, <2>14
<1> QED
  BY <1>1, <1>2, <1>3

-----------------------------------------------------------------------------
(* A turn of the loops. *)

LEMMA TurnOverIs ==
    ASSUME NEW f \in Fub, NEW n \in 0 .. MaxSize, NEW m \in 0 .. n, f.CrntLFA < n,
           Placed(f, n), Coherent(f, m), NEW g, NEW b, b = TurnOver(f, n, g)
    PROVE  /\ b \in Fub /\ b.CrntLFA = f.CrntLFA /\ b.out = f.out
           /\ InBuf(b, b.CrntLFA) /\ Placed(b, n) /\ Coherent(b, m)
           /\ \A i \in 0 .. n - 1 : ByteAt(b, i) = ByteAt(f, i)
<1>1. f.CrntLFA \in Nat /\ f.LFABuf \in Nat /\ n \in Nat
  BY DEF Fub
<1>2. PICK w : w = FlushStreamBuff(f, n, g)
  OBVIOUS
<1>3. /\ w \in Fub /\ ~w.fModified /\ w.CrntLFA = f.CrntLFA /\ w.out = f.out
      /\ w.LFABuf = f.LFABuf
      /\ \A i \in 0 .. n - 1 : ByteAt(w, i) = ByteAt(f, i)
      /\ Coherent(w, m)
  BY <1>2, FlushIs
<1>4. CASE f.CrntLFA > lfaEOB(f, n) \/ f.CrntLFA < f.LFABuf
  <2>1. w.erc = "ok" /\ b = FillStreamBuff(w, nClstrs(n), g)
    BY <1>2, <1>3, <1>4 DEF TurnOver, Fub
  <2>2. Placed(w, n) /\ w.CrntLFA <= n /\ w.CrntLFA < Cap(n)
    BY <1>1, <1>3, CapIs DEF Placed
  <2>3. /\ b \in Fub /\ b.disk = w.disk /\ ~b.fModified /\ b.CrntLFA = w.CrntLFA
        /\ b.out = w.out /\ InBuf(b, b.CrntLFA) /\ Placed(b, n) /\ Coherent(b, m)
    BY <1>3, <2>1, <2>2, FillIs
  <2>4. \A i : ByteAt(b, i) = ByteAt(w, i)
    BY <1>3, <2>3 DEF ByteAt
  <2> QED
    BY <1>3, <2>3, <2>4
<1>5. CASE ~(f.CrntLFA > lfaEOB(f, n) \/ f.CrntLFA < f.LFABuf)
  <2>1. b = f
    BY <1>5 DEF TurnOver
  <2>2. InBuf(f, f.CrntLFA)
    BY <1>1, <1>5, Constants DEF InBuf, lfaEOB
  <2> QED
    BY <2>1, <2>2
<1> QED
  BY <1>4, <1>5

LEMMA WriteTurnIs ==
    ASSUME NEW f \in Fub, NEW n \in 0 .. MaxSize, NEW m \in 0 .. n, NEW last \in 0 .. n,
           f.CrntLFA < last, Placed(f, n), Coherent(f, m), NEW v \in Byte, NEW g,
           NEW t, t = WriteTurn(f, n, last, v, g)
    PROVE  /\ t \in Fub /\ t.fModified /\ t.out = f.out /\ Placed(t, n)
           /\ f.CrntLFA < t.CrntLFA /\ t.CrntLFA <= last
           /\ \A i \in 0 .. n - 1 : f.CrntLFA <= i /\ i < t.CrntLFA => ByteAt(t, i) = v
           /\ \A i \in 0 .. m - 1 : ~(f.CrntLFA <= i /\ i < t.CrntLFA) => ByteAt(t, i) = ByteAt(f, i)
<1>1. f.CrntLFA \in Nat /\ n \in Nat /\ last \in Nat /\ m \in Nat /\ f.erc = "ok" /\ f.CrntLFA < n
  BY DEF Fub
<1>2. PICK b : b = TurnOver(f, n, g)
  OBVIOUS
<1>3. /\ b \in Fub /\ b.CrntLFA = f.CrntLFA /\ b.out = f.out
      /\ InBuf(b, b.CrntLFA) /\ Placed(b, n) /\ Coherent(b, m)
      /\ \A i \in 0 .. n - 1 : ByteAt(b, i) = ByteAt(f, i)
  BY <1>1, <1>2, TurnOverIs
<1>4. b.LFABuf \in Nat /\ b.erc = "ok" /\ b.buf \in Buff
  BY <1>3 DEF Fub
<1>5. PICK k : k = Smaller(lfaEOB(b, n) + 1, last) - f.CrntLFA
  OBVIOUS
<1>6. PICK from : from = f.CrntLFA - b.LFABuf
  OBVIOUS
<1>7. k \in Nat \ {0} /\ from \in Nat /\ from + k <= sBuf /\ f.CrntLFA + k <= last
  BY <1>1, <1>3, <1>4, <1>5, <1>6, Constants DEF InBuf, lfaEOB, Smaller
<1> DEFINE data == [i \in DOMAIN b.buf |-> IF from <= i /\ i < from + k THEN v ELSE b.buf[i]]
<1>8. t = [b EXCEPT !.buf = data, !.fModified = TRUE, !.CrntLFA = @ + k]
  BY <1>1, <1>2, <1>4, <1>5, <1>6 DEF WriteTurn
<1>9. data \in Buff /\ \A i \in 0 .. sBuf - 1 :
                            data[i] = IF from <= i /\ i < from + k THEN v ELSE b.buf[i]
  BY <1>4 DEF Buff
<1> HIDE DEF data
<1>10. t \in Fub
  <2>1. PICK p : p = f.CrntLFA + k
    OBVIOUS
  <2>2. p \in Nat /\ t = [b EXCEPT !.buf = data, !.fModified = TRUE, !.CrntLFA = p]
    BY <1>1, <1>3, <1>7, <1>8, <2>1
  <2> QED
    BY <1>3, <1>9, <2>2 DEF Fub
<1>11. /\ t.fModified /\ t.out = f.out /\ t.buf = data /\ t.disk = b.disk /\ t.LFABuf = b.LFABuf
       /\ t.CrntLFA = f.CrntLFA + k
  BY <1>3, <1>8 DEF Fub
<1>12. Placed(t, n)
  BY <1>3, <1>11 DEF Placed
<1>13. \A i : InBuf(t, i) <=> InBuf(b, i)
  BY <1>11 DEF InBuf
<1>14. ASSUME NEW i \in 0 .. n - 1, InBuf(b, i)
       PROVE  ByteAt(t, i) = IF f.CrntLFA <= i /\ i < t.CrntLFA THEN v ELSE b.buf[i - b.LFABuf]
  <2>1. i - b.LFABuf \in 0 .. sBuf - 1
    BY <1>4, <1>14, Constants DEF InBuf
  <2>2. from <= i - b.LFABuf /\ i - b.LFABuf < from + k <=> f.CrntLFA <= i /\ i < f.CrntLFA + k
    BY <1>1, <1>4, <1>6, <1>7
  <2>3. ByteAt(t, i) = data[i - b.LFABuf]
    BY <1>11, <1>13, <1>14 DEF ByteAt
  <2> QED
    BY <1>9, <1>11, <2>1, <2>2, <2>3
<1>15. ASSUME NEW i \in 0 .. n - 1, f.CrntLFA <= i, i < t.CrntLFA PROVE ByteAt(t, i) = v
  <2>1. InBuf(b, i)
    BY <1>1, <1>3, <1>4, <1>6, <1>7, <1>11, <1>15, Constants DEF InBuf
  <2> QED
    BY <1>14, <1>15, <2>1
<1>16. ASSUME NEW i \in 0 .. m - 1, ~(f.CrntLFA <= i /\ i < t.CrntLFA)
       PROVE  ByteAt(t, i) = ByteAt(f, i)
  <2>1. i \in 0 .. n - 1
    BY <1>1
  <2>2. CASE InBuf(b, i)
    <3>1. b.buf[i - b.LFABuf] = ByteAt(b, i)
      BY <1>3, <2>2 DEF Coherent, ByteAt
    <3> QED
      BY <1>3, <1>14, <1>16, <2>1, <2>2, <3>1
  <2>3. CASE ~InBuf(b, i)
    BY <1>3, <1>11, <1>13, <2>1, <2>3 DEF ByteAt
  <2> QED
    BY <2>2, <2>3
<1> QED
  BY <1>1, <1>7, <1>10, <1>11, <1>12, <1>15, <1>16

LEMMA ReadTurnIs ==
    ASSUME EndsFit, size \in Sizes, NEW f \in Fub, ~f.fModified,
           Placed(f, size), Coherent(f, size), f.CrntLFA < size,
           NEW n \in Nat, Len(f.out) < n, NEW g, NEW t, t = ReadTurn(f, n, g)
    PROVE  /\ t \in Fub /\ ~t.fModified /\ t.disk = f.disk /\ Placed(t, size) /\ Coherent(t, size)
           /\ f.CrntLFA < t.CrntLFA /\ t.CrntLFA <= size
           /\ Len(t.out) = Len(f.out) + (t.CrntLFA - f.CrntLFA) /\ Len(t.out) <= n
           /\ \A i \in 1 .. Len(f.out) : t.out[i] = f.out[i]
           /\ \A i \in Len(f.out) + 1 .. Len(t.out) :
                    t.out[i] = f.disk[f.CrntLFA + (i - Len(f.out)) - 1]
<1>1. f.CrntLFA \in Nat /\ size \in 0 .. MaxSize /\ size \in Nat /\ f.out \in Seq(Byte) /\ f.erc = "ok"
  BY Constants DEF Fub
<1>2. PICK b : b = FillStreamBuff(f, nClstrs(size), g)
  OBVIOUS
<1>3. /\ b \in Fub /\ b.disk = f.disk /\ ~b.fModified /\ b.CrntLFA = f.CrntLFA
      /\ b.out = f.out /\ InBuf(b, b.CrntLFA) /\ Placed(b, size) /\ Coherent(b, size)
  <2>1. size <= Cap(size) /\ Cap(size) \in Nat
    BY <1>1, CapIs
  <2>2. f.CrntLFA <= size /\ f.CrntLFA < Cap(size)
    BY <1>1, <2>1
  <2> QED
    BY <1>1, <1>2, <2>2, FillIs
<1>4. b.LFABuf \in Nat /\ b.buf \in Buff /\ Len(f.out) \in Nat
  BY <1>1, <1>3 DEF Fub
<1>5. b.LFABuf + sBuf # size + 1
  <2>1. (b.LFABuf + sBuf) % Sector = 0
    BY <1>3, <1>4, Constants, SumOfMultiples DEF Placed
  <2>2. size + 1 < sBuf \/ (size + 1) % Sector # 0
    BY DEF EndsFit
  <2> QED
    BY <1>1, <1>4, <2>1, <2>2, Constants
<1>6. PICK k : k = Smaller(lfaEOB(b, size) + 1 - f.CrntLFA, n - Len(f.out))
  OBVIOUS
<1>7. /\ k \in Nat \ {0} /\ f.CrntLFA + k <= size /\ f.CrntLFA + k <= b.LFABuf + sBuf
      /\ Len(f.out) + k <= n
  <2>1. PICK e : e = lfaEOB(b, size)
    OBVIOUS
  <2>2. e \in Nat /\ f.CrntLFA <= e /\ e < size /\ e < b.LFABuf + sBuf
    <3>1. b.LFABuf <= f.CrntLFA /\ f.CrntLFA < b.LFABuf + sBuf
      BY <1>3 DEF InBuf
    <3>2. e = IF b.LFABuf + sBuf - 1 > size THEN size - 1 ELSE b.LFABuf + sBuf - 1
      BY <2>1 DEF lfaEOB
    <3>3. sBuf \in Nat
      BY Constants
    <3> QED
      BY <1>1, <1>4, <1>5, <3>1, <3>2, <3>3, TakeTo
  <2> QED
    <3>1. /\ k \in Nat \ {0} /\ f.CrntLFA + k <= e + 1 /\ Len(f.out) + k <= n
      <4>1. k = Smaller(e + 1 - f.CrntLFA, n - Len(f.out))
        BY <1>6, <2>1
      <4> QED
        BY <1>1, <1>4, <2>2, <4>1, Take
    <3>2. b.LFABuf + sBuf \in Nat
      BY <1>4, Constants
    <3> QED
      BY <1>1, <2>2, <3>1, <3>2
<1> DEFINE data == [i \in 1 .. k |-> b.buf[f.CrntLFA - b.LFABuf + i - 1]]
<1>8. t = [b EXCEPT !.out = @ \o data, !.CrntLFA = @ + k]
  BY <1>1, <1>2, <1>6 DEF ReadTurn
<1>9. ASSUME NEW i \in 1 .. k
      PROVE  data[i] = f.disk[f.CrntLFA + i - 1] /\ data[i] \in Byte
  <2>1. PICK x : x = f.CrntLFA + i - 1
    OBVIOUS
  <2>2. x \in 0 .. size - 1 /\ InBuf(b, x) /\ x - b.LFABuf \in 0 .. sBuf - 1
        /\ f.CrntLFA - b.LFABuf + i - 1 = x - b.LFABuf
    <3>1. b.LFABuf <= f.CrntLFA /\ sBuf \in Nat /\ k \in Nat
      BY <1>3, <1>7, Constants DEF InBuf
    <3>2. /\ x \in 0 .. size - 1 /\ b.LFABuf <= x /\ x < b.LFABuf + sBuf
          /\ x - b.LFABuf \in 0 .. sBuf - 1 /\ f.CrntLFA - b.LFABuf + i - 1 = x - b.LFABuf
      <4>1. f.CrntLFA + k <= size /\ f.CrntLFA + k <= b.LFABuf + sBuf /\ size \in Nat
            /\ f.CrntLFA \in Nat /\ b.LFABuf \in Nat
        BY <1>1, <1>4, <1>7
      <4>2. PICK a \in Nat, c \in Nat : a = b.LFABuf /\ c = f.CrntLFA
        BY <4>1
      <4>3. c + k <= size /\ c + k <= a + sBuf /\ a <= c /\ x = c + i - 1
        BY <2>1, <3>1, <4>1, <4>2
      <4>4. /\ x \in 0 .. size - 1 /\ a <= x /\ x < a + sBuf /\ x - a \in 0 .. sBuf - 1
            /\ c - a + i - 1 = x - a
        BY <3>1, <4>1, <4>3
      <4> QED
        BY <4>2, <4>4
    <3> QED
      BY <3>2 DEF InBuf
  <2>3. b.buf[x - b.LFABuf] = b.disk[x]
    BY <1>3, <2>2 DEF Coherent
  <2> QED
    BY <1>3, <1>4, <2>1, <2>2, <2>3 DEF Buff
<1>10. data \in Seq(Byte) /\ Len(data) = k
  BY <1>7, <1>9
<1> HIDE DEF data
<1>11. PICK o : o = f.out \o data
  OBVIOUS
<1>12. /\ o \in Seq(Byte) /\ Len(o) = Len(f.out) + k
       /\ \A i \in 1 .. Len(f.out) : o[i] = f.out[i]
       /\ \A i \in Len(f.out) + 1 .. Len(o) : o[i] = data[i - Len(f.out)]
  <2>1. f.out \in Seq(Byte) /\ data \in Seq(Byte) /\ Len(data) = k
    BY <1>1, <1>10
  <2>2. PICK q \in Seq(Byte), d \in Seq(Byte) : q = f.out /\ d = data
    BY <2>1, Zenon
  <2>3. /\ q \o d \in Seq(Byte) /\ Len(q \o d) = Len(q) + Len(d)
        /\ \A i \in 1 .. Len(q) : (q \o d)[i] = q[i]
        /\ \A i \in Len(q) + 1 .. Len(q) + Len(d) : (q \o d)[i] = d[i - Len(q)]
    BY Concat, Zenon
  <2>4. Len(o) = Len(q) + Len(d)
    BY <1>11, <2>2, <2>3, Zenon
  <2> QED
    BY <1>11, <2>1, <2>2, <2>3, <2>4, Zenon
<1>13. t = [b EXCEPT !.out = o, !.CrntLFA = f.CrntLFA + k]
  BY <1>3, <1>8, <1>11
<1>14. t \in Fub
  <2>1. PICK p : p = f.CrntLFA + k
    OBVIOUS
  <2>2. p \in Nat /\ t = [b EXCEPT !.out = o, !.CrntLFA = p]
    BY <1>1, <1>7, <1>13, <2>1
  <2> QED
    BY <1>3, <1>12, <2>2 DEF Fub
<1>15. /\ ~t.fModified /\ t.disk = f.disk /\ t.buf = b.buf /\ t.LFABuf = b.LFABuf /\ t.out = o
       /\ t.CrntLFA = f.CrntLFA + k
  BY <1>3, <1>13 DEF Fub
<1>16. Placed(t, size) /\ Coherent(t, size)
  BY <1>3, <1>15 DEF Placed, Coherent, InBuf
<1>17. ASSUME NEW i \in Len(f.out) + 1 .. Len(o)
       PROVE  o[i] = f.disk[f.CrntLFA + (i - Len(f.out)) - 1]
  <2>1. PICK j : j = i - Len(f.out)
    OBVIOUS
  <2>2. j \in 1 .. k
    BY <1>4, <1>7, <1>12, <2>1
  <2> QED
    BY <1>9, <1>12, <2>1, <2>2
<1> QED
  BY <1>1, <1>4, <1>7, <1>12, <1>14, <1>15, <1>16, <1>17

-----------------------------------------------------------------------------
(* The loops. *)

\* A turn of either loop; a says which, and has what the turns have in common.
Turn(f, a) ==
    IF a.read THEN ReadTurn(f, a.n, a.g) ELSE WriteTurn(f, a.n, a.last, a.v, a.g)

Turns(f, a, m, h) == h = [i \in 0 .. m |-> IF i = 0 THEN f ELSE Turn(h[i - 1], a)]

LEMMA TurnsExist ==
    ASSUME NEW f, NEW a, NEW n \in Nat
    PROVE  \E h : Turns(f, a, n, h)
<1> DEFINE S == {m \in Nat : \E h : Turns(f, a, m, h)}
<1>1. 0 \in S
  <2>1. Turns(f, a, 0, [i \in 0 .. 0 |-> f])
    BY DEF Turns
  <2> QED
    BY <2>1
<1>2. ASSUME NEW m \in S PROVE m + 1 \in S
  <2>1. PICK h : Turns(f, a, m, h)
    OBVIOUS
  <2> DEFINE k == [i \in 0 .. m + 1 |-> IF i = m + 1 THEN Turn(h[m], a) ELSE h[i]]
  <2>2. \A i \in 0 .. m : h[i] = IF i = 0 THEN f ELSE Turn(h[i - 1], a)
    BY <2>1 DEF Turns
  <2>3. \A i \in 0 .. m + 1 : k[i] = IF i = 0 THEN f ELSE Turn(k[i - 1], a)
    BY <2>2
  <2>4. k = [i \in 0 .. m + 1 |-> IF i = 0 THEN f ELSE Turn(k[i - 1], a)]
    BY <2>3
  <2>5. Turns(f, a, m + 1, k)
    BY <2>4 DEF Turns
  <2> QED
    BY <2>5
<1>3. S = Nat
  BY <1>1, <1>2, SetInduction
<1> QED
  BY <1>3

\* The loops take their turns.
LEMMA ReadLoopTurns ==
    ASSUME NEW f, NEW n, NEW g
    PROVE  \E h : /\ h[0] = f /\ ReadLoop(f, n, g) = h[MaxBytes]
                  /\ \A i \in 1 .. MaxBytes : h[i] = ReadTurn(h[i - 1], n, g)
<1> DEFINE at == CHOOSE h : h = [i \in 0 .. MaxBytes |->
                                    IF i = 0 THEN f ELSE ReadTurn(h[i - 1], n, g)]
<1>1. ReadLoop(f, n, g) = at[MaxBytes]
  BY DEF ReadLoop, MaxTurns
<1>2. PICK a : a.read /\ a.n = n /\ a.g = g
  <2>1. LET x == [read |-> TRUE, n |-> n, g |-> g] IN x.read /\ x.n = n /\ x.g = g
    OBVIOUS
  <2> QED
    BY <2>1
<1>3. \A h : Turns(f, a, MaxBytes, h) <=>
             h = [i \in 0 .. MaxBytes |-> IF i = 0 THEN f ELSE ReadTurn(h[i - 1], n, g)]
  BY <1>2 DEF Turns, Turn
<1>4. \E h : Turns(f, a, MaxBytes, h)
  BY TurnsExist, FileStreamAssumption
<1>5. at = [i \in 0 .. MaxBytes |-> IF i = 0 THEN f ELSE ReadTurn(at[i - 1], n, g)]
  BY <1>3, <1>4
<1> HIDE DEF at
<1>6. at[0] = f /\ \A i \in 1 .. MaxBytes : at[i] = ReadTurn(at[i - 1], n, g)
  BY <1>5, FileStreamAssumption
<1> QED
  BY <1>1, <1>6

LEMMA WriteLoopTurns ==
    ASSUME NEW f, NEW n, NEW last, NEW v, NEW g
    PROVE  \E h : /\ h[0] = f /\ WriteLoop(f, n, last, v, g) = h[MaxBytes]
                  /\ \A i \in 1 .. MaxBytes : h[i] = WriteTurn(h[i - 1], n, last, v, g)
<1> DEFINE at == CHOOSE h : h = [i \in 0 .. MaxBytes |->
                                    IF i = 0 THEN f ELSE WriteTurn(h[i - 1], n, last, v, g)]
<1>1. WriteLoop(f, n, last, v, g) = at[MaxBytes]
  BY DEF WriteLoop, MaxTurns
<1>2. PICK a : ~a.read /\ a.n = n /\ a.last = last /\ a.v = v /\ a.g = g
  <2>1. LET x == [read |-> FALSE, n |-> n, last |-> last, v |-> v, g |-> g]
        IN  ~x.read /\ x.n = n /\ x.last = last /\ x.v = v /\ x.g = g
    OBVIOUS
  <2> QED
    BY <2>1
<1>3. \A h : Turns(f, a, MaxBytes, h) <=>
             h = [i \in 0 .. MaxBytes |-> IF i = 0 THEN f ELSE WriteTurn(h[i - 1], n, last, v, g)]
  BY <1>2 DEF Turns, Turn
<1>4. \E h : Turns(f, a, MaxBytes, h)
  BY TurnsExist, FileStreamAssumption
<1>5. at = [i \in 0 .. MaxBytes |-> IF i = 0 THEN f ELSE WriteTurn(at[i - 1], n, last, v, g)]
  BY <1>3, <1>4
<1> HIDE DEF at
<1>6. at[0] = f /\ \A i \in 1 .. MaxBytes : at[i] = WriteTurn(at[i - 1], n, last, v, g)
  BY <1>5, FileStreamAssumption
<1> QED
  BY <1>1, <1>6

\* What n bytes that are read from f on have become, t, after j turns.
ReadSoFar(f, n, t, j) ==
    /\ t \in Fub /\ ~t.fModified /\ t.disk = f.disk /\ Placed(t, size) /\ Coherent(t, size)
    /\ f.CrntLFA <= t.CrntLFA /\ t.CrntLFA <= size
    /\ Len(t.out) = t.CrntLFA - f.CrntLFA /\ Len(t.out) <= n
    /\ \A i \in 1 .. Len(t.out) : t.out[i] = f.disk[f.CrntLFA + i - 1]
    /\ t.CrntLFA = size \/ Len(t.out) = n \/ j <= Len(t.out)

LEMMA ReadOn ==
    ASSUME EndsFit, size \in Sizes, NEW f \in Fub, NEW n \in Nat, NEW j \in Nat, NEW t, NEW g,
           ReadSoFar(f, n, t, j), NEW u, u = ReadTurn(t, n, g)
    PROVE  ReadSoFar(f, n, u, j + 1)
<1>1. /\ t \in Fub /\ f.CrntLFA \in Nat /\ t.CrntLFA \in Nat /\ Len(t.out) \in Nat /\ size \in Nat
      /\ t.erc = "ok"
  BY Constants DEF ReadSoFar, Fub
<1>4. ~t.fModified /\ Placed(t, size) /\ Coherent(t, size)
  BY DEF ReadSoFar
<1>2. CASE Len(t.out) >= n \/ t.CrntLFA >= size
  <2>1. u = t
    BY <1>2 DEF ReadTurn
  <2> QED
    BY <1>1, <1>2, <2>1 DEF ReadSoFar
<1>3. CASE ~(Len(t.out) >= n \/ t.CrntLFA >= size)
  <2>1. /\ u \in Fub /\ ~u.fModified /\ u.disk = t.disk /\ Placed(u, size) /\ Coherent(u, size)
        /\ t.CrntLFA < u.CrntLFA /\ u.CrntLFA <= size
        /\ Len(u.out) = Len(t.out) + (u.CrntLFA - t.CrntLFA) /\ Len(u.out) <= n
        /\ \A i \in 1 .. Len(t.out) : u.out[i] = t.out[i]
        /\ \A i \in Len(t.out) + 1 .. Len(u.out) :
                u.out[i] = t.disk[t.CrntLFA + (i - Len(t.out)) - 1]
    <3>1. t.CrntLFA < size /\ Len(t.out) < n
      BY <1>1, <1>3
    <3> QED
      BY <1>1, <1>4, <3>1, ReadTurnIs
  <2>2. u.CrntLFA \in Nat /\ Len(u.out) \in Nat
    BY <2>1 DEF Fub
  <2>3. ASSUME NEW i \in 1 .. Len(u.out) PROVE u.out[i] = f.disk[f.CrntLFA + i - 1]
    <3>1. CASE i <= Len(t.out)
      BY <1>1, <2>1, <3>1 DEF ReadSoFar
    <3>2. CASE ~(i <= Len(t.out))
      <4>1. i \in Len(t.out) + 1 .. Len(u.out)
        BY <1>1, <2>2, <3>2
      <4>2. t.CrntLFA + (i - Len(t.out)) - 1 = f.CrntLFA + i - 1
        BY <1>1, <4>1 DEF ReadSoFar
      <4> QED
        BY <2>1, <4>1, <4>2 DEF ReadSoFar
    <3> QED
      BY <3>1, <3>2
  <2>4. Len(u.out) = u.CrntLFA - f.CrntLFA /\ f.CrntLFA <= u.CrntLFA /\ Len(t.out) < Len(u.out)
        /\ t.CrntLFA # size /\ Len(t.out) # n
    BY <1>1, <1>3, <2>1, <2>2 DEF ReadSoFar
  <2>5. j + 1 <= Len(u.out)
    BY <1>1, <2>2, <2>4 DEF ReadSoFar
  <2> QED
    BY <2>1, <2>3, <2>4, <2>5 DEF ReadSoFar
<1> QED
  BY <1>2, <1>3

\* ReadBytes returns the bytes that are there, up to n.
LEMMA ReadLoopIs ==
    ASSUME EndsFit, size \in Sizes, NEW f \in Fub, f.out = <<>>, ~f.fModified,
           Placed(f, size), Coherent(f, size), f.CrntLFA <= size,
           NEW n \in 1 .. MaxBytes, NEW g, NEW r, r = ReadLoop(f, n, g)
    PROVE  /\ ReadSoFar(f, n, r, MaxBytes)
           /\ r.CrntLFA = IF f.CrntLFA + n > size THEN size ELSE f.CrntLFA + n
<1>1. /\ f.CrntLFA \in Nat /\ size \in Nat /\ MaxBytes \in Nat /\ n \in Nat
  BY Constants, FileStreamAssumption DEF Fub
<1>2. PICK h : /\ h[0] = f /\ r = h[MaxBytes]
               /\ \A i \in 1 .. MaxBytes : h[i] = ReadTurn(h[i - 1], n, g)
  BY ReadLoopTurns
<1> DEFINE S == {j \in Nat : j <= MaxBytes => ReadSoFar(f, n, h[j], j)}
<1>3. 0 \in S
  <2>1. ReadSoFar(f, n, f, 0)
    BY <1>1 DEF ReadSoFar
  <2> QED
    BY <1>2, <2>1
<1>4. ASSUME NEW j \in S PROVE j + 1 \in S
  <2> SUFFICES ASSUME j + 1 <= MaxBytes PROVE ReadSoFar(f, n, h[j + 1], j + 1)
    OBVIOUS
  <2>1. j \in Nat /\ ReadSoFar(f, n, h[j], j)
    BY <1>1
  <2>2. h[j + 1] = ReadTurn(h[j], n, g)
    BY <1>1, <1>2, <2>1
  <2> QED
    BY <1>1, <2>1, <2>2, ReadOn
<1>5. S = Nat
  BY <1>3, <1>4, SetInduction
<1>6. ReadSoFar(f, n, r, MaxBytes)
  BY <1>1, <1>2, <1>5
<1>7. r.CrntLFA \in Nat
  BY <1>6 DEF ReadSoFar, Fub
<1>8. r.CrntLFA = IF f.CrntLFA + n > size THEN size ELSE f.CrntLFA + n
  BY <1>1, <1>6, <1>7 DEF ReadSoFar
<1> QED
  BY <1>6, <1>8

\* What bytes that are written from f on, in a file that gets n bytes and had m,
\* have become, t, after j turns.
WriteSoFar(f, m, n, last, v, t, j) ==
    /\ t \in Fub /\ t.out = f.out /\ Placed(t, n)
    /\ f.CrntLFA <= t.CrntLFA /\ t.CrntLFA <= last
    /\ t = f \/ t.fModified
    /\ \A i \in 0 .. n - 1 : f.CrntLFA <= i /\ i < t.CrntLFA => ByteAt(t, i) = v
    /\ \A i \in 0 .. m - 1 : ~(f.CrntLFA <= i /\ i < t.CrntLFA) => ByteAt(t, i) = ByteAt(f, i)
    /\ t.CrntLFA = last \/ j <= t.CrntLFA - f.CrntLFA

LEMMA WriteOn ==
    ASSUME NEW f \in Fub, NEW n \in 0 .. MaxSize, NEW m \in 0 .. n, NEW last \in 0 .. n,
           Coherent(f, m), NEW v \in Byte, NEW g, NEW j \in Nat, NEW t,
           WriteSoFar(f, m, n, last, v, t, j), NEW u, u = WriteTurn(t, n, last, v, g)
    PROVE  WriteSoFar(f, m, n, last, v, u, j + 1)
<1>1. /\ t \in Fub /\ f.CrntLFA \in Nat /\ t.CrntLFA \in Nat /\ n \in Nat /\ m \in Nat /\ last \in Nat
  BY DEF WriteSoFar, Fub
<1>2. CASE t.CrntLFA >= last
  <2>1. u = t
    BY <1>2 DEF WriteTurn
  <2> QED
    BY <1>1, <1>2, <2>1 DEF WriteSoFar
<1>3. CASE ~(t.CrntLFA >= last)
  <2>1. PICK o \in 0 .. n : o >= m /\ Coherent(t, o) /\ (t = f \/ o = n)
    <3>1. CASE t = f
      BY <1>1, <3>1
    <3>2. CASE t.fModified
      <4>1. Coherent(t, n) /\ n \in 0 .. n /\ n >= m
        BY <1>1, <3>2 DEF Coherent
      <4> QED
        BY <4>1
    <3> QED
      BY <3>1, <3>2 DEF WriteSoFar
  <2>2. /\ u \in Fub /\ u.fModified /\ u.out = t.out /\ Placed(u, n)
        /\ t.CrntLFA < u.CrntLFA /\ u.CrntLFA <= last
        /\ \A i \in 0 .. n - 1 : t.CrntLFA <= i /\ i < u.CrntLFA => ByteAt(u, i) = v
        /\ \A i \in 0 .. o - 1 : ~(t.CrntLFA <= i /\ i < u.CrntLFA) => ByteAt(u, i) = ByteAt(t, i)
    <3>1. t.CrntLFA < last /\ Placed(t, n)
      BY <1>1, <1>3 DEF WriteSoFar
    <3> QED
      BY <1>1, <2>1, <3>1, WriteTurnIs
  <2>3. /\ u.CrntLFA \in Nat /\ f.CrntLFA <= t.CrntLFA /\ t.out = f.out
        /\ t.CrntLFA # last /\ j <= t.CrntLFA - f.CrntLFA
        /\ \A i \in 0 .. n - 1 : f.CrntLFA <= i /\ i < t.CrntLFA => ByteAt(t, i) = v
        /\ \A i \in 0 .. m - 1 : ~(f.CrntLFA <= i /\ i < t.CrntLFA) => ByteAt(t, i) = ByteAt(f, i)
    BY <1>1, <1>3, <2>2 DEF WriteSoFar, Fub
  <2>4. ASSUME NEW i \in 0 .. n - 1, f.CrntLFA <= i, i < u.CrntLFA PROVE ByteAt(u, i) = v
    <3>1. CASE t.CrntLFA <= i
      BY <2>2, <2>4, <3>1
    <3>2. CASE ~(t.CrntLFA <= i)
      <4>1. i < t.CrntLFA /\ t # f
        BY <1>1, <2>4, <3>2
      <4>2. i \in 0 .. o - 1
        BY <2>1, <4>1
      <4> QED
        BY <2>2, <2>3, <2>4, <3>2, <4>1, <4>2
    <3> QED
      BY <3>1, <3>2
  <2>5. ASSUME NEW i \in 0 .. m - 1, ~(f.CrntLFA <= i /\ i < u.CrntLFA)
        PROVE  ByteAt(u, i) = ByteAt(f, i)
    <3>1. i \in Nat /\ i \in 0 .. o - 1
      BY <1>1, <2>1
    <3>2. ~(t.CrntLFA <= i /\ i < u.CrntLFA) /\ ~(f.CrntLFA <= i /\ i < t.CrntLFA)
      BY <1>1, <2>2, <2>3, <2>5, <3>1
    <3> QED
      BY <2>2, <2>3, <3>1, <3>2
  <2>6. f.CrntLFA <= u.CrntLFA /\ j + 1 <= u.CrntLFA - f.CrntLFA /\ u.out = f.out
    BY <1>1, <2>2, <2>3
  <2> QED
    BY <2>2, <2>4, <2>5, <2>6 DEF WriteSoFar
<1> QED
  BY <1>2, <1>3

\* WriteBytes writes all of its bytes, and no others.
LEMMA WriteLoopIs ==
    ASSUME NEW f \in Fub, NEW n \in 0 .. MaxSize, NEW m \in 0 .. n, NEW last \in 0 .. n,
           Placed(f, n), Coherent(f, m), f.CrntLFA < last, last <= f.CrntLFA + MaxBytes,
           NEW v \in Byte, NEW g, NEW w, w = WriteLoop(f, n, last, v, g)
    PROVE  WriteSoFar(f, m, n, last, v, w, MaxBytes) /\ w.fModified /\ w.CrntLFA = last
<1>1. /\ f.CrntLFA \in Nat /\ MaxBytes \in Nat /\ n \in Nat /\ m \in Nat /\ last \in Nat
  BY FileStreamAssumption DEF Fub
<1>2. PICK h : /\ h[0] = f /\ w = h[MaxBytes]
               /\ \A i \in 1 .. MaxBytes : h[i] = WriteTurn(h[i - 1], n, last, v, g)
  BY WriteLoopTurns
<1> DEFINE S == {j \in Nat : j <= MaxBytes => WriteSoFar(f, m, n, last, v, h[j], j)}
<1>3. 0 \in S
  <2>1. WriteSoFar(f, m, n, last, v, f, 0)
    BY <1>1 DEF WriteSoFar
  <2> QED
    BY <1>2, <2>1
<1>4. ASSUME NEW j \in S PROVE j + 1 \in S
  <2> SUFFICES ASSUME j + 1 <= MaxBytes PROVE WriteSoFar(f, m, n, last, v, h[j + 1], j + 1)
    OBVIOUS
  <2>1. j \in Nat /\ WriteSoFar(f, m, n, last, v, h[j], j)
    BY <1>1
  <2>2. h[j + 1] = WriteTurn(h[j], n, last, v, g)
    BY <1>1, <1>2, <2>1
  <2> QED
    BY <2>1, <2>2, WriteOn
<1>5. S = Nat
  BY <1>3, <1>4, SetInduction
<1>6. WriteSoFar(f, m, n, last, v, w, MaxBytes)
  BY <1>1, <1>2, <1>5
<1>7. w.CrntLFA \in Nat
  BY <1>6 DEF WriteSoFar, Fub
<1>8. w.CrntLFA = last
  BY <1>1, <1>6, <1>7 DEF WriteSoFar
<1>9. w.fModified
  BY <1>1, <1>6, <1>8 DEF WriteSoFar
<1> QED
  BY <1>6, <1>8, <1>9

-----------------------------------------------------------------------------
(* The calls, and what each of them is for ByteFile. *)

LEMMA KeptIs ==
    ASSUME NEW f \in Fub
    PROVE  /\ Kept(f) \in Fub /\ Kept(f).out = <<>>
           /\ Kept(f).CrntLFA = f.CrntLFA /\ Kept(f).LFABuf = f.LFABuf
           /\ Kept(f).fModified = f.fModified
           /\ \A i : ByteAt(Kept(f), i) = ByteAt(f, i)
           /\ \A n : (Placed(f, n) => Placed(Kept(f), n)) /\ (Coherent(f, n) => Coherent(Kept(f), n))
           /\ \A n : Bytes(Kept(f), n) = Bytes(f, n)
<1>1. PICK k : k = Kept(f)
  OBVIOUS
<1>2. /\ k \in Fub /\ k.out = <<>> /\ k.CrntLFA = f.CrntLFA /\ k.LFABuf = f.LFABuf
      /\ k.fModified = f.fModified /\ k.buf = f.buf /\ k.disk = f.disk
  <2>3. <<>> \in Seq(Byte)
    OBVIOUS
  <2>1. PICK e \in Seq(Byte) : e = <<>>
    BY <2>3, Zenon
  <2>2. k = [f EXCEPT !.out = e, !.erc = "ok"]
    BY <1>1, <2>1 DEF Kept
  <2> QED
    BY <2>1, <2>2 DEF Fub
<1>3. \A i : InBuf(k, i) <=> InBuf(f, i)
  BY <1>2 DEF InBuf
<1>4. \A i : ByteAt(k, i) = ByteAt(f, i)
  BY <1>2, <1>3 DEF ByteAt
<1>5. \A n : (Placed(f, n) => Placed(k, n)) /\ (Coherent(f, n) => Coherent(k, n))
  BY <1>2, <1>3 DEF Placed, Coherent
<1>6. \A n : Bytes(k, n) = Bytes(f, n)
  BY <1>4 DEF Bytes
<1> QED
  BY <1>1, <1>2, <1>4, <1>5, <1>6

LEMMA BytesType ==
    ASSUME NEW f \in Fub, NEW n \in 0 .. MaxSize
    PROVE  Bytes(f, n) \in Seq(Byte) /\ Len(Bytes(f, n)) = n
<1>1. n \in Nat /\ f.disk \in Disk /\ f.buf \in Buff /\ f.LFABuf \in Nat
  BY DEF Fub
<1>2. ASSUME NEW i \in 1 .. n PROVE ByteAt(f, i - 1) \in Byte
  <2>1. i - 1 \in 0 .. MaxSize + bpc
    BY Constants
  <2>2. InBuf(f, i - 1) => (i - 1) - f.LFABuf \in 0 .. sBuf - 1
    BY <1>1, Constants DEF InBuf
  <2> QED
    BY <1>1, <2>1, <2>2 DEF ByteAt, Disk, Buff
<1> QED
  BY <1>1, <1>2 DEF Bytes

LEMMA SameBytes ==
    ASSUME NEW f, NEW h, NEW n \in Nat, \A i \in 0 .. n - 1 : ByteAt(h, i) = ByteAt(f, i)
    PROVE  Bytes(h, n) = Bytes(f, n)
<1>1. \A i \in 1 .. n : i - 1 \in 0 .. n - 1
  OBVIOUS
<1> QED
  BY <1>1 DEF Bytes

\* The bytes of the refinement mapping, in a state and in the next.
LEMMA Mapped ==
    /\ [i \in 1 .. size |-> Current(i - 1)] = Bytes(FUB, size)
    /\ [i \in 1 .. size |-> Current(i - 1)]' = Bytes(FUB', size')
BY DEF Current, Bytes, ByteAt, InBuf

LEMMA IsFail ==
    ASSUME mode' = mode, Bytes(FUB', size') = Bytes(FUB, size),
           reply'.erc # "ok", reply'.erc # "ErcEOF"
    PROVE  BF!Next
<1>1. BF!Fail
  BY Mapped DEF BF!Fail
<1> QED
  BY <1>1 DEF BF!Next

LEMMA IsOpen ==
    ASSUME NEW m \in {"read", "modify"}, mode = "closed", mode' = m,
           Bytes(FUB', size') = Bytes(FUB, size), FUB'.CrntLFA = 0,
           reply' = [erc |-> "ok", out |-> <<>>]
    PROVE  BF!Next
<1>1. BF!OpenFile(m)
  BY Mapped DEF BF!OpenFile, BF!Returns
<1> QED
  BY <1>1 DEF BF!Next

LEMMA IsClose ==
    ASSUME mode # "closed", mode' = "closed",
           Bytes(FUB', size') = Bytes(FUB, size), FUB'.CrntLFA = FUB.CrntLFA,
           reply' = [erc |-> "ok", out |-> <<>>]
    PROVE  BF!Next
<1>1. BF!CloseFile
  BY Mapped DEF BF!CloseFile, BF!Returns
<1> QED
  BY <1>1 DEF BF!Next

LEMMA IsSeek ==
    ASSUME mode # "closed", mode' = mode, FUB \in Fub, size \in 0 .. MaxSize,
           Bytes(FUB', size') = Bytes(FUB, size), NEW n \in 0 .. size, FUB'.CrntLFA = n,
           reply' = [erc |-> "ok", out |-> <<>>]
    PROVE  BF!Next
<1>1. Len(Bytes(FUB, size)) = size /\ n <= size /\ n \in 0 .. MaxSize
  BY BytesType, Constants
<1>2. BF!SetFileLFA(n)
  BY <1>1, Mapped DEF BF!SetFileLFA, BF!Returns
<1> QED
  BY <1>1, <1>2 DEF BF!Next

LEMMA IsRead ==
    ASSUME mode # "closed", mode' = mode, FUB \in Fub, size \in 0 .. MaxSize,
           FUB.CrntLFA <= size, Bytes(FUB', size') = Bytes(FUB, size), NEW n \in Nat \ {0},
           FUB'.CrntLFA = (IF FUB.CrntLFA + n > size THEN size ELSE FUB.CrntLFA + n),
           reply' = [erc |-> IF FUB'.CrntLFA = size THEN "ErcEOF" ELSE "ok",
                     out |-> SubSeq(Bytes(FUB, size), FUB.CrntLFA + 1, FUB'.CrntLFA)]
    PROVE  BF!Next
<1>1. Len(Bytes(FUB, size)) = size /\ size \in Nat /\ FUB.CrntLFA \in Nat
  BY BytesType DEF Fub
<1>2. PICK k : k = IF n > MaxSize THEN MaxSize ELSE n
  OBVIOUS
<1>3. k \in 1 .. MaxSize
  BY <1>2, Constants
<1>4. FUB'.CrntLFA = IF FUB.CrntLFA + k > size THEN size ELSE FUB.CrntLFA + k
  BY <1>1, <1>2, Constants
<1>5. BF!ReadBytes(k)
  BY <1>1, <1>4, Mapped DEF BF!ReadBytes, BF!Returns
<1> QED
  BY <1>3, <1>5 DEF BF!Next

LEMMA IsWrite ==
    ASSUME mode = "modify", mode' = mode, FUB \in Fub, size \in 0 .. MaxSize,
           NEW n \in 1 .. MaxSize, NEW v \in Byte, FUB'.CrntLFA = FUB.CrntLFA + n,
           size' = (IF FUB'.CrntLFA > size THEN FUB'.CrntLFA ELSE size),
           \A i \in 0 .. size' - 1 : FUB.CrntLFA <= i /\ i < FUB'.CrntLFA => ByteAt(FUB', i) = v,
           \A i \in 0 .. size - 1 :
                ~(FUB.CrntLFA <= i /\ i < FUB'.CrntLFA) => ByteAt(FUB', i) = ByteAt(FUB, i),
           FUB.CrntLFA <= size, reply' = [erc |-> "ok", out |-> <<>>]
    PROVE  BF!Next
<1>1. Len(Bytes(FUB, size)) = size /\ size \in Nat /\ FUB.CrntLFA \in Nat
  BY BytesType DEF Fub
<1>2. PICK c \in Nat, p \in Nat, z \in Nat :
            c = FUB.CrntLFA /\ p = FUB'.CrntLFA /\ p = c + n /\ z = size'
  BY <1>1
<1>3. z = (IF p > size THEN p ELSE size) /\ c <= size
  BY <1>2
<1>4. ASSUME NEW i \in 1 .. z
      PROVE  ByteAt(FUB', i - 1) = IF c < i /\ i <= p THEN v ELSE Bytes(FUB, size)[i]
  <2>1. CASE c < i /\ i <= p
    <3>1. i - 1 \in 0 .. size' - 1 /\ FUB.CrntLFA <= i - 1 /\ i - 1 < FUB'.CrntLFA
      BY <1>2, <2>1
    <3> QED
      BY <2>1, <3>1
  <2>2. CASE ~(c < i /\ i <= p)
    <3>1. i \in 1 .. size /\ i - 1 \in 0 .. size - 1 /\ ~(c <= i - 1 /\ i - 1 < p)
      BY <1>1, <1>2, <1>3, <2>2
    <3>2. ByteAt(FUB', i - 1) = ByteAt(FUB, i - 1)
      BY <1>2, <3>1
    <3> QED
      BY <2>2, <3>1, <3>2 DEF Bytes
  <2> QED
    BY <2>1, <2>2
<1>5. Bytes(FUB', size') = [i \in 1 .. (IF p > size THEN p ELSE size) |->
                                IF c < i /\ i <= p THEN v ELSE Bytes(FUB, size)[i]]
  BY <1>2, <1>3, <1>4 DEF Bytes
<1>6. BF!WriteBytes(n, v)
  BY <1>1, <1>2, <1>5, Mapped DEF BF!WriteBytes, BF!Returns
<1> QED
  BY <1>6 DEF BF!Next

\* A handle after a call that kept the size.
LEMMA CallIs ==
    ASSUME NEW md \in {"closed", "read", "modify"}, size \in Sizes, NEW f \in Fub,
           f.CrntLFA <= size, f.LFABuf % Sector = 0,
           f.fModified => md = "modify", md # "closed" => Placed(f, size) /\ Coherent(f, size)
    PROVE  Sound(md, size, Kept(f)) /\ Bytes(Kept(f), size) = Bytes(f, size)
           /\ Kept(f).CrntLFA = f.CrntLFA
BY KeptIs DEF Sound

LEMMA FailedStep ==
    ASSUME StreamInv, NEW erc, erc # "ok", erc # "ErcEOF", Failed(erc)
    PROVE  StreamInv' /\ BF!Next
<1>1. mode' = mode /\ FUB' = FUB /\ size' = size /\ reply'.erc = erc
  BY DEF Failed
<1> QED
  BY <1>1, IsFail DEF StreamInv

LEMMA OpenStep ==
    ASSUME StreamInv, NEW m \in {"read", "modify"}, NEW g, OpenFile(m, g)
    PROVE  StreamInv' /\ BF!Next
<1>1. /\ mode = "closed" /\ mode' = m /\ size' = size /\ reply' = [erc |-> "ok", out |-> <<>>]
      /\ size \in Sizes /\ size \in 0 .. MaxSize /\ size \in Nat /\ FUB \in Fub /\ ~FUB.fModified
  BY Constants DEF OpenFile, StreamInv, Sound
<1>2. PICK f : f = [FUB EXCEPT !.CrntLFA = 0, !.fModified = FALSE, !.end = 0]
  OBVIOUS
<1>3. f \in Fub /\ f.CrntLFA = 0 /\ ~f.fModified /\ f.disk = FUB.disk
  BY <1>1, <1>2 DEF Fub
<1>4. PICK b : b = LoadBuff(f, nClstrs(size), 0, g)
  OBVIOUS
<1>5. FUB' = Kept(b)
  BY <1>2, <1>4 DEF OpenFile
<1>6. nClstrs(size) \in Nat /\ 0 < Cap(size) /\ Cap(size) <= MaxSize + bpc
      /\ Cap(size) \in Nat /\ size <= Cap(size)
  <2>1. /\ nClstrs(size) \in Nat /\ Cap(size) \in Nat \ {0} /\ size <= Cap(size)
        /\ Cap(size) <= size + bpc
    BY <1>1, CapIs
  <2> QED
    BY <1>1, <2>1, Constants
<1>7. /\ b \in Fub /\ b.LFABuf = 0 /\ b.disk = f.disk /\ b.fModified = f.fModified
      /\ b.CrntLFA = f.CrntLFA
      /\ \A i \in 0 .. sBuf - 1 : 0 + i < Cap(size) => b.buf[i] = f.disk[0 + i]
  BY <1>3, <1>4, <1>6, LoadIs DEF Cap
<1>8. Placed(b, size)
  BY <1>1, <1>6, <1>7, Constants DEF Placed
<1>9. Coherent(b, size)
  <2>1. ASSUME NEW i \in 0 .. size - 1, InBuf(b, i) PROVE b.buf[i - b.LFABuf] = b.disk[i]
    <3>1. i \in 0 .. sBuf - 1 /\ i < Cap(size) /\ 0 + i = i /\ i - b.LFABuf = i
      BY <1>1, <1>6, <1>7, <2>1, Constants DEF InBuf
    <3> QED
      BY <1>7, <3>1
  <2> QED
    BY <2>1 DEF Coherent
<1>10. \A i : ByteAt(b, i) = ByteAt(FUB, i)
  BY <1>1, <1>3, <1>7 DEF ByteAt
<1>11. Bytes(b, size) = Bytes(FUB, size)
  BY <1>10 DEF Bytes
<1>12. /\ Sound(m, size, Kept(b)) /\ Bytes(Kept(b), size) = Bytes(b, size)
       /\ Kept(b).CrntLFA = b.CrntLFA
  <2>1. b.LFABuf % Sector = 0 /\ b.CrntLFA <= size
    BY <1>1, <1>3, <1>7, <1>8 DEF Placed
  <2> QED
    BY <1>1, <1>3, <1>7, <1>8, <1>9, <2>1, CallIs
<1> QED
  BY <1>1, <1>3, <1>5, <1>7, <1>11, <1>12, IsOpen DEF StreamInv

LEMMA CloseStep ==
    ASSUME StreamInv, NEW g, CloseFile(g)
    PROVE  StreamInv' /\ BF!Next
<1>1. PICK w : w = FlushStreamBuff(FUB, size, g)
  OBVIOUS
<1>2. /\ mode # "closed" /\ mode' = "closed" /\ size' = size
      /\ FUB' = Kept(w) /\ reply' = [erc |-> w.erc, out |-> <<>>]
  BY <1>1 DEF CloseFile
<1>3. /\ size \in Sizes /\ size \in 0 .. MaxSize /\ size \in Nat /\ FUB \in Fub
      /\ Placed(FUB, size) /\ FUB.CrntLFA <= size /\ FUB.LFABuf % Sector = 0
  BY <1>2, Constants DEF StreamInv, Sound
<1>4. /\ w \in Fub /\ ~w.fModified /\ w.CrntLFA = FUB.CrntLFA /\ w.LFABuf = FUB.LFABuf
      /\ \A i \in 0 .. size - 1 : ByteAt(w, i) = ByteAt(FUB, i)
  BY <1>1, <1>3, FlushIs
<1>5. w.erc = "ok" /\ Bytes(w, size) = Bytes(FUB, size)
  BY <1>3, <1>4, SameBytes DEF Fub
<1>6. /\ Sound("closed", size, Kept(w)) /\ Bytes(Kept(w), size) = Bytes(w, size)
      /\ Kept(w).CrntLFA = w.CrntLFA
  BY <1>3, <1>4, CallIs
<1> QED
  BY <1>2, <1>4, <1>5, <1>6, IsClose DEF StreamInv

LEMMA ReadStep ==
    ASSUME StreamInv, EndsFit, ~ReadsDirty, NEW n \in 1 .. MaxBytes, NEW g, MayRead,
           ReadBytes(n, g)
    PROVE  StreamInv' /\ BF!Next
<1>1. /\ size \in Sizes /\ size \in 0 .. MaxSize /\ size \in Nat /\ FUB \in Fub
      /\ FUB.CrntLFA <= size /\ FUB.CrntLFA \in Nat /\ ~FUB.fModified /\ FUB.out = <<>>
      /\ n \in Nat \ {0}
      /\ mode \in {"closed", "read", "modify"}
  BY Constants, FileStreamAssumption DEF StreamInv, Sound, MayRead, Fub
<1>2. CASE mode = "closed"
  BY <1>2, FailedStep DEF ReadBytes
<1>3. CASE mode # "closed" /\ FUB.CrntLFA >= size
  <2>1. /\ mode' = mode /\ FUB' = FUB /\ size' = size
        /\ reply' = [erc |-> "ErcEOF", out |-> <<>>]
    BY <1>3 DEF ReadBytes, Failed
  <2>2. FUB'.CrntLFA = size
        /\ FUB'.CrntLFA = IF FUB.CrntLFA + n > size THEN size ELSE FUB.CrntLFA + n
    BY <1>1, <1>3, <2>1
  <2>3. SubSeq(Bytes(FUB, size), FUB.CrntLFA + 1, FUB'.CrntLFA) = <<>>
    BY <1>1, <2>1, <2>2, BytesType
  <2>4. BF!Next
    BY <1>1, <1>3, <2>1, <2>2, <2>3, IsRead
  <2> QED
    BY <2>1, <2>4 DEF StreamInv
<1>4. CASE mode # "closed" /\ ~(FUB.CrntLFA >= size)
  <2>1. PICK r : r = ReadLoop(FUB, n, g)
    OBVIOUS
  <2>2. /\ mode' = mode /\ FUB' = Kept(r) /\ size' = size
        /\ reply' = [erc |-> IF r.erc = "ok" /\ r.CrntLFA = size THEN "ErcEOF" ELSE r.erc,
                     out |-> r.out]
    BY <1>4, <2>1 DEF ReadBytes
  <2>3. Placed(FUB, size) /\ Coherent(FUB, size)
    BY <1>4 DEF StreamInv, Sound
  <2>4. /\ ReadSoFar(FUB, n, r, MaxBytes)
        /\ r.CrntLFA = IF FUB.CrntLFA + n > size THEN size ELSE FUB.CrntLFA + n
    BY <1>1, <2>1, <2>3, ReadLoopIs
  <2>5. /\ r \in Fub /\ ~r.fModified /\ r.disk = FUB.disk /\ Placed(r, size)
        /\ Coherent(r, size) /\ r.CrntLFA <= size /\ Len(r.out) = r.CrntLFA - FUB.CrntLFA
        /\ FUB.CrntLFA <= r.CrntLFA
        /\ \A i \in 1 .. Len(r.out) : r.out[i] = FUB.disk[FUB.CrntLFA + i - 1]
    BY <2>4 DEF ReadSoFar
  <2>6. r.erc = "ok" /\ r.out \in Seq(Byte) /\ r.CrntLFA \in Nat
    BY <2>5 DEF Fub
  <2>7. \A i : ByteAt(r, i) = ByteAt(FUB, i)
    BY <1>1, <2>5 DEF ByteAt
  <2>8. Bytes(r, size) = Bytes(FUB, size)
    BY <2>7 DEF Bytes
  <2>9. r.out = SubSeq(Bytes(FUB, size), FUB.CrntLFA + 1, r.CrntLFA)
    <3>1. PICK s : s = Bytes(FUB, size)
      OBVIOUS
    <3>2. s \in Seq(Byte) /\ Len(s) = size
      BY <1>1, <3>1, BytesType
    <3>3. ASSUME NEW i \in 1 .. Len(r.out)
          PROVE  r.out[i] = s[FUB.CrntLFA + i]
      <4>1. FUB.CrntLFA + i \in 1 .. size /\ (FUB.CrntLFA + i) - 1 = FUB.CrntLFA + i - 1
        BY <1>1, <2>5, <2>6
      <4>2. s[FUB.CrntLFA + i] = ByteAt(FUB, (FUB.CrntLFA + i) - 1)
        BY <3>1, <4>1 DEF Bytes
      <4> QED
        BY <1>1, <2>5, <4>1, <4>2 DEF ByteAt
    <3>4. PICK c \in Nat, e \in Nat, o \in Seq(Byte) :
              c = FUB.CrntLFA /\ e = r.CrntLFA /\ o = r.out
      BY <1>1, <2>6
    <3>5. Len(o) = e - c /\ c <= e /\ e <= Len(s) /\ \A i \in 1 .. Len(o) : o[i] = s[c + i]
      BY <2>5, <3>2, <3>3, <3>4
    <3>6. o = SubSeq(s, c + 1, e)
      BY <3>2, <3>5
    <3> QED
      BY <3>1, <3>4, <3>6
  <2>10. /\ Sound(mode, size, Kept(r)) /\ Bytes(Kept(r), size) = Bytes(r, size)
         /\ Kept(r).CrntLFA = r.CrntLFA
    <3>1. r.LFABuf % Sector = 0
      BY <2>5 DEF Placed
    <3> QED
      BY <1>1, <2>5, <3>1, CallIs
  <2>11. BF!Next
    <3>1. /\ FUB'.CrntLFA = r.CrntLFA /\ Bytes(FUB', size') = Bytes(FUB, size)
          /\ reply' = [erc |-> IF FUB'.CrntLFA = size THEN "ErcEOF" ELSE "ok",
                       out |-> SubSeq(Bytes(FUB, size), FUB.CrntLFA + 1, FUB'.CrntLFA)]
      BY <2>2, <2>6, <2>8, <2>9, <2>10
    <3> QED
      BY <1>1, <1>4, <2>2, <2>4, <3>1, IsRead
  <2> QED
    BY <2>2, <2>10, <2>11 DEF StreamInv
<1> QED
  BY <1>2, <1>3, <1>4

LEMMA WriteStep ==
    ASSUME StreamInv, NEW n \in 1 .. MaxBytes, NEW v \in Byte, NEW g, MayWrite(n),
           WriteBytes(n, v, g)
    PROVE  StreamInv' /\ BF!Next
<1>1. /\ size \in Sizes /\ size \in 0 .. MaxSize /\ size \in Nat /\ FUB \in Fub
      /\ FUB.CrntLFA <= size /\ FUB.CrntLFA \in Nat /\ FUB.out = <<>>
      /\ n \in Nat \ {0} /\ MaxBytes \in Nat
      /\ mode \in {"closed", "read", "modify"}
  BY Constants, FileStreamAssumption DEF StreamInv, Sound, Fub
<1>2. CASE mode = "closed"
  BY <1>2, FailedStep DEF WriteBytes
<1>3. CASE mode = "read"
  BY <1>3, FailedStep DEF WriteBytes
<1>4. CASE mode = "modify"
  <2>1. PICK last \in Nat : last = FUB.CrntLFA + n
    BY <1>1
  <2>2. PICK sz : sz = IF last > size THEN last ELSE size
    OBVIOUS
  <2>3. PICK w : w = WriteLoop(FUB, sz, last, v, g)
    OBVIOUS
  <2>4. \/ Failed("ErcDiskFull")
        \/ /\ size' = sz /\ FUB' = Kept(w) /\ reply' = [erc |-> w.erc, out |-> <<>>]
           /\ mode' = mode
    BY <1>4, <2>1, <2>2, <2>3 DEF WriteBytes
  <2>5. CASE Failed("ErcDiskFull")
    BY <2>5, FailedStep
  <2>6. CASE /\ size' = sz /\ FUB' = Kept(w) /\ reply' = [erc |-> w.erc, out |-> <<>>]
             /\ mode' = mode
    <3>1. /\ sz \in Sizes /\ sz \in 0 .. MaxSize /\ sz \in Nat /\ size \in 0 .. sz /\ last \in 0 .. sz
          /\ FUB.CrntLFA < last /\ last <= FUB.CrntLFA + MaxBytes
      <4>1. last \in Sizes \/ last <= size
        BY <2>1 DEF MayWrite
      <4>2. sz \in Sizes
        BY <1>1, <2>1, <2>2, <4>1
      <4> QED
        BY <1>1, <2>1, <2>2, <4>2, Constants
    <3>2. Placed(FUB, size) /\ Coherent(FUB, size)
      BY <1>4 DEF StreamInv, Sound
    <3>3. Placed(FUB, sz)
      <4>1. FUB.LFABuf <= size /\ FUB.LFABuf % Sector = 0 /\ FUB.LFABuf < Cap(size)
            /\ FUB.LFABuf \in Nat
        BY <1>1, <3>2 DEF Placed, Fub
      <4>2. sz <= Cap(sz) /\ Cap(sz) \in Nat
        BY <3>1, CapIs
      <4>3. CASE sz = size
        BY <3>2, <4>3
      <4>4. CASE sz # size
        BY <1>1, <2>2, <3>1, <4>1, <4>2, <4>4 DEF Placed
      <4> QED
        BY <4>3, <4>4
    <3>4. WriteSoFar(FUB, size, sz, last, v, w, MaxBytes) /\ w.fModified /\ w.CrntLFA = last
      BY <1>1, <2>3, <3>1, <3>2, <3>3, WriteLoopIs
    <3>5. /\ w \in Fub /\ w.out = <<>> /\ Placed(w, sz)
          /\ \A i \in 0 .. sz - 1 : FUB.CrntLFA <= i /\ i < w.CrntLFA => ByteAt(w, i) = v
          /\ \A i \in 0 .. size - 1 :
                ~(FUB.CrntLFA <= i /\ i < w.CrntLFA) => ByteAt(w, i) = ByteAt(FUB, i)
      BY <1>1, <3>4 DEF WriteSoFar
    <3>6. w.erc = "ok"
      BY <3>5 DEF Fub
    <3>7. PICK u : u = Kept(w)
      OBVIOUS
    <3>8. /\ u \in Fub /\ u.out = <<>> /\ u.CrntLFA = last /\ u.LFABuf = w.LFABuf /\ u.fModified
          /\ Placed(u, sz) /\ \A i : ByteAt(u, i) = ByteAt(w, i)
      BY <3>4, <3>5, <3>7, KeptIs
    <3>9. Sound(mode, sz, u)
      <4>1. u.LFABuf % Sector = 0 /\ u.CrntLFA <= sz
        BY <3>1, <3>8 DEF Placed
      <4>2. Coherent(u, sz)
        BY <3>8 DEF Coherent
      <4> QED
        BY <1>4, <3>1, <3>8, <4>1, <4>2 DEF Sound
    <3>10. BF!Next
      <4>1. /\ FUB'.CrntLFA = FUB.CrntLFA + n
            /\ size' = (IF FUB'.CrntLFA > size THEN FUB'.CrntLFA ELSE size)
            /\ reply' = [erc |-> "ok", out |-> <<>>] /\ FUB' = u
        BY <2>1, <2>2, <2>6, <3>6, <3>7, <3>8
      <4>2. \A i \in 0 .. size' - 1 : FUB.CrntLFA <= i /\ i < FUB'.CrntLFA => ByteAt(FUB', i) = v
        BY <2>6, <3>4, <3>5, <3>8, <4>1
      <4>3. \A i \in 0 .. size - 1 :
                ~(FUB.CrntLFA <= i /\ i < FUB'.CrntLFA) => ByteAt(FUB', i) = ByteAt(FUB, i)
        BY <3>4, <3>5, <3>8, <4>1
      <4>4. n \in 1 .. MaxSize
        BY <1>1, <2>1, <3>1, Constants
      <4> QED
        BY <1>1, <1>4, <2>6, <4>1, <4>2, <4>3, <4>4, IsWrite
    <3> QED
      BY <2>6, <3>7, <3>9, <3>10 DEF StreamInv
  <2> QED
    BY <2>4, <2>5, <2>6
<1> QED
  BY <1>1, <1>2, <1>3, <1>4

LEMMA SeekStep ==
    ASSUME StreamInv, ~SeeksEnd, NEW n \in 0 .. MaxSize + 1, NEW g, MaySeek(n), SetFileLFA(n, g)
    PROVE  StreamInv' /\ BF!Next
<1>1. /\ size \in Sizes /\ size \in 0 .. MaxSize /\ size \in Nat /\ FUB \in Fub /\ n \in Nat
      /\ FUB.CrntLFA <= size /\ FUB.CrntLFA \in Nat /\ FUB.LFABuf % Sector = 0
      /\ mode \in {"closed", "read", "modify"}
  BY Constants DEF StreamInv, Sound, Fub
<1>2. CASE mode = "closed"
  BY <1>2, FailedStep DEF SetFileLFA
<1>3. CASE mode # "closed"
  <2>1. PICK w : w = FlushStreamBuff(FUB, size, g)
    OBVIOUS
  <2>2. PICK f : f = [w EXCEPT !.CrntLFA = n]
    OBVIOUS
  <2>3. PICK b : b = FillStreamBuff(f, nClstrs(size), g)
    OBVIOUS
  <2>4. Placed(FUB, size) /\ Coherent(FUB, size)
    BY <1>3 DEF StreamInv, Sound
  <2>5. /\ w \in Fub /\ ~w.fModified /\ w.CrntLFA = FUB.CrntLFA /\ w.LFABuf = FUB.LFABuf
        /\ \A i \in 0 .. size - 1 : ByteAt(w, i) = ByteAt(FUB, i)
        /\ Coherent(w, size)
    <3>1. size \in 0 .. size
      BY <1>1
    <3> QED
      BY <1>1, <2>1, <2>4, <3>1, FlushIs
  <2>6. w.erc = "ok" /\ Placed(w, size) /\ Bytes(w, size) = Bytes(FUB, size)
    BY <1>1, <2>4, <2>5, SameBytes DEF Fub, Placed
  <2>7. CASE n > size
    <3>1. mode' = mode /\ size' = size /\ FUB' = Kept(w) /\ reply'.erc = "ErcBeyondEOF"
      BY <1>3, <2>1, <2>7 DEF SetFileLFA
    <3>2. Sound(mode, size, Kept(w)) /\ Bytes(Kept(w), size) = Bytes(w, size)
      BY <1>1, <2>5, <2>6, CallIs
    <3> QED
      BY <2>6, <3>1, <3>2, IsFail DEF StreamInv
  <2>8. CASE ~(n > size)
    <3>1. /\ mode' = mode /\ size' = size /\ FUB' = Kept(b)
          /\ reply' = [erc |-> b.erc, out |-> <<>>]
      BY <1>3, <2>1, <2>2, <2>3, <2>6, <2>8 DEF SetFileLFA
    <3>2. /\ f \in Fub /\ f.CrntLFA = n /\ ~f.fModified /\ f.disk = w.disk /\ f.buf = w.buf
          /\ f.LFABuf = w.LFABuf
      BY <1>1, <2>2, <2>5 DEF Fub
    <3>3. \A i : InBuf(f, i) <=> InBuf(w, i)
      BY <3>2 DEF InBuf
    <3>4. Placed(f, size) /\ Coherent(f, size)
      BY <2>5, <2>6, <3>2, <3>3 DEF Placed, Coherent
    <3>5. n < Cap(size) \/ InBuf(f, n)
      BY <2>5, <3>2 DEF MaySeek, Cap, InBuf
    <3>6. /\ b \in Fub /\ b.disk = f.disk /\ ~b.fModified /\ b.CrntLFA = n
          /\ Placed(b, size) /\ Coherent(b, size)
      <4>1. size \in 0 .. size /\ n <= size
        BY <1>1, <2>8
      <4> QED
        BY <1>1, <2>3, <3>2, <3>4, <3>5, <4>1, FillIs
    <3>7. \A i : ByteAt(b, i) = ByteAt(w, i)
      BY <2>5, <3>2, <3>6 DEF ByteAt
    <3>8. Bytes(b, size) = Bytes(w, size) /\ b.erc = "ok"
      BY <3>6, <3>7 DEF Bytes, Fub
    <3>9. /\ Sound(mode, size, Kept(b)) /\ Bytes(Kept(b), size) = Bytes(b, size)
          /\ Kept(b).CrntLFA = n
      <4>1. b.LFABuf % Sector = 0 /\ b.CrntLFA <= size
        BY <1>1, <2>8, <3>6 DEF Placed
      <4> QED
        BY <1>1, <3>6, <4>1, CallIs
    <3>10. n \in 0 .. size
      BY <1>1, <2>8
    <3> QED
      BY <1>1, <1>3, <2>6, <3>1, <3>8, <3>9, <3>10, IsSeek DEF StreamInv
  <2> QED
    BY <2>7, <2>8
<1> QED
  BY <1>2, <1>3

LEMMA StreamStart ==
    StreamInit => StreamInv /\ BF!Init
<1> SUFFICES ASSUME StreamInit PROVE StreamInv /\ BF!Init
  OBVIOUS
<1> DEFINE d == [i \in 0 .. MaxSize + bpc |-> 0]
<1> DEFINE b == [i \in 0 .. sBuf - 1 |-> 0]
<1>1. d \in Disk /\ b \in Buff
  BY FileStreamAssumption DEF Disk, Buff
<1>2. /\ mode = "closed" /\ size = 0 /\ reply = [erc |-> "ok", out |-> <<>>]
      /\ FUB = [disk |-> d, buf |-> b, LFABuf |-> 0, fModified |-> FALSE, CrntLFA |-> 0,
                end |-> 0, out |-> <<>>, erc |-> "ok"]
  BY DEF StreamInit
<1> HIDE DEF d, b
<1>3. <<>> \in Seq(Byte)
  OBVIOUS
<1>4. FUB \in Fub
  BY <1>1, <1>2, <1>3 DEF Fub
<1>5. StreamInv
  BY <1>2, <1>4, Constants DEF StreamInv, Sound
<1>6. Bytes(FUB, size) = <<>>
  BY <1>2 DEF Bytes
<1>7. BF!Init
  BY <1>2, <1>6, Mapped DEF BF!Init
<1> QED
  BY <1>5, <1>7

LEMMA StreamStep ==
    ASSUME ~ReadsDirty, ~SeeksEnd, EndsFit, StreamInv, [StreamNext]_streamVars
    PROVE  StreamInv' /\ [BF!Next]_BF!vars
<1>1. CASE UNCHANGED streamVars
  <2>1. mode' = mode /\ size' = size /\ FUB' = FUB /\ reply' = reply
    BY <1>1 DEF streamVars
  <2> QED
    BY <2>1, Mapped DEF StreamInv, BF!vars
<1>2. CASE StreamNext
  <2>1. PICK g \in {<<>>} \cup {<<v>> : v \in Byte} :
            \/ \E m \in {"read", "modify"} : OpenFile(m, g)
            \/ CloseFile(g)
            \/ \E n \in 1 .. MaxBytes :
                \/ MayRead /\ ReadBytes(n, g)
                \/ \E v \in Byte : MayWrite(n) /\ WriteBytes(n, v, g)
            \/ \E n \in 0 .. MaxSize + 1 : MaySeek(n) /\ SetFileLFA(n, g)
    BY <1>2 DEF StreamNext
  <2>2. CASE \E m \in {"read", "modify"} : OpenFile(m, g)
    BY <2>2, OpenStep
  <2>3. CASE CloseFile(g)
    BY <2>3, CloseStep
  <2>4. CASE \E n \in 1 .. MaxBytes : MayRead /\ ReadBytes(n, g)
    BY <2>4, ReadStep
  <2>5. CASE \E n \in 1 .. MaxBytes : \E v \in Byte : MayWrite(n) /\ WriteBytes(n, v, g)
    BY <2>5, WriteStep
  <2>6. CASE \E n \in 0 .. MaxSize + 1 : MaySeek(n) /\ SetFileLFA(n, g)
    BY <2>6, SeekStep
  <2> QED
    BY <2>1, <2>2, <2>3, <2>4, <2>5, <2>6
<1> QED
  BY <1>1, <1>2

\* What is read in stream mode is what was written last at that place, and a file
\* that was closed is on the disk: the buffer of OpenFile, ReadBytes, WriteBytes,
\* SetFileLFA and CloseFile is not to be seen, whatever its size and that of the
\* clusters, as long as no program reads behind what it wrote without
\* SetFileLFA, none sets the address to the end of full clusters, and no file
\* ends one byte before a place where the buffer may end.
THEOREM StreamImplements ==
    ASSUME ~ReadsDirty, ~SeeksEnd, EndsFit
    PROVE  StreamSpec => ImplementsByteFile
<1>1. StreamInit => StreamInv /\ BF!Init
  BY StreamStart
<1>2. StreamInv /\ [StreamNext]_streamVars => StreamInv' /\ [BF!Next]_BF!vars
  BY StreamStep
<1> QED
  BY <1>1, <1>2, PTL DEF StreamSpec, ImplementsByteFile, BF!Spec

\* Under the same conditions the FUB keeps its type, and the address at which the
\* next byte is read or written never leaves the file.
THEOREM StreamTyped ==
    ASSUME ~ReadsDirty, ~SeeksEnd, EndsFit
    PROVE  StreamSpec => []StreamTypeOK
<1>1. StreamInit => StreamInv
  BY StreamStart
<1>2. StreamInv /\ [StreamNext]_streamVars => StreamInv'
  BY StreamStep
<1>3. StreamInv => StreamTypeOK
  BY Constants DEF StreamInv, Sound, StreamTypeOK, Fub, Disk, Buff
<1> QED
  BY <1>1, <1>2, <1>3, PTL DEF StreamSpec
=============================================================================
