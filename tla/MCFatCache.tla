------------------------------ MODULE MCFatCache ------------------------------
(***************************************************************************)
(* Instances of FatCache for TLC.                                          *)
(***************************************************************************)
EXTENDS FatCache, TLC

CONSTANTS A, C, D

\* A floppy and a hard disk on which no transfer fails, or two hard disks that
\* share the buffers and on which writes fail.
KindOf   == (A :> "FAT12") @@ (C :> "FAT16") @@ (D :> "FAT16")
sFATOf   == (A :> 9) @@ (C :> 2) @@ (D :> 3)
LBAFATOf == (A :> 1) @@ (C :> 1) @@ (D :> 1)
Both     == {[drives |-> {A, C}, faults |-> {}], [drives |-> {C, D}, faults |-> {"write"}]}
=============================================================================
