-------------------------------- MODULE FatMap --------------------------------
(***************************************************************************)
(* What the file system expects of its FAT buffers: a FAT is a map from    *)
(* clusters to values, kept in memory or on disk, no matter where.         *)
(***************************************************************************)
CONSTANTS Drive, Clstr, Val

VARIABLES
    fat,    \* fat[d][c]: the value of cluster c of drive d
    ret     \* the last call: its drive, cluster, value and error

vars == <<fat, ret>>

NoCall == [erc |-> "ok", drive |-> CHOOSE d \in Drive : TRUE, clstr |-> 0, val |-> 0]

\* A call that fails changes nothing.
Fail(d, c) ==
    /\ \E e \in {"ErcEOF", "ErcBadFATClstr", "ErcDisk"} :
        ret' = [erc |-> e, drive |-> d, clstr |-> c, val |-> 0]
    /\ UNCHANGED fat

GetClstrValue(d, c) ==
    /\ ret' = [erc |-> "ok", drive |-> d, clstr |-> c, val |-> fat[d][c]]
    /\ UNCHANGED fat

SetClstrValue(d, c, v) ==
    /\ ret' = [erc |-> "ok", drive |-> d, clstr |-> c, val |-> v]
    /\ fat' = [fat EXCEPT ![d][c] = v]

\* Writing what was modified is not visible.
Flush == ret' = NoCall /\ UNCHANGED fat

Next ==
    \/ Flush
    \/ \E d \in Drive, c \in Clstr :
        \/ Fail(d, c)
        \/ GetClstrValue(d, c)
        \/ \E v \in Val : SetClstrValue(d, c, v)

Init == fat \in [Drive -> [Clstr -> Val]] /\ ret = NoCall

Spec == Init /\ [][Next]_vars
=============================================================================
