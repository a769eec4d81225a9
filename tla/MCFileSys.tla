------------------------------- MODULE MCFileSys -------------------------------
(***************************************************************************)
(* Instances of FileSys for TLC.                                           *)
(***************************************************************************)
EXTENDS FileSys, TLC

CONSTANTS a, b, j1, j2

\* Jobs and names are alike.
Symmetry == Permutations(Name) \cup Permutations(Job)

\* A volume whose FAT has room for one cluster more than there are.
LastData == LastClstr - 1

\* The files are on the volume: the search for a free cluster ends with the
\* clusters, and not with the FAT (ExtendClstrChain, CreateFile).
OnVolume == \A c \in Clstr : fat[c] # 0 => c <= LastData
=============================================================================
