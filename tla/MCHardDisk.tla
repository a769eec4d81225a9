------------------------------ MODULE MCHardDisk ------------------------------
(***************************************************************************)
(* Instances of HardDisk for TLC.                                          *)
(***************************************************************************)
EXTENDS HardDisk
=============================================================================
