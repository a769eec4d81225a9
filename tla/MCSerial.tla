------------------------------- MODULE MCSerial -------------------------------
(***************************************************************************)
(* Instances of Serial for TLC.                                            *)
(***************************************************************************)
EXTENDS Serial
=============================================================================
