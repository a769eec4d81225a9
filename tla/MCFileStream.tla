----------------------------- MODULE MCFileStream -----------------------------
(***************************************************************************)
(* Instances of FileStream for TLC.                                        *)
(***************************************************************************)
EXTENDS FileStream
=============================================================================
