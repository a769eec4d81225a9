------------------------------- MODULE MCFloppy -------------------------------
(***************************************************************************)
(* Instances of Floppy for TLC.                                            *)
(***************************************************************************)
EXTENDS Floppy

\* Two blocks that differ.
SomeData == {<<0, 1>>}
=============================================================================
