------------------------------ MODULE MCKeyboard ------------------------------
(* The keyboard service with the monitor and jobs that are killed and loaded     *)
(* again.                                                                        *)
EXTENDS Keyboard, TLC

MCSymmetry == Permutations(RQB)

MCExch == Job \cup {"main", "wait", "hold", "glob", "mgr"}
=============================================================================
