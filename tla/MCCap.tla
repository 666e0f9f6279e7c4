------------------------------- MODULE MCCap -------------------------------
(* Small instances of Cap for TLC. *)
EXTENDS Cap, TLC

CONSTANTS o1, o2

MCObjects  == {o1, o2}
MCSymmetry == Permutations(MCObjects)
============================================================================
