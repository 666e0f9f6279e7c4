----------------------------- MODULE MCProcess -----------------------------
(* Process for TLC: the names of the threads. *)
EXTENDS Process

CONSTANTS t1, t2, t3
============================================================================
