------------------------------- MODULE MCBlock -------------------------------
(* A disk of four sectors behind a buffer of two.                          *)
EXTENDS Block
============================================================================
