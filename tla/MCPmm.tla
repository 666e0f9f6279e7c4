------------------------------- MODULE MCPmm -------------------------------
(* Small instances of Pmm for TLC: a map of two regions that begin and end *)
(* inside frames, a null page, and a kernel image that covers parts of two *)
(* frames.                                                                 *)
EXTENDS Pmm

MCRegions   == {<<0, 9>>, <<9, 10>>}
MCSurvivors == {<<0, 2>>, <<13, 2>>}
============================================================================
