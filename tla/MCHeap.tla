------------------------------- MODULE MCHeap -------------------------------
(* A heap with the sizes of the code and the two largest classes, on seven *)
(* frames.  A block of two frames grows to the last byte of them (8168),   *)
(* past it (8180) and is moved (9000).                                     *)
EXTENDS Heap

MCClassSizes == <<1024, 2048>>
MCRegions    == {<<4096, 24576>>}
MCSurvivors  == {<<0, 4096>>}

\* Past a block that was given bytes its frames do not hold nothing is claimed.
BeforeOverrun == ~overrun
============================================================================
