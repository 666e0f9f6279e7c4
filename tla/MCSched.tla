------------------------------ MODULE MCSched ------------------------------
(* Small instances of Sched for TLC: the boot thread is tid 1 and the idle *)
(* thread tid 2, below the others in priority.                             *)
EXTENDS Sched

MCPrio == [t \in Threads |-> CASE t = 2 -> 2 [] t = 3 -> 1 [] OTHER -> 0]
MCRoot == [t \in Threads |-> IF t <= 2 THEN 0 ELSE t]

\* Past a tear the sequences of Sched are not the linked lists of the code.
BeforeTear == ~torn
============================================================================
