------------------------------- MODULE MCIpc -------------------------------
(* Ipc for TLC: names of threads and bodies, and the bounds of the run.      *)
EXTENDS Ipc

CONSTANTS t1, t2, idle, b1

\* Bound: at most one endpoint besides the private ones of calls.
OneServed == Cardinality({e \in Endpoints : ep[e].used /\ Shared(e)}) <= 1

\* Bound: the idle thread serves, and makes no calls of its own.
IdleServes == th[idle].reply = NoEp
============================================================================
