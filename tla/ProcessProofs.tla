--------------------------- MODULE ProcessProofs ---------------------------
(***************************************************************************)
(* Proofs about processes, for every length of the process table and every *)
(* number of threads.                                                      *)
(*                                                                         *)
(* A tick may fall anywhere in process_wait.  The hypothesis is one thread  *)
(* in each process, as the loader makes them: a second one is neither      *)
(* stopped by process_exit nor woken when both wait for one child.         *)
(*                                                                         *)
(* ProcInv adds to the properties where each thread in process_wait stands *)
(* with respect to the slot it points to, which the collector may have     *)
(* freed meanwhile: the slot is never taken again, so the exit code in it  *)
(* is still the one the thread is owed.                                    *)
(***************************************************************************)
EXTENDS Process, FiniteSetTheorems, TLAPS

SlotRecords ==
    [state : {"FREE", "ALIVE", "ZOMBIE"}, parent : 0 .. MaxProcesses,
     resources : BOOLEAN, thread_count : 0 .. ThreadsEach,
     exit_code : Codes, waiter : Threads \cup {NoThread}]

Places == {"none", "run", "zombie", "done"} \cup InWait

ThreadRecords ==
    [pc : Places, proc : {NoPid} \cup Pids,
     child : {NoPid} \cup Pids, code : Codes, due : Codes \cup {Pending},
     heard : {"nothing", "OK", "NOENT", "PERM"}, missed : BOOLEAN]

\* The slots in use, and the threads that point to process p.
Used    == {p \in Pids : proc[p].state # "FREE"}
Of(p)   == {t \in Threads : th[t].proc = p}
Waits   == InWait \cup {"done"}

\* A thread object that is not in use points to no process.
NoneIdle == \A t \in Threads : th[t].pc = "none" => th[t].proc = NoPid

\* The places of a thread that stands registered in the slot of its child.
Enlisted == {"set", "blocked"}

\* A used slot has been handed out; a live process has its resources; the
\* threads of a process that has exited have exited.  The waiter in the slot is
\* a thread that set it and has not been woken, and a process that is left over
\* without a thread has one.
SlotOK(p) ==
    /\ proc[p].state # "FREE" => p < s_next_pid
    /\ proc[p].state = "ALIVE" => proc[p].resources
    /\ proc[p].state = "ZOMBIE" => \A t \in Of(p) : th[t].pc = "zombie"
    /\ proc[p].state # "FREE" /\ proc[p].waiter # NoThread =>
          th[proc[p].waiter].child = p /\ th[proc[p].waiter].pc \in Enlisted
    /\ proc[p].state = "ZOMBIE" /\ proc[p].thread_count = 0 => proc[p].waiter # NoThread

\* A thread in process_wait, and the slot it points to.
WaitOK(r, t) ==
    r.pc \in Waits =>
        /\ r.proc # NoPid /\ r.child \in Pids /\ r.child < s_next_pid
        /\ proc[r.child].state # "FREE" => proc[r.child].parent = r.proc
        /\ IF proc[r.child].state = "ALIVE" THEN r.due = Pending
           ELSE r.due = proc[r.child].exit_code
        /\ r.pc \in Enlisted /\ proc[r.child].state = "ALIVE" => proc[r.child].waiter = t
        /\ r.pc = "blocked" => r.missed = (proc[r.child].state # "ALIVE")
        /\ r.pc = "done" => proc[r.child].state # "ALIVE"

\* The inductive invariant.
ProcInv ==
    /\ TypeOK
    /\ CountersExact
    /\ NoneIdle
    /\ \A p \in Pids : SlotOK(p)
    /\ \A t \in Threads : WaitOK(th[t], t)
    /\ AnswerIsDue

----------------------------------------------------------------------------
(* Sets of slots and of threads, and the records.                          *)

\* The constants, as the proofs use them.
LEMMA Numbers ==
    /\ MaxProcesses \in Nat /\ MaxProcesses >= 2
    /\ NoPid \notin Pids /\ NoPid = 0 /\ Pids \subseteq Nat
    /\ \A p \in Pids : 2 <= p /\ p <= MaxProcesses
    /\ Pending \notin Codes /\ 0 \in Codes
BY ProcessAssumption DEF NoPid, Pids, Pending

\* Sets of slots and sets of threads can be counted.
LEMMA SetsFinite ==
    /\ \A S \in SUBSET Pids : /\ IsFiniteSet(S) /\ Cardinality(S) \in Nat
                              /\ Cardinality(S) <= MaxProcesses
    /\ \A S \in SUBSET Threads : IsFiniteSet(S) /\ Cardinality(S) \in Nat
<1>1. IsFiniteSet(Pids) /\ Cardinality(Pids) <= MaxProcesses
  BY Numbers, FS_Interval DEF Pids
<1>2. \A S \in SUBSET Pids : IsFiniteSet(S) /\ Cardinality(S) <= Cardinality(Pids)
  BY <1>1, FS_Subset
<1>3. \A S \in SUBSET Threads : IsFiniteSet(S)
  BY FS_Subset, ProcessAssumption
<1>4. Cardinality(Pids) \in Nat /\ \A S \in SUBSET Pids : Cardinality(S) \in Nat
  BY <1>1, <1>2, FS_CardinalityType
<1>5. \A S \in SUBSET Threads : Cardinality(S) \in Nat
  BY <1>3, FS_CardinalityType
<1> QED
  BY <1>1, <1>2, <1>3, <1>4, <1>5, Numbers

\* The invariant gives every slot and every thread its form.
LEMMA Forms ==
    ASSUME TypeOK
    PROVE  /\ proc \in [Pids -> SlotRecords] /\ th \in [Threads -> ThreadRecords]
           /\ \A p \in Pids : proc[p] \in SlotRecords
           /\ \A t \in Threads : th[t] \in ThreadRecords
BY DEF TypeOK, SlotRecords, ThreadRecords, Places

\* Typed variables make a state of the right form.
LEMMA FormsSuffice ==
    ASSUME proc \in [Pids -> SlotRecords], th \in [Threads -> ThreadRecords],
           s_live \in 0 .. MaxProcesses, s_next_pid \in 2 .. MaxProcesses + 1,
           children \subseteq (1 .. MaxProcesses) \X Pids
    PROVE  TypeOK
BY DEF TypeOK, SlotRecords, ThreadRecords, Places

\* A thread object starts, and ends, with nothing.
LEMMA NewThreadForm ==
    ASSUME NEW pc \in {"none", "run", "zombie"}
    PROVE  /\ NewThread(pc) \in ThreadRecords /\ NewThread(pc).pc = pc
           /\ NewThread(pc).proc = NoPid /\ NewThread(pc).heard = "nothing"
<1>1. NewThread(pc) \in ThreadRecords
  BY Numbers DEF NewThread, ThreadRecords, Places
<1> QED
  BY <1>1 DEF NewThread

\* A thread that has exited keeps the process it was in, until it is collected.
LEMMA ExitedForm ==
    ASSUME NEW t \in Threads, th[t] \in ThreadRecords
    PROVE  /\ Exited(t) \in ThreadRecords /\ Exited(t).pc = "zombie"
           /\ Exited(t).proc = th[t].proc /\ Exited(t).heard = "nothing"
<1>1. th[t].proc \in {NoPid} \cup Pids
  BY DEF ThreadRecords
<1>2. NewThread("zombie") \in ThreadRecords /\ NewThread("zombie").pc = "zombie"
      /\ NewThread("zombie").heard = "nothing"
  BY NewThreadForm
<1>3. Exited(t) = [NewThread("zombie") EXCEPT !.proc = th[t].proc]
  BY DEF Exited
<1> QED
  BY ONLY <1>1, <1>2, <1>3 DEF ThreadRecords

\* A slot that no process has taken.
LEMMA FreeSlotForm ==
    /\ FreeSlot \in SlotRecords /\ FreeSlot.state = "FREE"
    /\ FreeSlot.thread_count = 0 /\ FreeSlot.resources = FALSE
<1>1. 0 \in 0 .. MaxProcesses /\ 0 \in 0 .. ThreadsEach /\ NoPid = 0 /\ 0 \in Codes
  BY Numbers, ProcessAssumption
<1>2. FreeSlot \in SlotRecords
  BY <1>1 DEF FreeSlot, SlotRecords
<1> QED
  BY <1>2 DEF FreeSlot

\* The table at the start.
LEMMA InitProcInv == Init => ProcInv
<1> SUFFICES ASSUME Init PROVE ProcInv
  OBVIOUS
<1>1. FreeSlot \in SlotRecords /\ FreeSlot.state = "FREE" /\ FreeSlot.thread_count = 0
      /\ FreeSlot.resources = FALSE
  BY FreeSlotForm
<1>2. /\ th \in [Threads -> ThreadRecords]
      /\ \A t \in Threads : /\ th[t].pc \in {"none", "run"} /\ th[t].proc = NoPid
                            /\ th[t].heard = "nothing"
  <2>1. PICK t \in Threads :
           th = [u \in Threads |-> NewThread(IF u = t THEN "run" ELSE "none")]
    BY DEF Init
  <2> QED
    BY <2>1, NewThreadForm
<1>3. TypeOK
  BY <1>1, <1>2, Numbers, FormsSuffice DEF Init
<1>4. CountersExact
  <2>1. {p \in Pids : proc[p].state # "FREE"} = {}
    BY <1>1 DEF Init
  <2>2. \A p \in Pids : {t \in Threads : th[t].proc = p} = {}
    BY <1>2, Numbers
  <2>3. Cardinality({}) = 0
    BY FS_EmptySet
  <2> QED
    BY <1>1, <2>1, <2>2, <2>3 DEF Init, CountersExact
<1> QED
  BY <1>1, <1>2, <1>3, <1>4 DEF Init, ProcInv, NoneIdle, SlotOK, WaitOK, AnswerIsDue,
                                Waits, InWait, FreeSlot

----------------------------------------------------------------------------
(* Steps of one thread that leave the table alone.                         *)

\* Such a step keeps the invariant if the thread's new place suits the slot it
\* points to.
LEMMA MoveProcInv ==
    ASSUME ProcInv, NEW t \in Threads, NEW r \in ThreadRecords,
           th' = [th EXCEPT ![t] = r], UNCHANGED <<proc, s_live, s_next_pid, children>>,
           th[t].pc \in Enlisted => r.pc \in Enlisted /\ r.child = th[t].child,
           r.proc = th[t].proc, r.pc = "none" => r.proc = NoPid,
           th[t].pc = "zombie" => r.pc = "zombie" \/ r.proc = NoPid,
           WaitOK(r, t), r.heard = "OK" => r.code = r.due
    PROVE  ProcInv'
<1> USE DEF ProcInv
<1>1. /\ th' \in [Threads -> ThreadRecords] /\ th'[t] = r
      /\ \A u \in Threads \ {t} : th'[u] = th[u]
  BY Forms
<1>2. TypeOK'
  BY <1>1 DEF TypeOK, ThreadRecords, Places
<1>3. \A p \in Pids : Of(p)' = Of(p)
  BY <1>1 DEF Of
<1>4. CountersExact'
  BY <1>3 DEF CountersExact, Of
<1>5. NoneIdle' /\ AnswerIsDue'
  BY <1>1 DEF NoneIdle, AnswerIsDue
<1>6. \A p \in Pids : SlotOK(p)'
  <2> SUFFICES ASSUME NEW p \in Pids PROVE SlotOK(p)'
    OBVIOUS
  <2>1. SlotOK(p) /\ proc[p].waiter \in Threads \cup {NoThread}
    BY Forms DEF SlotRecords
  <2>2. proc[p].state = "ZOMBIE" => \A u \in Of(p)' : th'[u].pc = "zombie"
    BY <1>1, <1>3, <2>1, Numbers DEF SlotOK, Of
  <2>3. proc[p].state # "FREE" /\ proc[p].waiter # NoThread =>
           th'[proc[p].waiter].child = p /\ th'[proc[p].waiter].pc \in Enlisted
    BY <1>1, <2>1 DEF SlotOK
  <2> QED
    BY <2>1, <2>2, <2>3 DEF SlotOK
<1>7. \A u \in Threads : WaitOK(th[u], u)'
  BY <1>1 DEF WaitOK
<1> QED
  BY <1>2, <1>4, <1>5, <1>6, <1>7

\* thread_create, thread_exit, process_wait up to the loop, the look at the
\* child, and sched_block.
LEMMA ThreadStepsProcInv ==
    ASSUME ProcInv, NEW t \in Threads,
           \/ \E u \in Threads : thread_create(u, t)
           \/ thread_exit(t)
           \/ \E p \in Pids : process_wait(t, p)
           \/ wait_look(t)
           \/ sched_block(t)
    PROVE  ProcInv'
<1>0. th[t] \in ThreadRecords /\ WaitOK(th[t], t) /\ (th[t].heard = "OK" => th[t].code = th[t].due)
  BY Forms DEF ProcInv, AnswerIsDue
<1>1. CASE \E u \in Threads : thread_create(u, t)
  <2>1. /\ th' = [th EXCEPT ![t] = NewThread("run")] /\ th[t].pc = "none"
        /\ UNCHANGED <<proc, s_live, s_next_pid, children>>
    BY <1>1 DEF thread_create
  <2>2. th[t].proc = NoPid
    BY <2>1 DEF ProcInv, NoneIdle
  <2>3. WaitOK(NewThread("run"), t)
    BY NewThreadForm DEF WaitOK, Waits, InWait
  <2> QED
    BY <2>1, <2>2, <2>3, NewThreadForm, MoveProcInv DEF Enlisted
<1>e. CASE thread_exit(t)
  <2>1. /\ th' = [th EXCEPT ![t] = Exited(t)] /\ th[t].pc = "run"
        /\ UNCHANGED <<proc, s_live, s_next_pid, children>>
    BY <1>e DEF thread_exit, Calls
  <2>2. /\ Exited(t) \in ThreadRecords /\ Exited(t).pc = "zombie"
        /\ Exited(t).proc = th[t].proc /\ Exited(t).heard = "nothing"
    BY <1>0, ExitedForm
  <2>3. WaitOK(Exited(t), t)
    BY <2>2 DEF WaitOK, Waits, InWait
  <2> QED
    BY <2>1, <2>2, <2>3, MoveProcInv DEF Enlisted
<1>2. ASSUME NEW p \in Pids, process_wait(t, p)
      PROVE  ProcInv'
  <2> DEFINE v == Verdict(t, p)
             d == IF proc[p].state = "ALIVE" THEN Pending ELSE proc[p].exit_code
             r == [th[t] EXCEPT !.pc = IF v = "nothing" THEN "look" ELSE "run",
                                !.heard = v, !.child = p, !.code = 0, !.missed = FALSE,
                                !.due = d]
  <2>1. /\ th' = [th EXCEPT ![t] = r] /\ UNCHANGED <<proc, s_live, s_next_pid, children>>
        /\ th[t].pc = "run"
    BY <1>2 DEF process_wait, Calls
  <2>2. v \in {"nothing", "NOENT", "PERM"}
    BY DEF Verdict
  <2>3. v = "nothing" => /\ proc[p].state # "FREE" /\ th[t].proc # NoPid
                         /\ proc[p].parent = th[t].proc
    BY DEF Verdict
  <2>4. d \in Codes \cup {Pending}
    BY Forms DEF ProcInv, SlotRecords
  <2> HIDE DEF v, d
  <2>5. /\ r \in ThreadRecords /\ r.pc = (IF v = "nothing" THEN "look" ELSE "run")
        /\ r.heard = v /\ r.child = p /\ r.due = d /\ r.proc = th[t].proc
    <3> DEFINE n == IF v = "nothing" THEN "look" ELSE "run"
    <3>1. n \in Places /\ 0 \in Codes /\ FALSE \in BOOLEAN /\ p \in {NoPid} \cup Pids
          /\ v \in {"nothing", "OK", "NOENT", "PERM"}
      BY <2>2, Numbers DEF Places, InWait
    <3>2. r = [th[t] EXCEPT !.pc = n, !.heard = v, !.child = p, !.code = 0,
                             !.missed = FALSE, !.due = d]
      OBVIOUS
    <3> HIDE DEF n, r
    <3>3. /\ r \in ThreadRecords /\ r.pc = n /\ r.heard = v /\ r.child = p /\ r.due = d
          /\ r.proc = th[t].proc
      BY ONLY <1>0, <2>4, <3>1, <3>2 DEF ThreadRecords
    <3> QED
      BY <3>3 DEF n
  <2> HIDE DEF r
  <2>6. proc[p].state # "FREE" => p < s_next_pid
    BY DEF ProcInv, SlotOK
  <2>7. WaitOK(r, t)
    BY <2>3, <2>5, <2>6 DEF WaitOK, Waits, InWait, Enlisted, d
  <2> QED
    BY <2>1, <2>2, <2>5, <2>7, MoveProcInv DEF Enlisted
<1>p. \A pc \in {"alive", "done"} :
         /\ [th[t] EXCEPT !.pc = pc] \in ThreadRecords
         /\ [th[t] EXCEPT !.pc = pc].pc = pc
         /\ [th[t] EXCEPT !.pc = pc].proc = th[t].proc
         /\ [th[t] EXCEPT !.pc = pc].child = th[t].child
         /\ [th[t] EXCEPT !.pc = pc].code = th[t].code
         /\ [th[t] EXCEPT !.pc = pc].due = th[t].due
         /\ [th[t] EXCEPT !.pc = pc].heard = th[t].heard
  BY ONLY <1>0 DEF ThreadRecords, Places, InWait
<1>3. CASE wait_look(t)
  <2> DEFINE n == IF StillAlive(th[t].child) THEN "alive" ELSE "done"
             r == [th[t] EXCEPT !.pc = n]
  <2>1. /\ th' = [th EXCEPT ![t] = r] /\ UNCHANGED <<proc, s_live, s_next_pid, children>>
        /\ th[t].pc \in {"look", "woken"}
    BY <1>3 DEF wait_look
  <2>2. /\ r \in ThreadRecords /\ r.pc = n /\ r.proc = th[t].proc /\ r.child = th[t].child
        /\ r.due = th[t].due /\ r.code = th[t].code /\ r.heard = th[t].heard
    BY <1>p
  <2> HIDE DEF r
  <2>3. WaitOK(r, t)
    BY <1>0, <2>1, <2>2 DEF WaitOK, Waits, InWait, Enlisted, StillAlive
  <2> QED
    BY <1>0, <2>1, <2>2, <2>3, MoveProcInv DEF Enlisted
<1>4. CASE sched_block(t)
  <2> DEFINE m == ~StillAlive(th[t].child)
             r == [th[t] EXCEPT !.pc = "blocked", !.missed = m]
  <2>1. /\ th' = [th EXCEPT ![t] = r] /\ UNCHANGED <<proc, s_live, s_next_pid, children>>
        /\ th[t].pc = "set"
    BY <1>4 DEF sched_block
  <2>2. /\ r \in ThreadRecords /\ r.pc = "blocked" /\ r.proc = th[t].proc
        /\ r.child = th[t].child /\ r.missed = m
        /\ r.due = th[t].due /\ r.code = th[t].code /\ r.heard = th[t].heard
    <3>1. m \in BOOLEAN
      BY DEF StillAlive
    <3> HIDE DEF m
    <3> QED
      BY <1>0, <3>1 DEF ThreadRecords, Places, InWait
  <2> HIDE DEF r
  <2>3. WaitOK(r, t)
    BY <1>0, <2>1, <2>2 DEF WaitOK, Waits, InWait, Enlisted, StillAlive
  <2> QED
    BY <1>0, <2>1, <2>2, <2>3, MoveProcInv DEF Enlisted
<1> QED
  BY <1>1, <1>e, <1>2, <1>3, <1>4

----------------------------------------------------------------------------
(* Steps that change the table.                                            *)

\* The counters of the table, in terms of the sets they count.
LEMMA Counters ==
    CountersExact <=>
      /\ s_live = Cardinality(Used)
      /\ \A p \in Pids :
            /\ proc[p].thread_count = Cardinality(Of(p))
            /\ proc[p].state = "FREE" => proc[p].thread_count = 0 /\ ~proc[p].resources
BY DEF CountersExact, Used, Of

\* A process that has a thread is in use, and one whose thread can run is
\* alive.
LEMMA ThreadsOf ==
    ASSUME ProcInv, NEW t \in Threads, NEW p \in Pids, th[t].proc = p
    PROVE  /\ t \in Of(p) /\ Cardinality(Of(p)) >= 1
           /\ proc[p].thread_count >= 1
           /\ proc[p].state # "FREE"
           /\ th[t].pc # "zombie" => proc[p].state = "ALIVE"
           /\ ThreadsEach = 1 => Of(p) = {t}
<1>1. t \in Of(p) /\ Of(p) \in SUBSET Threads /\ IsFiniteSet(Of(p)) /\ Cardinality(Of(p)) \in Nat
  BY SetsFinite DEF Of
<1>2. Cardinality(Of(p)) # 0
  BY <1>1, FS_EmptySet
<1>3. proc[p].thread_count = Cardinality(Of(p))
      /\ (proc[p].state = "FREE" => proc[p].thread_count = 0)
  BY Counters DEF ProcInv
<1>4. /\ proc[p].state \in {"FREE", "ALIVE", "ZOMBIE"}
      /\ proc[p].thread_count \in 0 .. ThreadsEach
  BY Forms DEF ProcInv, SlotRecords
<1>5. proc[p].state = "ZOMBIE" => th[t].pc = "zombie"
  BY <1>1 DEF ProcInv, SlotOK
<1>6. ASSUME ThreadsEach = 1 PROVE Of(p) = {t}
  <2>1. Cardinality(Of(p)) = 1
    BY <1>1, <1>2, <1>3, <1>4, <1>6
  <2>2. PICK u : Of(p) = {u}
    BY <1>1, <2>1, FS_Singleton
  <2> QED
    BY <1>1, <2>2
<1> QED
  BY <1>1, <1>2, <1>3, <1>4, <1>5, <1>6

\* How s_live follows the slots.
LEMMA LiveSteps ==
    ASSUME ProcInv, NEW p \in Pids
    PROVE  /\ \A S \in SUBSET Pids : Cardinality(S) \in 0 .. MaxProcesses
           /\ p \notin Used => Cardinality(Used \cup {p}) = s_live + 1
           /\ p \in Used => /\ Cardinality(Used \ {p}) = s_live - 1
                            /\ s_live > 0
<1>1. /\ Used \in SUBSET Pids /\ IsFiniteSet(Used) /\ Cardinality(Used) \in Nat
      /\ s_live = Cardinality(Used)
  BY SetsFinite, Counters DEF Used, ProcInv
<1>2. p \notin Used => Cardinality(Used \cup {p}) = s_live + 1
  BY <1>1, FS_AddElement
<1>3. p \in Used => Cardinality(Used \ {p}) = s_live - 1
  BY <1>1, FS_RemoveElement
<1>4. p \in Used => s_live > 0
  BY <1>1, FS_EmptySet
<1>5. \A S \in SUBSET Pids : Cardinality(S) \in 0 .. MaxProcesses
  BY SetsFinite, Numbers
<1> QED
  BY <1>2, <1>3, <1>4, <1>5

\* process_create takes a slot that was never taken, so that no thread in
\* process_wait points to it.
LEMMA CreateProcInv ==
    ASSUME ProcInv, NEW t \in Threads, NEW p \in Pids, process_create(t, p)
    PROVE  ProcInv'
<1> USE DEF ProcInv
<1> DEFINE s == [FreeSlot EXCEPT !.state = "ALIVE", !.parent = ParentFor(t), !.resources = TRUE]
<1>1. /\ proc' = [proc EXCEPT ![p] = s] /\ s_live' = s_live + 1 /\ th' = th
      /\ proc[p].state = "FREE" /\ p >= s_next_pid /\ s_next_pid' = p + 1
      /\ children' = children \cup {<<ParentFor(t), p>>}
  BY DEF process_create, Available
<1>2. ParentFor(t) \in 1 .. MaxProcesses
  <2>1. th[t].proc \in {NoPid} \cup Pids
    BY Forms DEF ThreadRecords
  <2> QED
    <3>1. 1 \in 1 .. MaxProcesses /\ \A q \in Pids : q \in 1 .. MaxProcesses
      BY Numbers
    <3> QED
      BY <2>1, <3>1 DEF ParentFor, Kernel
<1>3. /\ s \in SlotRecords /\ s.state = "ALIVE" /\ s.parent = ParentFor(t) /\ s.resources = TRUE
      /\ s.thread_count = 0 /\ s.waiter = NoThread
  <2>1. ParentFor(t) \in 0 .. MaxProcesses
    BY <1>2, Numbers
  <2> QED
    BY ONLY <2>1, FreeSlotForm DEF SlotRecords, FreeSlot
<1> HIDE DEF s
<1>4. /\ proc' \in [Pids -> SlotRecords] /\ proc'[p] = s
      /\ \A q \in Pids \ {p} : proc'[q] = proc[q]
  BY <1>1, <1>3, Forms
<1>5. s_next_pid \in Int /\ p \in Int /\ p <= MaxProcesses /\ MaxProcesses \in Nat /\ 2 <= p
  BY Numbers DEF TypeOK
<1>6. s_live' = Cardinality(Used') /\ s_live' \in 0 .. MaxProcesses
  <2>1. Used' = Used \cup {p} /\ p \notin Used /\ Used' \in SUBSET Pids
    BY <1>1, <1>3, <1>4 DEF Used
  <2> QED
    BY <1>1, <2>1, LiveSteps
<1>7. TypeOK'
  <2>1. s_next_pid' \in 2 .. MaxProcesses + 1
    BY <1>1, <1>5
  <2>2. children' \subseteq (1 .. MaxProcesses) \X Pids
    BY <1>1, <1>2 DEF TypeOK
  <2>3. th' \in [Threads -> ThreadRecords]
    BY <1>1, Forms
  <2> QED
    BY <1>4, <1>6, <2>1, <2>2, <2>3, FormsSuffice DEF TypeOK, SlotRecords, ThreadRecords, Places
<1>8. CountersExact'
  <2>1. \A q \in Pids : Of(q)' = Of(q)
    BY <1>1 DEF Of
  <2>2. proc[p].thread_count = 0
    BY <1>1, Counters
  <2>3. \A q \in Pids : /\ proc'[q].thread_count = Cardinality(Of(q)')
                        /\ proc'[q].state = "FREE" =>
                              proc'[q].thread_count = 0 /\ ~proc'[q].resources
    BY <1>3, <1>4, <2>1, <2>2, Counters
  <2> QED
    BY <1>6, <2>3 DEF CountersExact, Used, Of
<1>9. NoneIdle' /\ AnswerIsDue'
  BY <1>1 DEF NoneIdle, AnswerIsDue
<1>10. \A q \in Pids : SlotOK(q)'
  <2> SUFFICES ASSUME NEW q \in Pids
               PROVE  SlotOK(q)'
    OBVIOUS
  <2>1. CASE q = p
    BY <1>1, <1>3, <1>4, <1>5, <2>1 DEF SlotOK
  <2>2. CASE q # p
    <3>1. q \in Int /\ (q < s_next_pid => q < s_next_pid')
      BY <1>1, <1>5, Numbers
    <3> QED
      BY <1>1, <1>4, <2>2, <3>1 DEF SlotOK, Of
  <2> QED
    BY <2>1, <2>2
<1>11. \A u \in Threads : WaitOK(th[u], u)'
  <2> SUFFICES ASSUME NEW u \in Threads, th[u].pc \in Waits
               PROVE  WaitOK(th[u], u)'
    BY <1>1 DEF WaitOK
  <2>1. th[u].child \in Pids /\ th[u].child < s_next_pid
    BY DEF WaitOK
  <2>2. th[u].child # p /\ th[u].child < s_next_pid'
    BY <1>1, <1>5, <2>1, Numbers
  <2> QED
    BY <1>1, <1>4, <2>1, <2>2 DEF WaitOK
<1> QED
  BY <1>7, <1>8, <1>9, <1>10, <1>11

\* process_attach_thread counts the thread that joins.
LEMMA AttachProcInv ==
    ASSUME ProcInv, NEW t \in Threads, NEW p \in Pids, process_attach_thread(t, p)
    PROVE  ProcInv'
<1> USE DEF ProcInv
<1> DEFINE s == [proc[p] EXCEPT !.thread_count = proc[p].thread_count + 1]
           r == [th[t] EXCEPT !.proc = p]
<1>1. /\ proc' = [proc EXCEPT ![p] = s] /\ th' = [th EXCEPT ![t] = r]
      /\ s_live' = s_live /\ s_next_pid' = s_next_pid /\ children' = children
      /\ th[t].pc = "run" /\ th[t].proc = NoPid
      /\ proc[p].state = "ALIVE" /\ proc[p].thread_count < ThreadsEach
  BY DEF process_attach_thread, Calls
<1>2. proc[p] \in SlotRecords /\ th[t] \in ThreadRecords
  BY Forms
<1>3. /\ s \in SlotRecords /\ s.thread_count = proc[p].thread_count + 1
      /\ s.state = proc[p].state /\ s.parent = proc[p].parent /\ s.resources = proc[p].resources
      /\ s.exit_code = proc[p].exit_code /\ s.waiter = proc[p].waiter
  <2>1. proc[p].thread_count \in Nat /\ ThreadsEach \in Nat
    BY <1>2, ProcessAssumption DEF SlotRecords
  <2>2. proc[p].thread_count + 1 \in 0 .. ThreadsEach
    BY <1>1, <2>1
  <2> QED
    BY ONLY <1>2, <2>2 DEF SlotRecords
<1>4. /\ r \in ThreadRecords /\ r.proc = p /\ r.pc = th[t].pc /\ r.heard = th[t].heard
      /\ r.code = th[t].code /\ r.due = th[t].due /\ r.child = th[t].child
  <2>1. p \in {NoPid} \cup Pids
    OBVIOUS
  <2> QED
    BY ONLY <1>2, <2>1 DEF ThreadRecords
<1> HIDE DEF s, r
<1>5. /\ proc' \in [Pids -> SlotRecords] /\ th' \in [Threads -> ThreadRecords]
      /\ proc'[p] = s /\ \A q \in Pids \ {p} : proc'[q] = proc[q]
      /\ th'[t] = r /\ \A u \in Threads \ {t} : th'[u] = th[u]
  BY <1>1, <1>3, <1>4, Forms
<1>6. TypeOK'
  BY <1>1, <1>5, FormsSuffice DEF TypeOK, SlotRecords, ThreadRecords, Places
<1>7. /\ Of(p)' = Of(p) \cup {t} /\ t \notin Of(p)
      /\ \A q \in Pids \ {p} : Of(q)' = Of(q)
  BY <1>1, <1>4, <1>5, Numbers DEF Of
<1>8. CountersExact'
  <2>1. Cardinality(Of(p)') = Cardinality(Of(p)) + 1
    <3>1. IsFiniteSet(Of(p))
      BY SetsFinite DEF Of
    <3> QED
      BY <1>7, <3>1, FS_AddElement
  <2>2. Used' = Used
    BY <1>3, <1>5 DEF Used
  <2>3. proc[p].thread_count = Cardinality(Of(p)) /\ s_live = Cardinality(Used)
    BY Counters
  <2>4. \A q \in Pids : /\ proc'[q].thread_count = Cardinality(Of(q)')
                        /\ proc'[q].state = "FREE" =>
                              proc'[q].thread_count = 0 /\ ~proc'[q].resources
    <3>1. proc'[p].thread_count = Cardinality(Of(p)') /\ proc'[p].state = "ALIVE"
      BY <1>1, <1>3, <1>5, <2>1, <2>3
    <3> QED
      BY <1>5, <1>7, <3>1, Counters
  <2> QED
    BY <1>1, <2>2, <2>3, <2>4 DEF CountersExact, Used, Of
<1>9. NoneIdle' /\ AnswerIsDue'
  BY <1>1, <1>4, <1>5 DEF NoneIdle, AnswerIsDue
<1>10. \A q \in Pids : SlotOK(q)'
  <2> SUFFICES ASSUME NEW q \in Pids PROVE SlotOK(q)'
    OBVIOUS
  <2>1. /\ proc'[q].state = proc[q].state /\ proc'[q].waiter = proc[q].waiter
        /\ proc'[q].resources = proc[q].resources
        /\ q # p => proc'[q] = proc[q]
    BY <1>3, <1>5
  <2>2. proc[q].waiter \in Threads \cup {NoThread} /\ SlotOK(q)
    BY Forms DEF SlotRecords
  <2>3. \A u \in Threads : th'[u].pc = th[u].pc /\ th'[u].child = th[u].child
    BY <1>4, <1>5
  <2>4. proc[q].state = "ZOMBIE" => q # p /\ \A u \in Of(q)' : th'[u].pc = "zombie"
    BY <1>1, <1>7, <2>2, <2>3 DEF SlotOK, Of
  <2> QED
    BY <1>1, <2>1, <2>2, <2>3, <2>4 DEF SlotOK
<1>11. \A u \in Threads : WaitOK(th[u], u)'
  <2>1. \A q \in Pids : /\ proc'[q].state = proc[q].state /\ proc'[q].parent = proc[q].parent
                        /\ proc'[q].exit_code = proc[q].exit_code
                        /\ proc'[q].waiter = proc[q].waiter
    BY <1>3, <1>5
  <2>2. r.pc \notin Waits
    BY <1>1, <1>4 DEF Waits, InWait
  <2> QED
    BY <1>1, <1>5, <2>1, <2>2 DEF WaitOK
<1> QED
  BY <1>6, <1>8, <1>9, <1>10, <1>11

\* A step of t that changes the slot p, and at most frees it after its exit.
LEMMA SlotProcInv ==
    ASSUME ProcInv, NEW t \in Threads, NEW p \in Pids, NEW s \in SlotRecords,
           NEW r \in ThreadRecords,
           proc' = [proc EXCEPT ![p] = s], th' = [th EXCEPT ![t] = r],
           s_next_pid' = s_next_pid, children' \subseteq children,
           s_live' = IF s.state # proc[p].state THEN s_live - 1 ELSE s_live,
           s.state # proc[p].state => proc[p].state = "ZOMBIE" /\ s.state = "FREE",
           s.exit_code = proc[p].exit_code, s.state # "FREE" => s.parent = proc[p].parent,
           s.waiter \in {proc[p].waiter, t},
           s.state # "FREE" /\ s.waiter = t => r.child = p /\ r.pc \in Enlisted,
           \A u \in Threads \ {t} : th[u].child = p /\ th[u].pc \in Enlisted
                                       /\ s.state = "ALIVE" => s.waiter = u,
           th[t].pc \notin Enlisted,
           s.thread_count = Cardinality(Of(p)'), \A q \in Pids \ {p} : Of(q)' = Of(q),
           Of(p)' \subseteq Of(p),
           s.state = "FREE" => s.thread_count = 0 /\ ~s.resources,
           s.state = "ALIVE" => s.resources,
           s.state = "ZOMBIE" /\ s.thread_count = 0 => s.waiter # NoThread,
           r.pc = "none" => r.proc = NoPid,
           r.pc # "zombie" => \A q \in Pids : t \in Of(q)' => proc[q].state # "ZOMBIE",
           WaitOK(r, t)', r.heard = "OK" => r.code = r.due
    PROVE  ProcInv'
<1> USE DEF ProcInv
<1>1. /\ proc' \in [Pids -> SlotRecords] /\ th' \in [Threads -> ThreadRecords]
      /\ proc'[p] = s /\ \A q \in Pids \ {p} : proc'[q] = proc[q]
      /\ th'[t] = r /\ \A u \in Threads \ {t} : th'[u] = th[u]
  BY Forms
<1>2. s_live' = Cardinality(Used') /\ s_live' \in 0 .. MaxProcesses
  <2>1. CASE s.state = proc[p].state
    <3>1. Used' = Used
      BY <1>1, <2>1 DEF Used
    <3> QED
      BY <2>1, <3>1, Counters DEF TypeOK
  <2>2. CASE s.state # proc[p].state
    <3>1. p \in Used /\ Used' = Used \ {p} /\ Used' \in SUBSET Pids
      BY <1>1, <2>2 DEF Used
    <3> QED
      BY <2>2, <3>1, LiveSteps
  <2> QED
    BY <2>1, <2>2
<1>3. TypeOK'
  BY <1>1, <1>2, FormsSuffice DEF TypeOK, SlotRecords, ThreadRecords, Places
<1>4. CountersExact'
  <2>1. \A q \in Pids : /\ proc'[q].thread_count = Cardinality(Of(q)')
                        /\ proc'[q].state = "FREE" =>
                              proc'[q].thread_count = 0 /\ ~proc'[q].resources
    BY <1>1, Counters
  <2> QED
    BY <1>2, <2>1 DEF CountersExact, Used, Of
<1>5. NoneIdle' /\ AnswerIsDue'
  BY <1>1 DEF NoneIdle, AnswerIsDue
<1>6. \A q \in Pids : SlotOK(q)'
  <2> SUFFICES ASSUME NEW q \in Pids PROVE SlotOK(q)'
    OBVIOUS
  <2>0. SlotOK(q) /\ proc[q].waiter \in Threads \cup {NoThread}
    BY Forms DEF SlotRecords
  <2>1. /\ proc'[q].state # "FREE" => proc[q].state = proc'[q].state
        /\ proc'[q].state = "ALIVE" => proc'[q].resources
    BY <1>1, <2>0 DEF SlotOK
  <2>2. Of(q)' \subseteq Of(q) /\ Of(q)' \subseteq Threads
    BY DEF Of
  <2>3. proc'[q].state = "ZOMBIE" => \A u \in Of(q)' : th'[u].pc = "zombie"
    BY <1>1, <2>0, <2>1, <2>2 DEF SlotOK
  <2>4. proc'[q].state # "FREE" /\ proc'[q].waiter # NoThread =>
           th'[proc'[q].waiter].child = q /\ th'[proc'[q].waiter].pc \in Enlisted
    <3>1. CASE proc'[q].waiter = proc[q].waiter /\ proc[q].waiter # t
      BY <1>1, <2>0, <2>1, <3>1 DEF SlotOK
    <3>2. CASE q = p /\ proc'[q].waiter = t
      BY <1>1, <3>2
    <3>3. CASE q # p /\ proc[q].waiter = t
      BY <1>1, <2>0, <2>1, <3>3, ProcessAssumption DEF SlotOK
    <3> QED
      BY <1>1, <3>1, <3>2, <3>3
  <2>5. proc'[q].state = "ZOMBIE" /\ proc'[q].thread_count = 0 => proc'[q].waiter # NoThread
    BY <1>1, <2>0 DEF SlotOK
  <2> QED
    BY <2>0, <2>1, <2>3, <2>4, <2>5 DEF SlotOK
<1>7. \A u \in Threads : WaitOK(th[u], u)'
  <2> SUFFICES ASSUME NEW u \in Threads \ {t}, th[u].pc \in Waits
               PROVE  WaitOK(th[u], u)'
    BY <1>1 DEF WaitOK
  <2>2. WaitOK(th[u], u) /\ th'[u] = th[u]
    BY <1>1
  <2>3. CASE th[u].child # p
    BY <1>1, <2>2, <2>3 DEF WaitOK
  <2>4. CASE th[u].child = p
    BY <1>1, <2>2, <2>4 DEF WaitOK
  <2> QED
    BY <2>3, <2>4
<1> QED
  BY <1>3, <1>4, <1>5, <1>6, <1>7

\* process_wait registers the one thread of the parent as the waiter.
LEMMA SetProcInv ==
    ASSUME ThreadsEach = 1, ProcInv, NEW t \in Threads, wait_set(t)
    PROVE  ProcInv'
<1> USE DEF ProcInv
<1>0. /\ th[t] \in ThreadRecords /\ WaitOK(th[t], t) /\ th[t].pc = "alive"
      /\ (th[t].heard = "OK" => th[t].code = th[t].due)
  BY Forms DEF wait_set, AnswerIsDue
<1>p. PICK p \in Pids : p = th[t].child
  BY <1>0 DEF WaitOK, Waits, InWait
<1> DEFINE s == [proc[p] EXCEPT !.waiter = t]
           R == [th[t] EXCEPT !.pc = "set"]
<1>1. /\ proc' = [proc EXCEPT ![p] = s]
      /\ s_live' = s_live /\ s_next_pid' = s_next_pid /\ children' = children
  BY <1>p DEF wait_set
<1>h. th' = [th EXCEPT ![t] = R]
  BY <1>p DEF wait_set
<1>2. proc[p] \in SlotRecords
  BY Forms
<1>3. /\ s \in SlotRecords /\ s.waiter = t /\ s.thread_count = proc[p].thread_count
      /\ s.state = proc[p].state /\ s.parent = proc[p].parent /\ s.resources = proc[p].resources
      /\ s.exit_code = proc[p].exit_code
  BY ONLY <1>2, t \in Threads DEF SlotRecords
<1>R. /\ R \in ThreadRecords /\ R.pc = "set" /\ R.proc = th[t].proc /\ R.child = p
      /\ R.heard = th[t].heard /\ R.code = th[t].code /\ R.due = th[t].due
  BY ONLY <1>0, <1>p DEF ThreadRecords, Places, InWait
<1>4. PICK r \in ThreadRecords :
         /\ th' = [th EXCEPT ![t] = r] /\ r.pc = "set" /\ r.proc = th[t].proc /\ r.child = p
         /\ r.heard = th[t].heard /\ r.code = th[t].code /\ r.due = th[t].due
  BY <1>h, <1>R
<1> HIDE DEF s, R
<1>5. \A q \in Pids : Of(q)' = Of(q)
  BY <1>4, Forms DEF Of
<1>6. /\ proc[p].state # "FREE" => proc[p].parent = th[t].proc
      /\ th[t].proc \in Pids
      /\ proc[p].state = "ALIVE" => proc[p].resources
      /\ proc[p].state = "FREE" => proc[p].thread_count = 0 /\ ~proc[p].resources
  BY <1>0, <1>p, Counters DEF WaitOK, Waits, InWait, SlotOK, ThreadRecords
<1>7. \A u \in Threads \ {t} :
         th[u].child = p /\ th[u].pc \in Enlisted /\ s.state = "ALIVE" => s.waiter = u
  <2> SUFFICES ASSUME NEW u \in Threads \ {t}, th[u].child = p, th[u].pc \in Enlisted,
                      proc[p].state = "ALIVE"
               PROVE  FALSE
    BY <1>3
  <2>1. th[u].proc = th[t].proc
    BY <1>6 DEF WaitOK, Waits, InWait, Enlisted
  <2>2. Of(th[t].proc) = {t}
    BY <1>6, ThreadsOf
  <2> QED
    BY <2>1, <2>2 DEF Of
<1>8. proc'[p] = s
  BY <1>1, Forms
<1>9. WaitOK(r, t)'
  BY <1>0, <1>1, <1>3, <1>4, <1>6, <1>8, <1>p DEF WaitOK, Waits, InWait, Enlisted
<1>10. proc[p].thread_count = Cardinality(Of(p)') /\ \A q \in Pids : Of(q)' \subseteq Of(q)
  BY <1>5, Counters
<1>11. \A q \in Pids : t \in Of(q)' => proc[q].state # "ZOMBIE"
  BY <1>0, <1>5 DEF SlotOK
<1>12. /\ s_live' = IF s.state # proc[p].state THEN s_live - 1 ELSE s_live
       /\ s.state # proc[p].state => proc[p].state = "ZOMBIE" /\ s.state = "FREE"
       /\ s.state # "FREE" => s.parent = proc[p].parent
       /\ s.state = "FREE" => s.thread_count = 0 /\ ~s.resources
       /\ s.state = "ALIVE" => s.resources
       /\ s.thread_count = Cardinality(Of(p)')
  BY ONLY <1>1, <1>3, <1>6, <1>10
<1>13. r.pc # "none" /\ (r.heard = "OK" => r.code = r.due)
  BY ONLY <1>0, <1>4
<1>w. /\ s.waiter \in {proc[p].waiter, t}
      /\ s.waiter = t => r.child = p /\ r.pc \in Enlisted
      /\ th[t].pc \notin Enlisted
      /\ s.state = "ZOMBIE" /\ s.thread_count = 0 => s.waiter # NoThread
  BY <1>0, <1>3, <1>4, ProcessAssumption DEF Enlisted
<1>14. /\ s.state # proc[p].state => proc[p].state = "ZOMBIE" /\ s.state = "FREE"
       /\ s.exit_code = proc[p].exit_code /\ (s.state # "FREE" => s.parent = proc[p].parent)
       /\ s.thread_count = Cardinality(Of(p)') /\ (\A q \in Pids \ {p} : Of(q)' = Of(q))
       /\ Of(p)' \subseteq Of(p)
       /\ s.state = "FREE" => s.thread_count = 0 /\ ~s.resources
       /\ s.state = "ALIVE" => s.resources
       /\ r.pc = "none" => r.proc = NoPid
       /\ r.pc # "zombie" => \A q \in Pids : t \in Of(q)' => proc[q].state # "ZOMBIE"
       /\ r.heard = "OK" => r.code = r.due
  BY ONLY <1>3, <1>4, <1>5, <1>10, <1>11, <1>12, <1>13
<1>15. /\ s_live' = IF s.state # proc[p].state THEN s_live - 1 ELSE s_live
       /\ proc' = [proc EXCEPT ![p] = s] /\ th' = [th EXCEPT ![t] = r]
       /\ s_next_pid' = s_next_pid /\ children' \subseteq children
  BY <1>0, <1>1, <1>4, <1>12
<1>16. s \in SlotRecords
  BY <1>3
<1> HIDE DEF ProcInv
<1> QED
  BY ONLY ProcInv, t \in Threads, p \in Pids, r \in ThreadRecords, <1>7, <1>9, <1>w, <1>14, <1>15, <1>16,
          SlotProcInv

\* What process_reap makes of a slot whose process has exited.
LEMMA Reaped ==
    ASSUME NEW s \in SlotRecords, s.state # "ALIVE",
           s.state = "FREE" => s.thread_count = 0 /\ ~s.resources
    PROVE  /\ process_reap(s) \in SlotRecords
           /\ process_reap(s).exit_code = s.exit_code
           /\ process_reap(s).thread_count = s.thread_count
           /\ process_reap(s).waiter = s.waiter
           /\ process_reap(s).state = IF s.thread_count = 0 THEN "FREE" ELSE "ZOMBIE"
           /\ process_reap(s).state # "FREE" => process_reap(s).parent = s.parent
           /\ ~process_reap(s).resources
<1>0. 0 \in 0 .. MaxProcesses /\ NoPid = 0
  BY Numbers
<1>1. CASE s.state = "FREE"
  BY <1>1 DEF process_reap
<1>2. CASE s.state # "FREE" /\ Refuses(s)
  <2>1. process_reap(s) = [s EXCEPT !.resources = FALSE]
    BY <1>2 DEF process_reap
  <2>2. /\ [s EXCEPT !.resources = FALSE] \in SlotRecords
        /\ [s EXCEPT !.resources = FALSE].exit_code = s.exit_code
        /\ [s EXCEPT !.resources = FALSE].thread_count = s.thread_count
        /\ [s EXCEPT !.resources = FALSE].waiter = s.waiter
        /\ [s EXCEPT !.resources = FALSE].state = s.state
        /\ [s EXCEPT !.resources = FALSE].parent = s.parent
        /\ [s EXCEPT !.resources = FALSE].resources = FALSE
    BY DEF SlotRecords
  <2>3. s.state = "ZOMBIE" /\ s.thread_count # 0
    BY <1>2 DEF Refuses, SlotRecords
  <2> QED
    BY <2>1, <2>2, <2>3
<1>3. CASE s.state # "FREE" /\ ~Refuses(s)
  <2> DEFINE z == [s EXCEPT !.resources = FALSE, !.state = "FREE", !.parent = NoPid]
  <2>1. process_reap(s) = z /\ s.thread_count = 0
    BY <1>3 DEF process_reap, Refuses
  <2>2. /\ z \in SlotRecords /\ z.exit_code = s.exit_code /\ z.thread_count = s.thread_count
        /\ z.waiter = s.waiter
        /\ z.state = "FREE" /\ z.resources = FALSE
    BY <1>0 DEF SlotRecords
  <2> HIDE DEF z
  <2> QED
    BY <2>1, <2>2
<1> QED
  BY <1>1, <1>2, <1>3

\* The end of process_wait: the code it returns is the one due, and if the
\* collector has not been there the slot is reaped.
LEMMA ReturnProcInv ==
    ASSUME ProcInv, NEW t \in Threads, wait_return(t)
    PROVE  ProcInv'
<1> USE DEF ProcInv
<1>0. /\ th[t] \in ThreadRecords /\ WaitOK(th[t], t) /\ th[t].pc = "done"
  BY Forms DEF wait_return
<1>p. PICK p \in Pids : p = th[t].child
  BY <1>0 DEF WaitOK, Waits
<1> DEFINE s == process_reap(proc[p])
           R == [th[t] EXCEPT !.pc = "run", !.heard = "OK", !.code = proc[p].exit_code]
<1>1. /\ proc' = [proc EXCEPT ![p] = s]
      /\ s_next_pid' = s_next_pid
      /\ children' \subseteq children
  BY <1>p DEF wait_return
<1>h. th' = [th EXCEPT ![t] = R] /\ s_live' = LiveAfterReap(proc[p])
  BY <1>p DEF wait_return
<1>2. /\ proc[p] \in SlotRecords /\ proc[p].state # "ALIVE" /\ th[t].due = proc[p].exit_code
      /\ proc[p].exit_code \in Codes
      /\ proc[p].state = "FREE" => proc[p].thread_count = 0 /\ ~proc[p].resources
  BY <1>0, <1>p, Forms, Counters DEF WaitOK, Waits, SlotRecords
<1>3. /\ s \in SlotRecords /\ s.exit_code = proc[p].exit_code
      /\ s.thread_count = proc[p].thread_count /\ s.waiter = proc[p].waiter
      /\ s.state = IF proc[p].thread_count = 0 THEN "FREE" ELSE "ZOMBIE"
      /\ s.state # "FREE" => s.parent = proc[p].parent
      /\ ~s.resources
  BY <1>2, Reaped
<1>R. /\ R \in ThreadRecords /\ R.pc = "run" /\ R.proc = th[t].proc /\ R.heard = "OK"
      /\ R.code = proc[p].exit_code /\ R.due = th[t].due
  BY ONLY <1>0, <1>2 DEF ThreadRecords, Places
<1>4. PICK r \in ThreadRecords :
         /\ th' = [th EXCEPT ![t] = r] /\ r.pc = "run" /\ r.proc = th[t].proc /\ r.heard = "OK"
         /\ r.code = proc[p].exit_code /\ r.due = th[t].due
  BY <1>h, <1>R
<1> HIDE DEF s, R
<1>5. \A q \in Pids : Of(q)' = Of(q)
  BY <1>4, Forms DEF Of
<1>6. proc[p].state \in {"FREE", "ZOMBIE"}
      /\ (s.state # proc[p].state => proc[p].state = "ZOMBIE" /\ s.state = "FREE")
  BY <1>2, <1>3 DEF SlotRecords
<1>7. s_live' = IF s.state # proc[p].state THEN s_live - 1 ELSE s_live
  <2>1. proc[p].state # "FREE" => s_live > 0
    BY LiveSteps DEF Used
  <2> QED
    BY <1>h, <1>2, <1>3, <1>6, <2>1 DEF LiveAfterReap, Refuses
<1>8. /\ \A u \in Threads \ {t} :
            th[u].child = p /\ th[u].pc \in Enlisted /\ s.state = "ALIVE" => s.waiter = u
      /\ s.waiter \in {proc[p].waiter, t}
      /\ th[t].pc \notin Enlisted
      /\ s.state = "ZOMBIE" /\ s.thread_count = 0 => s.waiter # NoThread
  BY <1>0, <1>3 DEF Enlisted
<1>w. s.state # "FREE" /\ s.waiter = t => r.child = p /\ r.pc \in Enlisted
  <2> SUFFICES ASSUME s.state # "FREE", proc[p].waiter = t
               PROVE  FALSE
    BY <1>3
  <2> QED
    BY <1>0, <1>6, ProcessAssumption DEF SlotOK, Enlisted
<1>9. WaitOK(r, t)'
  BY <1>4 DEF WaitOK, Waits, InWait
<1>10. proc[p].thread_count = Cardinality(Of(p)') /\ \A q \in Pids : Of(q)' \subseteq Of(q)
  BY <1>5, Counters
<1>11. \A q \in Pids : t \in Of(q)' => proc[q].state # "ZOMBIE"
  BY <1>0, <1>5 DEF SlotOK
<1>12. /\ s_live' = IF s.state # proc[p].state THEN s_live - 1 ELSE s_live
       /\ s.state # proc[p].state => proc[p].state = "ZOMBIE" /\ s.state = "FREE"
       /\ s.state # "FREE" => s.parent = proc[p].parent
       /\ s.state = "FREE" => s.thread_count = 0 /\ ~s.resources
       /\ s.state = "ALIVE" => s.resources
       /\ s.thread_count = Cardinality(Of(p)')
  BY ONLY <1>3, <1>6, <1>7, <1>10
<1>13. r.pc # "none" /\ (r.heard = "OK" => r.code = r.due) /\ th' = [th EXCEPT ![t] = r]
  BY ONLY <1>2, <1>4
<1>14. /\ s \in SlotRecords /\ s.exit_code = proc[p].exit_code
       /\ \A q \in Pids \ {p} : Of(q)' = Of(q)
       /\ Of(p)' \subseteq Of(p)
  BY ONLY <1>0, <1>3, <1>5, p \in Pids
<1> HIDE DEF ProcInv
<1> QED
  BY <1>1, <1>8, <1>w, <1>9, <1>11, <1>12, <1>13, <1>14, SlotProcInv

\* The collector detaches an exited thread, and reaps the process it was the
\* last of.
LEMMA CollectProcInv ==
    ASSUME ProcInv, NEW z \in Threads, sched_collect_zombies(z)
    PROVE  ProcInv'
<1> USE DEF ProcInv
<1> DEFINE r == NewThread("none")
<1>0. /\ th[z] \in ThreadRecords /\ th[z].pc = "zombie" /\ th' = [th EXCEPT ![z] = r]
      /\ s_next_pid' = s_next_pid /\ children' = children
  BY Forms DEF sched_collect_zombies
<1>1. r \in ThreadRecords /\ r.pc = "none" /\ r.proc = NoPid /\ r.heard = "nothing"
  BY NewThreadForm
<1> HIDE DEF r
<1>2. CASE th[z].proc = NoPid
  <2>1. proc' = proc /\ s_live' = s_live
    BY <1>2 DEF sched_collect_zombies
  <2>2. WaitOK(r, z)
    BY <1>1 DEF WaitOK, Waits, InWait
  <2> QED
    BY <1>0, <1>1, <1>2, <2>1, <2>2, MoveProcInv DEF Enlisted
<1>3. CASE th[z].proc # NoPid
  <2>p. PICK p \in Pids : p = th[z].proc
    BY <1>0, <1>3 DEF ThreadRecords
  <2> DEFINE d == process_detach_thread(proc[p])
             s == IF LastOut(d) THEN process_reap(d) ELSE d
  <2>1. /\ proc' = [proc EXCEPT ![p] = s]
        /\ s_live' = IF LastOut(d) THEN LiveAfterReap(d) ELSE s_live
    BY <1>3, <2>p DEF sched_collect_zombies
  <2>2. proc[p] \in SlotRecords /\ proc[p].thread_count >= 1 /\ proc[p].state # "FREE"
        /\ z \in Of(p)
    BY <2>p, Forms, ThreadsOf
  <2>3. /\ d \in SlotRecords /\ d.thread_count = proc[p].thread_count - 1
        /\ d.state = proc[p].state /\ d.parent = proc[p].parent
        /\ d.resources = proc[p].resources /\ d.exit_code = proc[p].exit_code
        /\ d.waiter = proc[p].waiter
    <3>1. proc[p].thread_count \in 0 .. ThreadsEach /\ ThreadsEach \in Nat
      BY <2>2, ProcessAssumption DEF SlotRecords
    <3>2. proc[p].thread_count > 0 /\ proc[p].thread_count - 1 \in 0 .. ThreadsEach
      BY <2>2, <3>1
    <3>3. d = [proc[p] EXCEPT !.thread_count = proc[p].thread_count - 1]
      BY <3>2 DEF process_detach_thread
    <3> HIDE DEF d
    <3> QED
      BY ONLY <2>2, <3>2, <3>3 DEF SlotRecords
  <2> HIDE DEF d
  <2>4. /\ s \in SlotRecords /\ s.exit_code = proc[p].exit_code
        /\ s.thread_count = proc[p].thread_count - 1
        /\ s.state = (IF LastOut(d) THEN "FREE" ELSE proc[p].state)
        /\ s.state # "FREE" => s.parent = proc[p].parent /\ s.resources = proc[p].resources
                               /\ s.waiter = proc[p].waiter
        /\ s.state = "FREE" => s.thread_count = 0 /\ ~s.resources
        /\ s.waiter = proc[p].waiter
        /\ s.state = "ZOMBIE" /\ s.thread_count = 0 => s.waiter # NoThread
    <3>1. CASE LastOut(d)
      BY <2>2, <2>3, <3>1, Reaped DEF LastOut
    <3>2. CASE ~LastOut(d)
      BY <2>2, <2>3, <3>2 DEF LastOut
    <3> QED
      BY <3>1, <3>2
  <2> HIDE DEF s
  <2>5. /\ Of(p)' = Of(p) \ {z} /\ \A q \in Pids \ {p} : Of(q)' = Of(q)
        /\ \A q \in Pids : z \notin Of(q)'
    BY <1>0, <1>1, <2>p, Forms, Numbers DEF Of
  <2>6. Cardinality(Of(p)') = proc[p].thread_count - 1
    <3>1. IsFiniteSet(Of(p)) /\ proc[p].thread_count = Cardinality(Of(p))
      BY SetsFinite, Counters DEF Of
    <3> QED
      BY <2>2, <2>5, <3>1, FS_RemoveElement
  <2>7. /\ LastOut(d) => proc[p].state = "ZOMBIE"
        /\ s.state # proc[p].state <=> LastOut(d)
    BY <2>2, <2>3, <2>4 DEF LastOut
  <2>8. s_live' = IF s.state # proc[p].state THEN s_live - 1 ELSE s_live
    <3>1. s_live > 0
      BY <2>2, LiveSteps DEF Used
    <3>2. LastOut(d) => LiveAfterReap(d) = s_live - 1
      BY <2>3, <3>1 DEF LastOut, LiveAfterReap, Refuses
    <3> QED
      BY <2>1, <2>7, <3>2
  <2>9. /\ \A u \in Threads \ {z} :
              th[u].child = p /\ th[u].pc \in Enlisted /\ s.state = "ALIVE" => s.waiter = u
        /\ s.waiter \in {proc[p].waiter, z} /\ th[z].pc \notin Enlisted
        /\ s.waiter = z => r.child = p /\ r.pc \in Enlisted
        /\ s.state = "ZOMBIE" /\ s.thread_count = 0 => s.waiter # NoThread
    <3>1. ASSUME NEW u \in Threads \ {z}, th[u].child = p, th[u].pc \in Enlisted,
                 s.state = "ALIVE"
          PROVE  s.waiter = u
      BY <2>4, <2>7, <3>1 DEF WaitOK, Waits, InWait, Enlisted
    <3>2. s.waiter # z
      BY <1>0, <2>2, <2>4, ProcessAssumption DEF SlotOK, Enlisted
    <3> QED
      BY <1>0, <2>4, <3>1, <3>2 DEF Enlisted
  <2>10. WaitOK(r, z)'
    BY <1>1 DEF WaitOK, Waits, InWait
  <2>11. s.state = "ALIVE" => s.resources
    BY <2>4, <2>7 DEF SlotOK
  <2>12. /\ s.state # proc[p].state => proc[p].state = "ZOMBIE" /\ s.state = "FREE"
         /\ s.exit_code = proc[p].exit_code /\ (s.state # "FREE" => s.parent = proc[p].parent)
         /\ s.thread_count = Cardinality(Of(p)') /\ (\A q \in Pids \ {p} : Of(q)' = Of(q))
         /\ Of(p)' \subseteq Of(p)
         /\ s.state = "FREE" => s.thread_count = 0 /\ ~s.resources
         /\ s.state = "ALIVE" => s.resources
         /\ r.pc = "none" => r.proc = NoPid
         /\ r.pc # "zombie" => \A q \in Pids : z \in Of(q)' => proc[q].state # "ZOMBIE"
         /\ r.heard = "OK" => r.code = r.due
    BY ONLY <1>1, <2>4, <2>5, <2>6, <2>7, <2>11
  <2>13. /\ proc' = [proc EXCEPT ![p] = s] /\ th' = [th EXCEPT ![z] = r]
         /\ s_next_pid' = s_next_pid /\ children' \subseteq children
    BY <1>0, <2>1
  <2>14. s \in SlotRecords /\ r \in ThreadRecords
    BY <1>1, <2>4
  <2> HIDE DEF ProcInv
  <2> QED
    BY ONLY ProcInv, z \in Threads, p \in Pids, <2>8, <2>9, <2>10, <2>12, <2>13, <2>14, SlotProcInv
<1> QED
  BY <1>2, <1>3

----------------------------------------------------------------------------
(* Exit.                                                                   *)

\* What process_exit does to each thread: the caller becomes a zombie, the
\* registered waiter is woken, and whoever awaits the process is owed the code.
LEMMA ExitThreads ==
    ASSUME ProcInv, NEW t \in Threads, NEW c \in Codes, NEW p \in Pids,
           th' = ThreadsAfterExit(t, p, c)
    PROVE  /\ th' \in [Threads -> ThreadRecords]
           /\ th'[t].pc = "zombie" /\ th'[t].proc = th[t].proc /\ th'[t].heard = "nothing"
           /\ \A u \in Threads \ {t} :
                 /\ th'[u].proc = th[u].proc /\ th'[u].child = th[u].child
                 /\ th'[u].heard = th[u].heard /\ th'[u].code = th[u].code
                 /\ th'[u].missed = th[u].missed
                 /\ th'[u].pc = IF u \in Wakes(p) /\ th[u].pc = "blocked"
                                THEN "woken" ELSE th[u].pc
                 /\ th'[u].due = IF th[u].child = p /\ th[u].due = Pending
                                 THEN c ELSE th[u].due
<1> DEFINE n(u) == IF u \in Wakes(p) /\ th[u].pc = "blocked" THEN "woken" ELSE th[u].pc
           d(u) == IF th[u].child = p /\ th[u].due = Pending THEN c ELSE th[u].due
<1>1. th' = [u \in Threads |-> IF u = t THEN Exited(t)
                               ELSE [th[u] EXCEPT !.pc = n(u), !.due = d(u)]]
  BY DEF ThreadsAfterExit
<1>2. /\ Exited(t) \in ThreadRecords /\ Exited(t).pc = "zombie"
      /\ Exited(t).proc = th[t].proc /\ Exited(t).heard = "nothing"
  BY Forms, ExitedForm DEF ProcInv
<1>3. ASSUME NEW u \in Threads
      PROVE  /\ [th[u] EXCEPT !.pc = n(u), !.due = d(u)] \in ThreadRecords
             /\ [th[u] EXCEPT !.pc = n(u), !.due = d(u)].pc = n(u)
             /\ [th[u] EXCEPT !.pc = n(u), !.due = d(u)].due = d(u)
             /\ [th[u] EXCEPT !.pc = n(u), !.due = d(u)].proc = th[u].proc
             /\ [th[u] EXCEPT !.pc = n(u), !.due = d(u)].child = th[u].child
             /\ [th[u] EXCEPT !.pc = n(u), !.due = d(u)].heard = th[u].heard
             /\ [th[u] EXCEPT !.pc = n(u), !.due = d(u)].code = th[u].code
             /\ [th[u] EXCEPT !.pc = n(u), !.due = d(u)].missed = th[u].missed
  <2>1. th[u] \in ThreadRecords
    BY Forms DEF ProcInv
  <2>2. n(u) \in Places /\ d(u) \in Codes \cup {Pending}
    BY <2>1 DEF ThreadRecords, Places, InWait
  <2> HIDE DEF n, d
  <2> QED
    BY ONLY <2>1, <2>2 DEF ThreadRecords
<1> HIDE DEF n, d
<1>4. th' \in [Threads -> ThreadRecords]
  BY <1>1, <1>2, <1>3
<1>5. th'[t] = Exited(t)
  BY <1>1
<1>6. \A u \in Threads \ {t} : th'[u] = [th[u] EXCEPT !.pc = n(u), !.due = d(u)]
  BY <1>1
<1>7. \A u \in Threads \ {t} :
         /\ th'[u].proc = th[u].proc /\ th'[u].child = th[u].child
         /\ th'[u].heard = th[u].heard /\ th'[u].code = th[u].code
         /\ th'[u].missed = th[u].missed /\ th'[u].pc = n(u) /\ th'[u].due = d(u)
  BY <1>3, <1>6
<1> QED
  BY <1>2, <1>4, <1>5, <1>7 DEF n, d

\* The thread of a process takes it along: nobody is left running in it, and
\* the parent, if it waits, is woken with the code due.
LEMMA ExitProcInv ==
    ASSUME ThreadsEach = 1, ProcInv, NEW t \in Threads, NEW c \in Codes,
           process_exit(t, c), NEW p \in Pids, p = th[t].proc
    PROVE  ProcInv'
<1> USE DEF ProcInv
<1> DEFINE s == [proc[p] EXCEPT !.exit_code = c, !.state = "ZOMBIE", !.waiter = NoThread]
<1>1. /\ proc' = [proc EXCEPT ![p] = s] /\ s_live' = s_live /\ s_next_pid' = s_next_pid
      /\ children' = children /\ th' = ThreadsAfterExit(t, p, c)
      /\ th[t].pc = "run"
  BY DEF process_exit, Calls
<1>2. proc[p] \in SlotRecords /\ proc[p].state = "ALIVE" /\ Of(p) = {t}
  BY <1>1, Forms, ThreadsOf
<1>3. /\ s \in SlotRecords /\ s.exit_code = c /\ s.state = "ZOMBIE"
      /\ s.thread_count = proc[p].thread_count /\ s.parent = proc[p].parent
      /\ s.waiter = NoThread
  BY ONLY <1>2, c \in Codes DEF SlotRecords
<1> HIDE DEF s
<1>4. /\ proc' \in [Pids -> SlotRecords] /\ proc'[p] = s
      /\ \A q \in Pids \ {p} : proc'[q] = proc[q]
  BY <1>1, <1>3, Forms
<1>5. /\ th' \in [Threads -> ThreadRecords]
      /\ th'[t].pc = "zombie" /\ th'[t].proc = p /\ th'[t].heard = "nothing"
      /\ \A u \in Threads \ {t} :
            /\ th'[u].proc = th[u].proc /\ th'[u].child = th[u].child
            /\ th'[u].heard = th[u].heard /\ th'[u].code = th[u].code
            /\ th'[u].missed = th[u].missed
            /\ th'[u].pc = IF u \in Wakes(p) /\ th[u].pc = "blocked" THEN "woken" ELSE th[u].pc
            /\ th'[u].due = IF th[u].child = p /\ th[u].due = Pending THEN c ELSE th[u].due
  BY <1>1, ExitThreads
<1>6. TypeOK'
  BY <1>1, <1>4, <1>5, FormsSuffice DEF TypeOK, SlotRecords, ThreadRecords, Places
<1>7. \A q \in Pids : Of(q)' = Of(q)
  BY <1>5 DEF Of
<1>8. CountersExact'
  <2>1. Used' = Used
    BY <1>2, <1>3, <1>4 DEF Used
  <2>2. s_live' = Cardinality(Used')
    BY <1>1, <2>1, Counters
  <2>3. \A q \in Pids : /\ proc'[q].thread_count = Cardinality(Of(q)')
                        /\ proc'[q].state = "FREE" =>
                              proc'[q].thread_count = 0 /\ ~proc'[q].resources
    BY <1>3, <1>4, <1>7, Counters
  <2> QED
    BY <2>2, <2>3 DEF CountersExact, Used, Of
<1>9. NoneIdle'
  BY <1>5 DEF NoneIdle
<1>10. AnswerIsDue'
  <2> SUFFICES ASSUME NEW u \in Threads \ {t}, th[u].heard = "OK" PROVE th'[u].code = th'[u].due
    BY <1>5 DEF AnswerIsDue
  <2>1. th[u].code = th[u].due /\ th[u].code \in Codes
    BY Forms DEF AnswerIsDue, ThreadRecords
  <2> QED
    BY <1>5, <2>1, Numbers
<1>11. \A q \in Pids : SlotOK(q)'
  <2> SUFFICES ASSUME NEW q \in Pids PROVE SlotOK(q)'
    OBVIOUS
  <2>1. CASE q = p
    <3>1. p < s_next_pid /\ proc[p].thread_count >= 1
      BY <1>2, ThreadsOf DEF SlotOK
    <3>2. \A u \in Of(p)' : th'[u].pc = "zombie"
      BY <1>2, <1>5, <1>7
    <3>3. proc[p].thread_count # 0
      BY <3>1, <1>2 DEF SlotRecords
    <3> QED
      BY <1>1, <1>3, <1>4, <2>1, <3>1, <3>2, <3>3 DEF SlotOK
  <2>2. CASE q # p
    <3>1. SlotOK(q) /\ proc'[q] = proc[q] /\ proc[q].waiter \in Threads \cup {NoThread}
      BY <1>4, <2>2, Forms DEF SlotRecords
    <3>2. proc[q].state = "ZOMBIE" => \A u \in Of(q)' : th'[u].pc = "zombie"
      BY <1>5, <1>7, <2>2, <3>1 DEF SlotOK, Of
    <3>3. proc[q].state # "FREE" /\ proc[q].waiter # NoThread =>
             th'[proc[q].waiter].child = q /\ th'[proc[q].waiter].pc \in Enlisted
      <4> SUFFICES ASSUME proc[q].state # "FREE", proc[q].waiter # NoThread
                   PROVE  th'[proc[q].waiter].child = q /\ th'[proc[q].waiter].pc \in Enlisted
        OBVIOUS
      <4>1. PICK w \in Threads : w = proc[q].waiter
        BY <3>1
      <4>2. th[w].child = q /\ th[w].pc \in Enlisted
        BY <3>1, <4>1 DEF SlotOK
      <4>3. w # t
        BY <1>1, <4>2 DEF Enlisted
      <4>4. w \notin Wakes(p)
        <5> SUFFICES ASSUME proc[p].waiter = w, w # NoThread PROVE FALSE
          BY DEF Wakes
        <5>1. SlotOK(p)
          OBVIOUS
        <5>2. th[w].child = p
          BY <1>2, <5>1 DEF SlotOK
        <5> QED
          BY <2>2, <4>2, <5>2
      <4> QED
        BY <1>5, <4>1, <4>2, <4>3, <4>4
    <3> QED
      BY <1>1, <3>1, <3>2, <3>3 DEF SlotOK
  <2> QED
    BY <2>1, <2>2
<1>12. \A u \in Threads : WaitOK(th[u], u)'
  <2> SUFFICES ASSUME NEW u \in Threads \ {t}, th'[u].pc \in Waits
               PROVE  WaitOK(th[u], u)'
    BY <1>5 DEF WaitOK, Waits, InWait
  <2>1. th[u].pc \in Waits
    BY <1>5 DEF Waits, InWait
  <2>2. WaitOK(th[u], u)
    OBVIOUS
  <2>3. CASE th[u].child # p
    <3>1. th[u].child \in Pids /\ proc'[th[u].child] = proc[th[u].child]
      BY <1>4, <2>1, <2>2, <2>3 DEF WaitOK
    <3>2. /\ th'[u].proc = th[u].proc /\ th'[u].child = th[u].child /\ th'[u].due = th[u].due
          /\ th'[u].missed = th[u].missed
          /\ th'[u].pc = th[u].pc \/ th'[u].pc = "woken"
      BY <1>5, <2>3
    <3> QED
      BY <1>1, <2>1, <2>2, <3>1, <3>2 DEF WaitOK, Enlisted
  <2>4. CASE th[u].child = p
    <3>1. th[u].due = Pending /\ proc[p].parent = th[u].proc /\ th[u].proc # NoPid
          /\ p < s_next_pid /\ th[u].pc # "done"
      BY <1>2, <2>1, <2>2, <2>4 DEF WaitOK
    <3>2. th[u].pc = "blocked" => proc[p].waiter = u
      BY <1>2, <2>1, <2>2, <2>4 DEF WaitOK, Enlisted
    <3>3. th'[u].pc \notin {"blocked", "done"}
      BY <1>5, <2>1, <3>1, <3>2, ProcessAssumption DEF Wakes, Waits, InWait
    <3>4. th'[u].due = c /\ th'[u].child = p /\ th'[u].proc = th[u].proc
      BY <1>5, <2>4, <3>1
    <3> QED
      BY <1>1, <1>3, <1>4, <3>1, <3>3, <3>4 DEF WaitOK
  <2> QED
    BY <2>3, <2>4
<1> QED
  BY <1>6, <1>8, <1>9, <1>10, <1>11, <1>12

----------------------------------------------------------------------------
(* Every step keeps the invariant.                                         *)

\* One lemma for each kind of step.
LEMMA NextProcInv ==
    ASSUME ThreadsEach = 1, ProcInv, [Next]_vars
    PROVE  ProcInv'
<1>1. ASSUME NEW t \in Threads, NEW c \in Codes, process_exit(t, c)
      PROVE  ProcInv'
  <2>1. th[t].proc \in Pids
    BY <1>1, Forms DEF ProcInv, ThreadRecords, process_exit
  <2> QED
    BY <1>1, <2>1, ExitProcInv
<1>2. CASE UNCHANGED vars
  <2> USE <1>2 DEF vars
  <2>1. TypeOK'
    BY DEF ProcInv, TypeOK
  <2>2. CountersExact'
    BY DEF ProcInv, CountersExact, Used, Of
  <2>3. NoneIdle' /\ AnswerIsDue'
    BY DEF ProcInv, NoneIdle, AnswerIsDue
  <2>4. \A p \in Pids : SlotOK(p)'
    BY DEF ProcInv, SlotOK, Of
  <2>5. \A t \in Threads : WaitOK(th[t], t)'
    BY DEF ProcInv, WaitOK
  <2> QED
    BY <2>1, <2>2, <2>3, <2>4, <2>5 DEF ProcInv
<1> QED
  BY <1>1, <1>2, ThreadStepsProcInv, CreateProcInv, AttachProcInv, SetProcInv, ReturnProcInv,
     CollectProcInv DEF Next

\* The inductive invariant holds in every state.
THEOREM ProcessInductive ==
    ASSUME ThreadsEach = 1
    PROVE  Spec => []ProcInv
<1>1. Init => ProcInv
  BY InitProcInv
<1>2. ProcInv /\ [Next]_vars => ProcInv'
  BY NextProcInv
<1> QED
  BY <1>1, <1>2, PTL DEF Spec

\* The table keeps its form, s_live and every thread_count are exact, nothing
\* is left in a free slot, no thread that can still run belongs to a process
\* whose address space and capabilities process_reap has released, and no
\* process is left over without threads but for a parent that missed its exit.
THEOREM ProcessTableSound ==
    ASSUME ThreadsEach = 1
    PROVE  Spec => []TableSound
<1>1. ProcInv => TableSound
  <2> SUFFICES ASSUME ProcInv PROVE ThreadsHaveSpace /\ ZombiesAreWatched
    BY DEF ProcInv, TableSound
  <2>w. ZombiesAreWatched
    <3> SUFFICES ASSUME NEW p \in Pids, proc[p].state = "ZOMBIE", proc[p].thread_count = 0
                 PROVE  \E t \in Threads : /\ th[t].child = p
                                            /\ \/ th[t].pc = "set"
                                               \/ th[t].pc = "blocked" /\ th[t].missed
      BY DEF ZombiesAreWatched
    <3>1. PICK t \in Threads : t = proc[p].waiter
      BY Forms DEF ProcInv, SlotOK, SlotRecords
    <3>2. t # NoThread
      BY ProcessAssumption
    <3>3. th[t].child = p /\ th[t].pc \in Enlisted
      BY <3>1, <3>2 DEF ProcInv, SlotOK
    <3>4. th[t].pc = "blocked" => th[t].missed
      BY <3>3 DEF ProcInv, WaitOK, Waits, InWait, Enlisted
    <3> QED
      BY <3>3, <3>4 DEF Enlisted
  <2>s. ThreadsHaveSpace
    <3> SUFFICES ASSUME NEW t \in Threads, th[t].proc # NoPid, th[t].pc # "zombie"
                 PROVE  proc[th[t].proc].resources
      BY DEF ThreadsHaveSpace
    <3>1. th[t].proc \in Pids
      BY Forms DEF ProcInv, ThreadRecords
    <3>2. proc[th[t].proc].state = "ALIVE"
      BY <3>1, ThreadsOf
    <3> QED
      BY <3>1, <3>2 DEF ProcInv, SlotOK
  <2> QED
    BY <2>w, <2>s
<1> QED
  BY <1>1, ProcessInductive, PTL

\* A parent blocked in process_wait is registered with a child that is alive,
\* so that process_exit will wake it, unless the child exited between the test
\* and the block; and what process_wait returns is the exit code of the process
\* it was called for, whether or not the collector reaped the slot first.
THEOREM ProcessWaitsSound ==
    ASSUME ThreadsEach = 1
    PROVE  Spec => []WaitsSound
<1>1. ProcInv => WaitsSound
  BY DEF ProcInv, WaitsSound, BlockedIsAwaited, WaitOK, Waits, InWait, Enlisted
<1> QED
  BY <1>1, ProcessInductive, PTL

============================================================================
