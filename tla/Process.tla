------------------------------ MODULE Process ------------------------------
(***************************************************************************)
(* Processes: creation, exit, wait and teardown (kernel/core/process.c),   *)
(* with the collector of exited threads (sched_collect_zombies of          *)
(* kernel/core/sched.c), which shares the teardown with process_wait.      *)
(*                                                                         *)
(* A process is a slot of a fixed table and its pid is the slot's place in *)
(* it.  A thread in process_wait holds a pointer to the child's slot while *)
(* it is blocked; the slot may be torn down meanwhile by the collector.    *)
(*                                                                         *)
(* The steps of process_wait are the stretches between which another       *)
(* thread may come in.  It runs with interrupts on, so that a tick may fall*)
(* between any two of them; the history variable missed says for which     *)
(* waits it fell into the one place that matters.  process_exit is one     *)
(* step: its only caller is the EXIT system call, behind an interrupt gate.*)
(***************************************************************************)
EXTENDS Integers, FiniteSets

CONSTANTS MaxProcesses, \* AF_MAX_PROCESSES
          Threads,      \* thread objects
          NoThread,     \* the NULL thread
          Codes,        \* exit codes, 0 among them
          ThreadsEach   \* bound: threads attached to one process

ASSUME ProcessAssumption ==
    /\ MaxProcesses \in Nat \ {0, 1}
    /\ IsFiniteSet(Threads)
    /\ NoThread \notin Threads
    /\ 0 \in Codes /\ -1 \notin Codes
    /\ ThreadsEach \in Nat \ {0}

NoPid  == 0                    \* AF_PID_INVALID, and the NULL process
Kernel == 1                    \* AF_PID_KERNEL
Pids   == 2 .. MaxProcesses

VARIABLES proc,       \* s_table; proc[p] is the slot p - 1
          s_live,
          s_next_pid,
          th,         \* the threads, inside or outside process_wait
          children    \* history: pairs <<parent, child>> not yet waited for

vars == <<proc, s_live, s_next_pid, th, children>>

FreeSlot == [state |-> "FREE", parent |-> NoPid, resources |-> FALSE,
             thread_count |-> 0, exit_code |-> 0, waiter |-> NoThread]

(***************************************************************************)
(* resources stands for the address space and the capability table, which  *)
(* are created and released together.                                      *)
(*                                                                         *)
(* Where a thread is:                                                      *)
(*   none     no such thread                                               *)
(*   run      outside process_wait                                         *)
(*   look     at the head of the loop of process_wait                      *)
(*   alive    it saw the child alive and is about to set child->waiter     *)
(*   set      waiter is set, sched_block not yet called                    *)
(*   blocked  AF_THREAD_BLOCKED                                            *)
(*   woken    runnable again, still inside sched_block                     *)
(*   done     it left the loop                                             *)
(*   zombie   exited, on the list of zombies                               *)
(* child is the pid the last process_wait named, heard and code what it    *)
(* returned.  History: due is the code with which the process that was     *)
(* waited for exited, Pending until it does; missed, whether the exit came *)
(* after the thread saw the child alive and before it was blocked.         *)
(***************************************************************************)
Pending == -1

NewThread(pc) == [pc |-> pc, proc |-> NoPid, child |-> NoPid,
                  heard |-> "nothing", code |-> 0, due |-> 0, missed |-> FALSE]

Init ==
    /\ proc = [p \in Pids |-> FreeSlot]
    /\ s_live = 0
    /\ s_next_pid = 2
    /\ \E t \in Threads :
           th = [u \in Threads |-> NewThread(IF u = t THEN "run" ELSE "none")]
    /\ children = {}

----------------------------------------------------------------------------
\* A thread that is about to call into the kernel.
Calls(t) == th[t].pc = "run"

\* thread_create: a kernel thread, in no process.
thread_create(t, u) ==
    /\ Calls(t)
    /\ th[u].pc = "none"
    /\ th' = [th EXCEPT ![u] = NewThread("run")]
    /\ UNCHANGED <<proc, s_live, s_next_pid, children>>

Available_AnyFree(p) == proc[p].state = "FREE"

\* A slot process_create may take: free, and never taken before.
Available(p) == proc[p].state = "FREE" /\ p >= s_next_pid

\* The parent recorded: the creating process, or the kernel.
ParentFor(t) == IF th[t].proc = NoPid THEN Kernel ELSE th[t].proc

\* The first available slot becomes a process with no thread.  A failure of
\* hal_pt_create_user or cap_table_create leaves everything as it was.
process_create(t, p) ==
    /\ Calls(t)
    /\ Available(p) /\ \A q \in Pids : Available(q) => p <= q
    /\ proc' = [proc EXCEPT ![p] = [FreeSlot EXCEPT !.state = "ALIVE",
                                                    !.parent = ParentFor(t),
                                                    !.resources = TRUE]]
    /\ children' = children \cup {<<ParentFor(t), p>>}
    /\ s_next_pid' = IF p >= s_next_pid THEN p + 1 ELSE s_next_pid
    /\ s_live' = s_live + 1
    /\ UNCHANGED th

\* elf_exec: a kernel thread joins a process and goes on inside it.
process_attach_thread(t, p) ==
    /\ Calls(t) /\ th[t].proc = NoPid
    /\ proc[p].state = "ALIVE" /\ proc[p].thread_count < ThreadsEach
    /\ proc' = [proc EXCEPT ![p].thread_count = @ + 1]
    /\ th' = [th EXCEPT ![t].proc = p]
    /\ UNCHANGED <<s_live, s_next_pid, children>>

----------------------------------------------------------------------------
(* Teardown.                                                               *)

\* Whether the process still has a thread; then process_reap stops short.
Refuses(slot) == slot.thread_count # 0

\* The slot after process_reap: nothing on a free one; otherwise address space
\* and capabilities go, and unless it refuses the slot becomes free.  Counters
\* apart, the slot keeps what the next process_create will overwrite.
process_reap(slot) ==
    IF slot.state = "FREE" THEN slot
    ELSE IF Refuses(slot) THEN [slot EXCEPT !.resources = FALSE]
    ELSE [slot EXCEPT !.resources = FALSE, !.state = "FREE", !.parent = NoPid]

LiveAfterReap_AlsoRefused(slot) ==
    IF slot.state # "FREE" /\ s_live > 0 THEN s_live - 1 ELSE s_live

LiveAfterReap(slot) ==
    IF slot.state # "FREE" /\ ~Refuses(slot) /\ s_live > 0 THEN s_live - 1 ELSE s_live

----------------------------------------------------------------------------
(* Exit and wait.                                                          *)

\* process_exit: the code, the state, the waiter, and thread_exit.
Wakes_Nobody(p) == {}

Wakes(p) == {proc[p].waiter} \ {NoThread}

InWait == {"look", "alive", "set", "blocked", "woken"}

Exited(t) == [NewThread("zombie") EXCEPT !.proc = th[t].proc]

ThreadsAfterExit(t, p, c) ==
    [u \in Threads |->
        IF u = t THEN Exited(t)
        ELSE [th[u] EXCEPT
                !.pc = IF u \in Wakes(p) /\ @ = "blocked" THEN "woken" ELSE @,
                !.due = IF th[u].child = p /\ @ = Pending THEN c ELSE @]]

process_exit(t, c) ==
    LET p == th[t].proc
    IN  /\ Calls(t) /\ p # NoPid
        /\ proc' = [proc EXCEPT ![p].exit_code = c, ![p].state = "ZOMBIE",
                                ![p].waiter = NoThread]
        /\ th' = ThreadsAfterExit(t, p, c)
        /\ UNCHANGED <<s_live, s_next_pid, children>>

\* A thread of no process, or one that returns from its function, exits and
\* leaves the process as it is.
thread_exit(t) ==
    /\ Calls(t)
    /\ th' = [th EXCEPT ![t] = Exited(t)]
    /\ UNCHANGED <<proc, s_live, s_next_pid, children>>

\* The beginning of process_wait: the lookup, and the two refusals.
Verdict(t, p) ==
    CASE proc[p].state = "FREE" -> "NOENT"
      [] proc[p].state # "FREE" /\ (th[t].proc = NoPid \/ proc[p].parent # th[t].proc) -> "PERM"
      [] OTHER -> "nothing"

process_wait(t, p) ==
    /\ Calls(t)
    /\ th' = [th EXCEPT ![t].pc = IF Verdict(t, p) = "nothing" THEN "look" ELSE "run",
                        ![t].heard = Verdict(t, p),
                        ![t].child = p,
                        ![t].code = 0, ![t].missed = FALSE,
                        ![t].due = IF proc[p].state = "ALIVE" THEN Pending
                                    ELSE proc[p].exit_code]
    /\ UNCHANGED <<proc, s_live, s_next_pid, children>>

\* The condition of the loop of process_wait.
StillAlive(p) == proc[p].state = "ALIVE"

wait_look(t) ==
    /\ th[t].pc \in {"look", "woken"}
    /\ th' = [th EXCEPT ![t].pc = IF StillAlive(th[t].child) THEN "alive" ELSE "done"]
    /\ UNCHANGED <<proc, s_live, s_next_pid, children>>

wait_set(t) ==
    /\ th[t].pc = "alive"
    /\ proc' = [proc EXCEPT ![th[t].child].waiter = t]
    /\ th' = [th EXCEPT ![t].pc = "set"]
    /\ UNCHANGED <<s_live, s_next_pid, children>>

sched_block(t) ==
    /\ th[t].pc = "set"
    /\ th' = [th EXCEPT ![t].pc = "blocked", ![t].missed = ~StillAlive(th[t].child)]
    /\ UNCHANGED <<proc, s_live, s_next_pid, children>>

\* The end of process_wait: the code is read from the slot, then the slot is
\* reaped, if the collector has not done so.
wait_return(t) ==
    LET p == th[t].child
    IN  /\ th[t].pc = "done"
        /\ th' = [th EXCEPT ![t].pc = "run", ![t].heard = "OK", ![t].code = proc[p].exit_code]
        /\ proc' = [proc EXCEPT ![p] = process_reap(@)]
        /\ s_live' = LiveAfterReap(proc[p])
        /\ children' = children \ {<<th[t].proc, p>>}
        /\ UNCHANGED s_next_pid

----------------------------------------------------------------------------
(* The collector: one round of the loop of sched_collect_zombies, run by   *)
(* the idle and the boot thread.                                           *)

process_detach_thread(slot) ==
    [slot EXCEPT !.thread_count = IF @ > 0 THEN @ - 1 ELSE @]

\* Whether the collector also reaps the process the thread was detached from.
LastOut_Never(slot) == FALSE

LastOut(slot) ==
    slot.thread_count = 0 /\ slot.state = "ZOMBIE" /\ slot.waiter = NoThread

sched_collect_zombies(z) ==
    LET p == th[z].proc
    IN  /\ th[z].pc = "zombie"
        /\ th' = [th EXCEPT ![z] = NewThread("none")]
        /\ IF p = NoPid THEN UNCHANGED <<proc, s_live>>
           ELSE LET slot == process_detach_thread(proc[p])
                IN  /\ proc' = [proc EXCEPT ![p] = IF LastOut(slot) THEN process_reap(slot)
                                                   ELSE slot]
                    /\ s_live' = IF LastOut(slot) THEN LiveAfterReap(slot) ELSE s_live
        /\ UNCHANGED <<s_next_pid, children>>

----------------------------------------------------------------------------
Next ==
    \/ \E t, u \in Threads : thread_create(t, u)
    \/ \E t \in Threads, p \in Pids : process_create(t, p)
    \/ \E t \in Threads, p \in Pids : process_attach_thread(t, p)
    \/ \E t \in Threads, c \in Codes : process_exit(t, c)
    \/ \E t \in Threads : thread_exit(t)
    \/ \E t \in Threads, p \in Pids : process_wait(t, p)
    \/ \E t \in Threads : wait_look(t)
    \/ \E t \in Threads : wait_set(t)
    \/ \E t \in Threads : sched_block(t)
    \/ \E t \in Threads : wait_return(t)
    \/ \E z \in Threads : sched_collect_zombies(z)

Spec == Init /\ [][Next]_vars

\* A thread inside process_wait that may run goes on: the threads that call it
\* share a priority, in turns.  Nothing is assumed of the collector, which runs
\* when nothing else does.
Continue(t) == wait_look(t) \/ wait_set(t) \/ sched_block(t) \/ wait_return(t)

FairSpec == Spec /\ \A t \in Threads : WF_vars(Continue(t))

----------------------------------------------------------------------------
(* Properties.                                                             *)

\* Every field stays in its range; a pid handed out stays handed out.
TypeOK ==
    /\ proc \in [Pids -> [state : {"FREE", "ALIVE", "ZOMBIE"}, parent : 0 .. MaxProcesses,
                          resources : BOOLEAN, thread_count : 0 .. ThreadsEach,
                          exit_code : Codes, waiter : Threads \cup {NoThread}]]
    /\ s_live \in 0 .. MaxProcesses
    /\ s_next_pid \in 2 .. MaxProcesses + 1
    /\ th \in [Threads -> [pc : {"none", "run", "zombie", "done"} \cup InWait, proc : {NoPid} \cup Pids,
                           child : {NoPid} \cup Pids, code : Codes, due : Codes \cup {Pending},
                           heard : {"nothing", "OK", "NOENT", "PERM"}, missed : BOOLEAN]]
    /\ children \subseteq (1 .. MaxProcesses) \X Pids

\* A parent blocked in process_wait is the registered waiter of a child that
\* is still alive: process_exit will find it and wake it.  The one exception is
\* a parent whose child exited between the test and the block.
BlockedIsAwaited ==
    \A t \in Threads : th[t].pc = "blocked" /\ ~th[t].missed =>
        LET c == proc[th[t].child] IN c.state = "ALIVE" /\ c.waiter = t

\* A process_wait that succeeds returns the code of the very process it was
\* called for, even when the collector reaped the slot before the parent ran.
AnswerIsDue ==
    \A t \in Threads : th[t].heard = "OK" => th[t].code = th[t].due

\* No thread that can still run belongs to a process whose address space and
\* capabilities are gone.
ThreadsHaveSpace ==
    \A t \in Threads :
        th[t].proc # NoPid /\ th[t].pc # "zombie" => proc[th[t].proc].resources

\* The counters agree with the table: s_live with the slots in use and each
\* thread_count with the threads that point to the process; nothing is left
\* in a free slot.
CountersExact ==
    /\ s_live = Cardinality({p \in Pids : proc[p].state # "FREE"})
    /\ \A p \in Pids :
           /\ proc[p].thread_count = Cardinality({t \in Threads : th[t].proc = p})
           /\ proc[p].state = "FREE" => proc[p].thread_count = 0 /\ ~proc[p].resources

\* A process that has exited and has no thread left has been torn down, by its
\* parent or by the collector, whichever came last.  The exception is one that
\* a parent set out to wait for too late, which the collector leaves to it.
ZombiesAreWatched ==
    \A p \in Pids : proc[p].state = "ZOMBIE" /\ proc[p].thread_count = 0 =>
        \E t \in Threads : /\ th[t].child = p
                            /\ \/ th[t].pc = "set"
                               \/ th[t].pc = "blocked" /\ th[t].missed

\* The table keeps its form, its counters agree with it, no thread outlives what
\* its process holds, and no process outlives its threads.
TableSound == TypeOK /\ CountersExact /\ ThreadsHaveSpace /\ ZombiesAreWatched

\* process_wait is sure of its wakeup, and of its answer.
WaitsSound == BlockedIsAwaited /\ AnswerIsDue

\* A parent in process_wait returns once the child has exited, unless it missed
\* the exit.
WaiterReturns ==
    \A t \in Threads, p \in Pids :
        th[t].pc \in InWait /\ th[t].child = p /\ proc[p].state # "ALIVE"
            ~> th[t].pc = "run" \/ th[t].missed

----------------------------------------------------------------------------
(* What the comments say and the code does not do.  BlockedIsAwaited with  *)
(* two threads of the parent waiting belongs here too.                     *)

\* process.c: "reading exit_code before it has been set is exactly the race
\* this loop closes".  It leaves the one of an exit between test and block.
NoneMissed == \A t \in Threads : ~th[t].missed

\* process.c: "Reaping a process that still has threads would free an address
\* space out from under them.  Refuse".  The refusal comes after the freeing.
ReapWaitsForThreads ==
    \A p \in Pids : proc[p].thread_count # 0 => proc[p].resources

\* process.h: "A child that has already exited returns immediately, which is
\* the case that must not be missed".  The collector frees a child nobody is
\* blocked on, and a later process_wait finds no such process.
ExitCodeKept ==
    [][\A t \in Threads, p \in Pids :
          process_wait(t, p) /\ th'[t].heard = "NOENT"
              => <<th[t].proc, p>> \notin children]_vars

\* process.c: "Pids ARE REUSED once a process is reaped".  A slot is taken
\* once, so the table can be used up with every process gone.
PidsReused == s_live = 0 => \E p \in Pids : Available(p)
============================================================================
