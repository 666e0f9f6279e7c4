------------------------------- MODULE Sched -------------------------------
(***************************************************************************)
(* The round-robin scheduler and the life of threads (kernel/core/sched.c, *)
(* thread.c, arch/x86_64/context.asm).                                     *)
(*                                                                         *)
(* One processor.  Its state is the running thread, the interrupt flag and *)
(* the installed page tables.  The running thread calls into the scheduler *)
(* (yield, block, sleep, exit), and while interrupts are on the timer may  *)
(* interrupt it and switch from inside the interrupt handler.              *)
(*                                                                         *)
(* A voluntary switch takes two steps, because the code chooses the next   *)
(* thread (pick_next) before it turns interrupts off (switch_to), and a    *)
(* tick may come between the two.  The chosen thread is off the queues by  *)
(* then, in the hands of the one that chose it.  If that thread was merely *)
(* yielding, the tick queues it and all is well: it goes on from there.    *)
(* If it had already given up its place (blocked, asleep, exited), nobody  *)
(* queues it: the variable torn records that such a tick has ended a slice.*)
(* From there on the linked lists of the code may lose their tails, which  *)
(* sequences do not show, and nothing is claimed.                          *)
(*                                                                         *)
(* Two things are coarser than the code, which runs both with interrupts   *)
(* on: a change of the caller's state and pick_next are one step, and so   *)
(* is every operation on a queue.                                          *)
(*                                                                         *)
(* A deadline is kept as the number of ticks left, which is what comparing *)
(* wake_tick with the running count of ticks amounts to.                   *)
(***************************************************************************)
EXTENDS Integers, FiniteSets, SequencesExt

CONSTANTS Threads,      \* tids
          Boot, Idle,   \* the boot context and the idle thread
          Prio,         \* priority of each thread, 0 the highest
          Levels,       \* AF_PRIO_LEVELS
          Slice,        \* AF_TIME_SLICE_TICKS
          MaxSleep,     \* bound: ticks a thread may ask to sleep
          MaxZombies,   \* length of s_zombies
          Root,         \* page tables each thread's process needs
          KernelRoot    \* s_kernel_root

ASSUME SchedAssumption ==
    /\ Threads \subseteq Nat /\ IsFiniteSet(Threads)
    /\ {Boot, Idle} \subseteq Threads /\ Boot # Idle
    /\ Levels \in Nat \ {0}
    /\ Prio \in [Threads -> 0 .. Levels - 1]
    /\ Slice \in Nat \ {0}
    /\ MaxSleep \in Nat /\ MaxZombies \in Nat \ {0}
    /\ DOMAIN Root = Threads

VARIABLES state, slice, left,   \* thread->state, time_slice, ticks to wake_tick
          runq,       \* s_runq
          current,    \* s_current
          zombies,    \* s_zombies
          pc,         \* inside the scheduler: between pick_next and the switch
          picked,     \* the local variable next of a thread at such a point
          frame,      \* how a thread that is not running was suspended
          irq,        \* the processor's interrupt flag
          root,       \* s_last_installed
          attached,   \* threads counted in their process's thread_count
          torn        \* history: a tick has switched away from a thread that
                      \* had given up its place and held its successor

vars == <<state, slice, left, runq, current, zombies, pc, picked, frame, irq, root, attached,
          torn>>

\* After sched_init and sched_admit(idle), with interrupts just enabled.
Init ==
    /\ state = [t \in Threads |-> CASE t = Boot -> "RUNNING"
                                    [] t = Idle -> "RUNNABLE"
                                    [] OTHER -> "FREE"]
    /\ slice = [t \in Threads |-> Slice]
    /\ left = [t \in Threads |-> 0]
    /\ runq = [p \in 0 .. Levels - 1 |-> IF p = Prio[Idle] THEN <<Idle>> ELSE <<>>]
    /\ current = Boot
    /\ zombies = <<>>
    /\ pc = [t \in Threads |-> "run"]
    /\ picked = [t \in Threads |-> t]
    /\ frame = [t \in Threads |-> "new"]
    /\ irq = TRUE
    /\ root = KernelRoot
    /\ attached = {}
    /\ torn = FALSE

----------------------------------------------------------------------------
(* Run queues.                                                             *)

runq_push(q, t) == [q EXCEPT ![Prio[t]] = Append(@, t)]

\* The first place found, from the highest priority down.
runq_remove(q, t) ==
    LET holding == {p \in DOMAIN q : t \in ToSet(q[p])}
    IN  IF holding = {} THEN q ELSE [q EXCEPT ![Min(holding)] = RemoveFirst(@, t)]

Occupied(q) == {p \in DOMAIN q : q[p] # <<>>}

HighestLevel(q) == CHOOSE p \in Occupied(q) : \A r \in Occupied(q) : p <= r

\* pick_next chooses from the queues alone: the running thread is considered
\* only when they are all empty.
pick_next(st, q) ==
    IF Occupied(q) # {} THEN Head(q[HighestLevel(q)])
    ELSE IF st[current] = "RUNNING" THEN current
    ELSE Idle

\* runq_pop_highest.
Popped(q) ==
    IF Occupied(q) = {} THEN q ELSE [q EXCEPT ![HighestLevel(q)] = Tail(@)]

----------------------------------------------------------------------------
(* Switching.                                                              *)

\* context_switch does not save the interrupt flag.  A new thread turns
\* interrupts on (thread_trampoline), a thread that was interrupted gets its
\* flag back from iretq, and a thread that switched away by itself goes on
\* with the flag as it is.
ResumedIrq(next, flag) == frame[next] \in {"new", "tick"} \/ flag

\* sched_reap puts an exited thread on the list; when the list is full the
\* oldest is freed on the spot.
Evicted(prev) ==
    IF prev \notin ToSet(zombies) /\ Len(zombies) = MaxZombies THEN {Head(zombies)} ELSE {}

sched_reap_FullDrops(prev) ==
    IF prev \in ToSet(zombies) \/ Evicted(prev) # {} THEN zombies ELSE Append(zombies, prev)

sched_reap(prev) ==
    IF prev \in ToSet(zombies) THEN zombies
    ELSE Append(IF Evicted(prev) = {} THEN zombies ELSE Tail(zombies), prev)

\* switch_to(next), from states st, queues q and slices sl; flag is the
\* interrupt flag at the call and via the kind of frame left behind.
Requeued(st, q) ==
    IF st[current] = "RUNNING" THEN runq_push(q, current) ELSE q

\* The state in which a thread is left.
LeftAs(s) == IF s = "RUNNING" THEN "RUNNABLE" ELSE s

switch_to(next, st, q, sl, flag, via) ==
    IF next = current
    THEN /\ state' = st /\ runq' = q /\ slice' = sl
         /\ UNCHANGED <<current, zombies, frame, irq, root>>
    ELSE LET exits   == st[current] = "ZOMBIE"
             evicted == IF exits THEN Evicted(current) ELSE {}
         IN  /\ runq' = IF exits THEN runq_remove(q, current) ELSE Requeued(st, q)
             /\ zombies' = IF exits THEN sched_reap(current) ELSE zombies
             /\ state' = [t \in Threads |->
                            IF t = next THEN "RUNNING"
                            ELSE IF t \in evicted THEN "FREE"
                            ELSE IF t = current THEN LeftAs(st[t])
                            ELSE st[t]]
             /\ slice' = [sl EXCEPT ![next] = Slice]
             /\ frame' = [frame EXCEPT ![current] = via]
             /\ irq' = ResumedIrq(next, flag)
             /\ root' = Root[next]
             /\ current' = next

\* The switch written out by hand in sched_block and sched_sleep: the thread
\* is not queued and no page tables are installed.
hand_switch(next) ==
    /\ state' = [state EXCEPT ![next] = "RUNNING"]
    /\ slice' = [slice EXCEPT ![next] = Slice]
    /\ frame' = [frame EXCEPT ![current] = "call"]
    /\ irq' = ResumedIrq(next, irq)
    /\ current' = next
    /\ UNCHANGED <<runq, zombies, root>>

----------------------------------------------------------------------------
(* The timer.                                                              *)

\* sched_wake_sleepers, in the order of the thread table.
Due_Never == {}

Due == {t \in Threads : state[t] = "SLEEPING" /\ left[t] <= 1}

DueQueue(p) ==
    CHOOSE q \in SetToSeqs({t \in Due : Prio[t] = p}) :
        \A i, j \in DOMAIN q : i < j => q[i] < q[j]

Woken(st) == [t \in Threads |-> IF t \in Due THEN "RUNNABLE" ELSE st[t]]

Spent(t) == IF slice[t] > 0 THEN slice[t] - 1 ELSE 0

\* The slice ends between pick_next and the switch of a thread that is not
\* RUNNING any more.
Tears == Spent(current) = 0 /\ pc[current] # "run" /\ state[current] # "RUNNING"

sched_tick ==
    LET st == Woken(state)
        q  == [p \in DOMAIN runq |-> runq[p] \o DueQueue(p)]
        sl == [slice EXCEPT ![current] = Spent(current)]
    IN  /\ irq
        /\ left' = [t \in Threads |-> IF state[t] = "SLEEPING" /\ left[t] > 0
                                      THEN left[t] - 1 ELSE left[t]]
        /\ IF Spent(current) = 0
           THEN switch_to(pick_next(st, q), st, Popped(q), sl, FALSE, "tick")
           ELSE /\ state' = st /\ runq' = q /\ slice' = sl
                /\ UNCHANGED <<current, zombies, frame, irq, root>>
        /\ torn' = (torn \/ Tears)
        /\ UNCHANGED <<pc, picked, attached>>

----------------------------------------------------------------------------
(* What the running thread does.                                           *)

Acts(t) == current = t /\ pc[t] = "run"

\* Choosing a successor; st is the state with the caller's own change in it.
Choose(t, st, step) ==
    /\ state' = st
    /\ picked' = [picked EXCEPT ![t] = pick_next(st, runq)]
    /\ runq' = Popped(runq)
    /\ pc' = [pc EXCEPT ![t] = step]
    /\ UNCHANGED <<current, zombies, frame, irq, root, attached, torn>>

sched_yield(t) ==
    /\ Acts(t) /\ t # Idle
    /\ Choose(t, state, "switch")
    /\ slice' = [slice EXCEPT ![t] = Slice]
    /\ UNCHANGED left

\* The idle thread is refused.
sched_block(t) ==
    /\ Acts(t) /\ t # Idle
    /\ Choose(t, [state EXCEPT ![t] = "BLOCKED"], "hand")
    /\ UNCHANGED <<slice, left>>

sched_sleep(t, n) ==
    /\ Acts(t) /\ t # Idle
    /\ Choose(t, [state EXCEPT ![t] = "SLEEPING"], "hand")
    /\ left' = [left EXCEPT ![t] = n]
    /\ UNCHANGED slice

\* The thread never returns from here: it yields until it is not resumed.
thread_exit(t) ==
    /\ Acts(t) /\ t # Idle
    /\ Choose(t, [state EXCEPT ![t] = "ZOMBIE"], "switch")
    /\ UNCHANGED <<slice, left>>

\* The second half of sched_yield and thread_exit.
finish_switch(t) ==
    /\ current = t /\ pc[t] = "switch"
    /\ switch_to(picked[t], state, runq, slice, irq, "call")
    /\ pc' = [pc EXCEPT ![t] = "run"]
    /\ picked' = [picked EXCEPT ![t] = t]
    /\ UNCHANGED <<left, attached, torn>>

\* The second half of sched_block and sched_sleep.
finish_wait(t) ==
    /\ current = t /\ pc[t] = "hand"
    /\ hand_switch(picked[t])
    /\ pc' = [pc EXCEPT ![t] = "run"]
    /\ picked' = [picked EXCEPT ![t] = t]
    /\ UNCHANGED <<left, attached, torn>>

sched_unblock(t, u) ==
    /\ Acts(t)
    /\ state[u] = "BLOCKED"
    /\ state' = [state EXCEPT ![u] = "RUNNABLE"]
    /\ runq' = runq_push(runq, u)
    /\ UNCHANGED <<slice, left, current, zombies, pc, picked, frame, irq, root, attached,
                   torn>>

\* thread_create, and the attachment to a process of a thread that has one.
thread_create(t, u) ==
    /\ Acts(t) /\ t # Idle
    /\ state[u] = "FREE" /\ u # Boot
    /\ state' = [state EXCEPT ![u] = "CREATED"]
    /\ slice' = [slice EXCEPT ![u] = Slice]
    /\ frame' = [frame EXCEPT ![u] = "new"]
    /\ attached' = IF Root[u] = KernelRoot THEN attached ELSE attached \cup {u}
    /\ pc' = [pc EXCEPT ![u] = "run"]
    /\ picked' = [picked EXCEPT ![u] = u]
    /\ UNCHANGED <<left, runq, current, zombies, irq, root, torn>>

sched_admit(t, u) ==
    /\ Acts(t)
    /\ state[u] = "CREATED"
    /\ state' = [state EXCEPT ![u] = "RUNNABLE"]
    /\ runq' = runq_push(runq, u)
    /\ UNCHANGED <<slice, left, current, zombies, pc, picked, frame, irq, root, attached,
                   torn>>

\* One round of the loop of sched_collect_zombies, which the idle thread and
\* the boot thread run.
sched_collect_zombies(t) ==
    /\ Acts(t) /\ t \in {Idle, Boot}
    /\ zombies # <<>>
    /\ LET z == Last(zombies)
       IN  /\ root' = IF Root[z] # KernelRoot /\ root = Root[z] THEN KernelRoot ELSE root
           /\ attached' = attached \ {z}
           /\ state' = [state EXCEPT ![z] = "FREE"]
    /\ zombies' = Front(zombies)
    /\ UNCHANGED <<slice, left, runq, current, pc, picked, frame, irq, torn>>

Next ==
    \/ sched_tick
    \/ \E t \in Threads : sched_yield(t)
    \/ \E t \in Threads : sched_block(t)
    \/ \E t \in Threads, n \in 1 .. MaxSleep : sched_sleep(t, n)
    \/ \E t \in Threads : thread_exit(t)
    \/ \E t \in Threads : finish_switch(t)
    \/ \E t \in Threads : finish_wait(t)
    \/ \E t, u \in Threads : sched_unblock(t, u)
    \/ \E t, u \in Threads : thread_create(t, u)
    \/ \E t, u \in Threads : sched_admit(t, u)
    \/ \E t \in Threads : sched_collect_zombies(t)

Spec == Init /\ [][Next]_vars

\* The timer keeps interrupting the processor, and a thread it interrupts in
\* mid-switch, once resumed, sooner or later executes the few instructions
\* that are left before the next tick.
TickingSpec ==
    /\ Spec
    /\ []<><<sched_tick>>_vars
    /\ \A t \in Threads : SF_vars(finish_switch(t) \/ finish_wait(t))

----------------------------------------------------------------------------
(* Properties.                                                             *)

\* Every variable keeps its range, and the list of zombies its length.
TypeOK ==
    /\ state \in [Threads -> {"FREE", "CREATED", "RUNNABLE", "RUNNING", "BLOCKED",
                             "SLEEPING", "ZOMBIE"}]
    /\ slice \in [Threads -> 0 .. Slice]
    /\ left \in [Threads -> 0 .. MaxSleep]
    /\ runq \in [0 .. Levels - 1 -> Seq(Threads)]
    /\ current \in Threads
    /\ zombies \in Seq(Threads) /\ Len(zombies) <= MaxZombies
    /\ pc \in [Threads -> {"run", "switch", "hand"}]
    /\ picked \in [Threads -> Threads]
    /\ frame \in [Threads -> {"new", "call", "tick"}]
    /\ irq \in BOOLEAN
    /\ root \in {Root[t] : t \in Threads} \cup {KernelRoot}
    /\ attached \subseteq Threads
    /\ torn \in BOOLEAN

\* Where thread t stands in the queues.
Places(t) == UNION {{p} \X {k \in DOMAIN runq[p] : runq[p][k] = t} : p \in 0 .. Levels - 1}

\* Another thread, perhaps suspended in mid-switch, has chosen t.
InHand(t) == \E u \in Threads \ {t} : pc[u] # "run" /\ picked[u] = t

\* No thread is lost and none is queued twice: a runnable thread is in one
\* place of the queue of its priority, or is the one another thread is about
\* to switch to; a thread that is not runnable is in no queue.
RunnableIsQueued ==
    \A t \in Threads :
        IF state[t] = "RUNNABLE" /\ ~InHand(t)
        THEN Cardinality(Places(t)) = 1 /\ \A x \in Places(t) : x[1] = Prio[t]
        ELSE Places(t) = {}

\* Only the current thread is RUNNING, and outside the scheduler it is: no
\* thread runs that is blocked, asleep, exited or freed.
OnlyCurrentRuns ==
    /\ \A t \in Threads : state[t] = "RUNNING" => t = current
    /\ pc[current] = "run" => state[current] = "RUNNING"

\* An exited thread is on the list of zombies once, from the moment it has
\* left the processor until its stack is freed, and never after.
ZombiesListed ==
    /\ ToSet(zombies) = {t \in Threads \ {current} : state[t] = "ZOMBIE"}
    /\ Cardinality(ToSet(zombies)) = Len(zombies)

\* No two threads are about to switch to the same one.
HeldOnce ==
    \A u, v \in Threads :
        u # v /\ pc[u] # "run" /\ pc[v] # "run" => picked[u] # picked[v]

\* Every thread is where its state says: running only as the current one, queued
\* or held by one other thread exactly while it is runnable, and on the list of
\* zombies while it is one.  Ticks come at any point of a switch; only one that
\* ends the slice of a thread that has given up its place ends the guarantee.
ThreadsSound ==
    ~torn => TypeOK /\ RunnableIsQueued /\ HeldOnce /\ OnlyCurrentRuns /\ ZombiesListed

\* A thread with a process stays attached exactly while it exists.
Attachment ==
    \A t \in Threads : state[t] = "FREE" => t \notin attached

\* A thread of a lower priority has chosen t and not switched to it yet.
HeldBelow(t) == \E u \in Threads : pc[u] # "run" /\ picked[u] = t /\ Prio[u] > Prio[t]

\* As long as ticks come, a runnable thread of the highest priority gets the
\* processor (time slices end and the queue is first in, first out), unless a
\* thread of a lower priority is suspended while it holds it.
RunnableRuns ==
    \A t \in Threads :
        Prio[t] = 0 /\ state[t] = "RUNNABLE" ~> state[t] = "RUNNING" \/ HeldBelow(t) \/ torn

\* As long as ticks come, a sleeping thread of the highest priority is woken
\* by sched_wake_sleepers and gets the processor, with the same exception.
SleeperRuns ==
    \A t \in Threads :
        Prio[t] = 0 /\ state[t] = "SLEEPING" ~> state[t] = "RUNNING" \/ HeldBelow(t) \/ torn

\* Ticks bring every such thread back to the processor.
ThreadsRun == RunnableRuns /\ SleeperRuns

----------------------------------------------------------------------------
(* What the comments say and the code does not do.  Attachment with a      *)
(* short list of zombies belongs here too.                                 *)

\* sched.c: "Interrupts are disabled only around the queue manipulation".
\* pick_next takes the successor off its queue before they are.
NoneTorn == ~torn

\* sched.c: "strict priority between them".  A thread of a lower priority that
\* is preempted just after its pick_next keeps one of the highest from running
\* for as long as others of that priority are busy.
TopRuns ==
    \A t \in Threads :
        Prio[t] = 0 /\ state[t] = "RUNNABLE" ~> state[t] = "RUNNING" \/ torn

\* sched.c: "strict priority between them"; kmain.c: "the idle thread only
\* runs when nothing else can".  pick_next leaves the running thread out of
\* the comparison, so it may lose the processor to a lower priority.
StrictPriority ==
    [][current' # current =>
          \A t \in Threads : state'[t] = "RUNNABLE" => Prio[current'] <= Prio[t]]_vars

\* sched.c: "so the machine is taking ticks again by the time the new thread
\* runs".  A thread that yielded and is resumed from a tick runs with
\* interrupts off.
TicksEnabled == pc[current] = "run" => irq

\* sched.h: "every other change of address space happens in switch_to".  The
\* switches of sched_block and sched_sleep install nothing.
TablesMatch == pc[current] = "run" => root = Root[current]
============================================================================
