-------------------------------- MODULE Ipc --------------------------------
(***************************************************************************)
(* Endpoints and the four IPC primitives (kernel/core/ipc.c).              *)
(*                                                                         *)
(* An endpoint is a slot of a fixed table: a ring of QueueLen messages, a  *)
(* list of threads blocked in ipc_recv and one of threads blocked in       *)
(* ipc_send.  A thread in an operation holds a pointer to the slot, taken  *)
(* once, when it looked the endpoint up.                                   *)
(*                                                                         *)
(* One processor runs the threads, and a tick may hand it over between any *)
(* two of their steps: the callers are kernel threads, which run with      *)
(* interrupts on, and the code takes no lock.  The steps are the stretches *)
(* of ipc_send and ipc_recv that decide something: the look at the state   *)
(* of the endpoint with the move of a message it leads to, the enlisting   *)
(* of the thread, and sched_block.  A wakeup that comes between the look   *)
(* and sched_block is lost, and the code does nothing about it; the        *)
(* history variable crossed says where that has happened.                  *)
(***************************************************************************)
EXTENDS Integers, FiniteSets, SequencesExt

CONSTANTS Threads,      \* threads that use IPC
          Idle,         \* the idle thread, one of them or none
          Endpoints,    \* slots of s_endpoints: 1 .. AF_MAX_ENDPOINTS
          QueueLen,     \* AF_EP_QUEUE_LEN
          Bodies,       \* message payloads
          NoBody,       \* the zeroed payload
          MaxId,        \* bound: endpoints created in a behaviour
          MaxRefs       \* bound: references to one endpoint

ASSUME IpcAssumption ==
    /\ IsFiniteSet(Threads)
    /\ QueueLen \in Nat \ {0}
    /\ MaxId \in Nat \ {0}
    /\ MaxRefs \in Nat \ {0}
    /\ Endpoints \subseteq Nat \ {0}
    /\ NoBody \notin Bodies

NoEp     == 0
Messages == [body : Bodies \cup {NoBody}, reply : 0 .. MaxId]
NoMsg    == [body |-> NoBody, reply |-> 0]

VARIABLES ep,        \* s_endpoints
          next_id,   \* s_next_id
          th,        \* the threads, inside or outside an IPC operation
          crossed    \* history: the lists <<operation, slot>> for which a
                     \* wakeup came while a thread was on its way to block

vars == <<ep, next_id, th, crossed>>

FreshEndpoint(i) ==
    [used |-> i # 0, id |-> i, refs |-> IF i = 0 THEN 0 ELSE 1,
     buf |-> [k \in 0 .. QueueLen - 1 |-> NoMsg], head |-> 0, tail |-> 0, count |-> 0,
     waiters |-> <<>>, senders |-> <<>>]

(***************************************************************************)
(* Where a thread is:                                                      *)
(*   out      outside any operation                                        *)
(*   look     at the head of the loop of ipc_send or ipc_recv              *)
(*   enlist   it found nothing to do and is about to call waiter_add       *)
(*   listed   on a list, sched_block not yet called                        *)
(*   blocked  AF_THREAD_BLOCKED                                            *)
(*   woken    runnable again, still inside sched_block                     *)
(*   close    at the ipc_endpoint_unref that ends ipc_call                 *)
(* want is the id of the endpoint the caller named; reply the slot of the  *)
(* private reply endpoint of an ipc_call, or NoEp; got what ipc_recv last  *)
(* returned and the thread has not dealt with yet.                         *)
(***************************************************************************)
Outside(m) == [pc |-> "out", op |-> "recv", ep |-> NoEp, want |-> 0,
               msg |-> NoMsg, reply |-> NoEp, got |-> m]

Init ==
    /\ ep = [e \in Endpoints |-> FreshEndpoint(0)]
    /\ next_id = 1
    /\ th = [t \in Threads |-> Outside(NoMsg)]
    /\ crossed = {}

----------------------------------------------------------------------------
(* Blocking and waking.                                                    *)

\* The threads that have seen nothing to do and are not yet BLOCKED.
Window(o, e) ==
    {t \in Threads : th[t].op = o /\ th[t].ep = e /\ th[t].pc \in {"enlist", "listed"}}

\* What a wakeup for o at slot e adds to crossed.
Crosses(o, e) == {<<o, e>> : t \in Window(o, e)}

\* sched_unblock on every thread of S: nothing unless it is BLOCKED.
sched_unblock(S, threads) ==
    [u \in Threads |-> IF u \in S /\ threads[u].pc = "blocked"
                       THEN [threads[u] EXCEPT !.pc = "woken"] ELSE threads[u]]

\* The head of a list, as a set: whom waiter_pop returns.
FirstOf(list) == IF list = <<>> THEN {} ELSE {Head(list)}

waiter_pop(list) == IF list = <<>> THEN <<>> ELSE Tail(list)

----------------------------------------------------------------------------
(* The endpoint table.                                                     *)

Named(i) == {e \in Endpoints : ep[e].used /\ ep[e].id = i}

\* endpoint_from_id: the operation begins with the slot now bearing the id.
IsLookup(i, e) == i # 0 /\ e \in Named(i)

FirstUnused(e) ==
    /\ ~ep[e].used
    /\ \A f \in Endpoints : ~ep[f].used => e <= f

\* A thread between operations that owes nobody a reply.
Free(t) == th[t].pc = "out" /\ th[t].got.reply = 0

ipc_endpoint_create(t, e) ==
    /\ Free(t)
    /\ FirstUnused(e)
    /\ next_id <= MaxId
    /\ ep' = [ep EXCEPT ![e] = FreshEndpoint(next_id)]
    /\ next_id' = next_id + 1
    /\ UNCHANGED <<th, crossed>>

\* A private reply endpoint is referred to by its caller alone.
Shared(e) == \A t \in Threads : th[t].reply # e

ipc_endpoint_ref(t, e) ==
    /\ Free(t)
    /\ ep[e].used /\ Shared(e)
    /\ ep[e].refs < MaxRefs
    /\ ep' = [ep EXCEPT ![e].refs = @ + 1]
    /\ UNCHANGED <<next_id, th, crossed>>

\* The slot after one reference is dropped, and whom the drop wakes: at zero
\* every thread on either list.
Dropped(e) ==
    IF ep[e].refs > 1
    THEN [ep[e] EXCEPT !.refs = @ - 1]
    ELSE [ep[e] EXCEPT !.refs = 0, !.used = FALSE, !.id = 0,
                       !.waiters = <<>>, !.senders = <<>>]

DropWakes(e) ==
    IF ep[e].refs > 1 THEN {} ELSE ToSet(ep[e].waiters) \cup ToSet(ep[e].senders)

DropCrosses(e) ==
    IF ep[e].refs > 1 THEN {} ELSE Crosses("recv", e) \cup Crosses("send", e)

ipc_endpoint_unref(t, e) ==
    /\ Free(t)
    /\ ep[e].used /\ Shared(e)
    /\ ep' = [ep EXCEPT ![e] = Dropped(e)]
    /\ th' = sched_unblock(DropWakes(e), th)
    /\ crossed' = crossed \cup DropCrosses(e)
    /\ UNCHANGED next_id

----------------------------------------------------------------------------
(* Beginning an operation.                                                 *)

Begin(t, o, e, i, m, r) ==
    th' = [th EXCEPT ![t] = [pc |-> "look", op |-> o, ep |-> e, want |-> i,
                             msg |-> m, reply |-> r, got |-> NoMsg]]

begin_recv(t, e) ==
    /\ Free(t)
    /\ IsLookup(ep[e].id, e) /\ Shared(e)
    /\ Begin(t, "recv", e, ep[e].id, NoMsg, NoEp)
    /\ UNCHANGED <<ep, next_id, crossed>>

begin_send(t, e, b) ==
    /\ Free(t)
    /\ IsLookup(ep[e].id, e) /\ Shared(e)
    /\ Begin(t, "send", e, ep[e].id, [body |-> b, reply |-> 0], NoEp)
    /\ UNCHANGED <<ep, next_id, crossed>>

\* ipc_call: the reply endpoint exists before the request is sent, and its id
\* travels in the request.  A full table ends the call with no effect.
ipc_call(t, e, b) ==
    /\ Free(t)
    /\ IsLookup(ep[e].id, e) /\ Shared(e)
    /\ next_id <= MaxId
    /\ \E r \in Endpoints :
          /\ FirstUnused(r)
          /\ ep' = [ep EXCEPT ![r] = FreshEndpoint(next_id)]
          /\ Begin(t, "send", e, ep[e].id, [body |-> b, reply |-> next_id], r)
    /\ next_id' = next_id + 1
    /\ UNCHANGED crossed

\* ipc_reply, by a server that resolves the id the request carried.
ipc_reply(t, e, b) ==
    /\ th[t].pc = "out"
    /\ IsLookup(th[t].got.reply, e)
    /\ Begin(t, "send", e, ep[e].id, [body |-> b, reply |-> 0], NoEp)
    /\ UNCHANGED <<ep, next_id, crossed>>

\* The reply endpoint is gone: the server drops the request.
reply_unresolved(t) ==
    /\ th[t].pc = "out"
    /\ th[t].got.reply # 0 /\ Named(th[t].got.reply) = {}
    /\ th' = [th EXCEPT ![t].got = NoMsg]
    /\ UNCHANGED <<ep, next_id, crossed>>

----------------------------------------------------------------------------
(* Returning from an operation.                                            *)

\* An error, or the end of a receive: a call goes on to drop its endpoint.
Returned(r, m) ==
    IF r.reply = NoEp THEN Outside(m) ELSE [r EXCEPT !.pc = "close", !.got = m]

\* A send that succeeded: a call goes on to receive on its reply endpoint.
Sent(r) ==
    IF r.reply = NoEp
    THEN Outside(NoMsg)
    ELSE [r EXCEPT !.op = "recv", !.ep = r.reply, !.want = ep[r.reply].id]

At(t, pc) == th[t].pc = pc

\* AF_ERR_NOOBJ.
look_gone(t) ==
    /\ At(t, "look")
    /\ ~ep[th[t].ep].used
    /\ th' = [th EXCEPT ![t] = Returned(@, NoMsg)]
    /\ UNCHANGED <<ep, next_id, crossed>>

\* AF_ERR_AGAIN: the idle thread is never blocked.
NothingToDo(t) ==
    LET E == ep[th[t].ep]
    IN  /\ E.used
        /\ IF th[t].op = "recv" THEN E.count = 0
           ELSE E.waiters = <<>> /\ E.count >= QueueLen

look_again(t) ==
    /\ At(t, "look")
    /\ NothingToDo(t)
    /\ t = Idle
    /\ th' = [th EXCEPT ![t] = Returned(@, NoMsg)]
    /\ UNCHANGED <<ep, next_id, crossed>>

----------------------------------------------------------------------------
(* Moving a message.                                                       *)

\* The message goes through the ring even when a receiver is waiting, and in
\* that case whether or not the ring has room.
Enqueue(E, m) ==
    [E EXCEPT !.buf[E.tail] = m,
              !.tail = (@ + 1) % QueueLen,
              !.count = @ + 1,
              !.waiters = waiter_pop(@)]

CanSend_OffByOne(E) == E.waiters # <<>> \/ E.count <= QueueLen

CanSend(E) == E.waiters # <<>> \/ E.count < QueueLen

WakesOnSend_Nobody(E) == {}

WakesOnSend(E) == FirstOf(E.waiters)

send_put(t) ==
    LET E == ep[th[t].ep] IN
    /\ At(t, "look") /\ th[t].op = "send"
    /\ E.used
    /\ CanSend(E)
    /\ ep' = [ep EXCEPT ![th[t].ep] = Enqueue(E, th[t].msg)]
    /\ th' = sched_unblock(WakesOnSend(E), [th EXCEPT ![t] = Sent(@)])
    /\ crossed' = crossed \cup Crosses("recv", th[t].ep)
    /\ UNCHANGED next_id

WakesOnTake_Nobody(E) == {}

WakesOnTake(E) == FirstOf(E.senders)

Dequeue_KeepsCount(E) ==
    [E EXCEPT !.head = (@ + 1) % QueueLen, !.senders = waiter_pop(@)]

Dequeue(E) ==
    [E EXCEPT !.head = (@ + 1) % QueueLen, !.count = @ - 1, !.senders = waiter_pop(@)]

recv_take(t) ==
    LET E == ep[th[t].ep] IN
    /\ At(t, "look") /\ th[t].op = "recv"
    /\ E.used
    /\ E.count > 0
    /\ ep' = [ep EXCEPT ![th[t].ep] = Dequeue(E)]
    /\ th' = sched_unblock(WakesOnTake(E),
                [th EXCEPT ![t] = Returned(@, E.buf[E.head])])
    /\ crossed' = crossed \cup Crosses("send", th[t].ep)
    /\ UNCHANGED next_id

----------------------------------------------------------------------------
(* Waiting.                                                                *)

look_empty(t) ==
    /\ At(t, "look")
    /\ NothingToDo(t)
    /\ t # Idle
    /\ th' = [th EXCEPT ![t].pc = "enlist"]
    /\ UNCHANGED <<ep, next_id, crossed>>

waiter_add(t) ==
    /\ At(t, "enlist")
    /\ ep' = IF th[t].op = "recv"
             THEN [ep EXCEPT ![th[t].ep].waiters = Append(@, t)]
             ELSE [ep EXCEPT ![th[t].ep].senders = Append(@, t)]
    /\ th' = [th EXCEPT ![t].pc = "listed"]
    /\ UNCHANGED <<next_id, crossed>>

sched_block(t) ==
    /\ At(t, "listed")
    /\ th' = [th EXCEPT ![t].pc = "blocked"]
    /\ UNCHANGED <<ep, next_id, crossed>>

\* sched_block returns; the thread takes itself off the list and looks again.
waiter_remove(t) ==
    /\ At(t, "woken")
    /\ ep' = IF th[t].op = "recv"
             THEN [ep EXCEPT ![th[t].ep].waiters = RemoveFirst(@, t)]
             ELSE [ep EXCEPT ![th[t].ep].senders = RemoveFirst(@, t)]
    /\ th' = [th EXCEPT ![t].pc = "look"]
    /\ UNCHANGED <<next_id, crossed>>

\* The last statement of ipc_call.
call_close(t) ==
    LET e == th[t].reply IN
    /\ At(t, "close")
    /\ ep' = IF ep[e].used THEN [ep EXCEPT ![e] = Dropped(e)] ELSE ep
    /\ th' = sched_unblock(IF ep[e].used THEN DropWakes(e) ELSE {},
                [th EXCEPT ![t] = Outside(@.got)])
    /\ crossed' = crossed \cup (IF ep[e].used THEN DropCrosses(e) ELSE {})
    /\ UNCHANGED next_id

----------------------------------------------------------------------------
\* What a thread does inside an operation, once begun.
Continue(t) ==
    \/ look_gone(t) \/ look_again(t) \/ look_empty(t)
    \/ send_put(t) \/ recv_take(t)
    \/ waiter_add(t) \/ sched_block(t) \/ waiter_remove(t)
    \/ call_close(t)

Next ==
    \/ \E t \in Threads, e \in Endpoints : ipc_endpoint_create(t, e)
    \/ \E t \in Threads, e \in Endpoints : ipc_endpoint_ref(t, e)
    \/ \E t \in Threads, e \in Endpoints : ipc_endpoint_unref(t, e)
    \/ \E t \in Threads, e \in Endpoints : begin_recv(t, e)
    \/ \E t \in Threads, e \in Endpoints, b \in Bodies : begin_send(t, e, b)
    \/ \E t \in Threads, e \in Endpoints, b \in Bodies : ipc_call(t, e, b)
    \/ \E t \in Threads, e \in Endpoints, b \in Bodies : ipc_reply(t, e, b)
    \/ \E t \in Threads : reply_unresolved(t)
    \/ \E t \in Threads : Continue(t)

Spec == Init /\ [][Next]_vars

\* Threads of one priority take turns, first in first out, so a thread that is
\* runnable and stays so is eventually run.  Nothing obliges a thread to begin
\* an operation.
FairSpec == Spec /\ \A t \in Threads : WF_vars(Continue(t))

----------------------------------------------------------------------------
(* Properties.                                                             *)

\* Every field keeps its range; head and tail stay inside the ring.
TypeOK ==
    /\ next_id \in 1 .. MaxId + 1
    /\ \A e \in Endpoints :
          /\ ep[e].used \in BOOLEAN
          /\ ep[e].id \in 0 .. MaxId
          /\ ep[e].refs \in 0 .. MaxRefs
          /\ ep[e].buf \in [0 .. QueueLen - 1 -> Messages]
          /\ ep[e].head \in 0 .. QueueLen - 1
          /\ ep[e].tail \in 0 .. QueueLen - 1
          /\ ep[e].count \in Nat
          /\ ep[e].waiters \in Seq(Threads)
          /\ ep[e].senders \in Seq(Threads)
    /\ \A t \in Threads :
          /\ th[t].pc \in {"out", "look", "enlist", "listed", "blocked", "woken", "close"}
          /\ th[t].op \in {"send", "recv"}
          /\ th[t].ep \in Endpoints \cup {NoEp}
          /\ th[t].want \in 0 .. MaxId
          /\ th[t].msg \in Messages
          /\ th[t].reply \in Endpoints \cup {NoEp}
          /\ th[t].got \in Messages
    /\ crossed \subseteq {"send", "recv"} \X Endpoints

\* The threads at pc in operation o on slot e.
Those(o, e, pc) == {t \in Threads : th[t].op = o /\ th[t].ep = e /\ th[t].pc = pc}

Crossed(o, e) == <<o, e>> \in crossed

\* A blocked thread can be woken: it is on the list, of the slot it waits at,
\* from which a receive, a send or a destruction takes threads to wake.
\* ("a blocked thread is always woken", ipc.c)
BlockedIsListed ==
    \A e \in Endpoints :
        /\ ~Crossed("recv", e) => Those("recv", e, "blocked") \subseteq ToSet(ep[e].waiters)
        /\ ~Crossed("send", e) => Those("send", e, "blocked") \subseteq ToSet(ep[e].senders)

\* The threads that owe slot e a look: woken and not run yet, or about to look.
Owed(o, e) == Those(o, e, "woken") \cup Those(o, e, "look")

\* While a receiver waits, every queued message is already promised to a
\* receiver that has been woken and has not run yet.
NoStrandedReceiver ==
    \A e \in Endpoints :
        ~Crossed("recv", e) /\ Those("recv", e, "blocked") # {} =>
            ep[e].count <= Cardinality(Owed("recv", e))

\* While a sender waits, every free place is already promised to a sender
\* that has been woken and has not run yet.
NoStrandedSender ==
    \A e \in Endpoints :
        ~Crossed("send", e) /\ Those("send", e, "blocked") # {} =>
            QueueLen - ep[e].count <= Cardinality(Owed("send", e))

\* Every blocked thread is where a wakeup will find it, and no wakeup is
\* consumed in vain, on either side of an endpoint, as long as none has come
\* between the look of a thread and its block.
NoneStranded == BlockedIsListed /\ NoStrandedReceiver /\ NoStrandedSender

\* A ring is filled beyond its room only by messages for receivers that have
\* been woken and have not run: it takes more receivers waiting at once than
\* the ring has places, or a crossed wakeup.
OverfullIsOwed ==
    \A e \in Endpoints :
        ep[e].used /\ ~Crossed("recv", e) /\ ep[e].count > QueueLen =>
            ep[e].count <= Cardinality(Owed("recv", e))

\* The endpoints keep their form, ring indices included, and a ring overflows
\* only by what its waiting receivers are owed.
EndpointsSound == TypeOK /\ OverfullIsOwed

\* The messages in the ring, oldest first.
Queued(E) == [k \in 1 .. E.count |-> E.buf[(E.head + k - 1) % QueueLen]]

Channel == INSTANCE IpcChannel WITH
    chan <- [e \in Endpoints |-> IF ep[e].used THEN Queued(ep[e]) ELSE <<>>],
    got <- [t \in Threads |-> th[t].got],
    Capacity <- QueueLen

\* The rings, heads, tails and hand-overs implement FIFO channels: no message
\* is duplicated, reordered or given to two receivers, and none is lost but by
\* an overrun of the ring, in the very place the channel says.
ImplementsChannel == Channel!Spec

\* A thread blocked in ipc_recv beside a message, or in ipc_send beside room,
\* where no wakeup was crossed.
Stuck(t) ==
    /\ th[t].pc = "blocked" /\ ~Crossed(th[t].op, th[t].ep)
    /\ IF th[t].op = "recv" THEN ep[th[t].ep].count > 0 ELSE ep[th[t].ep].count < QueueLen

\* No thread stays blocked for ever beside what it waits for: the wakeup of
\* ipc_send leads to a receive, and that of ipc_recv to a send.
WaitersServed == \A t \in Threads \ {Idle} : []<>~Stuck(t)

----------------------------------------------------------------------------
(* What the comments and the protocol document say and the code does not   *)
(* do.                                                                     *)

\* ipc.c: "a blocked thread is always woken".  Not one that a tick held up
\* between its look at the endpoint and sched_block.
NoneCrossed == crossed = {}

\* ipc.h: a send "Blocks ONLY when the queue is full".  One that finds a receiver
\* waiting does not block at a full queue either: it does not look at the count.
QueueBounded == \A e \in Endpoints : ep[e].used => ep[e].count <= QueueLen

\* ipc.h: a receive "Returns AF_ERR_NOOBJ if the endpoint was destroyed while
\* waiting".  The woken thread looks at the slot it points to, which may by
\* then be another endpoint.
WaitsWhereItAsked ==
    \A t \in Threads :
        th[t].pc = "blocked" => ep[th[t].ep].id = th[t].want

\* The request a caller waits for an answer to is queued, held by a server,
\* or being answered.
Answerable(i) ==
    \/ \E e \in Endpoints : ep[e].used /\ \E k \in 1 .. ep[e].count : Queued(ep[e])[k].reply = i
    \/ \E u \in Threads : \/ th[u].got.reply = i
                          \/ th[u].pc # "out" /\ th[u].op = "send" /\ th[u].want = i

\* ipc-protocol.md: "A dead peer fails cleanly ... never a hang".  Destroying
\* the server's endpoint discards queued requests without telling the callers,
\* who are blocked on endpoints of their own.
CallerCanReturn ==
    \A t \in Threads :
        th[t].reply # NoEp /\ th[t].op = "recv" /\ th[t].pc = "blocked"
            => Answerable(th[t].want)
============================================================================
