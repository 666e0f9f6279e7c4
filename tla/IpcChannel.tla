----------------------------- MODULE IpcChannel -----------------------------
(***************************************************************************)
(* What endpoints promise: each is a first-in first-out channel with room  *)
(* for Capacity messages.  A message put in a channel is taken out exactly *)
(* once, in order, by the one thread whose receive returns it, unless the  *)
(* channel is destroyed or overrun.                                        *)
(***************************************************************************)
EXTENDS Naturals, Sequences

CONSTANTS Endpoints, Threads, Messages, Capacity, NoMsg

VARIABLES chan,   \* the messages in each channel, oldest first
          got     \* the message each thread's last receive returned, or NoMsg

vars == <<chan, got>>

Init ==
    /\ chan = [e \in Endpoints |-> <<>>]
    /\ got = [t \in Threads |-> NoMsg]

Put(e, m) ==
    /\ Len(chan[e]) < Capacity
    /\ chan' = [chan EXCEPT ![e] = Append(@, m)]
    /\ UNCHANGED got

\* A message put in a full channel takes the place of those that stand where
\* it goes round to, and comes last once more.
Overrun(e, m) ==
    /\ Len(chan[e]) >= Capacity
    /\ chan' = [chan EXCEPT ![e] =
                    [k \in 1 .. Len(@) + 1 |->
                        IF (Len(@) + 1 - k) % Capacity = 0 THEN m ELSE @[k]]]
    /\ UNCHANGED got

Take(e, t) ==
    /\ chan[e] # <<>>
    /\ got' = [got EXCEPT ![t] = Head(chan[e])]
    /\ chan' = [chan EXCEPT ![e] = Tail(@)]

\* The thread goes on to its next operation.
Forget(t) ==
    /\ got' = [got EXCEPT ![t] = NoMsg]
    /\ UNCHANGED chan

\* A destroyed endpoint loses what was queued.
Destroy(e) ==
    /\ chan' = [chan EXCEPT ![e] = <<>>]
    /\ UNCHANGED got

Next ==
    \/ \E e \in Endpoints, m \in Messages : Put(e, m)
    \/ \E e \in Endpoints, m \in Messages : Overrun(e, m)
    \/ \E e \in Endpoints, t \in Threads : Take(e, t)
    \/ \E t \in Threads : Forget(t)
    \/ \E e \in Endpoints : Destroy(e)

Spec == Init /\ [][Next]_vars
=============================================================================
