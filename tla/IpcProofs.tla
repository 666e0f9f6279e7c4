----------------------------- MODULE IpcProofs -----------------------------
(***************************************************************************)
(* Proofs about IPC endpoints, for every number of threads and endpoints   *)
(* and every length of the queues.                                         *)
(*                                                                         *)
(* Nothing is assumed of the order in which threads run or of how many     *)
(* receivers wait.                                                         *)
(*                                                                         *)
(* That no thread is stranded is not inductive.  IpcInv adds that a list   *)
(* holds only threads that wait, each once, and, unless a wakeup was       *)
(* crossed, all of them, at a slot that is in use; and it counts the       *)
(* threads on their way into sched_block as well.                          *)
(***************************************************************************)
EXTENDS Ipc, FiniteSetTheorems, SequenceTheorems, TLAPS

Places == {"out", "look", "enlist", "listed", "blocked", "woken", "close"}

ThreadRecords ==
    [pc : Places, op : {"send", "recv"},
     ep : Endpoints \cup {NoEp}, want : 0 .. MaxId, msg : Messages,
     reply : Endpoints \cup {NoEp}, got : Messages]

EndpointRecords ==
    [used : BOOLEAN, id : 0 .. MaxId, refs : 0 .. MaxRefs,
     buf : [0 .. QueueLen - 1 -> Messages], head : 0 .. QueueLen - 1,
     tail : 0 .. QueueLen - 1, count : Nat, waiters : Seq(Threads), senders : Seq(Threads)]

Ops == {"recv", "send"}

Typed ==
    /\ next_id \in 1 .. MaxId + 1
    /\ ep \in [Endpoints -> EndpointRecords]
    /\ th \in [Threads -> ThreadRecords]
    /\ crossed \subseteq Ops \X Endpoints

\* The list of slot e that threads in operation o wait on, and how many
\* wakeups of o the slot is good for: messages to take, or room.
List(o, e)   == IF o = "recv" THEN ep[e].waiters ELSE ep[e].senders
Supply(o, e) == IF o = "recv" THEN ep[e].count ELSE QueueLen - ep[e].count

\* Whether a thread is in operation o on slot e, at one of pcs.
IsAt(r, o, e, pcs) == r.op = o /\ r.ep = e /\ r.pc \in pcs

Listed(o, e)  == {t \in Threads : IsAt(th[t], o, e, {"listed", "blocked"})}
Waiting(o, e) == {t \in Threads : IsAt(th[t], o, e, {"enlist", "listed", "blocked"})}
Ready(o, e)   == {t \in Threads : IsAt(th[t], o, e, {"woken", "look"})}

\* A thread in an operation has a slot and nothing received yet; one that is
\* about to close has a reply endpoint.
InOperation(r) ==
    /\ r.pc \notin {"out", "close"} => r.ep \in Endpoints /\ r.got = NoMsg
    /\ r.pc = "close" => r.reply \in Endpoints

\* A list holds threads that wait on it, each once; all of them, unless a
\* wakeup was crossed.
ListsExact ==
    \A o \in Ops, e \in Endpoints :
        /\ ToSet(List(o, e)) \subseteq Listed(o, e)
        /\ \A i, j \in DOMAIN List(o, e) : List(o, e)[i] = List(o, e)[j] => i = j
        /\ ~Crossed(o, e) => Listed(o, e) \subseteq ToSet(List(o, e))

\* Nobody waits at a slot that is not in use.
WaitsWhereUsed ==
    \A o \in Ops, e \in Endpoints : ~Crossed(o, e) /\ Waiting(o, e) # {} => ep[e].used

\* A ring that holds more messages than it has places.
Overfull(o, e) == o = "recv" /\ ep[e].used /\ ep[e].count > QueueLen

\* While a thread waits, whatever it waits for is promised to a ready thread,
\* and so are all the messages of an overfull ring.
Promised ==
    \A o \in Ops, e \in Endpoints :
        ~Crossed(o, e) /\ (Waiting(o, e) # {} \/ Overfull(o, e)) =>
            Supply(o, e) <= Cardinality(Ready(o, e))

\* Head, tail and count agree on what the ring holds.
RingExact == \A e \in Endpoints : ep[e].tail = (ep[e].head + ep[e].count) % QueueLen

\* The inductive invariant.
IpcInv ==
    /\ Typed
    /\ \A t \in Threads : InOperation(th[t])
    /\ ListsExact
    /\ WaitsWhereUsed
    /\ Promised
    /\ RingExact

----------------------------------------------------------------------------
(* Sets of threads, places in the ring.                                    *)

\* Sets of threads can be counted.
LEMMA ThreadSets ==
    ASSUME NEW S \in SUBSET Threads
    PROVE  IsFiniteSet(S) /\ Cardinality(S) \in Nat /\ Cardinality(S) <= Cardinality(Threads)
<1>1. IsFiniteSet(Threads)
  BY IpcAssumption
<1> QED
  BY <1>1, FS_Subset, FS_CardinalityType

\* A number is so many rounds and a place in the ring.
LEMMA Divided ==
    ASSUME NEW a \in Nat
    PROVE  \E d \in Nat : /\ a = QueueLen * d + (a % QueueLen)
                           /\ a % QueueLen \in 0 .. QueueLen - 1
<1>1. a = QueueLen * (a \div QueueLen) + (a % QueueLen) /\ a % QueueLen \in 0 .. QueueLen - 1
  BY IpcAssumption
<1>2. a \div QueueLen \in Nat
  BY IpcAssumption
<1> QED
  BY <1>1, <1>2

\* A number has one place in the ring.
LEMMA PlaceUnique ==
    ASSUME NEW a \in Nat, NEW d \in Int, NEW r \in 0 .. QueueLen - 1, a = QueueLen * d + r
    PROVE  a % QueueLen = r
<1>1. PICK c \in Nat : /\ a = QueueLen * c + (a % QueueLen)
                        /\ a % QueueLen \in 0 .. QueueLen - 1
  BY Divided
<1> DEFINE m == a % QueueLen
<1>2. /\ m \in 0 .. QueueLen - 1 /\ QueueLen * c + m = QueueLen * d + r
      /\ QueueLen \in Nat /\ QueueLen > 0
  BY <1>1, IpcAssumption
<1> HIDE DEF m
<1>3. QueueLen * (c - d) = r - m
  BY <1>2
<1>4. CASE c = d
  BY <1>2, <1>4 DEF m
<1>5. CASE c - d >= 1
  <2>1. QueueLen * (c - d) >= QueueLen
    BY <1>2, <1>5
  <2> QED
    BY <1>2, <1>3, <2>1
<1>6. CASE d - c >= 1
  <2>1. QueueLen * (d - c) >= QueueLen
    BY <1>2, <1>6
  <2>2. QueueLen * (d - c) = m - r
    BY <1>2
  <2> QED
    BY <1>2, <2>1, <2>2
<1> QED
  BY <1>4, <1>5, <1>6

\* Two numbers have the same place if they are whole rounds apart.
LEMMA RoundsApart ==
    ASSUME NEW a \in Nat, NEW b \in Nat, a <= b
    PROVE  (a % QueueLen = b % QueueLen) <=> ((b - a) % QueueLen = 0)
<1>1. PICK c \in Nat : /\ a = QueueLen * c + (a % QueueLen)
                        /\ a % QueueLen \in 0 .. QueueLen - 1
  BY Divided
<1>2. PICK d \in Nat : /\ b = QueueLen * d + (b % QueueLen)
                        /\ b % QueueLen \in 0 .. QueueLen - 1
  BY Divided
<1>3. PICK e \in Nat : b - a = QueueLen * e + ((b - a) % QueueLen)
  <2>1. b - a \in Nat
    OBVIOUS
  <2> QED
    BY <2>1, Divided
<1>4. ASSUME a % QueueLen = b % QueueLen PROVE (b - a) % QueueLen = 0
  <2>1. b - a = QueueLen * (d - c) + 0
    BY <1>1, <1>2, <1>4, IpcAssumption
  <2>2. 0 \in 0 .. QueueLen - 1 /\ b - a \in Nat /\ d - c \in Int
    BY IpcAssumption
  <2> QED
    BY ONLY <2>1, <2>2, PlaceUnique
<1>5. ASSUME (b - a) % QueueLen = 0 PROVE a % QueueLen = b % QueueLen
  <2> DEFINE m == a % QueueLen
  <2>1. /\ a = QueueLen * c + m /\ m \in 0 .. QueueLen - 1 /\ b - a = QueueLen * e
        /\ QueueLen \in Nat
    BY <1>1, <1>3, <1>5, IpcAssumption
  <2> HIDE DEF m
  <2>2. b = QueueLen * (c + e) + m
    BY <2>1
  <2>3. b % QueueLen = m
    BY ONLY <2>1, <2>2, PlaceUnique, c + e \in Int, b \in Nat
  <2> QED
    BY <2>3 DEF m
<1> QED
  BY <1>4, <1>5

\* Going on from a place is going on from the number.
LEMMA GoingOn ==
    ASSUME NEW a \in Nat, NEW b \in Nat
    PROVE  ((a % QueueLen) + b) % QueueLen = (a + b) % QueueLen
<1>1. PICK c \in Nat : /\ a = QueueLen * c + (a % QueueLen)
                        /\ a % QueueLen \in 0 .. QueueLen - 1
  BY Divided
<1> DEFINE m == a % QueueLen
           n == (m + b) % QueueLen
<1>2. m \in 0 .. QueueLen - 1 /\ m \in Nat /\ m + b \in Nat
  BY <1>1, IpcAssumption
<1>3. PICK d \in Nat : m + b = QueueLen * d + n /\ n \in 0 .. QueueLen - 1
  BY ONLY <1>2, Divided
<1>4. a + b = QueueLen * (c + d) + n /\ n \in 0 .. QueueLen - 1
  <2>0. /\ a = QueueLen * c + m /\ m + b = QueueLen * d + n /\ n \in 0 .. QueueLen - 1
        /\ QueueLen \in Nat
    BY <1>1, <1>3, IpcAssumption
  <2> HIDE DEF m, n
  <2> QED
    BY <1>2, <2>0
<1> HIDE DEF m, n
<1>5. (a + b) % QueueLen = n
  <2>1. a + b \in Nat /\ c + d \in Int
    OBVIOUS
  <2> QED
    BY ONLY <1>4, <2>1, PlaceUnique
<1> QED
  BY <1>5 DEF m, n

\* A new endpoint is empty and nobody waits at it.
LEMMA FreshFields ==
    ASSUME NEW i \in 0 .. MaxId
    PROVE  /\ FreshEndpoint(i) \in EndpointRecords
           /\ i # 0 => FreshEndpoint(i).used = TRUE
           /\ FreshEndpoint(i).head = 0 /\ FreshEndpoint(i).tail = 0
           /\ FreshEndpoint(i).count = 0
           /\ FreshEndpoint(i).waiters = <<>> /\ FreshEndpoint(i).senders = <<>>
<1>0. QueueLen \in Nat /\ QueueLen > 0 /\ MaxId \in Nat /\ MaxRefs \in Nat /\ MaxRefs > 0
  BY IpcAssumption
<1>1. NoMsg \in Messages
  BY <1>0 DEF NoMsg, Messages
<1>2. <<>> \in Seq(Threads)
  OBVIOUS
<1>3. [k \in 0 .. QueueLen - 1 |-> NoMsg] \in [0 .. QueueLen - 1 -> Messages]
  BY <1>1
<1>4. (IF i = 0 THEN 0 ELSE 1) \in 0 .. MaxRefs /\ 0 \in 0 .. QueueLen - 1
  BY <1>0
<1>5. (i # 0) \in BOOLEAN
  OBVIOUS
<1>6. FreshEndpoint(i) \in EndpointRecords
  BY <1>2, <1>3, <1>4, <1>5 DEF FreshEndpoint, EndpointRecords
<1>7. i # 0 => FreshEndpoint(i).used = TRUE
  BY DEF FreshEndpoint
<1> QED
  BY <1>6, <1>7 DEF FreshEndpoint

\* The table and the threads at the start.
LEMMA InitIpcInv == Init => IpcInv
<1> SUFFICES ASSUME Init PROVE IpcInv
  OBVIOUS
<1>0. /\ QueueLen \in Nat /\ QueueLen > 0 /\ MaxId \in Nat /\ MaxId > 0
      /\ MaxRefs \in Nat
  BY IpcAssumption
<1>1. NoMsg \in Messages
  BY <1>0 DEF NoMsg, Messages
<1>2. FreshEndpoint(0) \in EndpointRecords
  <2>1. 0 \in 0 .. MaxId
    BY <1>0
  <2> QED
    BY <2>1, FreshFields
<1>3. Outside(NoMsg) \in ThreadRecords /\ Outside(NoMsg).pc = "out"
  BY <1>0, <1>1 DEF Outside, ThreadRecords, Places
<1>4. Typed
  BY <1>0, <1>2, <1>3 DEF Init, Typed
<1>5. \A t \in Threads : InOperation(th[t])
  BY <1>3 DEF Init, InOperation
<1>6. \A o \in Ops, e \in Endpoints : Waiting(o, e) = {} /\ Listed(o, e) = {}
  BY <1>3 DEF Init, Waiting, Listed, IsAt
<1>7. \A o \in Ops, e \in Endpoints : List(o, e) = <<>>
  BY DEF Init, List, FreshEndpoint
<1>8. ListsExact
  BY <1>6, <1>7 DEF ListsExact, ToSet
<1>9. RingExact /\ \A o \in Ops, e \in Endpoints : ~Overfull(o, e)
  BY <1>0 DEF Init, Overfull, RingExact, FreshEndpoint
<1> QED
  BY <1>4, <1>5, <1>6, <1>8, <1>9 DEF IpcInv, WaitsWhereUsed, Promised

----------------------------------------------------------------------------
(* Steps that leave the queues and the lists alone, but for new endpoints. *)

\* What such a step leaves as it is in slot e.
SameQueues(e) ==
    /\ ep'[e].used = ep[e].used
    /\ ep'[e].head = ep[e].head /\ ep'[e].tail = ep[e].tail /\ ep'[e].count = ep[e].count
    /\ ep'[e].buf = ep[e].buf
    /\ ep'[e].waiters = ep[e].waiters /\ ep'[e].senders = ep[e].senders

\* A slot that was free holds a new endpoint.
IsNew(e) == ~ep[e].used /\ next_id <= MaxId /\ ep'[e] = FreshEndpoint(next_id)

\* One thread moves.  It neither joins nor leaves a list; it begins to wait
\* only where there is nothing for it, and stops being ready only where
\* nothing is promised to it.
LEMMA MoveIpcInv ==
    ASSUME IpcInv, NEW t \in Threads,
           NEW r \in ThreadRecords, th' = [th EXCEPT ![t] = r], InOperation(r),
           next_id' \in 1 .. MaxId + 1, ep' \in [Endpoints -> EndpointRecords],
           crossed' = crossed,
           \A e \in Endpoints :
              SameQueues(e) \/ IsNew(e),
           \A o \in Ops, e \in Endpoints :
              IsAt(r, o, e, {"listed", "blocked"}) <=> IsAt(th[t], o, e, {"listed", "blocked"}),
           \A o \in Ops, e \in Endpoints : ~Crossed(o, e) =>
              /\ IsAt(r, o, e, {"enlist", "listed", "blocked"}) =>
                    /\ ep[e].used
                    /\ \/ IsAt(th[t], o, e, {"enlist", "listed", "blocked"})
                       \/ Supply(o, e) <= 0
              /\ IsAt(th[t], o, e, {"woken", "look"}) =>
                    \/ IsAt(r, o, e, {"woken", "look"})
                    \/ Supply(o, e) <= 0
                    \/ ~ep[e].used
    PROVE  IpcInv'
<1> USE DEF IpcInv
<1>0. QueueLen \in Nat /\ QueueLen > 0
  BY IpcAssumption
<1>1. Typed'
  BY DEF Typed
<1>2. th'[t] = r /\ \A u \in Threads \ {t} : th'[u] = th[u]
  BY DEF Typed
<1>3. \A o \in Ops, e \in Endpoints : Crossed(o, e)' <=> Crossed(o, e)
  BY DEF Crossed
<1>4. \A u \in Threads : InOperation(th[u])'
  BY <1>2 DEF InOperation
<1>5. /\ \A o \in Ops, e \in Endpoints : Listed(o, e)' = Listed(o, e)
      /\ \A o \in Ops, e \in Endpoints : Waiting(o, e)' \subseteq Waiting(o, e) \cup {t}
      /\ \A o \in Ops, e \in Endpoints : Listed(o, e) \subseteq Waiting(o, e)
  <2>1. \A o \in Ops, e \in Endpoints, u \in Threads :
           IsAt(th'[u], o, e, {"listed", "blocked"}) <=> IsAt(th[u], o, e, {"listed", "blocked"})
    BY <1>2
  <2>2. \A o \in Ops, e \in Endpoints : Listed(o, e)' = Listed(o, e)
    BY <2>1 DEF Listed
  <2>3. \A o \in Ops, e \in Endpoints : Waiting(o, e)' \subseteq Waiting(o, e) \cup {t}
    BY <1>2 DEF Waiting
  <2>4. \A o \in Ops, e \in Endpoints : Listed(o, e) \subseteq Waiting(o, e)
    BY DEF Listed, Waiting, IsAt
  <2> QED
    BY <2>2, <2>3, <2>4
<1>6. ASSUME NEW o \in Ops, NEW e \in Endpoints, ~ep[e].used, ~Crossed(o, e)
      PROVE  Waiting(o, e) = {} /\ Waiting(o, e)' = {}
  <2>1. Waiting(o, e) = {}
    BY <1>6 DEF WaitsWhereUsed
  <2>2. t \notin Waiting(o, e)'
    BY <1>2, <1>6 DEF Waiting
  <2> QED
    BY <1>5, <2>1, <2>2
<1>7. ASSUME NEW e \in Endpoints, IsNew(e)
      PROVE  /\ ep'[e].used /\ ep'[e].head = 0 /\ ep'[e].tail = 0 /\ ep'[e].count = 0
             /\ ep'[e].waiters = <<>> /\ ep'[e].senders = <<>>
  <2>1. next_id \in 0 .. MaxId /\ next_id # 0
    BY <1>7, IpcAssumption DEF Typed, IsNew
  <2> QED
    BY <1>7, <2>1, FreshFields DEF IsNew
<1>8. ListsExact'
  <2> SUFFICES ASSUME NEW o \in Ops, NEW e \in Endpoints
               PROVE  /\ ToSet(List(o, e)') \subseteq Listed(o, e)
                      /\ \A i, j \in DOMAIN List(o, e)' : List(o, e)'[i] = List(o, e)'[j] => i = j
                      /\ ~Crossed(o, e) => Listed(o, e) \subseteq ToSet(List(o, e)')
    BY <1>3, <1>5 DEF ListsExact, ToSet
  <2>1. CASE SameQueues(e)
    BY <2>1 DEF ListsExact, List, SameQueues
  <2>2. CASE IsNew(e)
    <3>1. List(o, e)' = <<>>
      BY <1>7, <2>2 DEF List
    <3>2. ~Crossed(o, e) => Listed(o, e) = {}
      BY <1>5, <1>6, <2>2 DEF IsNew
    <3> QED
      BY <3>1, <3>2 DEF ToSet
  <2> QED
    BY <2>1, <2>2
<1>9. WaitsWhereUsed'
  <2> SUFFICES ASSUME NEW o \in Ops, NEW e \in Endpoints, ~Crossed(o, e), Waiting(o, e)' # {}
               PROVE  ep'[e].used
    BY <1>3 DEF WaitsWhereUsed
  <2>1. ep[e].used
    BY <1>6
  <2> QED
    BY <2>1 DEF SameQueues, IsNew
<1>10. Promised'
  <2> SUFFICES ASSUME NEW o \in Ops, NEW e \in Endpoints, ~Crossed(o, e),
                      Waiting(o, e)' # {} \/ Overfull(o, e)'
               PROVE  Supply(o, e)' <= Cardinality(Ready(o, e)')
    BY <1>3 DEF Promised
  <2>1. ep[e].used /\ SameQueues(e)
    <3>1. CASE Waiting(o, e)' # {}
      BY <1>6, <3>1 DEF IsNew
    <3>2. CASE Overfull(o, e)'
      <4>1. ~IsNew(e)
        BY <1>0, <1>7, <3>2 DEF Overfull
      <4> QED
        BY <3>2, <4>1 DEF Overfull, SameQueues
    <3> QED
      BY <3>1, <3>2
  <2>2. Supply(o, e)' = Supply(o, e) /\ Supply(o, e) \in Int
    BY <1>0, <2>1 DEF Supply, SameQueues, Typed, EndpointRecords
  <2>3. IsFiniteSet(Ready(o, e)') /\ Cardinality(Ready(o, e)') \in Nat
    BY ThreadSets DEF Ready
  <2>4. CASE Supply(o, e) <= 0
    BY <2>2, <2>3, <2>4
  <2>5. CASE ~(Supply(o, e) <= 0)
    <3>1. Waiting(o, e) # {} \/ Overfull(o, e)
      <4>1. CASE Waiting(o, e)' # {}
        <5>1. PICK u \in Threads : IsAt(th'[u], o, e, {"enlist", "listed", "blocked"})
          BY <4>1 DEF Waiting
        <5>2. IsAt(th[u], o, e, {"enlist", "listed", "blocked"})
          BY <1>2, <2>5, <5>1
        <5> QED
          BY <5>2 DEF Waiting
      <4>2. CASE Overfull(o, e)'
        BY <2>1, <4>2 DEF Overfull, SameQueues
      <4> QED
        BY <4>1, <4>2
    <3>2. Ready(o, e) \subseteq Ready(o, e)'
      BY <1>2, <2>1, <2>5 DEF Ready
    <3>3. Cardinality(Ready(o, e)) <= Cardinality(Ready(o, e)') /\ Cardinality(Ready(o, e)) \in Nat
      BY <2>3, <3>2, FS_Subset, ThreadSets DEF Ready
    <3>4. Supply(o, e) <= Cardinality(Ready(o, e))
      BY <3>1 DEF Promised
    <3> QED
      BY <2>2, <2>3, <3>3, <3>4
  <2> QED
    BY <2>4, <2>5
<1>11. RingExact'
  <2> SUFFICES ASSUME NEW e \in Endpoints
               PROVE  ep'[e].tail = (ep'[e].head + ep'[e].count) % QueueLen
    BY DEF RingExact
  <2>1. CASE SameQueues(e)
    BY <2>1 DEF RingExact, SameQueues
  <2>2. CASE IsNew(e)
    BY <1>0, <1>7, <2>2
  <2> QED
    BY <2>1, <2>2
<1> QED
  BY <1>1, <1>4, <1>8, <1>9, <1>10, <1>11

----------------------------------------------------------------------------
(* Steps that wake threads.                                                *)

\* What a step of t that unblocks the threads of S does to each thread.
LEMMA Unblocking ==
    ASSUME Typed, NEW t \in Threads, NEW r \in ThreadRecords, r.pc # "blocked", NEW S,
           th' = sched_unblock(S, [th EXCEPT ![t] = r])
    PROVE  /\ th' \in [Threads -> ThreadRecords]
           /\ th'[t] = r
           /\ \A u \in Threads \ {t} :
                 /\ th'[u].op = th[u].op /\ th'[u].ep = th[u].ep
                 /\ th'[u].got = th[u].got /\ th'[u].reply = th[u].reply
                 /\ th'[u].pc = IF u \in S /\ th[u].pc = "blocked" THEN "woken" ELSE th[u].pc
<1> DEFINE X == [th EXCEPT ![t] = r]
<1>1. X \in [Threads -> ThreadRecords] /\ X[t] = r /\ \A u \in Threads \ {t} : X[u] = th[u]
  BY DEF Typed
<1>2. \A u \in Threads : th'[u] = IF u \in S /\ X[u].pc = "blocked"
                                  THEN [X[u] EXCEPT !.pc = "woken"] ELSE X[u]
  BY DEF sched_unblock
<1> HIDE DEF X
<1>3. ASSUME NEW u \in Threads
      PROVE  /\ [X[u] EXCEPT !.pc = "woken"] \in ThreadRecords
             /\ [X[u] EXCEPT !.pc = "woken"].pc = "woken"
             /\ [X[u] EXCEPT !.pc = "woken"].op = X[u].op
             /\ [X[u] EXCEPT !.pc = "woken"].ep = X[u].ep
             /\ [X[u] EXCEPT !.pc = "woken"].got = X[u].got
             /\ [X[u] EXCEPT !.pc = "woken"].reply = X[u].reply
  BY <1>1, X[u] \in ThreadRecords DEF ThreadRecords, Places
<1>4. th' \in [Threads -> ThreadRecords]
  <2>1. \A u \in Threads : th'[u] \in ThreadRecords
    BY <1>1, <1>2, <1>3
  <2>2. th' = [u \in Threads |-> th'[u]]
    BY DEF sched_unblock
  <2> QED
    BY <2>1, <2>2
<1>5. th'[t] = r
  BY <1>1, <1>2
<1>6. ASSUME NEW u \in Threads \ {t}
      PROVE  /\ th'[u].op = th[u].op /\ th'[u].ep = th[u].ep
             /\ th'[u].got = th[u].got /\ th'[u].reply = th[u].reply
             /\ th'[u].pc = IF u \in S /\ th[u].pc = "blocked" THEN "woken" ELSE th[u].pc
  <2>1. X[u] = th[u] /\ u \in Threads
    BY <1>1
  <2>2. CASE u \in S /\ th[u].pc = "blocked"
    <3>1. th'[u] = [X[u] EXCEPT !.pc = "woken"]
      BY ONLY <1>2, <2>1, <2>2
    <3> QED
      BY ONLY <1>3, <2>1, <2>2, <3>1
  <2>3. CASE ~(u \in S /\ th[u].pc = "blocked")
    BY ONLY <1>2, <2>1, <2>3
  <2> QED
    BY <2>2, <2>3
<1> QED
  BY <1>4, <1>5, <1>6

\* Where nobody is on the way to sched_block, all who wait are blocked, and so
\* listed.
LEMMA OthersBlocked ==
    ASSUME IpcInv, NEW o \in Ops, NEW e \in Endpoints, ~Crossed(o, e), Crosses(o, e) = {}
    PROVE  /\ Waiting(o, e) = Listed(o, e)
           /\ \A u \in Listed(o, e) : th[u].pc = "blocked"
           /\ ToSet(List(o, e)) = Listed(o, e)
<1>1. Window(o, e) = {}
  BY DEF Crosses
<1>2. /\ Waiting(o, e) = Listed(o, e)
      /\ \A u \in Listed(o, e) : th[u].pc = "blocked"
  BY <1>1 DEF Window, Waiting, Listed, IsAt
<1> QED
  BY <1>2 DEF IpcInv, ListsExact

\* A slot that a step leaves uncrossed was uncrossed, and crossed by nothing.
LEMMA Uncrossed ==
    ASSUME NEW o, NEW e, NEW C, crossed' = crossed \cup C, ~Crossed(o, e)'
    PROVE  ~Crossed(o, e) /\ <<o, e>> \notin C
BY DEF Crossed

\* What a step crosses.
LEMMA CrossesTyped ==
    ASSUME NEW o \in Ops, NEW e \in Endpoints
    PROVE  /\ Crosses(o, e) \subseteq Ops \X Endpoints
           /\ Crosses(o, e) \subseteq {<<o, e>>}
           /\ <<o, e>> \notin Crosses(o, e) => Crosses(o, e) = {}
BY DEF Crosses

\* Dropping the last reference to an endpoint wakes all who wait at it.
LEMMA DropIpcInv ==
    ASSUME IpcInv, NEW t \in Threads, th[t].pc \in {"out", "close"},
           NEW r \in ThreadRecords, r.pc = "out", InOperation(r),
           NEW e \in Endpoints, ~(ep[e].refs > 1),
           ep' = [ep EXCEPT ![e] = Dropped(e)], next_id' = next_id,
           th' = sched_unblock(DropWakes(e), [th EXCEPT ![t] = r]),
           crossed' = crossed \cup DropCrosses(e)
    PROVE  IpcInv'
<1> USE DEF IpcInv
<1>0. MaxRefs \in Nat /\ MaxId \in Nat
  BY IpcAssumption
<1>1. /\ th' \in [Threads -> ThreadRecords] /\ th'[t] = r
      /\ \A u \in Threads \ {t} :
            /\ th'[u].op = th[u].op /\ th'[u].ep = th[u].ep
            /\ th'[u].got = th[u].got /\ th'[u].reply = th[u].reply
            /\ th'[u].pc = IF u \in DropWakes(e) /\ th[u].pc = "blocked"
                           THEN "woken" ELSE th[u].pc
  <2>1. /\ Typed /\ t \in Threads /\ r \in ThreadRecords /\ r.pc # "blocked"
        /\ th' = sched_unblock(DropWakes(e), [th EXCEPT ![t] = r])
    OBVIOUS
  <2> QED
    BY ONLY <2>1, Unblocking
<1>2. /\ DropWakes(e) = ToSet(List("recv", e)) \cup ToSet(List("send", e))
      /\ DropWakes(e) \subseteq Listed("recv", e) \cup Listed("send", e)
      /\ DropCrosses(e) = Crosses("recv", e) \cup Crosses("send", e)
  BY DEF DropWakes, DropCrosses, ListsExact, List, Ops
<1>3. /\ Dropped(e) \in EndpointRecords
      /\ Dropped(e).used = FALSE /\ Dropped(e).waiters = <<>> /\ Dropped(e).senders = <<>>
      /\ Dropped(e).head = ep[e].head /\ Dropped(e).tail = ep[e].tail
      /\ Dropped(e).count = ep[e].count
  <2>1. <<>> \in Seq(Threads) /\ ep[e] \in EndpointRecords
    BY DEF Typed
  <2>2. Dropped(e) = [ep[e] EXCEPT !.refs = 0, !.used = FALSE, !.id = 0,
                                   !.waiters = <<>>, !.senders = <<>>]
    BY DEF Dropped
  <2> QED
    <3>1. 0 \in 0 .. MaxId /\ 0 \in 0 .. MaxRefs
      BY <1>0
    <3>2. Dropped(e) \in EndpointRecords
      BY <2>1, <2>2, <3>1 DEF EndpointRecords
    <3>3. /\ Dropped(e).used = FALSE /\ Dropped(e).waiters = <<>> /\ Dropped(e).senders = <<>>
          /\ Dropped(e).head = ep[e].head /\ Dropped(e).tail = ep[e].tail
          /\ Dropped(e).count = ep[e].count
      BY <2>1, <2>2 DEF EndpointRecords
    <3> QED
      BY <3>2, <3>3
<1>4. ep'[e] = Dropped(e) /\ \A f \in Endpoints \ {e} : ep'[f] = ep[f]
  BY DEF Typed
<1>a. \A o \in Ops, f \in Endpoints : ~Crossed(o, f)' => ~Crossed(o, f)
  BY DEF Crossed
<1>b. \A o \in Ops : ~Crossed(o, e)' => Crosses(o, e) = {}
  <2> SUFFICES ASSUME NEW o \in Ops, ~Crossed(o, e)'
               PROVE  Crosses(o, e) = {}
    OBVIOUS
  <2>1. <<o, e>> \notin DropCrosses(e)
    BY DEF Crossed
  <2>2. <<o, e>> \notin Crosses(o, e)
    BY <1>2, <2>1 DEF Ops
  <2> QED
    BY <2>2, CrossesTyped
<1>5. Typed'
  <2>1. DropCrosses(e) \subseteq Ops \X Endpoints
    BY <1>2, CrossesTyped DEF Ops
  <2>2. ep' \in [Endpoints -> EndpointRecords] /\ next_id' \in 1 .. MaxId + 1
    BY <1>3 DEF Typed
  <2>3. crossed' \subseteq Ops \X Endpoints
    BY <2>1 DEF Typed
  <2> QED
    BY <1>1, <2>2, <2>3 DEF Typed
<1>7. \A u \in Threads : InOperation(th[u])'
  <2> SUFFICES ASSUME NEW u \in Threads \ {t}
               PROVE  InOperation(th[u])'
    BY <1>1 DEF InOperation
  <2> QED
    BY <1>1 DEF InOperation
<1>9. \A o \in Ops : ~Crossed(o, e)' => Waiting(o, e)' = {} /\ Listed(o, e)' = {}
  <2> SUFFICES ASSUME NEW o \in Ops, ~Crossed(o, e)', NEW u \in Threads,
                      IsAt(th'[u], o, e, {"enlist", "listed", "blocked"})
               PROVE  FALSE
    BY DEF Waiting, Listed, IsAt
  <2>1. u # t
    BY <1>1 DEF IsAt
  <2>2. u \in Waiting(o, e)
    BY <1>1, <2>1 DEF Waiting, IsAt
  <2>3. /\ Waiting(o, e) = Listed(o, e) /\ ToSet(List(o, e)) = Listed(o, e)
        /\ \A v \in Listed(o, e) : th[v].pc = "blocked"
    BY <1>a, <1>b, OthersBlocked
  <2>4. u \in ToSet(List(o, e)) /\ th[u].pc = "blocked"
    BY <2>2, <2>3
  <2>5. u \in DropWakes(e)
    BY <1>2, <2>4 DEF Ops
  <2> QED
    BY <1>1, <2>1, <2>4, <2>5 DEF IsAt
<1>10. \A o \in Ops, f \in Endpoints \ {e} :
          /\ Waiting(o, f)' = Waiting(o, f) /\ Listed(o, f)' = Listed(o, f)
          /\ Ready(o, f) \subseteq Ready(o, f)'
  <2>1. \A u \in DropWakes(e) : u \in Threads /\ th[u].ep = e
    <3> SUFFICES ASSUME NEW u \in Listed("recv", e) \cup Listed("send", e)
                 PROVE  u \in Threads /\ th[u].ep = e
      BY <1>2
    <3> QED
      BY DEF Listed, IsAt
  <2>2. \A u \in Threads \ {t} :
           th[u].ep # e => th'[u].pc = th[u].pc /\ th'[u].op = th[u].op /\ th'[u].ep = th[u].ep
    BY <1>1, <2>1
  <2> SUFFICES ASSUME NEW o \in Ops, NEW f \in Endpoints \ {e}
               PROVE  /\ Waiting(o, f)' = Waiting(o, f) /\ Listed(o, f)' = Listed(o, f)
                      /\ Ready(o, f) \subseteq Ready(o, f)'
    OBVIOUS
  <2>3. \A pcs \in SUBSET {"woken", "look", "enlist", "listed", "blocked"} :
           \A u \in Threads : IsAt(th'[u], o, f, pcs) <=> IsAt(th[u], o, f, pcs)
    <3> SUFFICES ASSUME NEW pcs \in SUBSET {"woken", "look", "enlist", "listed", "blocked"},
                        NEW u \in Threads
                 PROVE  IsAt(th'[u], o, f, pcs) <=> IsAt(th[u], o, f, pcs)
      OBVIOUS
    <3>1. CASE u = t
      BY <1>1, <3>1 DEF IsAt
    <3>2. CASE u # t
      <4>1. th'[u].op = th[u].op /\ th'[u].ep = th[u].ep
        BY <1>1, <3>2
      <4>2. th[u].ep # e => th'[u].pc = th[u].pc
        BY <2>2, <3>2
      <4> QED
        BY <4>1, <4>2 DEF IsAt
    <3> QED
      BY <3>1, <3>2
  <2> QED
    BY <2>3 DEF Waiting, Listed, Ready
<1>11. ListsExact'
  <2> SUFFICES ASSUME NEW o \in Ops, NEW f \in Endpoints
               PROVE  /\ ToSet(List(o, f)') \subseteq Listed(o, f)'
                      /\ \A i, j \in DOMAIN List(o, f)' : List(o, f)'[i] = List(o, f)'[j] => i = j
                      /\ ~Crossed(o, f)' => Listed(o, f)' \subseteq ToSet(List(o, f)')
    BY DEF ListsExact, ToSet
  <2>1. CASE f = e
    BY <1>3, <1>4, <1>9, <2>1 DEF List, ToSet
  <2>2. CASE f # e
    <3>1. List(o, f)' = List(o, f)
      BY <1>4, <2>2 DEF List
    <3> QED
      BY <1>a, <1>10, <2>2, <3>1 DEF ListsExact
  <2> QED
    BY <2>1, <2>2
<1>12. WaitsWhereUsed'
  BY <1>4, <1>9, <1>10, <1>a DEF WaitsWhereUsed
<1>13. Promised'
  <2>0. \A o \in Ops : ~Overfull(o, e)'
    BY <1>3, <1>4 DEF Overfull
  <2> SUFFICES ASSUME NEW o \in Ops, NEW f \in Endpoints \ {e}, ~Crossed(o, f)',
                      Waiting(o, f)' # {} \/ Overfull(o, f)'
               PROVE  Supply(o, f)' <= Cardinality(Ready(o, f)')
    BY <1>9, <2>0 DEF Promised
  <2>1. Supply(o, f)' = Supply(o, f) /\ Supply(o, f) \in Int
    <3>1. ep[f].count \in Nat /\ QueueLen \in Nat
      BY IpcAssumption DEF Typed, EndpointRecords
    <3> QED
      BY <1>4, <3>1 DEF Supply
  <2>2. IsFiniteSet(Ready(o, f)') /\ Cardinality(Ready(o, f)') \in Nat
    BY ThreadSets DEF Ready
  <2>3. Cardinality(Ready(o, f)) <= Cardinality(Ready(o, f)') /\ Cardinality(Ready(o, f)) \in Nat
    BY <1>10, <2>2, FS_Subset, ThreadSets DEF Ready
  <2>4. Waiting(o, f) # {} \/ Overfull(o, f)
    BY <1>4, <1>10 DEF Overfull
  <2>5. Supply(o, f) <= Cardinality(Ready(o, f))
    BY <1>a, <2>4 DEF Promised
  <2> QED
    BY <2>1, <2>2, <2>3, <2>5
<1>14. RingExact'
  BY <1>3, <1>4 DEF RingExact
<1> QED
  BY <1>5, <1>7, <1>11, <1>12, <1>13, <1>14

\* A list without its head lists one thread less, if it listed each once.
LEMMA PopList ==
    ASSUME NEW l \in Seq(Threads), l # <<>>,
           \A i, j \in DOMAIN l : l[i] = l[j] => i = j
    PROVE  /\ Head(l) \in ToSet(l)
           /\ Tail(l) \in Seq(Threads)
           /\ ToSet(Tail(l)) = ToSet(l) \ {Head(l)}
           /\ \A i, j \in DOMAIN Tail(l) : Tail(l)[i] = Tail(l)[j] => i = j
<1> DEFINE n == Len(l)
           s == Tail(l)
<1>1. /\ n \in Nat /\ n > 0 /\ DOMAIN l = 1 .. n /\ Head(l) = l[1]
      /\ s \in Seq(Threads) /\ Len(s) = n - 1 /\ DOMAIN s = 1 .. n - 1
      /\ \A i \in 1 .. n - 1 : s[i] = l[i + 1]
  BY HeadTailProperties, EmptySeq, LenProperties
<1> HIDE DEF n, s
<1>2. Head(l) \in ToSet(l)
  BY <1>1 DEF ToSet
<1>3. ToSet(s) \subseteq ToSet(l) \ {Head(l)}
  <2> SUFFICES ASSUME NEW i \in 1 .. n - 1
               PROVE  s[i] \in ToSet(l) /\ s[i] # Head(l)
    BY <1>1 DEF ToSet
  <2>1. i + 1 \in 1 .. n /\ i + 1 # 1 /\ 1 \in 1 .. n
    BY <1>1
  <2> QED
    BY <1>1, <2>1 DEF ToSet
<1>4. ToSet(l) \ {Head(l)} \subseteq ToSet(s)
  <2> SUFFICES ASSUME NEW i \in 1 .. n, l[i] # l[1]
               PROVE  l[i] \in ToSet(s)
    BY <1>1 DEF ToSet
  <2>1. i - 1 \in 1 .. n - 1 /\ i = (i - 1) + 1
    BY <1>1
  <2>2. l[i] = s[i - 1]
    BY <1>1, <2>1
  <2> QED
    BY <1>1, <2>1, <2>2 DEF ToSet
<1>5. ASSUME NEW i \in 1 .. n - 1, NEW j \in 1 .. n - 1, s[i] = s[j]
      PROVE  i = j
  <2>1. i + 1 \in 1 .. n /\ j + 1 \in 1 .. n /\ l[i + 1] = l[j + 1]
    BY <1>1, <1>5
  <2>2. i + 1 = j + 1
    BY <1>1, <2>1
  <2> QED
    BY <2>2
<1> QED
  BY <1>1, <1>2, <1>3, <1>4, <1>5 DEF s

\* A message goes into the ring (o is "send") or comes out of it ("recv").
\* The thread t that moves it uses up one of what o waits for, leaves one of
\* what the other operation p waits for, and wakes the first waiter of p.
LEMMA TransferIpcInv ==
    ASSUME IpcInv, NEW t \in Threads,
           NEW e \in Endpoints, NEW o \in Ops, NEW p \in Ops, o # p,
           th[t].pc = "look", th[t].op = o, th[t].ep = e, ep[e].used,
           NEW r \in ThreadRecords, InOperation(r), r.pc \in {"out", "close", "look"},
           r.pc = "look" => r.op # o,
           NEW S, S = FirstOf(List(p, e)),
           th' = sched_unblock(S, [th EXCEPT ![t] = r]),
           crossed' = crossed \cup Crosses(p, e),
           next_id' = next_id,
           ep' \in [Endpoints -> EndpointRecords], ep'[e].used,
           \A f \in Endpoints \ {e} : ep'[f] = ep[f],
           List(p, e)' = waiter_pop(List(p, e)), List(o, e)' = List(o, e),
           Supply(o, e)' = Supply(o, e) - 1, Supply(p, e)' = Supply(p, e) + 1,
           List(p, e) = <<>> => Supply(o, e) >= 1,
           RingExact'
    PROVE  IpcInv'
<1> USE DEF IpcInv
<1>0. /\ \A q \in Ops, f \in Endpoints : Supply(q, f) \in Int
      /\ QueueLen \in Nat /\ \A f \in Endpoints : ep[f].count \in Nat
  <2>1. \A f \in Endpoints : ep[f].count \in Nat
    BY DEF Typed, EndpointRecords
  <2> QED
    BY <2>1, IpcAssumption DEF Supply
<1>1. /\ th' \in [Threads -> ThreadRecords] /\ th'[t] = r
      /\ \A u \in Threads \ {t} :
            /\ th'[u].op = th[u].op /\ th'[u].ep = th[u].ep
            /\ th'[u].got = th[u].got /\ th'[u].reply = th[u].reply
            /\ th'[u].pc = IF u \in S /\ th[u].pc = "blocked" THEN "woken" ELSE th[u].pc
  <2>1. /\ Typed /\ t \in Threads /\ r \in ThreadRecords /\ r.pc # "blocked"
        /\ th' = sched_unblock(S, [th EXCEPT ![t] = r])
    OBVIOUS
  <2> QED
    BY ONLY <2>1, Unblocking
<1>2. Typed'
  <2>1. crossed' \subseteq Ops \X Endpoints
    BY CrossesTyped DEF Typed
  <2> QED
    BY <1>1, <2>1 DEF Typed
<1>3. /\ \A q \in Ops, f \in Endpoints : ~Crossed(q, f)' => ~Crossed(q, f)
      /\ ~Crossed(p, e)' => /\ Waiting(p, e) = Listed(p, e)
                            /\ \A u \in Listed(p, e) : th[u].pc = "blocked"
                            /\ ToSet(List(p, e)) = Listed(p, e)
  <2>1. \A q \in Ops, f \in Endpoints : ~Crossed(q, f)' => ~Crossed(q, f)
    BY DEF Crossed
  <2>2. ~Crossed(p, e)' => Crosses(p, e) = {}
    BY CrossesTyped DEF Crossed
  <2> QED
    BY <2>1, <2>2, OthersBlocked
<1>4. /\ List(p, e) \in Seq(Threads)
      /\ \A i, j \in DOMAIN List(p, e) : List(p, e)[i] = List(p, e)[j] => i = j
      /\ ToSet(List(p, e)) \subseteq Listed(p, e)
  <2>1. List(p, e) \in Seq(Threads)
    BY DEF List, Typed, EndpointRecords
  <2> QED
    BY <2>1 DEF ListsExact
<1>5. /\ S \subseteq ToSet(List(p, e))
      /\ ToSet(List(p, e)') = ToSet(List(p, e)) \ S
      /\ \A i, j \in DOMAIN List(p, e)' : List(p, e)'[i] = List(p, e)'[j] => i = j
  <2>1. CASE List(p, e) = <<>>
    BY <1>4, <2>1 DEF FirstOf, waiter_pop, ToSet
  <2>2. CASE List(p, e) # <<>>
    <3>1. S = {Head(List(p, e))} /\ List(p, e)' = Tail(List(p, e))
      BY <2>2 DEF FirstOf, waiter_pop
    <3> QED
      BY <1>4, <2>2, <3>1, PopList
  <2> QED
    BY <2>1, <2>2
<1>6. \A u \in S : /\ u \in Threads \ {t} /\ th[u].op = p /\ th[u].ep = e
                   /\ th[u].pc \in {"listed", "blocked"}
                   /\ th'[u].pc = (IF th[u].pc = "blocked" THEN "woken" ELSE th[u].pc)
                   /\ th'[u].op = p /\ th'[u].ep = e
  <2> SUFFICES ASSUME NEW u \in S
               PROVE  /\ u \in Threads \ {t} /\ th[u].op = p /\ th[u].ep = e
                      /\ th[u].pc \in {"listed", "blocked"}
                      /\ th'[u].pc = (IF th[u].pc = "blocked" THEN "woken" ELSE th[u].pc)
                      /\ th'[u].op = p /\ th'[u].ep = e
    OBVIOUS
  <2>1. u \in Listed(p, e)
    BY <1>4, <1>5
  <2>2. /\ u \in Threads /\ th[u].op = p /\ th[u].ep = e
        /\ th[u].pc \in {"listed", "blocked"}
    BY <2>1 DEF Listed, IsAt
  <2>3. u # t
    BY <2>2
  <2> QED
    BY ONLY <1>1, <2>2, <2>3, u \in S
<1>7. \A u \in Threads \ {t} : u \notin S =>
         th'[u].pc = th[u].pc /\ th'[u].op = th[u].op /\ th'[u].ep = th[u].ep
  BY ONLY <1>1
<1>8. \A u \in Threads : InOperation(th[u])'
  <2>0. InOperation(th[t])'
    BY <1>1 DEF InOperation
  <2> SUFFICES ASSUME NEW u \in Threads \ {t}
               PROVE  InOperation(th[u])'
    BY <2>0
  <2>1. InOperation(th[u])
    OBVIOUS
  <2>2. /\ th'[u].ep = th[u].ep /\ th'[u].got = th[u].got /\ th'[u].reply = th[u].reply
        /\ \/ th'[u].pc = th[u].pc
           \/ th'[u].pc = "woken" /\ th[u].pc = "blocked"
    BY ONLY <1>1, u \in Threads \ {t}
  <2> QED
    BY <2>1, <2>2 DEF InOperation
<1>9. \A q \in Ops, f \in Endpoints :
          /\ Listed(q, f)' \subseteq Listed(q, f)
          /\ Waiting(q, f)' \subseteq Waiting(q, f)
          /\ Listed(q, f) \ S \subseteq Listed(q, f)'
          /\ ~(q = p /\ f = e) => Listed(q, f)' = Listed(q, f)
  <2> SUFFICES ASSUME NEW q \in Ops, NEW f \in Endpoints
               PROVE  /\ Listed(q, f)' \subseteq Listed(q, f)
                      /\ Waiting(q, f)' \subseteq Waiting(q, f)
                      /\ Listed(q, f) \ S \subseteq Listed(q, f)'
                      /\ ~(q = p /\ f = e) => Listed(q, f)' = Listed(q, f)
    OBVIOUS
  <2>1. /\ ~IsAt(th'[t], q, f, {"enlist", "listed", "blocked"}) /\ ~IsAt(th'[t], q, f, {"listed", "blocked"})
        /\ ~IsAt(th[t], q, f, {"listed", "blocked"})
    BY <1>1 DEF IsAt
  <2>2. \A u \in Threads \ {t} : u \notin S =>
           /\ IsAt(th'[u], q, f, {"listed", "blocked"}) <=> IsAt(th[u], q, f, {"listed", "blocked"})
           /\ IsAt(th'[u], q, f, {"enlist", "listed", "blocked"})
                 <=> IsAt(th[u], q, f, {"enlist", "listed", "blocked"})
    BY <1>7 DEF IsAt
  <2>3. \A u \in S :
           /\ IsAt(th'[u], q, f, {"listed", "blocked"}) => IsAt(th[u], q, f, {"listed", "blocked"})
           /\ IsAt(th'[u], q, f, {"enlist", "listed", "blocked"})
                 => IsAt(th[u], q, f, {"enlist", "listed", "blocked"})
           /\ IsAt(th[u], q, f, {"listed", "blocked"}) => q = p /\ f = e
    <3> SUFFICES ASSUME NEW u \in S
                 PROVE  /\ IsAt(th'[u], q, f, {"listed", "blocked"})
                              => IsAt(th[u], q, f, {"listed", "blocked"})
                        /\ IsAt(th'[u], q, f, {"enlist", "listed", "blocked"})
                              => IsAt(th[u], q, f, {"enlist", "listed", "blocked"})
                        /\ IsAt(th[u], q, f, {"listed", "blocked"}) => q = p /\ f = e
      OBVIOUS
    <3>1. /\ th[u].op = p /\ th[u].ep = e /\ th'[u].op = p /\ th'[u].ep = e
          /\ th[u].pc \in {"listed", "blocked"}
      BY <1>6
    <3> QED
      BY ONLY <3>1 DEF IsAt
  <2> QED
    BY <2>1, <2>2, <2>3 DEF Listed, Waiting
<1>10. \A u \in S : ~Crossed(p, e)' => u \notin Listed(p, e)'
  <2> SUFFICES ASSUME NEW u \in S, ~Crossed(p, e)'
               PROVE  th'[u].pc = "woken"
    BY DEF Listed, IsAt
  <2>1. u \in Listed(p, e)
    BY <1>4, <1>5
  <2> QED
    BY <1>3, <1>6, <2>1
<1>11. ListsExact'
  <2> SUFFICES ASSUME NEW q \in Ops, NEW f \in Endpoints
               PROVE  /\ ToSet(List(q, f)') \subseteq Listed(q, f)'
                      /\ \A i, j \in DOMAIN List(q, f)' : List(q, f)'[i] = List(q, f)'[j] => i = j
                      /\ ~Crossed(q, f)' => Listed(q, f)' \subseteq ToSet(List(q, f)')
    BY DEF ListsExact, ToSet
  <2>1. CASE q = p /\ f = e
    <3>1. ToSet(List(p, e)') \subseteq Listed(p, e)'
      BY <1>4, <1>5, <1>9
    <3>2. ~Crossed(p, e)' => Listed(p, e)' \subseteq ToSet(List(p, e)')
      BY <1>3, <1>5, <1>9, <1>10
    <3> QED
      BY <1>5, <2>1, <3>1, <3>2
  <2>2. CASE ~(q = p /\ f = e)
    <3>1. List(q, f)' = List(q, f)
      BY <2>2 DEF List, Ops
    <3> QED
      BY <1>3, <1>9, <2>2, <3>1 DEF ListsExact
  <2> QED
    BY <2>1, <2>2
<1>12. WaitsWhereUsed'
  BY <1>3, <1>9 DEF WaitsWhereUsed
<1>13. Promised'
  <2> SUFFICES ASSUME NEW q \in Ops, NEW f \in Endpoints, ~Crossed(q, f)',
                      Waiting(q, f)' # {} \/ Overfull(q, f)'
               PROVE  Supply(q, f)' <= Cardinality(Ready(q, f)')
    BY DEF Promised
  <2>0. ~Crossed(q, f)
    BY <1>3
  <2>3. /\ IsFiniteSet(Ready(q, f)) /\ Cardinality(Ready(q, f)) \in Nat
        /\ IsFiniteSet(Ready(q, f)') /\ Cardinality(Ready(q, f)') \in Nat
    BY ThreadSets DEF Ready
  <2>4. \A u \in Threads \ {t} : u \in Ready(q, f) => u \in Ready(q, f)'
    BY <1>6, <1>7 DEF Ready, IsAt
  <2>5. CASE f # e
    <3>1. t \notin Ready(q, f)
      BY <2>5 DEF Ready, IsAt
    <3>2. Ready(q, f) \subseteq Ready(q, f)'
      BY <2>4, <3>1 DEF Ready
    <3>3. Supply(q, f)' = Supply(q, f)
      BY <2>5 DEF Supply
    <3>4. Cardinality(Ready(q, f)) <= Cardinality(Ready(q, f)')
      BY <2>3, <3>2, FS_Subset
    <3>5. Waiting(q, f) # {} \/ Overfull(q, f)
      BY <1>9, <2>5 DEF Overfull
    <3>6. Supply(q, f) <= Cardinality(Ready(q, f))
      BY <2>0, <3>5 DEF Promised
    <3> QED
      BY <1>0, <2>3, <3>3, <3>4, <3>6
  <2>6. CASE f = e /\ q = o
    <3>1. t \in Ready(q, f)
      BY <2>6 DEF Ready, IsAt
    <3>2. Ready(q, f) \ {t} \subseteq Ready(q, f)'
      BY <2>4 DEF Ready
    <3>3. IsFiniteSet(Ready(q, f) \ {t})
          /\ Cardinality(Ready(q, f) \ {t}) = Cardinality(Ready(q, f)) - 1
      BY <2>3, <3>1, FS_RemoveElement
    <3>4. Cardinality(Ready(q, f) \ {t}) <= Cardinality(Ready(q, f)')
      BY <2>3, <3>2, FS_Subset
    <3>5. Supply(q, f)' = Supply(q, f) - 1
      BY <2>6
    <3>6. Waiting(q, f) # {} \/ Overfull(q, f)
      <4>1. Overfull(q, f)' => Overfull(q, f)
        <5> SUFFICES ASSUME Overfull(q, f)' PROVE Overfull(q, f)
          OBVIOUS
        <5>1. q = "recv" /\ ep'[e].count > QueueLen
          BY <2>6 DEF Overfull
        <5>2. ep'[e].count = ep[e].count - 1
          BY <2>6, <3>5, <5>1 DEF Supply
        <5> QED
          BY <1>0, <2>6, <5>1, <5>2 DEF Overfull
      <4> QED
        BY <1>9, <4>1
    <3>7. Supply(q, f) <= Cardinality(Ready(q, f))
      BY <2>0, <3>6 DEF Promised
    <3> QED
      BY <1>0, <2>3, <3>3, <3>4, <3>5, <3>7
  <2>7. CASE f = e /\ q = p
    <3>0. Supply(p, e)' = Supply(p, e) + 1 /\ Supply(p, e) \in Int
      BY <1>0
    <3>1. List(p, e) # <<>>
      <4> SUFFICES ASSUME List(p, e) = <<>> PROVE FALSE
        OBVIOUS
      <4>1. Waiting(p, e) = {}
        BY <1>3, <2>7 DEF ToSet
      <4>2. Overfull(p, e)'
        BY <1>9, <2>7, <4>1
      <4>3. p = "recv" /\ o = "send" /\ ep'[e].count > QueueLen
        BY <4>2 DEF Overfull, Ops
      <4>4. ep'[e].count = ep[e].count + 1 /\ QueueLen - ep[e].count >= 1
        BY <3>0, <4>3 DEF Supply
      <4> QED
        BY <1>0, <4>3, <4>4
    <3>2. PICK w \in S : S = {w}
      BY <3>1 DEF FirstOf
    <3>3. w \in Listed(p, e) /\ th[w].pc = "blocked"
      BY <1>3, <1>4, <1>5, <2>7
    <3>4. w \notin Ready(q, f) /\ w \in Ready(q, f)'
      BY <1>6, <2>7, <3>3 DEF Ready, IsAt
    <3>5. t \notin Ready(q, f)
      BY <2>7 DEF Ready, IsAt
    <3>6. Ready(q, f) \cup {w} \subseteq Ready(q, f)'
      BY <2>4, <3>4, <3>5 DEF Ready
    <3>7. IsFiniteSet(Ready(q, f) \cup {w})
          /\ Cardinality(Ready(q, f) \cup {w}) = Cardinality(Ready(q, f)) + 1
      BY <2>3, <3>4, FS_AddElement
    <3>8. Cardinality(Ready(q, f) \cup {w}) <= Cardinality(Ready(q, f)')
      BY <2>3, <3>6, FS_Subset
    <3>9. w \in Waiting(q, f)
      BY <1>3, <2>7, <3>3
    <3>10. Supply(q, f) <= Cardinality(Ready(q, f))
      BY <2>0, <3>9 DEF Promised
    <3> QED
      BY <2>3, <2>7, <3>0, <3>7, <3>8, <3>10
  <2> QED
    BY <2>5, <2>6, <2>7 DEF Ops
<1> QED
  BY <1>2, <1>8, <1>11, <1>12, <1>13

\* A thread on its way into sched_block puts itself at the end of a list.
LEMMA EnlistIpcInv ==
    ASSUME IpcInv, NEW t \in Threads,
           NEW e \in Endpoints, NEW o \in Ops,
           th[t].pc = "enlist", th[t].op = o, th[t].ep = e,
           th' = [th EXCEPT ![t].pc = "listed"], next_id' = next_id, crossed' = crossed,
           ep' \in [Endpoints -> EndpointRecords],
           \A f \in Endpoints :
              /\ ep'[f].used = ep[f].used
              /\ ep'[f].head = ep[f].head /\ ep'[f].tail = ep[f].tail
              /\ ep'[f].count = ep[f].count,
           \A q \in Ops, f \in Endpoints :
              List(q, f)' = IF q = o /\ f = e THEN Append(List(q, f), t) ELSE List(q, f)
    PROVE  IpcInv'
<1> USE DEF IpcInv
<1>1. /\ th' \in [Threads -> ThreadRecords]
      /\ th'[t].pc = "listed" /\ th'[t].op = o /\ th'[t].ep = e
      /\ th'[t].got = th[t].got /\ th'[t].reply = th[t].reply
      /\ \A u \in Threads \ {t} : th'[u] = th[u]
  <2>1. th[t] \in ThreadRecords /\ th' = [th EXCEPT ![t] = [th[t] EXCEPT !.pc = "listed"]]
    BY DEF Typed
  <2>2. /\ [th[t] EXCEPT !.pc = "listed"] \in ThreadRecords
        /\ [th[t] EXCEPT !.pc = "listed"].pc = "listed"
        /\ [th[t] EXCEPT !.pc = "listed"].op = o
        /\ [th[t] EXCEPT !.pc = "listed"].ep = e
        /\ [th[t] EXCEPT !.pc = "listed"].got = th[t].got
        /\ [th[t] EXCEPT !.pc = "listed"].reply = th[t].reply
    BY <2>1 DEF ThreadRecords, Places
  <2> QED
    BY <2>1, <2>2 DEF Typed
<1>2. Typed'
  BY <1>1 DEF Typed
<1>3. \A q \in Ops, f \in Endpoints : Crossed(q, f)' <=> Crossed(q, f)
  BY DEF Crossed
<1>4. \A u \in Threads : InOperation(th[u])'
  BY <1>1 DEF InOperation
<1>5. \A q \in Ops, f \in Endpoints :
         /\ Listed(q, f)' = IF q = o /\ f = e THEN Listed(q, f) \cup {t} ELSE Listed(q, f)
         /\ t \notin Listed(q, f)
         /\ Waiting(q, f)' = Waiting(q, f) /\ Ready(q, f)' = Ready(q, f)
  BY <1>1 DEF Listed, Waiting, Ready, IsAt
<1>6. ListsExact'
  <2> SUFFICES ASSUME NEW q \in Ops, NEW f \in Endpoints
               PROVE  /\ ToSet(List(q, f)') \subseteq Listed(q, f)'
                      /\ \A i, j \in DOMAIN List(q, f)' : List(q, f)'[i] = List(q, f)'[j] => i = j
                      /\ ~Crossed(q, f) => Listed(q, f)' \subseteq ToSet(List(q, f)')
    BY <1>3 DEF ListsExact, ToSet
  <2> DEFINE l == List(q, f)
  <2>1. /\ ToSet(l) \subseteq Listed(q, f) /\ l \in Seq(Threads)
        /\ ~Crossed(q, f) => Listed(q, f) \subseteq ToSet(l)
        /\ \A i, j \in DOMAIN l : l[i] = l[j] => i = j
    BY DEF ListsExact, List, Typed, EndpointRecords
  <2>2. CASE q = o /\ f = e
    <3>1. l' = Append(l, t)
      BY <2>2
    <3> HIDE DEF l
    <3>2. /\ Len(l) \in Nat /\ DOMAIN l = 1 .. Len(l)
          /\ DOMAIN Append(l, t) = 1 .. Len(l) + 1
          /\ \A i \in 1 .. Len(l) : Append(l, t)[i] = l[i]
          /\ Append(l, t)[Len(l) + 1] = t
      BY <2>1, AppendProperties, LenProperties
    <3>3. t \notin ToSet(l)
      BY <1>5, <2>1
    <3>4. ToSet(Append(l, t)) = ToSet(l) \cup {t}
      BY <3>2 DEF ToSet
    <3>5. \A i, j \in DOMAIN Append(l, t) : Append(l, t)[i] = Append(l, t)[j] => i = j
      BY <2>1, <3>2, <3>3 DEF ToSet
    <3> QED
      BY <1>5, <2>1, <2>2, <3>1, <3>4, <3>5 DEF l
  <2>3. CASE ~(q = o /\ f = e)
    <3>1. l' = l
      BY <2>3
    <3> QED
      BY <1>5, <2>1, <2>3, <3>1
  <2> QED
    BY <2>2, <2>3
<1>7. WaitsWhereUsed' /\ RingExact'
  BY <1>3, <1>5 DEF WaitsWhereUsed, RingExact
<1>8. Promised'
  BY <1>3, <1>5 DEF Promised, Supply, Overfull
<1> QED
  BY <1>2, <1>4, <1>6, <1>7, <1>8

----------------------------------------------------------------------------
(* The operations, one by one.                                             *)

\* Records that operations build.
LEMMA RecordTypes ==
    /\ NoMsg \in Messages
    /\ \A b \in Bodies, i \in 0 .. MaxId : [body |-> b, reply |-> i] \in Messages
    /\ \A m \in Messages : /\ Outside(m) \in ThreadRecords /\ Outside(m).pc = "out"
                           /\ InOperation(Outside(m)) /\ Outside(m).got = m
<1>0. MaxId \in Nat
  BY IpcAssumption
<1>1. NoMsg \in Messages /\ \A b \in Bodies, i \in 0 .. MaxId : [body |-> b, reply |-> i] \in Messages
  BY <1>0 DEF NoMsg, Messages
<1>2. ASSUME NEW m \in Messages
      PROVE  /\ Outside(m) \in ThreadRecords /\ Outside(m).pc = "out"
             /\ InOperation(Outside(m)) /\ Outside(m).got = m
  <2>1. 0 \in 0 .. MaxId
    BY <1>0
  <2>2. Outside(m) \in ThreadRecords
    BY <1>1, <2>1 DEF Outside, ThreadRecords, Places
  <2> QED
    BY <2>2 DEF Outside, InOperation
<1> QED
  BY <1>1, <1>2

\* Returning from an operation leaves it, or goes on to close the call.
LEMMA ReturnedTypes ==
    ASSUME NEW q \in ThreadRecords, NEW m \in Messages
    PROVE  /\ Returned(q, m) \in ThreadRecords
           /\ Returned(q, m).pc \in {"out", "close"}
           /\ Returned(q, m).got = m
           /\ InOperation(Returned(q, m))
<1>1. CASE q.reply = NoEp
  BY <1>1, RecordTypes DEF Returned
<1>2. CASE q.reply # NoEp
  <2>1. Returned(q, m) = [q EXCEPT !.pc = "close", !.got = m] /\ q.reply \in Endpoints
    BY <1>2 DEF Returned, ThreadRecords
  <2>2. /\ [q EXCEPT !.pc = "close", !.got = m] \in ThreadRecords
        /\ [q EXCEPT !.pc = "close", !.got = m].pc = "close"
        /\ [q EXCEPT !.pc = "close", !.got = m].got = m
        /\ [q EXCEPT !.pc = "close", !.got = m].reply = q.reply
    BY DEF ThreadRecords, Places
  <2> QED
    BY <2>1, <2>2 DEF InOperation
<1> QED
  BY <1>1, <1>2

\* A thread that begins an operation.
LEMMA BeginIpcInv ==
    ASSUME IpcInv, NEW t \in Threads, th[t].pc = "out", crossed' = crossed,
           NEW o \in Ops, NEW e \in Endpoints, NEW i \in 0 .. MaxId, NEW m \in Messages,
           NEW r \in Endpoints \cup {NoEp}, Begin(t, o, e, i, m, r),
           next_id' \in 1 .. MaxId + 1, ep' \in [Endpoints -> EndpointRecords],
           \A f \in Endpoints : SameQueues(f) \/ IsNew(f)
    PROVE  IpcInv'
<1> DEFINE q == [pc |-> "look", op |-> o, ep |-> e, want |-> i,
                 msg |-> m, reply |-> r, got |-> NoMsg]
<1>1. q \in ThreadRecords /\ q.pc = "look" /\ InOperation(q)
  BY RecordTypes DEF ThreadRecords, Places, Ops, InOperation
<1>2. th' = [th EXCEPT ![t] = q]
  BY DEF Begin
<1> HIDE DEF q
<1>3. \A f \in Ops, g \in Endpoints :
         /\ ~IsAt(q, f, g, {"listed", "blocked"}) /\ ~IsAt(th[t], f, g, {"listed", "blocked"})
         /\ ~IsAt(q, f, g, {"enlist", "listed", "blocked"})
         /\ ~IsAt(th[t], f, g, {"woken", "look"})
  BY <1>1 DEF IsAt
<1> QED
  BY <1>1, <1>2, <1>3, MoveIpcInv

\* A step of a thread outside any operation that changes no queue or list.
LEMMA OutsideIpcInv ==
    ASSUME IpcInv, NEW t \in Threads, th[t].pc \in {"out", "close"}, crossed' = crossed,
           NEW r \in ThreadRecords, r.pc = "out", th' = [th EXCEPT ![t] = r],
           next_id' \in 1 .. MaxId + 1, ep' \in [Endpoints -> EndpointRecords],
           \A f \in Endpoints : SameQueues(f) \/ IsNew(f)
    PROVE  IpcInv'
<1>1. InOperation(r)
  BY DEF InOperation
<1>2. \A f \in Ops, g \in Endpoints :
         /\ ~IsAt(r, f, g, {"listed", "blocked"}) /\ ~IsAt(th[t], f, g, {"listed", "blocked"})
         /\ ~IsAt(r, f, g, {"enlist", "listed", "blocked"})
         /\ ~IsAt(th[t], f, g, {"woken", "look"})
  BY DEF IsAt
<1> QED
  BY <1>1, <1>2, MoveIpcInv

\* A new endpoint in a free slot.
LEMMA CreatedSlot ==
    ASSUME IpcInv, NEW e \in Endpoints, ~ep[e].used, next_id <= MaxId,
           ep' = [ep EXCEPT ![e] = FreshEndpoint(next_id)]
    PROVE  /\ ep' \in [Endpoints -> EndpointRecords]
           /\ \A f \in Endpoints : SameQueues(f) \/ IsNew(f)
           /\ next_id + 1 \in 1 .. MaxId + 1
<1>1. next_id \in 0 .. MaxId /\ next_id + 1 \in 1 .. MaxId + 1
  BY IpcAssumption DEF IpcInv, Typed
<1>2. FreshEndpoint(next_id) \in EndpointRecords
  BY <1>1, FreshFields
<1> QED
  BY <1>1, <1>2 DEF IpcInv, Typed, SameQueues, IsNew

\* Dropping a reference that is not the last.
LEMMA DroppedOne ==
    ASSUME IpcInv, NEW e \in Endpoints, ep[e].refs > 1, ep' = [ep EXCEPT ![e] = Dropped(e)]
    PROVE  /\ ep' \in [Endpoints -> EndpointRecords]
           /\ \A f \in Endpoints : SameQueues(f) \/ IsNew(f)
           /\ DropWakes(e) = {} /\ DropCrosses(e) = {}
<1>1. ep[e] \in EndpointRecords /\ ep[e].refs - 1 \in 0 .. MaxRefs
  BY IpcAssumption DEF IpcInv, Typed, EndpointRecords
<1>2. Dropped(e) = [ep[e] EXCEPT !.refs = ep[e].refs - 1]
  BY DEF Dropped
<1>3. /\ Dropped(e) \in EndpointRecords
      /\ Dropped(e).used = ep[e].used /\ Dropped(e).head = ep[e].head /\ Dropped(e).buf = ep[e].buf
      /\ Dropped(e).tail = ep[e].tail /\ Dropped(e).count = ep[e].count
      /\ Dropped(e).waiters = ep[e].waiters /\ Dropped(e).senders = ep[e].senders
  BY <1>1, <1>2 DEF EndpointRecords
<1>4. ep'[e] = Dropped(e) /\ \A f \in Endpoints \ {e} : ep'[f] = ep[f]
  BY DEF IpcInv, Typed
<1>5. \A f \in Endpoints : SameQueues(f)
  BY <1>3, <1>4 DEF SameQueues
<1> QED
  BY <1>3, <1>5 DEF IpcInv, Typed, DropWakes, DropCrosses

\* Waking nobody changes nobody.
LEMMA WakesNobody ==
    ASSUME NEW X \in [Threads -> ThreadRecords]
    PROVE  sched_unblock({}, X) = X
BY DEF sched_unblock

----------------------------------------------------------------------------
(* The ring.                                                               *)

\* Putting and taking keep head, tail and count in agreement.
LEMMA RingSteps ==
    ASSUME NEW h \in 0 .. QueueLen - 1, NEW c \in Nat
    PROVE  /\ (h + c) % QueueLen \in 0 .. QueueLen - 1
           /\ (((h + c) % QueueLen) + 1) % QueueLen = (h + (c + 1)) % QueueLen
           /\ c > 0 => (((h + 1) % QueueLen) + (c - 1)) % QueueLen = (h + c) % QueueLen
           /\ (h + 1) % QueueLen \in 0 .. QueueLen - 1
<1>0. QueueLen \in Nat /\ QueueLen > 0
  BY IpcAssumption
<1>1. h \in Nat /\ h + c \in Nat /\ h + 1 \in Nat /\ (h + c) + 1 = h + (c + 1)
  BY <1>0
<1>2. (h + c) % QueueLen \in 0 .. QueueLen - 1 /\ (h + 1) % QueueLen \in 0 .. QueueLen - 1
  BY ONLY <1>1, Divided
<1>3. (((h + c) % QueueLen) + 1) % QueueLen = (h + (c + 1)) % QueueLen
  <2>1. (((h + c) % QueueLen) + 1) % QueueLen = ((h + c) + 1) % QueueLen
    BY ONLY <1>1, 1 \in Nat, GoingOn
  <2> QED
    BY ONLY <1>1, <2>1
<1>4. ASSUME c > 0
      PROVE  (((h + 1) % QueueLen) + (c - 1)) % QueueLen = (h + c) % QueueLen
  <2>1. c - 1 \in Nat /\ (h + 1) + (c - 1) = h + c
    BY <1>1, <1>4
  <2>2. (((h + 1) % QueueLen) + (c - 1)) % QueueLen = ((h + 1) + (c - 1)) % QueueLen
    BY ONLY <1>1, <2>1, GoingOn
  <2> QED
    BY ONLY <2>1, <2>2
<1> QED
  BY <1>2, <1>3, <1>4

\* The ring of every slot, in numbers.
LEMMA RingTyped ==
    ASSUME IpcInv, NEW f \in Endpoints
    PROVE  /\ ep[f].head \in 0 .. QueueLen - 1 /\ ep[f].count \in Nat
           /\ ep[f].tail = (ep[f].head + ep[f].count) % QueueLen
BY DEF IpcInv, Typed, EndpointRecords, RingExact

\* What send_put makes of the slot, and of the thread.
LEMMA SendSteps ==
    ASSUME IpcInv, NEW t \in Threads, send_put(t), NEW e \in Endpoints, e = th[t].ep
    PROVE  /\ th[t].pc = "look" /\ th[t].op = "send" /\ ep[e].used /\ CanSend(ep[e])
           /\ crossed' = crossed \cup Crosses("recv", e)
           /\ ep' \in [Endpoints -> EndpointRecords]
           /\ \A f \in Endpoints \ {e} : ep'[f] = ep[f]
           /\ ep'[e].used /\ ep'[e].head = ep[e].head
           /\ ep'[e].tail = (ep[e].tail + 1) % QueueLen
           /\ ep'[e].count = ep[e].count + 1
           /\ ep'[e].buf = [ep[e].buf EXCEPT ![ep[e].tail] = th[t].msg]
           /\ ep'[e].waiters = waiter_pop(ep[e].waiters)
           /\ ep'[e].senders = ep[e].senders
           /\ next_id' = next_id
           /\ th' = sched_unblock(FirstOf(ep[e].waiters), [th EXCEPT ![t] = Sent(th[t])])
<1> USE DEF IpcInv
<1>1. /\ th[t].pc = "look" /\ th[t].op = "send" /\ ep[e].used /\ CanSend(ep[e])
      /\ crossed' = crossed \cup Crosses("recv", e)
      /\ ep' = [ep EXCEPT ![e] = Enqueue(ep[e], th[t].msg)]
      /\ next_id' = next_id
      /\ th' = sched_unblock(FirstOf(ep[e].waiters), [th EXCEPT ![t] = Sent(th[t])])
  BY DEF send_put, At, WakesOnSend
<1>3. /\ ep[e] \in EndpointRecords /\ th[t].msg \in Messages
      /\ QueueLen \in Nat /\ QueueLen > 0
      /\ ep[e].tail \in 0 .. QueueLen - 1 /\ ep[e].count \in Nat
      /\ ep[e].buf \in [0 .. QueueLen - 1 -> Messages] /\ ep[e].waiters \in Seq(Threads)
  <2>1. ep[e] \in EndpointRecords /\ th[t] \in ThreadRecords
    BY DEF Typed
  <2>2. QueueLen \in Nat /\ QueueLen > 0
    BY IpcAssumption
  <2>3. th[t].msg \in Messages
    BY ONLY <2>1 DEF ThreadRecords
  <2> QED
    BY ONLY <2>1, <2>2, <2>3 DEF EndpointRecords
<1>4. waiter_pop(ep[e].waiters) \in Seq(Threads)
  BY <1>3, HeadTailProperties, EmptySeq DEF waiter_pop
<1>5. (ep[e].tail + 1) % QueueLen \in 0 .. QueueLen - 1 /\ ep[e].count + 1 \in Nat
  BY ONLY <1>3
<1>6. [ep[e].buf EXCEPT ![ep[e].tail] = th[t].msg] \in [0 .. QueueLen - 1 -> Messages]
  BY <1>3
<1> DEFINE E == Enqueue(ep[e], th[t].msg)
<1>7. E = [ep[e] EXCEPT !.buf = [ep[e].buf EXCEPT ![ep[e].tail] = th[t].msg],
                        !.tail = (ep[e].tail + 1) % QueueLen,
                        !.count = ep[e].count + 1,
                        !.waiters = waiter_pop(ep[e].waiters)]
  BY ONLY <1>3 DEF Enqueue, EndpointRecords
<1> HIDE DEF E
<1>8. /\ E \in EndpointRecords
      /\ E.used = ep[e].used /\ E.head = ep[e].head
      /\ E.tail = (ep[e].tail + 1) % QueueLen
      /\ E.count = ep[e].count + 1
      /\ E.buf = [ep[e].buf EXCEPT ![ep[e].tail] = th[t].msg]
      /\ E.waiters = waiter_pop(ep[e].waiters)
      /\ E.senders = ep[e].senders
  BY ONLY <1>3, <1>4, <1>5, <1>6, <1>7 DEF EndpointRecords
<1>9. /\ ep' = [ep EXCEPT ![e] = E] /\ ep'[e] = E
      /\ ep' \in [Endpoints -> EndpointRecords]
      /\ \A f \in Endpoints \ {e} : ep'[f] = ep[f]
  BY <1>1, <1>8 DEF E, Typed
<1> QED
  BY ONLY <1>1, <1>8, <1>9

\* What recv_take makes of the slot, and of the thread.
LEMMA TakeSteps ==
    ASSUME IpcInv, NEW t \in Threads, recv_take(t), NEW e \in Endpoints, e = th[t].ep
    PROVE  /\ th[t].pc = "look" /\ th[t].op = "recv" /\ ep[e].used
           /\ ep[e].count > 0
           /\ crossed' = crossed \cup Crosses("send", e)
           /\ ep' \in [Endpoints -> EndpointRecords]
           /\ \A f \in Endpoints \ {e} : ep'[f] = ep[f]
           /\ ep'[e].used /\ ep'[e].tail = ep[e].tail
           /\ ep'[e].head = (ep[e].head + 1) % QueueLen
           /\ ep'[e].count = ep[e].count - 1
           /\ ep'[e].buf = ep[e].buf
           /\ ep'[e].waiters = ep[e].waiters
           /\ ep'[e].senders = waiter_pop(ep[e].senders)
           /\ next_id' = next_id
           /\ ep[e].buf[ep[e].head] \in Messages
           /\ th' = sched_unblock(FirstOf(ep[e].senders),
                       [th EXCEPT ![t] = Returned(th[t], ep[e].buf[ep[e].head])])
<1> USE DEF IpcInv
<1> DEFINE E == [ep[e] EXCEPT !.head = (ep[e].head + 1) % QueueLen,
                              !.count = ep[e].count - 1,
                              !.senders = waiter_pop(ep[e].senders)]
<1>1. /\ th[t].pc = "look" /\ th[t].op = "recv" /\ ep[e].used /\ ep[e].count > 0
      /\ crossed' = crossed \cup Crosses("send", e)
      /\ ep' = [ep EXCEPT ![e] = E]
      /\ next_id' = next_id
      /\ th' = sched_unblock(FirstOf(ep[e].senders),
                  [th EXCEPT ![t] = Returned(th[t], ep[e].buf[ep[e].head])])
  BY DEF recv_take, At, WakesOnTake, Dequeue
<1>2. /\ ep[e] \in EndpointRecords
      /\ QueueLen \in Nat /\ QueueLen > 0
      /\ ep[e].head \in 0 .. QueueLen - 1 /\ ep[e].count \in Nat
      /\ ep[e].buf \in [0 .. QueueLen - 1 -> Messages] /\ ep[e].senders \in Seq(Threads)
  BY IpcAssumption DEF Typed, EndpointRecords
<1>3. waiter_pop(ep[e].senders) \in Seq(Threads)
  BY <1>2, HeadTailProperties, EmptySeq DEF waiter_pop
<1>4. (ep[e].head + 1) % QueueLen \in 0 .. QueueLen - 1 /\ ep[e].count - 1 \in Nat
  <2>1. ep[e].count > 0
    BY <1>1
  <2> QED
    BY ONLY <1>2, <2>1
<1>5. /\ E \in EndpointRecords
      /\ E.used = ep[e].used /\ E.tail = ep[e].tail
      /\ E.head = (ep[e].head + 1) % QueueLen
      /\ E.count = ep[e].count - 1
      /\ E.buf = ep[e].buf /\ E.waiters = ep[e].waiters
      /\ E.senders = waiter_pop(ep[e].senders)
  BY ONLY <1>2, <1>3, <1>4 DEF EndpointRecords
<1> HIDE DEF E
<1>6. /\ ep'[e] = E
      /\ ep' \in [Endpoints -> EndpointRecords]
      /\ \A f \in Endpoints \ {e} : ep'[f] = ep[f]
  BY <1>1, <1>5 DEF Typed
<1>7. ep[e].buf[ep[e].head] \in Messages
  BY <1>2
<1> QED
  BY ONLY <1>1, <1>5, <1>6, <1>7

----------------------------------------------------------------------------
(* Every step keeps the invariant.                                         *)

\* A send keeps the invariant.
LEMMA SendIpcInv ==
    ASSUME IpcInv, NEW t \in Threads, send_put(t)
    PROVE  IpcInv'
<1>e. PICK e \in Endpoints : e = th[t].ep
  BY DEF IpcInv, Typed, InOperation, send_put, recv_take, At
<1> DEFINE r == Sent(th[t])
           S == FirstOf(ep[e].waiters)
<1>0. th[t] \in ThreadRecords /\ InOperation(th[t]) /\ th[t].pc = "look"
  BY DEF IpcInv, Typed, send_put, At
<1>2. /\ th[t].op = "send" /\ ep[e].used /\ CanSend(ep[e])
      /\ crossed' = crossed \cup Crosses("recv", e)
      /\ ep' \in [Endpoints -> EndpointRecords]
      /\ \A f \in Endpoints \ {e} : ep'[f] = ep[f]
      /\ ep'[e].used /\ ep'[e].head = ep[e].head
      /\ ep'[e].tail = (ep[e].tail + 1) % QueueLen
      /\ ep'[e].count = ep[e].count + 1
      /\ ep'[e].waiters = waiter_pop(ep[e].waiters)
      /\ ep'[e].senders = ep[e].senders
      /\ next_id' = next_id
      /\ th' = sched_unblock(S, [th EXCEPT ![t] = r])
  BY <1>e, SendSteps
<1>3. r \in ThreadRecords /\ InOperation(r) /\ r.pc \in {"out", "look"}
      /\ (r.pc = "look" => r.op = "recv")
  <2>1. CASE th[t].reply = NoEp
    BY <2>1, RecordTypes DEF Sent
  <2>2. CASE th[t].reply # NoEp
    <3>1. th[t].reply \in Endpoints /\ ep[th[t].reply].id \in 0 .. MaxId
      BY <1>0, <2>2 DEF ThreadRecords, IpcInv, Typed, EndpointRecords
    <3>2. r = [th[t] EXCEPT !.op = "recv", !.ep = th[t].reply, !.want = ep[th[t].reply].id]
      BY <2>2 DEF Sent
    <3>3. /\ r \in ThreadRecords /\ r.pc = th[t].pc /\ r.op = "recv" /\ r.ep = th[t].reply
          /\ r.got = th[t].got
      BY ONLY <1>0, <3>1, <3>2 DEF ThreadRecords
    <3> HIDE DEF r
    <3> QED
      BY <1>0, <3>1, <3>3 DEF InOperation
  <2> QED
    BY <2>1, <2>2
<1>4. \A f \in Endpoints : /\ ep[f].head \in 0 .. QueueLen - 1 /\ ep[f].count \in Nat
                           /\ ep[f].tail = (ep[f].head + ep[f].count) % QueueLen
  BY RingTyped
<1> HIDE DEF r, S
<1>5. RingExact'
  <2> SUFFICES ASSUME NEW f \in Endpoints
               PROVE  ep'[f].tail = (ep'[f].head + ep'[f].count) % QueueLen
    BY DEF RingExact
  <2>1. CASE f # e
    BY <1>2, <1>4, <2>1
  <2>2. CASE f = e
    <3> DEFINE h == ep[e].head
               c == ep[e].count
    <3>1. h \in 0 .. QueueLen - 1 /\ c \in Nat /\ ep[e].tail = (h + c) % QueueLen
      BY <1>4
    <3> HIDE DEF h, c
    <3>2. (((h + c) % QueueLen) + 1) % QueueLen = (h + (c + 1)) % QueueLen
      BY <3>1, RingSteps
    <3>3. ep'[e].tail = (h + (c + 1)) % QueueLen
      BY <1>2, <3>1, <3>2
    <3> QED
      BY <1>2, <2>2, <3>3 DEF h, c
  <2> QED
    BY <2>1, <2>2
<1>6. /\ S = FirstOf(List("recv", e))
      /\ List("recv", e)' = waiter_pop(List("recv", e)) /\ List("send", e)' = List("send", e)
  BY <1>2 DEF List, S
<1>7. Supply("send", e)' = Supply("send", e) - 1 /\ Supply("recv", e)' = Supply("recv", e) + 1
  <2>1. ep[e].count \in Nat /\ QueueLen \in Nat
    BY <1>4, IpcAssumption
  <2>2. QueueLen - (ep[e].count + 1) = (QueueLen - ep[e].count) - 1
    BY <2>1
  <2> QED
    BY <1>2, <2>2 DEF Supply
<1>8. "send" \in Ops /\ "recv" \in Ops /\ th[t].ep = e
  BY <1>e DEF Ops
<1>9. List("recv", e) = <<>> => Supply("send", e) >= 1
  BY <1>2, <1>4, IpcAssumption DEF List, Supply, CanSend
<1> QED
  BY <1>0, <1>2, <1>3, <1>5, <1>6, <1>7, <1>8, <1>9, TransferIpcInv

\* A receive keeps the invariant.
LEMMA RecvIpcInv ==
    ASSUME IpcInv, NEW t \in Threads, recv_take(t)
    PROVE  IpcInv'
<1>e. PICK e \in Endpoints : e = th[t].ep
  BY DEF IpcInv, Typed, InOperation, send_put, recv_take, At
<1> DEFINE r == Returned(th[t], ep[e].buf[ep[e].head])
           S == FirstOf(ep[e].senders)
<1>0. th[t] \in ThreadRecords /\ InOperation(th[t]) /\ th[t].pc = "look"
  BY DEF IpcInv, Typed, recv_take, At
<1>2. /\ th[t].op = "recv" /\ ep[e].used /\ ep[e].count > 0
      /\ crossed' = crossed \cup Crosses("send", e)
      /\ ep' \in [Endpoints -> EndpointRecords]
      /\ \A f \in Endpoints \ {e} : ep'[f] = ep[f]
      /\ ep'[e].used /\ ep'[e].tail = ep[e].tail
      /\ ep'[e].head = (ep[e].head + 1) % QueueLen
      /\ ep'[e].count = ep[e].count - 1
      /\ ep'[e].waiters = ep[e].waiters
      /\ ep'[e].senders = waiter_pop(ep[e].senders)
      /\ next_id' = next_id
      /\ ep[e].buf[ep[e].head] \in Messages
      /\ th' = sched_unblock(S, [th EXCEPT ![t] = r])
  BY <1>e, TakeSteps
<1>3. r \in ThreadRecords /\ InOperation(r) /\ r.pc \in {"out", "close"}
  BY <1>0, <1>2, ReturnedTypes
<1>4. \A f \in Endpoints : /\ ep[f].head \in 0 .. QueueLen - 1 /\ ep[f].count \in Nat
                           /\ ep[f].tail = (ep[f].head + ep[f].count) % QueueLen
  BY RingTyped
<1> HIDE DEF r, S
<1>5. RingExact'
  <2> SUFFICES ASSUME NEW f \in Endpoints
               PROVE  ep'[f].tail = (ep'[f].head + ep'[f].count) % QueueLen
    BY DEF RingExact
  <2>1. CASE f # e
    BY <1>2, <1>4, <2>1
  <2>2. CASE f = e
    <3> DEFINE h == ep[e].head
               c == ep[e].count
    <3>1. h \in 0 .. QueueLen - 1 /\ c \in Nat /\ c > 0
          /\ ep[e].tail = (h + c) % QueueLen
      BY <1>2, <1>4
    <3> HIDE DEF h, c
    <3>2. (((h + 1) % QueueLen) + (c - 1)) % QueueLen = (h + c) % QueueLen
      BY <3>1, RingSteps
    <3>3. ep'[e].head = (h + 1) % QueueLen /\ ep'[e].count = c - 1
      BY <1>2 DEF h, c
    <3> QED
      BY <1>2, <2>2, <3>1, <3>2, <3>3
  <2> QED
    BY <2>1, <2>2
<1>6. /\ S = FirstOf(List("send", e))
      /\ List("send", e)' = waiter_pop(List("send", e)) /\ List("recv", e)' = List("recv", e)
  BY <1>2 DEF List, S
<1>7. Supply("recv", e)' = Supply("recv", e) - 1 /\ Supply("send", e)' = Supply("send", e) + 1
  <2>1. ep[e].count \in Nat /\ QueueLen \in Nat
    BY <1>4, IpcAssumption
  <2>2. QueueLen - (ep[e].count - 1) = (QueueLen - ep[e].count) + 1
    BY <2>1
  <2> QED
    BY <1>2, <2>2 DEF Supply
<1>8. "send" \in Ops /\ "recv" \in Ops /\ th[t].ep = e
  BY <1>e DEF Ops
<1>9. List("send", e) = <<>> => Supply("recv", e) >= 1
  BY <1>2, <1>4 DEF Supply
<1> QED
  BY <1>0, <1>2, <1>3, <1>5, <1>6, <1>7, <1>8, <1>9, TransferIpcInv

\* A thread that goes on with its operation, without moving a message.
LEMMA ContinueIpcInv ==
    ASSUME IpcInv, NEW t \in Threads,
           \/ look_gone(t) \/ look_again(t) \/ look_empty(t)
           \/ waiter_add(t) \/ sched_block(t) \/ waiter_remove(t)
    PROVE  IpcInv'
<1>0. /\ Typed /\ crossed' = crossed /\ th[t] \in ThreadRecords /\ InOperation(th[t])
      /\ th[t].pc \in {"look", "enlist", "listed", "woken"}
  BY DEF IpcInv, Typed, look_gone, look_again, look_empty, waiter_add, sched_block,
         waiter_remove, At
<1>e. PICK e \in Endpoints : e = th[t].ep
  BY <1>0 DEF InOperation
<1>o. PICK o \in Ops : o = th[t].op
  BY <1>0 DEF Ops, ThreadRecords
<1>n. next_id \in 1 .. MaxId + 1 /\ ep \in [Endpoints -> EndpointRecords]
  BY <1>0 DEF Typed
<1>s. ep' = ep => \A f \in Endpoints : SameQueues(f)
  BY DEF SameQueues
<1>p. \A pc \in {"enlist", "listed", "blocked", "look"} :
         /\ [th[t] EXCEPT !.pc = pc] \in ThreadRecords
         /\ [th[t] EXCEPT !.pc = pc].pc = pc
         /\ [th[t] EXCEPT !.pc = pc].op = o /\ [th[t] EXCEPT !.pc = pc].ep = e
         /\ [th[t] EXCEPT !.pc = pc].got = th[t].got
  BY ONLY <1>0, <1>e, <1>o DEF ThreadRecords, Places
<1>i. \A pc \in {"enlist", "listed", "blocked", "look"} : InOperation([th[t] EXCEPT !.pc = pc])
  BY <1>0, <1>e, <1>p DEF InOperation
<1>z. NothingToDo(t) => ep[e].used /\ Supply(o, e) <= 0
  <2>1. ep[e].count \in Nat /\ QueueLen \in Nat
    BY <1>n, IpcAssumption DEF EndpointRecords
  <2> QED
    BY <1>e, <1>o, <2>1 DEF NothingToDo, Supply, Ops
<1>1. CASE look_gone(t) \/ look_again(t)
  <2> DEFINE r == Returned(th[t], NoMsg)
  <2>1. /\ th' = [th EXCEPT ![t] = r] /\ ep' = ep /\ next_id' = next_id
        /\ th[t].pc = "look" /\ (~ep[e].used \/ Supply(o, e) <= 0)
    BY <1>1, <1>e, <1>z DEF look_gone, look_again, At
  <2>2. r \in ThreadRecords /\ r.pc \in {"out", "close"} /\ InOperation(r)
    BY <1>0, RecordTypes, ReturnedTypes
  <2> HIDE DEF r
  <2>3. \A q \in Ops, f \in Endpoints :
           /\ ~IsAt(r, q, f, {"listed", "blocked"}) /\ ~IsAt(th[t], q, f, {"listed", "blocked"})
           /\ ~IsAt(r, q, f, {"enlist", "listed", "blocked"})
           /\ IsAt(th[t], q, f, {"woken", "look"}) => q = o /\ f = e
    BY <1>e, <1>o, <2>1, <2>2 DEF IsAt
  <2> QED
    BY <1>0, <1>n, <1>s, <2>1, <2>2, <2>3, MoveIpcInv
<1>2. CASE look_empty(t)
  <2> DEFINE r == [th[t] EXCEPT !.pc = "enlist"]
  <2>1. /\ th' = [th EXCEPT ![t] = r] /\ ep' = ep /\ next_id' = next_id
        /\ th[t].pc = "look" /\ ep[e].used /\ Supply(o, e) <= 0
    BY <1>2, <1>z DEF look_empty, At
  <2>2. r \in ThreadRecords /\ r.pc = "enlist" /\ r.op = o /\ r.ep = e /\ InOperation(r)
    BY <1>p, <1>i
  <2> HIDE DEF r
  <2>3. \A q \in Ops, f \in Endpoints :
           /\ ~IsAt(r, q, f, {"listed", "blocked"}) /\ ~IsAt(th[t], q, f, {"listed", "blocked"})
           /\ IsAt(r, q, f, {"enlist", "listed", "blocked"}) => q = o /\ f = e
           /\ IsAt(th[t], q, f, {"woken", "look"}) => q = o /\ f = e
    BY <1>e, <1>o, <2>1, <2>2 DEF IsAt
  <2> QED
    BY <1>0, <1>n, <1>s, <2>1, <2>2, <2>3, MoveIpcInv
<1>3. CASE sched_block(t)
  <2> DEFINE r == [th[t] EXCEPT !.pc = "blocked"]
  <2>1. /\ th' = [th EXCEPT ![t] = r] /\ ep' = ep /\ next_id' = next_id
        /\ th[t].pc = "listed"
    BY <1>3 DEF sched_block, At
  <2>2. r \in ThreadRecords /\ r.pc = "blocked" /\ r.op = o /\ r.ep = e /\ InOperation(r)
    BY <1>p, <1>i
  <2> HIDE DEF r
  <2>3. \A q \in Ops, f \in Endpoints :
           /\ IsAt(r, q, f, {"listed", "blocked"}) <=> IsAt(th[t], q, f, {"listed", "blocked"})
           /\ IsAt(r, q, f, {"enlist", "listed", "blocked"}) =>
                 IsAt(th[t], q, f, {"enlist", "listed", "blocked"}) /\ q = o /\ f = e
           /\ ~IsAt(th[t], q, f, {"woken", "look"})
    BY <1>e, <1>o, <2>1, <2>2 DEF IsAt
  <2>4. ~Crossed(o, e) => ep[e].used
    <3>1. t \in Waiting(o, e)
      BY <1>e, <1>o, <2>1 DEF Waiting, IsAt
    <3> QED
      BY <3>1 DEF IpcInv, WaitsWhereUsed
  <2>5. \A q \in Ops, f \in Endpoints : ~Crossed(q, f) =>
           /\ IsAt(r, q, f, {"enlist", "listed", "blocked"}) =>
                 ep[f].used /\ IsAt(th[t], q, f, {"enlist", "listed", "blocked"})
           /\ ~IsAt(th[t], q, f, {"woken", "look"})
    BY <2>3, <2>4
  <2>6. /\ th' = [th EXCEPT ![t] = r] /\ r \in ThreadRecords /\ InOperation(r)
        /\ next_id' \in 1 .. MaxId + 1 /\ ep' \in [Endpoints -> EndpointRecords]
        /\ crossed' = crossed /\ \A f \in Endpoints : SameQueues(f) \/ IsNew(f)
    BY <1>0, <1>n, <1>s, <2>1, <2>2
  <2>7. \A q \in Ops, f \in Endpoints :
           IsAt(r, q, f, {"listed", "blocked"}) <=> IsAt(th[t], q, f, {"listed", "blocked"})
    BY <2>3
  <2> QED
    BY <2>5, <2>6, <2>7, MoveIpcInv
<1>4. CASE waiter_remove(t)
  <2> DEFINE r == [th[t] EXCEPT !.pc = "look"]
  <2>1. th' = [th EXCEPT ![t] = r] /\ next_id' = next_id /\ th[t].pc = "woken"
    BY <1>4 DEF waiter_remove, At
  <2>2. t \notin ToSet(List(o, e))
    <3>1. t \notin Listed(o, e)
      BY <2>1 DEF Listed, IsAt
    <3> QED
      BY <3>1 DEF IpcInv, ListsExact
  <2>3. List(o, e) \in Seq(Threads)
    BY <1>n DEF List, EndpointRecords
  <2>4. RemoveFirst(List(o, e), t) = List(o, e)
    <3>1. \A i \in 1 .. Len(List(o, e)) : List(o, e)[i] # t
      BY <2>2, <2>3, LenProperties DEF ToSet
    <3> QED
      BY <3>1 DEF RemoveFirst
  <2>5. ep' = ep
    <3>1. /\ o = "recv" => ep' = [ep EXCEPT ![e].waiters = RemoveFirst(ep[e].waiters, t)]
          /\ o = "send" => ep' = [ep EXCEPT ![e].senders = RemoveFirst(ep[e].senders, t)]
      BY <1>4, <1>e, <1>o DEF waiter_remove
    <3>2. /\ o = "recv" => ep' = [ep EXCEPT ![e].waiters = ep[e].waiters]
          /\ o = "send" => ep' = [ep EXCEPT ![e].senders = ep[e].senders]
      BY <2>4, <3>1 DEF List
    <3>3. ep[e] \in EndpointRecords
      BY <1>n
    <3>4. /\ [ep[e] EXCEPT !.waiters = ep[e].waiters] = ep[e]
          /\ [ep[e] EXCEPT !.senders = ep[e].senders] = ep[e]
      BY ONLY <3>3 DEF EndpointRecords
    <3> QED
      BY <1>n, <3>2, <3>4 DEF Ops
  <2>6. r \in ThreadRecords /\ r.pc = "look" /\ r.op = o /\ r.ep = e /\ InOperation(r)
    BY <1>p, <1>i
  <2> HIDE DEF r
  <2>7. \A q \in Ops, f \in Endpoints :
           /\ ~IsAt(r, q, f, {"listed", "blocked"}) /\ ~IsAt(th[t], q, f, {"listed", "blocked"})
           /\ ~IsAt(r, q, f, {"enlist", "listed", "blocked"})
           /\ IsAt(th[t], q, f, {"woken", "look"}) => IsAt(r, q, f, {"woken", "look"})
    BY <1>e, <1>o, <2>1, <2>6 DEF IsAt
  <2> QED
    BY <1>0, <1>n, <1>s, <2>1, <2>5, <2>6, <2>7, MoveIpcInv
<1>5. CASE waiter_add(t)
  <2>1. th[t].pc = "enlist" /\ th' = [th EXCEPT ![t].pc = "listed"] /\ next_id' = next_id
    BY <1>5 DEF waiter_add, At
  <2>2. ep[e] \in EndpointRecords /\ ep[e].waiters \in Seq(Threads) /\ ep[e].senders \in Seq(Threads)
    BY <1>n DEF EndpointRecords
  <2>3. Append(ep[e].waiters, t) \in Seq(Threads) /\ Append(ep[e].senders, t) \in Seq(Threads)
    BY <2>2, AppendProperties
  <2> DEFINE E == IF o = "recv" THEN [ep[e] EXCEPT !.waiters = Append(ep[e].waiters, t)]
                                ELSE [ep[e] EXCEPT !.senders = Append(ep[e].senders, t)]
  <2>4. ep' = [ep EXCEPT ![e] = E]
    BY <1>5, <1>e, <1>o DEF waiter_add
  <2>5. /\ E \in EndpointRecords
        /\ E.used = ep[e].used /\ E.head = ep[e].head /\ E.tail = ep[e].tail
        /\ E.count = ep[e].count
        /\ E.waiters = IF o = "recv" THEN Append(ep[e].waiters, t) ELSE ep[e].waiters
        /\ E.senders = IF o = "recv" THEN ep[e].senders ELSE Append(ep[e].senders, t)
    <3>1. CASE o = "recv"
      BY ONLY <2>2, <2>3, <3>1 DEF EndpointRecords
    <3>2. CASE o # "recv"
      BY ONLY <2>2, <2>3, <3>2 DEF EndpointRecords
    <3> QED
      BY <3>1, <3>2
  <2> HIDE DEF E
  <2>6. /\ ep' \in [Endpoints -> EndpointRecords] /\ ep'[e] = E
        /\ \A f \in Endpoints \ {e} : ep'[f] = ep[f]
    BY <1>n, <2>4, <2>5
  <2>7. \A q \in Ops, f \in Endpoints :
           List(q, f)' = IF q = o /\ f = e THEN Append(List(q, f), t) ELSE List(q, f)
    BY <2>5, <2>6 DEF List, Ops
  <2>8. \A f \in Endpoints :
           /\ ep'[f].used = ep[f].used
           /\ ep'[f].head = ep[f].head /\ ep'[f].tail = ep[f].tail
           /\ ep'[f].count = ep[f].count
    BY <2>5, <2>6
  <2> QED
    BY <1>0, <1>e, <1>o, <2>1, <2>6, <2>7, <2>8, EnlistIpcInv
<1> QED
  BY <1>1, <1>2, <1>3, <1>4, <1>5

\* Dropping a reference, at the end of a call or by ipc_endpoint_unref.
LEMMA UnrefIpcInv ==
    ASSUME IpcInv, NEW t \in Threads, th[t].pc \in {"out", "close"},
           NEW r \in ThreadRecords, r.pc = "out", NEW e \in Endpoints,
           ep' = [ep EXCEPT ![e] = Dropped(e)], next_id' = next_id,
           th' = sched_unblock(DropWakes(e), [th EXCEPT ![t] = r]),
           crossed' = crossed \cup DropCrosses(e)
    PROVE  IpcInv'
<1>1. CASE ep[e].refs > 1
  <2>1. /\ ep' \in [Endpoints -> EndpointRecords] /\ DropWakes(e) = {}
        /\ DropCrosses(e) = {} /\ \A f \in Endpoints : SameQueues(f) \/ IsNew(f)
    BY <1>1, DroppedOne
  <2>c. crossed' = crossed
    BY <2>1
  <2>2. [th EXCEPT ![t] = r] \in [Threads -> ThreadRecords] /\ next_id \in 1 .. MaxId + 1
    BY DEF IpcInv, Typed
  <2>3. th' = [th EXCEPT ![t] = r]
    BY <2>1, <2>2, WakesNobody
  <2> QED
    BY <2>1, <2>c, <2>2, <2>3, OutsideIpcInv
<1>2. CASE ~(ep[e].refs > 1)
  <2>1. InOperation(r)
    BY DEF InOperation
  <2> QED
    BY <1>2, <2>1, DropIpcInv
<1> QED
  BY <1>1, <1>2

\* Creating an endpoint, and taking or dropping a reference.
LEMMA TableIpcInv ==
    ASSUME IpcInv, NEW t \in Threads, NEW e \in Endpoints,
           \/ ipc_endpoint_create(t, e)
           \/ ipc_endpoint_ref(t, e)
           \/ ipc_endpoint_unref(t, e)
    PROVE  IpcInv'
<1>0. /\ th[t].pc = "out" /\ th[t] \in ThreadRecords
      /\ [th EXCEPT ![t] = th[t]] = th
      /\ next_id \in 1 .. MaxId + 1 /\ ep[e] \in EndpointRecords
  BY DEF IpcInv, Typed, Free, ipc_endpoint_create, ipc_endpoint_ref, ipc_endpoint_unref
<1>1. CASE ipc_endpoint_create(t, e)
  <2>1. /\ ~ep[e].used /\ next_id <= MaxId /\ next_id' = next_id + 1 /\ th' = th
        /\ crossed' = crossed
        /\ ep' = [ep EXCEPT ![e] = FreshEndpoint(next_id)]
    BY <1>1 DEF ipc_endpoint_create, FirstUnused
  <2> QED
    BY <1>0, <2>1, CreatedSlot, OutsideIpcInv
<1>2. CASE ipc_endpoint_ref(t, e)
  <2> DEFINE E == [ep[e] EXCEPT !.refs = ep[e].refs + 1]
  <2>1. /\ ep' = [ep EXCEPT ![e] = E] /\ next_id' = next_id /\ th' = th /\ ep[e].refs < MaxRefs
        /\ crossed' = crossed
    BY <1>2 DEF ipc_endpoint_ref
  <2>2. ep[e].refs + 1 \in 0 .. MaxRefs
    <3>1. ep[e].refs \in Nat /\ MaxRefs \in Nat
      BY <1>0, IpcAssumption DEF EndpointRecords
    <3> QED
      BY <2>1, <3>1
  <2>3. /\ E \in EndpointRecords
        /\ E.used = ep[e].used /\ E.head = ep[e].head /\ E.tail = ep[e].tail
        /\ E.count = ep[e].count /\ E.buf = ep[e].buf
        /\ E.waiters = ep[e].waiters /\ E.senders = ep[e].senders
    BY ONLY <1>0, <2>2 DEF EndpointRecords
  <2> HIDE DEF E
  <2>4. ep' \in [Endpoints -> EndpointRecords] /\ \A f \in Endpoints : SameQueues(f)
    BY <2>1, <2>3 DEF IpcInv, Typed, SameQueues
  <2> QED
    BY <1>0, <2>1, <2>4, OutsideIpcInv
<1>3. CASE ipc_endpoint_unref(t, e)
  <2>1. /\ ep' = [ep EXCEPT ![e] = Dropped(e)] /\ next_id' = next_id
        /\ th' = sched_unblock(DropWakes(e), [th EXCEPT ![t] = th[t]])
        /\ crossed' = crossed \cup DropCrosses(e)
    BY <1>0, <1>3 DEF ipc_endpoint_unref
  <2> QED
    BY <1>0, <2>1, UnrefIpcInv
<1> QED
  BY <1>1, <1>2, <1>3

\* What the beginning of an operation does: the thread looks at a slot, and
\* all queues stay as they are.
IsBegun(t) ==
    \E o \in Ops, e \in Endpoints, i \in 0 .. MaxId, m \in Messages, r \in Endpoints \cup {NoEp} :
        Begin(t, o, e, i, m, r)

\* The beginning of an operation, or of a call with its reply endpoint.
LEMMA BeginSteps ==
    ASSUME IpcInv, NEW t \in Threads, NEW e \in Endpoints,
           \/ begin_recv(t, e)
           \/ \E b \in Bodies : begin_send(t, e, b) \/ ipc_call(t, e, b) \/ ipc_reply(t, e, b)
    PROVE  /\ th[t].pc = "out" /\ IsBegun(t) /\ crossed' = crossed
           /\ next_id' \in 1 .. MaxId + 1 /\ ep' \in [Endpoints -> EndpointRecords]
           /\ \A f \in Endpoints : SameQueues(f) \/ IsNew(f)
<1>0. /\ th[t].pc = "out" /\ ep[e].id \in 0 .. MaxId /\ crossed' = crossed
      /\ next_id \in 1 .. MaxId + 1 /\ ep \in [Endpoints -> EndpointRecords]
  BY DEF IpcInv, Typed, EndpointRecords, Free, begin_recv, begin_send, ipc_call, ipc_reply
<1>1. /\ NoMsg \in Messages /\ 0 \in 0 .. MaxId
      /\ \A b \in Bodies, i \in 0 .. MaxId : [body |-> b, reply |-> i] \in Messages
  BY RecordTypes, IpcAssumption
<1>2. CASE begin_recv(t, e) \/ \E b \in Bodies : begin_send(t, e, b) \/ ipc_reply(t, e, b)
  <2>1. ep' = ep /\ next_id' = next_id
    BY <1>2 DEF begin_recv, begin_send, ipc_reply
  <2>2. \/ Begin(t, "recv", e, ep[e].id, NoMsg, NoEp)
        \/ \E b \in Bodies : Begin(t, "send", e, ep[e].id, [body |-> b, reply |-> 0], NoEp)
    BY <1>2 DEF begin_recv, begin_send, ipc_reply
  <2>3. IsBegun(t)
    BY <1>0, <1>1, <2>2 DEF IsBegun, Ops
  <2> QED
    BY <1>0, <2>1, <2>3 DEF SameQueues
<1>3. CASE \E b \in Bodies : ipc_call(t, e, b)
  <2>1. PICK b \in Bodies, r \in Endpoints :
           /\ ~ep[r].used /\ next_id <= MaxId /\ next_id' = next_id + 1
           /\ ep' = [ep EXCEPT ![r] = FreshEndpoint(next_id)]
           /\ Begin(t, "send", e, ep[e].id, [body |-> b, reply |-> next_id], r)
    BY <1>3 DEF ipc_call, FirstUnused
  <2>2. next_id \in 0 .. MaxId
    BY <1>0, <2>1, IpcAssumption
  <2>3. IsBegun(t)
    BY <1>0, <1>1, <2>1, <2>2 DEF IsBegun, Ops
  <2> QED
    BY <1>0, <2>1, <2>3, CreatedSlot
<1> QED
  BY <1>2, <1>3

\* What closing a call does to its reply endpoint.
LEMMA CloseSteps ==
    ASSUME IpcInv, NEW t \in Threads, call_close(t)
    PROVE  /\ th[t].pc = "close" /\ next_id' = next_id
           /\ Outside(th[t].got) \in ThreadRecords /\ Outside(th[t].got).pc = "out"
           /\ Outside(th[t].got).got = th[t].got
           /\ \/ \E e \in Endpoints :
                    /\ ep[e].used /\ ep' = [ep EXCEPT ![e] = Dropped(e)]
                    /\ th' = sched_unblock(DropWakes(e), [th EXCEPT ![t] = Outside(th[t].got)])
                    /\ crossed' = crossed \cup DropCrosses(e)
              \/ ep' = ep /\ th' = [th EXCEPT ![t] = Outside(th[t].got)] /\ crossed' = crossed
<1>0. /\ th[t].pc = "close" /\ next_id' = next_id
      /\ th \in [Threads -> ThreadRecords] /\ th[t].got \in Messages /\ th[t].reply \in Endpoints
  BY DEF IpcInv, Typed, ThreadRecords, InOperation, call_close, At
<1>1. /\ Outside(th[t].got) \in ThreadRecords /\ Outside(th[t].got).pc = "out"
      /\ Outside(th[t].got).got = th[t].got
  BY <1>0, RecordTypes
<1>e. PICK e \in Endpoints : e = th[t].reply
  BY <1>0
<1>2. CASE ep[e].used
  <2>1. /\ ep' = [ep EXCEPT ![e] = Dropped(e)]
        /\ th' = sched_unblock(DropWakes(e), [th EXCEPT ![t] = Outside(th[t].got)])
        /\ crossed' = crossed \cup DropCrosses(e)
    BY <1>2, <1>e DEF call_close
  <2> QED
    BY <1>0, <1>1, <1>2, <2>1
<1>3. CASE ~ep[e].used
  <2>1. /\ ep' = ep /\ th' = sched_unblock({}, [th EXCEPT ![t] = Outside(th[t].got)])
        /\ crossed' = crossed
    BY <1>3, <1>e DEF call_close
  <2>2. [th EXCEPT ![t] = Outside(th[t].got)] \in [Threads -> ThreadRecords]
    BY <1>0, <1>1
  <2>3. th' = [th EXCEPT ![t] = Outside(th[t].got)]
    BY <2>1, <2>2, WakesNobody
  <2> QED
    BY <1>0, <1>1, <2>1, <2>3
<1> QED
  BY <1>2, <1>3

\* A server that drops a request it cannot answer.
LEMMA UnresolvedSteps ==
    ASSUME IpcInv, NEW t \in Threads, reply_unresolved(t)
    PROVE  /\ th[t].pc = "out" /\ ep' = ep /\ next_id' = next_id /\ crossed' = crossed
           /\ \E r \in ThreadRecords : r.pc = "out" /\ r.got = NoMsg /\ th' = [th EXCEPT ![t] = r]
<1>1. /\ th[t].pc = "out" /\ ep' = ep /\ next_id' = next_id /\ crossed' = crossed
      /\ th' = [th EXCEPT ![t] = [th[t] EXCEPT !.got = NoMsg]]
      /\ th[t] \in ThreadRecords /\ NoMsg \in Messages
  BY RecordTypes DEF IpcInv, Typed, reply_unresolved
<1>2. /\ [th[t] EXCEPT !.got = NoMsg] \in ThreadRecords
      /\ [th[t] EXCEPT !.got = NoMsg].pc = "out" /\ [th[t] EXCEPT !.got = NoMsg].got = NoMsg
  BY ONLY <1>1 DEF ThreadRecords
<1> QED
  BY <1>1, <1>2

\* Every step keeps the invariant.
LEMMA NextIpcInv ==
    ASSUME IpcInv, [Next]_vars
    PROVE  IpcInv'
<1>0. next_id \in 1 .. MaxId + 1 /\ ep \in [Endpoints -> EndpointRecords]
  BY DEF IpcInv, Typed
<1>s. ep' = ep => \A f \in Endpoints : SameQueues(f)
  BY DEF SameQueues
<1>1. ASSUME NEW t \in Threads, NEW e \in Endpoints,
             \/ ipc_endpoint_create(t, e)
             \/ ipc_endpoint_ref(t, e)
             \/ ipc_endpoint_unref(t, e)
      PROVE  IpcInv'
  BY <1>1, TableIpcInv
<1>2. ASSUME NEW t \in Threads, NEW e \in Endpoints,
             \/ begin_recv(t, e)
             \/ \E b \in Bodies : begin_send(t, e, b) \/ ipc_call(t, e, b) \/ ipc_reply(t, e, b)
      PROVE  IpcInv'
  <2>1. /\ th[t].pc = "out" /\ IsBegun(t) /\ crossed' = crossed
        /\ next_id' \in 1 .. MaxId + 1 /\ ep' \in [Endpoints -> EndpointRecords]
        /\ \A f \in Endpoints : SameQueues(f) \/ IsNew(f)
    BY <1>2, BeginSteps
  <2>2. PICK o \in Ops, f \in Endpoints, i \in 0 .. MaxId, m \in Messages,
             r \in Endpoints \cup {NoEp} : Begin(t, o, f, i, m, r)
    BY <2>1 DEF IsBegun
  <2> QED
    BY <2>1, <2>2, BeginIpcInv
<1>4. ASSUME NEW t \in Threads, reply_unresolved(t)
      PROVE  IpcInv'
  BY <1>0, <1>s, <1>4, UnresolvedSteps, OutsideIpcInv
<1>5. ASSUME NEW t \in Threads, call_close(t)
      PROVE  IpcInv'
  <2> DEFINE r == Outside(th[t].got)
  <2>1. /\ th[t].pc = "close" /\ next_id' = next_id
        /\ r \in ThreadRecords /\ r.pc = "out"
        /\ \/ \E e \in Endpoints :
                 /\ ep[e].used /\ ep' = [ep EXCEPT ![e] = Dropped(e)]
                 /\ th' = sched_unblock(DropWakes(e), [th EXCEPT ![t] = r])
                 /\ crossed' = crossed \cup DropCrosses(e)
           \/ ep' = ep /\ th' = [th EXCEPT ![t] = r] /\ crossed' = crossed
    BY <1>5, CloseSteps
  <2> HIDE DEF r
  <2>2. CASE \E e \in Endpoints :
                 /\ ep[e].used /\ ep' = [ep EXCEPT ![e] = Dropped(e)]
                 /\ th' = sched_unblock(DropWakes(e), [th EXCEPT ![t] = r])
                 /\ crossed' = crossed \cup DropCrosses(e)
    BY <2>1, <2>2, UnrefIpcInv
  <2>3. CASE ep' = ep /\ th' = [th EXCEPT ![t] = r] /\ crossed' = crossed
    BY <1>0, <1>s, <2>1, <2>3, OutsideIpcInv
  <2> QED
    BY <2>1, <2>2, <2>3
<1>6. ASSUME NEW t \in Threads, Continue(t)
      PROVE  IpcInv'
  BY <1>5, <1>6, SendIpcInv, RecvIpcInv, ContinueIpcInv DEF Continue
<1>7. CASE UNCHANGED vars
  BY <1>7 DEF vars, IpcInv, Typed, InOperation, ListsExact, List, Listed, Waiting, Crossed,
              WaitsWhereUsed, Promised, Supply, Ready, Overfull, RingExact
<1> QED
  BY <1>1, <1>2, <1>4, <1>6, <1>7 DEF Next

----------------------------------------------------------------------------
(* What the invariant says of the endpoints and of those who wait.         *)

\* The inductive invariant holds in every state.
THEOREM IpcInductive == Spec => []IpcInv
<1>1. Init => IpcInv
  BY InitIpcInv
<1>2. IpcInv /\ [Next]_vars => IpcInv'
  BY NextIpcInv
<1> QED
  BY <1>1, <1>2, PTL DEF Spec

\* Every field of every endpoint and thread keeps its range, head and tail
\* stay inside the ring; and although ipc_send puts a message in without a look
\* at count when a receiver waits, a ring that no wakeup was crossed at holds
\* more than it has room for only while as many woken receivers are on their
\* way to it.
THEOREM IpcEndpointsSound == Spec => []EndpointsSound
<1>1. IpcInv => EndpointsSound
  <2> SUFFICES ASSUME IpcInv PROVE EndpointsSound
    OBVIOUS
  <2>1. \A e \in Endpoints : ep[e] \in EndpointRecords
    BY DEF IpcInv, Typed
  <2>2. \A t \in Threads : th[t] \in ThreadRecords
    BY DEF IpcInv, Typed
  <2>3. next_id \in 1 .. MaxId + 1 /\ crossed \subseteq {"send", "recv"} \X Endpoints
    BY DEF IpcInv, Typed, Ops
  <2>4. TypeOK
    BY ONLY <2>1, <2>2, <2>3 DEF TypeOK, EndpointRecords, ThreadRecords, Places
  <2>5. OverfullIsOwed
    <3> SUFFICES ASSUME NEW e \in Endpoints, ep[e].used, ~Crossed("recv", e),
                        ep[e].count > QueueLen
                 PROVE  ep[e].count <= Cardinality(Owed("recv", e))
      BY DEF OverfullIsOwed
    <3>1. Overfull("recv", e) /\ Supply("recv", e) = ep[e].count /\ "recv" \in Ops
      BY DEF Overfull, Supply, Ops
    <3>2. Owed("recv", e) = Ready("recv", e)
      BY DEF Owed, Those, Ready, IsAt
    <3> QED
      BY <3>1, <3>2 DEF IpcInv, Promised
  <2> QED
    BY <2>4, <2>5 DEF EndpointsSound
<1> QED
  BY <1>1, IpcInductive, PTL

\* Where no wakeup was crossed, a blocked thread is on the list it will be
\* woken from, a message queued beside a blocked receiver is promised to a
\* receiver already awake, and so is room beside a blocked sender to a sender.
\* ("a blocked thread is always woken", ipc.c)
THEOREM IpcNoneStranded == Spec => []NoneStranded
<1>1. IpcInv => NoneStranded
  <2> SUFFICES ASSUME IpcInv, NEW e \in Endpoints
               PROVE  /\ ~Crossed("recv", e) =>
                            Those("recv", e, "blocked") \subseteq ToSet(ep[e].waiters)
                      /\ ~Crossed("send", e) =>
                            Those("send", e, "blocked") \subseteq ToSet(ep[e].senders)
                      /\ ~Crossed("recv", e) /\ Those("recv", e, "blocked") # {} =>
                            ep[e].count <= Cardinality(Owed("recv", e))
                      /\ ~Crossed("send", e) /\ Those("send", e, "blocked") # {} =>
                            QueueLen - ep[e].count <= Cardinality(Owed("send", e))
    BY DEF NoneStranded, BlockedIsListed, NoStrandedReceiver, NoStrandedSender
  <2>1. \A o \in Ops : /\ Those(o, e, "blocked") \subseteq Listed(o, e)
                       /\ Those(o, e, "blocked") \subseteq Waiting(o, e)
                       /\ Owed(o, e) = Ready(o, e)
    BY DEF Owed, Those, Listed, Waiting, Ready, IsAt
  <2>2. \A o \in Ops : ~Crossed(o, e) =>
                       /\ Listed(o, e) \subseteq ToSet(List(o, e))
                       /\ Waiting(o, e) # {} => Supply(o, e) <= Cardinality(Ready(o, e))
    BY DEF IpcInv, ListsExact, Promised
  <2>3. /\ List("recv", e) = ep[e].waiters /\ List("send", e) = ep[e].senders
        /\ Supply("recv", e) = ep[e].count /\ Supply("send", e) = QueueLen - ep[e].count
        /\ "recv" \in Ops /\ "send" \in Ops
    BY DEF List, Supply, Ops
  <2>4. /\ Those("recv", e, "blocked") # {} => Waiting("recv", e) # {}
        /\ Those("send", e, "blocked") # {} => Waiting("send", e) # {}
    BY <2>1, <2>3
  <2> QED
    BY ONLY <2>1, <2>2, <2>3, <2>4
<1> QED
  BY <1>1, IpcInductive, PTL

----------------------------------------------------------------------------
(* The rings implement channels.                                           *)

\* What a slot and a thread stand for.
ChanOf(E) == IF E.used THEN Queued(E) ELSE <<>>
Chan      == [e \in Endpoints |-> ChanOf(ep[e])]
Got       == [t \in Threads |-> th[t].got]

\* A full queue s run over by m.
Overran(s, m) ==
    [k \in 1 .. Len(s) + 1 |-> IF (Len(s) + 1 - k) % QueueLen = 0 THEN m ELSE s[k]]

\* The abstract step, in terms of the two.
ChannelStep ==
    \/ \E e \in Endpoints, m \in Messages :
          /\ Len(Chan[e]) < QueueLen
          /\ Chan' = [Chan EXCEPT ![e] = Append(Chan[e], m)] /\ Got' = Got
    \/ \E e \in Endpoints, m \in Messages :
          /\ Len(Chan[e]) >= QueueLen
          /\ Chan' = [Chan EXCEPT ![e] = Overran(Chan[e], m)] /\ Got' = Got
    \/ \E e \in Endpoints, t \in Threads :
          /\ Chan[e] # <<>>
          /\ Got' = [Got EXCEPT ![t] = Head(Chan[e])]
          /\ Chan' = [Chan EXCEPT ![e] = Tail(Chan[e])]
    \/ \E t \in Threads : Got' = [Got EXCEPT ![t] = NoMsg] /\ Chan' = Chan
    \/ \E e \in Endpoints : Chan' = [Chan EXCEPT ![e] = <<>>] /\ Got' = Got
    \/ Chan' = Chan /\ Got' = Got

\* Such a step is a step of IpcChannel, or a stutter.
LEMMA AbstractStep == ChannelStep => [Channel!Next]_(Channel!vars)
BY DEF ChannelStep, Chan, Got, ChanOf, Overran, Channel!Next, Channel!vars, Channel!Put,
       Channel!Overrun, Channel!Take, Channel!Forget, Channel!Destroy

\* A message put in behind c others goes where those stand that are whole
\* rounds of the ring before it, and taking the oldest message moves every
\* other one place up.
LEMMA RingPlaces ==
    ASSUME NEW h \in 0 .. QueueLen - 1, NEW c \in Nat, NEW k \in 1 .. c
    PROVE  /\ (h + k - 1) % QueueLen \in 0 .. QueueLen - 1
           /\ ((h + k - 1) % QueueLen = (h + c) % QueueLen) <=> ((c + 1 - k) % QueueLen = 0)
           /\ k < c => (((h + 1) % QueueLen) + k - 1) % QueueLen = (h + (k + 1) - 1) % QueueLen
<1>1. /\ h \in Nat /\ k \in Nat /\ k - 1 \in Nat /\ h + 1 \in Nat
      /\ h + k - 1 \in Nat /\ h + c \in Nat /\ h + k - 1 <= h + c
      /\ (h + c) - (h + k - 1) = c + 1 - k
      /\ (h + 1) + (k - 1) = h + (k + 1) - 1
  BY IpcAssumption
<1>2. (h + k - 1) % QueueLen \in 0 .. QueueLen - 1 /\ (h + 1) % QueueLen \in 0 .. QueueLen - 1
  BY ONLY <1>1, Divided
<1>3. ((h + k - 1) % QueueLen = (h + c) % QueueLen) <=> ((c + 1 - k) % QueueLen = 0)
  <2>1. ((h + k - 1) % QueueLen = (h + c) % QueueLen)
           <=> (((h + c) - (h + k - 1)) % QueueLen = 0)
    BY ONLY <1>1, RoundsApart
  <2> QED
    BY ONLY <1>1, <2>1
<1>4. (((h + 1) % QueueLen) + k - 1) % QueueLen = (h + (k + 1) - 1) % QueueLen
  <2>1. (((h + 1) % QueueLen) + (k - 1)) % QueueLen = ((h + 1) + (k - 1)) % QueueLen
    BY ONLY <1>1, GoingOn
  <2>2. ((h + 1) % QueueLen) + (k - 1) = ((h + 1) % QueueLen) + k - 1
    BY <1>1, <1>2
  <2> QED
    BY ONLY <1>1, <2>1, <2>2
<1> QED
  BY <1>2, <1>3, <1>4

\* The ring read from head, as a sequence of messages.
LEMMA QueuedIsSeq ==
    ASSUME NEW E \in EndpointRecords
    PROVE  Queued(E) \in Seq(Messages) /\ Len(Queued(E)) = E.count
<1>1. E.head \in 0 .. QueueLen - 1 /\ E.count \in Nat
      /\ E.buf \in [0 .. QueueLen - 1 -> Messages]
  BY IpcAssumption DEF EndpointRecords
<1>2. \A k \in 1 .. E.count : (E.head + k - 1) % QueueLen \in 0 .. QueueLen - 1
  BY <1>1, RingPlaces
<1>3. \A k \in 1 .. E.count : E.buf[(E.head + k - 1) % QueueLen] \in Messages
  BY <1>1, <1>2
<1>4. Queued(E) \in [1 .. E.count -> Messages]
  BY <1>3 DEF Queued
<1> QED
  BY <1>1, <1>4

\* ipc_send puts its message behind all that are queued, over those that the
\* ring has no place for.
LEMMA PutOverruns ==
    ASSUME NEW E \in EndpointRecords, NEW F \in EndpointRecords, NEW m \in Messages,
           E.tail = (E.head + E.count) % QueueLen,
           F.head = E.head, F.count = E.count + 1, F.buf = [E.buf EXCEPT ![E.tail] = m]
    PROVE  Queued(F) = Overran(Queued(E), m)
<1> DEFINE h == E.head
           c == E.count
<1>0. /\ QueueLen \in Nat /\ QueueLen > 0 /\ h \in 0 .. QueueLen - 1 /\ c \in Nat
      /\ E.buf \in [0 .. QueueLen - 1 -> Messages] /\ E.tail \in 0 .. QueueLen - 1
      /\ E.tail = (h + c) % QueueLen /\ F.head = h /\ F.count = c + 1
  BY IpcAssumption DEF EndpointRecords
<1>1. Queued(E) \in Seq(Messages) /\ Len(Queued(E)) = c
  BY QueuedIsSeq
<1>2. Queued(F) = [k \in 1 .. c + 1 |-> F.buf[(h + k - 1) % QueueLen]]
  BY <1>0 DEF Queued
<1>3. \A k \in 1 .. c : Queued(E)[k] = E.buf[(h + k - 1) % QueueLen]
  BY DEF Queued
<1>4. Overran(Queued(E), m)
         = [k \in 1 .. c + 1 |-> IF (c + 1 - k) % QueueLen = 0 THEN m ELSE Queued(E)[k]]
  BY ONLY <1>1 DEF Overran
<1> HIDE DEF h, c
<1>5. ASSUME NEW k \in 1 .. c
      PROVE  F.buf[(h + k - 1) % QueueLen]
                = IF (c + 1 - k) % QueueLen = 0 THEN m ELSE Queued(E)[k]
  <2> DEFINE x == (h + k - 1) % QueueLen
  <2>1. x \in 0 .. QueueLen - 1 /\ (x = E.tail <=> (c + 1 - k) % QueueLen = 0)
    <3>1. h \in 0 .. QueueLen - 1 /\ c \in Nat
      BY <1>0
    <3>2. /\ (h + k - 1) % QueueLen \in 0 .. QueueLen - 1
          /\ ((h + k - 1) % QueueLen = (h + c) % QueueLen) <=> ((c + 1 - k) % QueueLen = 0)
      BY ONLY <3>1, <1>5, RingPlaces
    <3> QED
      BY <1>0, <3>2
  <2>2. Queued(E)[k] = E.buf[x]
    BY <1>3
  <2> HIDE DEF x
  <2>3. F.buf[x] = IF x = E.tail THEN m ELSE E.buf[x]
    BY <1>0, <2>1
  <2>4. F.buf[x] = IF (c + 1 - k) % QueueLen = 0 THEN m ELSE Queued(E)[k]
    BY <2>1, <2>2, <2>3
  <2> QED
    BY <2>4 DEF x
<1>6. /\ F.buf[(h + (c + 1) - 1) % QueueLen] = m
      /\ (c + 1 - (c + 1)) % QueueLen = 0
  <2>1. h + (c + 1) - 1 = h + c /\ c + 1 - (c + 1) = 0 /\ 0 % QueueLen = 0
    BY <1>0
  <2>2. F.buf[(h + c) % QueueLen] = m
    BY <1>0
  <2> QED
    BY <2>1, <2>2
<1>7. \A k \in 1 .. c + 1 : F.buf[(h + k - 1) % QueueLen]
                                = IF (c + 1 - k) % QueueLen = 0 THEN m ELSE Queued(E)[k]
  <2>1. \A k \in 1 .. c + 1 : k \in 1 .. c \/ k = c + 1
    BY <1>0
  <2> QED
    BY <1>5, <1>6, <2>1
<1> QED
  BY <1>2, <1>4, <1>7

\* A queue with room is not run over: the message comes last.
LEMMA RoomAppends ==
    ASSUME NEW s \in Seq(Messages), Len(s) < QueueLen, NEW m \in Messages
    PROVE  Overran(s, m) = Append(s, m)
<1>0. QueueLen \in Nat /\ Len(s) \in Nat
  BY IpcAssumption
<1>1. \A k \in 1 .. Len(s) : (Len(s) + 1 - k) % QueueLen # 0
  <2> SUFFICES ASSUME NEW k \in 1 .. Len(s)
               PROVE  (Len(s) + 1 - k) % QueueLen = Len(s) + 1 - k
    BY <1>0
  <2> DEFINE a == Len(s) + 1 - k
  <2>1. a \in Nat /\ a \in 0 .. QueueLen - 1 /\ a = QueueLen * 0 + a
    BY <1>0
  <2> HIDE DEF a
  <2>2. a % QueueLen = a
    BY ONLY <2>1, 0 \in Int, PlaceUnique
  <2> QED
    BY <2>2 DEF a
<1>2. (Len(s) + 1 - (Len(s) + 1)) % QueueLen = 0
  <2>1. Len(s) + 1 - (Len(s) + 1) = 0 /\ 0 % QueueLen = 0
    BY <1>0, IpcAssumption
  <2> QED
    BY <2>1
<1>3. /\ Append(s, m) \in Seq(Messages) /\ Len(Append(s, m)) = Len(s) + 1
      /\ \A k \in 1 .. Len(s) : Append(s, m)[k] = s[k]
      /\ Append(s, m)[Len(s) + 1] = m
  BY AppendProperties
<1>4. \A k \in 1 .. Len(s) + 1 : k \in 1 .. Len(s) \/ k = Len(s) + 1
  BY <1>0
<1>5. \A k \in 1 .. Len(s) + 1 : Append(s, m)[k] = Overran(s, m)[k]
  BY <1>1, <1>2, <1>3, <1>4 DEF Overran
<1>6. Append(s, m) = [k \in 1 .. Len(s) + 1 |-> Append(s, m)[k]]
  BY <1>0, <1>3, LenProperties
<1> QED
  BY <1>5, <1>6 DEF Overran

\* ipc_recv takes the oldest message and leaves the others in their order.
LEMMA TakeIsTail ==
    ASSUME NEW E \in EndpointRecords, NEW F \in EndpointRecords,
           E.count > 0, F.head = (E.head + 1) % QueueLen, F.count = E.count - 1, F.buf = E.buf
    PROVE  /\ Queued(E) # <<>> /\ Head(Queued(E)) = E.buf[E.head]
           /\ Queued(F) = Tail(Queued(E))
<1> DEFINE h == E.head
           c == E.count
<1>0. /\ QueueLen \in Nat /\ QueueLen > 0
      /\ h \in 0 .. QueueLen - 1 /\ c \in Nat /\ c > 0
      /\ F.head = (h + 1) % QueueLen /\ F.count = c - 1
  BY IpcAssumption DEF EndpointRecords
<1>1. Queued(E) \in Seq(Messages) /\ Len(Queued(E)) = c
  BY <1>0, QueuedIsSeq
<1>2. Queued(F) \in Seq(Messages) /\ Len(Queued(F)) = c - 1
  BY <1>0, QueuedIsSeq
<1>3. \A k \in 1 .. c : Queued(E)[k] = E.buf[(h + k - 1) % QueueLen]
  BY DEF Queued
<1>4. \A k \in 1 .. c - 1 : Queued(F)[k] = E.buf[(((h + 1) % QueueLen) + k - 1) % QueueLen]
  BY <1>0 DEF Queued
<1> HIDE DEF h, c
<1>5. ASSUME NEW k \in 1 .. c - 1 PROVE Queued(F)[k] = Queued(E)[k + 1]
  <2>1. k \in 1 .. c /\ k < c /\ k + 1 \in 1 .. c
    BY <1>0
  <2>2. (((h + 1) % QueueLen) + k - 1) % QueueLen = (h + (k + 1) - 1) % QueueLen
    BY <1>0, <2>1, RingPlaces
  <2> QED
    BY <1>3, <1>4, <2>1, <2>2
<1>6. Queued(E) # <<>>
  BY <1>0, <1>1
<1>7. /\ Tail(Queued(E)) \in Seq(Messages) /\ Len(Tail(Queued(E))) = c - 1
      /\ \A k \in 1 .. c - 1 : Tail(Queued(E))[k] = Queued(E)[k + 1]
      /\ Head(Queued(E)) = Queued(E)[1]
  BY <1>0, <1>1, <1>6, HeadTailProperties
<1>8. Head(Queued(E)) = E.buf[E.head]
  <2>1. 1 \in 1 .. c /\ (h + 1 - 1) % QueueLen = h
    BY <1>0
  <2> QED
    BY <1>3, <1>7, <2>1 DEF h
<1>9. \A k \in 1 .. c - 1 : Queued(F)[k] = Tail(Queued(E))[k]
  BY <1>5, <1>7
<1>10. Queued(F) = Tail(Queued(E))
  BY <1>2, <1>7, <1>9, SeqEqual
<1> QED
  BY <1>6, <1>8, <1>10

\* A slot whose queue a step leaves alone, or that it fills with a new
\* endpoint, stands for the same channel.
LEMMA SameChan ==
    ASSUME IpcInv, \A f \in Endpoints : SameQueues(f) \/ IsNew(f)
    PROVE  Chan' = Chan
<1> SUFFICES ASSUME NEW f \in Endpoints PROVE ChanOf(ep'[f]) = ChanOf(ep[f])
  BY DEF Chan, ChanOf, Queued
<1>1. CASE SameQueues(f)
  BY <1>1 DEF SameQueues, ChanOf, Queued
<1>2. CASE IsNew(f)
  <2>1. next_id \in 0 .. MaxId
    BY <1>2, IpcAssumption DEF IsNew, IpcInv, Typed
  <2>2. ep'[f] \in EndpointRecords /\ ep'[f].count = 0
    BY <1>2, <2>1, FreshFields DEF IsNew
  <2>3. Queued(ep'[f]) \in Seq(Messages) /\ Len(Queued(ep'[f])) = 0
    BY <2>1, <2>2, QueuedIsSeq
  <2>4. Queued(ep'[f]) = <<>>
    BY <2>3, EmptySeq
  <2> QED
    BY <1>2, <2>4 DEF IsNew, ChanOf
<1> QED
  BY <1>1, <1>2

\* What a step that wakes threads leaves of what they received.
LEMMA SameGot ==
    ASSUME IpcInv, NEW t \in Threads, NEW r \in ThreadRecords, r.pc # "blocked", NEW S,
           th' = sched_unblock(S, [th EXCEPT ![t] = r])
    PROVE  Got' = [Got EXCEPT ![t] = r.got]
<1>1. /\ th'[t] = r
      /\ \A u \in Threads \ {t} : th'[u].got = th[u].got
  BY Unblocking DEF IpcInv
<1> QED
  BY <1>1 DEF Got

\* A send that goes through puts the message at the end of the channel, or
\* overruns it.
LEMMA SendIsPut ==
    ASSUME IpcInv, NEW t \in Threads, send_put(t)
    PROVE  ChannelStep
<1>0. th[t] \in ThreadRecords /\ InOperation(th[t]) /\ th[t].pc = "look" /\ th[t].msg \in Messages
  BY DEF IpcInv, Typed, send_put, At, ThreadRecords
<1>e. PICK e \in Endpoints : e = th[t].ep
  BY <1>0 DEF InOperation
<1> DEFINE m == th[t].msg
<1>1. /\ ep[e].used
      /\ ep' \in [Endpoints -> EndpointRecords]
      /\ \A f \in Endpoints \ {e} : ep'[f] = ep[f]
      /\ ep'[e].used /\ ep'[e].head = ep[e].head /\ ep'[e].count = ep[e].count + 1
      /\ ep'[e].buf = [ep[e].buf EXCEPT ![ep[e].tail] = m]
      /\ th' = sched_unblock(FirstOf(ep[e].waiters), [th EXCEPT ![t] = Sent(th[t])])
  BY <1>e, SendSteps
<1>2. /\ ep[e] \in EndpointRecords /\ ep'[e] \in EndpointRecords
      /\ ep[e].tail = (ep[e].head + ep[e].count) % QueueLen
  BY <1>1, RingTyped DEF IpcInv, Typed
<1>3. Queued(ep'[e]) = Overran(Queued(ep[e]), m)
  BY <1>0, <1>1, <1>2, PutOverruns
<1>4. Chan[e] = Queued(ep[e]) /\ Chan[e] \in Seq(Messages)
  BY <1>1, <1>2, QueuedIsSeq DEF Chan, ChanOf
<1>5. Chan' = [Chan EXCEPT ![e] = Overran(Chan[e], m)]
  <2>1. ChanOf(ep'[e]) = Overran(Chan[e], m)
    BY <1>1, <1>3, <1>4 DEF ChanOf
  <2>2. \A f \in Endpoints \ {e} : ChanOf(ep'[f]) = Chan[f]
    BY <1>1 DEF Chan
  <2>3. Chan' = [f \in Endpoints |-> ChanOf(ep'[f])]
    BY DEF Chan, ChanOf, Queued
  <2> QED
    BY <2>1, <2>2, <2>3 DEF Chan
<1>6. Sent(th[t]) \in ThreadRecords /\ Sent(th[t]).pc # "blocked" /\ Sent(th[t]).got = th[t].got
  <2>1. CASE th[t].reply = NoEp
    BY <1>0, <2>1, RecordTypes DEF Sent, InOperation
  <2>2. CASE th[t].reply # NoEp
    <3>1. th[t].reply \in Endpoints /\ ep[th[t].reply].id \in 0 .. MaxId
      BY <1>0, <2>2 DEF ThreadRecords, IpcInv, Typed, EndpointRecords
    <3>2. Sent(th[t]) = [th[t] EXCEPT !.op = "recv", !.ep = th[t].reply,
                                      !.want = ep[th[t].reply].id]
      BY <2>2 DEF Sent
    <3> QED
      BY ONLY <1>0, <3>1, <3>2 DEF ThreadRecords
  <2> QED
    BY <2>1, <2>2
<1>7. Got' = Got
  <2>1. Got' = [Got EXCEPT ![t] = th[t].got]
    BY <1>1, <1>6, SameGot
  <2> QED
    BY <2>1 DEF Got
<1> HIDE DEF m
<1>8. m \in Messages
  BY <1>0 DEF m
<1>9. CASE Len(Chan[e]) < QueueLen
  <2>1. Chan' = [Chan EXCEPT ![e] = Append(Chan[e], m)]
    BY <1>4, <1>5, <1>8, <1>9, RoomAppends
  <2> QED
    BY <1>7, <1>8, <1>9, <2>1 DEF ChannelStep
<1>10. CASE Len(Chan[e]) >= QueueLen
  BY <1>5, <1>7, <1>8, <1>10 DEF ChannelStep
<1> QED
  BY <1>4, <1>9, <1>10, IpcAssumption

\* A receive takes the message at the head of the channel, and returns it.
LEMMA RecvIsTake ==
    ASSUME IpcInv, NEW t \in Threads, recv_take(t)
    PROVE  ChannelStep
<1>0. th[t] \in ThreadRecords /\ InOperation(th[t]) /\ th[t].pc = "look"
  BY DEF IpcInv, Typed, recv_take, At
<1>e. PICK e \in Endpoints : e = th[t].ep
  BY <1>0 DEF InOperation
<1> DEFINE m == ep[e].buf[ep[e].head]
<1>1. /\ ep[e].used /\ ep[e].count > 0
      /\ ep' \in [Endpoints -> EndpointRecords]
      /\ \A f \in Endpoints \ {e} : ep'[f] = ep[f]
      /\ ep'[e].used /\ ep'[e].head = (ep[e].head + 1) % QueueLen
      /\ ep'[e].count = ep[e].count - 1 /\ ep'[e].buf = ep[e].buf /\ m \in Messages
      /\ th' = sched_unblock(FirstOf(ep[e].senders), [th EXCEPT ![t] = Returned(th[t], m)])
  BY <1>e, TakeSteps
<1>2. ep[e] \in EndpointRecords /\ ep'[e] \in EndpointRecords
  BY <1>1 DEF IpcInv, Typed
<1>3. /\ Queued(ep[e]) # <<>> /\ Head(Queued(ep[e])) = m
      /\ Queued(ep'[e]) = Tail(Queued(ep[e]))
  BY <1>1, <1>2, TakeIsTail
<1>4. Chan[e] = Queued(ep[e])
  BY <1>1 DEF Chan, ChanOf
<1>5. Chan' = [Chan EXCEPT ![e] = Tail(Chan[e])]
  <2>1. ChanOf(ep'[e]) = Tail(Chan[e])
    BY <1>1, <1>3, <1>4 DEF ChanOf
  <2>2. \A f \in Endpoints \ {e} : ChanOf(ep'[f]) = Chan[f]
    BY <1>1 DEF Chan
  <2>3. Chan' = [f \in Endpoints |-> ChanOf(ep'[f])]
    BY DEF Chan, ChanOf, Queued
  <2> QED
    BY <2>1, <2>2, <2>3 DEF Chan
<1>6. /\ Returned(th[t], m) \in ThreadRecords /\ Returned(th[t], m).pc # "blocked"
      /\ Returned(th[t], m).got = m
  BY <1>0, <1>1, ReturnedTypes
<1> HIDE DEF m
<1>7. Got' = [Got EXCEPT ![t] = Head(Chan[e])]
  BY <1>1, <1>3, <1>4, <1>6, SameGot
<1> QED
  BY <1>3, <1>4, <1>5, <1>7 DEF ChannelStep

\* Dropping the last reference destroys the channel, dropping another one
\* leaves it.
LEMMA UnrefIsDestroy ==
    ASSUME IpcInv, NEW t \in Threads, NEW r \in ThreadRecords, r.pc = "out", r.got = th[t].got,
           NEW e \in Endpoints, ep' = [ep EXCEPT ![e] = Dropped(e)],
           th' = sched_unblock(DropWakes(e), [th EXCEPT ![t] = r])
    PROVE  ChannelStep
<1>1. Got' = Got
  <2>1. Got' = [Got EXCEPT ![t] = th[t].got]
    BY SameGot
  <2> QED
    BY <2>1 DEF Got
<1>2. CASE ep[e].refs > 1
  <2>1. \A f \in Endpoints : SameQueues(f) \/ IsNew(f)
    BY <1>2, DroppedOne
  <2> QED
    BY <1>1, <2>1, SameChan DEF ChannelStep
<1>3. CASE ~(ep[e].refs > 1)
  <2>1. ep[e] \in EndpointRecords /\ ep \in [Endpoints -> EndpointRecords]
    BY DEF IpcInv, Typed
  <2>2. Dropped(e).used = FALSE
    BY ONLY <1>3, <2>1 DEF Dropped, EndpointRecords
  <2>3. ChanOf(ep'[e]) = <<>> /\ \A f \in Endpoints \ {e} : ChanOf(ep'[f]) = Chan[f]
    BY <2>1, <2>2 DEF Chan, ChanOf
  <2>4. Chan' = [f \in Endpoints |-> ChanOf(ep'[f])]
    BY DEF Chan, ChanOf, Queued
  <2>5. Chan' = [Chan EXCEPT ![e] = <<>>]
    BY <2>3, <2>4 DEF Chan
  <2> QED
    BY <1>1, <2>5 DEF ChannelStep
<1> QED
  BY <1>2, <1>3

\* A step that changes no ring and at most puts one thread in a new place.
LEMMA OtherSteps ==
    ASSUME IpcInv, NEW t \in Threads, NEW r \in ThreadRecords, th' = [th EXCEPT ![t] = r],
           r.got = NoMsg \/ r.got = th[t].got,
           \A f \in Endpoints : SameQueues(f) \/ IsNew(f)
    PROVE  ChannelStep
<1>1. Chan' = Chan
  BY SameChan
<1>2. Got' = [Got EXCEPT ![t] = r.got]
  BY DEF Got, IpcInv, Typed
<1>3. CASE r.got = NoMsg
  BY <1>1, <1>2, <1>3 DEF ChannelStep
<1>4. CASE r.got = th[t].got
  <2>1. Got' = Got
    BY <1>2, <1>4 DEF Got
  <2> QED
    BY <1>1, <2>1 DEF ChannelStep
<1> QED
  BY <1>3, <1>4

\* Enlisting a thread and taking it off again leave the rings alone.
LEMMA WaitSteps ==
    ASSUME IpcInv, NEW t \in Threads, waiter_add(t) \/ waiter_remove(t)
    PROVE  ChannelStep
<1>0. th[t] \in ThreadRecords /\ ep \in [Endpoints -> EndpointRecords]
  BY DEF IpcInv, Typed
<1>1. \A f \in Endpoints :
         /\ ep'[f].used = ep[f].used /\ ep'[f].head = ep[f].head
         /\ ep'[f].count = ep[f].count /\ ep'[f].buf = ep[f].buf
  <2>e. PICK e \in Endpoints : e = th[t].ep
    BY DEF IpcInv, InOperation, waiter_add, waiter_remove, At
  <2>1. PICK x : \/ ep' = [ep EXCEPT ![e] = [ep[e] EXCEPT !.waiters = x]]
                 \/ ep' = [ep EXCEPT ![e] = [ep[e] EXCEPT !.senders = x]]
    BY <2>e DEF waiter_add, waiter_remove
  <2>2. /\ [ep[e] EXCEPT !.waiters = x].used = ep[e].used
        /\ [ep[e] EXCEPT !.waiters = x].head = ep[e].head
        /\ [ep[e] EXCEPT !.waiters = x].count = ep[e].count
        /\ [ep[e] EXCEPT !.waiters = x].buf = ep[e].buf
        /\ [ep[e] EXCEPT !.senders = x].used = ep[e].used
        /\ [ep[e] EXCEPT !.senders = x].head = ep[e].head
        /\ [ep[e] EXCEPT !.senders = x].count = ep[e].count
        /\ [ep[e] EXCEPT !.senders = x].buf = ep[e].buf
    <3>1. ep[e] \in EndpointRecords
      BY <1>0
    <3> QED
      BY ONLY <3>1 DEF EndpointRecords
  <2> QED
    BY <1>0, <2>1, <2>2
<1>2. Chan' = Chan
  BY <1>1 DEF Chan, ChanOf, Queued
<1>3. \E p : th' = [th EXCEPT ![t] = [th[t] EXCEPT !.pc = p]]
  BY DEF waiter_add, waiter_remove
<1>4. \A p : [th[t] EXCEPT !.pc = p].got = th[t].got
  BY ONLY <1>0 DEF ThreadRecords
<1>5. Got' = Got
  BY <1>3, <1>4 DEF Got, IpcInv, Typed
<1> QED
  BY <1>2, <1>5 DEF ChannelStep

\* Every step of the endpoints is a step of the channels, or none.
LEMMA NextIsChannelStep ==
    ASSUME IpcInv, [Next]_vars
    PROVE  ChannelStep
<1>0. th \in [Threads -> ThreadRecords] /\ ep \in [Endpoints -> EndpointRecords]
  BY DEF IpcInv, Typed
<1>s. ep' = ep => \A f \in Endpoints : SameQueues(f)
  BY DEF SameQueues
<1>1. ASSUME NEW t \in Threads, NEW e \in Endpoints,
             ipc_endpoint_create(t, e) \/ ipc_endpoint_ref(t, e)
      PROVE  ChannelStep
  <2>1. th' = [th EXCEPT ![t] = th[t]] /\ th[t] \in ThreadRecords
    BY <1>0, <1>1 DEF ipc_endpoint_create, ipc_endpoint_ref
  <2>2. CASE ipc_endpoint_create(t, e)
    <3>1. \A f \in Endpoints : SameQueues(f) \/ IsNew(f)
      BY <2>2, CreatedSlot DEF ipc_endpoint_create, FirstUnused
    <3> QED
      BY <2>1, <3>1, OtherSteps
  <2>3. CASE ipc_endpoint_ref(t, e)
    <3>1. ep' = [ep EXCEPT ![e] = [ep[e] EXCEPT !.refs = ep[e].refs + 1]]
          /\ ep[e] \in EndpointRecords
      BY <1>0, <2>3 DEF ipc_endpoint_ref
    <3> DEFINE E == [ep[e] EXCEPT !.refs = ep[e].refs + 1]
    <3>2. /\ E.used = ep[e].used /\ E.head = ep[e].head /\ E.tail = ep[e].tail
          /\ E.count = ep[e].count /\ E.buf = ep[e].buf
          /\ E.waiters = ep[e].waiters /\ E.senders = ep[e].senders
      BY ONLY <3>1 DEF EndpointRecords
    <3> HIDE DEF E
    <3>3. ep' = [ep EXCEPT ![e] = E]
      BY <3>1 DEF E
    <3>4. \A f \in Endpoints : SameQueues(f)
      BY <1>0, <3>2, <3>3 DEF SameQueues
    <3> QED
      BY <2>1, <3>4, OtherSteps
  <2> QED
    BY <1>1, <2>2, <2>3
<1>2. ASSUME NEW t \in Threads, NEW e \in Endpoints, ipc_endpoint_unref(t, e)
      PROVE  ChannelStep
  <2>1. /\ th[t] \in ThreadRecords /\ th[t].pc = "out"
        /\ ep' = [ep EXCEPT ![e] = Dropped(e)]
        /\ th' = sched_unblock(DropWakes(e), [th EXCEPT ![t] = th[t]])
    BY <1>0, <1>2 DEF ipc_endpoint_unref, Free
  <2> QED
    BY <2>1, UnrefIsDestroy
<1>3. ASSUME NEW t \in Threads, NEW e \in Endpoints,
             \/ begin_recv(t, e)
             \/ \E b \in Bodies : begin_send(t, e, b) \/ ipc_call(t, e, b) \/ ipc_reply(t, e, b)
      PROVE  ChannelStep
  <2>1. IsBegun(t) /\ \A f \in Endpoints : SameQueues(f) \/ IsNew(f)
    BY <1>3, BeginSteps
  <2>2. PICK o \in Ops, f \in Endpoints, i \in 0 .. MaxId, m \in Messages,
             r \in Endpoints \cup {NoEp} : Begin(t, o, f, i, m, r)
    BY <2>1 DEF IsBegun
  <2> DEFINE q == [pc |-> "look", op |-> o, ep |-> f, want |-> i,
                   msg |-> m, reply |-> r, got |-> NoMsg]
  <2>3. q \in ThreadRecords /\ q.got = NoMsg /\ th' = [th EXCEPT ![t] = q]
    BY <2>2, RecordTypes DEF Begin, ThreadRecords, Places, Ops
  <2> HIDE DEF q
  <2> QED
    BY <2>1, <2>3, OtherSteps
<1>4. ASSUME NEW t \in Threads, reply_unresolved(t)
      PROVE  ChannelStep
  BY <1>s, <1>4, UnresolvedSteps, OtherSteps
<1>5. ASSUME NEW t \in Threads, call_close(t)
      PROVE  ChannelStep
  <2> DEFINE r == Outside(th[t].got)
  <2>1. /\ r \in ThreadRecords /\ r.pc = "out" /\ r.got = th[t].got
        /\ \/ \E e \in Endpoints :
                 /\ ep[e].used /\ ep' = [ep EXCEPT ![e] = Dropped(e)]
                 /\ th' = sched_unblock(DropWakes(e), [th EXCEPT ![t] = r])
           \/ ep' = ep /\ th' = [th EXCEPT ![t] = r]
    BY <1>5, CloseSteps
  <2> HIDE DEF r
  <2> QED
    BY <1>s, <2>1, UnrefIsDestroy, OtherSteps
<1>6. ASSUME NEW t \in Threads, look_gone(t) \/ look_again(t)
      PROVE  ChannelStep
  <2>1. /\ ep' = ep /\ th' = [th EXCEPT ![t] = Returned(th[t], NoMsg)]
        /\ th[t] \in ThreadRecords /\ NoMsg \in Messages
    BY <1>0, <1>6, RecordTypes DEF look_gone, look_again
  <2>2. Returned(th[t], NoMsg) \in ThreadRecords /\ Returned(th[t], NoMsg).got = NoMsg
    BY <2>1, ReturnedTypes
  <2> QED
    BY <1>s, <2>1, <2>2, OtherSteps
<1>7. ASSUME NEW t \in Threads, look_empty(t) \/ sched_block(t)
      PROVE  ChannelStep
  <2>1. /\ ep' = ep /\ th[t] \in ThreadRecords
        /\ \E p \in {"enlist", "blocked"} : th' = [th EXCEPT ![t] = [th[t] EXCEPT !.pc = p]]
    BY <1>0, <1>7 DEF look_empty, sched_block
  <2>2. \A p \in {"enlist", "blocked"} :
           /\ [th[t] EXCEPT !.pc = p] \in ThreadRecords
           /\ [th[t] EXCEPT !.pc = p].got = th[t].got
    BY ONLY <2>1 DEF ThreadRecords, Places
  <2> QED
    BY <1>s, <2>1, <2>2, OtherSteps
<1>8. CASE UNCHANGED vars
  BY <1>8 DEF vars, ChannelStep, Chan, ChanOf, Queued, Got
<1> QED
  BY <1>1, <1>2, <1>3, <1>4, <1>5, <1>6, <1>7, <1>8, SendIsPut, RecvIsTake, WaitSteps
     DEF Next, Continue

\* The rings, heads, tails and hand-overs implement first-in first-out
\* channels: no message is duplicated, reordered or given to two receivers, and
\* none is lost but where a send to a waiting receiver runs over a full ring,
\* whatever the number of threads, endpoints and places.
THEOREM IpcImplementsChannel == Spec => ImplementsChannel
<1>1. Init => Channel!Init
  <2> SUFFICES ASSUME Init PROVE Channel!Init
    OBVIOUS
  <2>1. \A e \in Endpoints : ~ep[e].used
    BY DEF Init, FreshEndpoint
  <2>2. \A t \in Threads : th[t].got = NoMsg
    BY DEF Init, Outside
  <2> QED
    BY <2>1, <2>2 DEF Channel!Init
<1>2. IpcInv /\ [Next]_vars => [Channel!Next]_(Channel!vars)
  BY NextIsChannelStep, AbstractStep
<1>3. Spec => []IpcInv
  BY IpcInductive
<1> QED
  BY <1>1, <1>2, <1>3, PTL DEF Spec, ImplementsChannel, Channel!Spec

============================================================================
