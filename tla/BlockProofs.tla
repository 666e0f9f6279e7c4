---------------------------- MODULE BlockProofs ----------------------------
(***************************************************************************)
(* Proofs about the block layer and the virtio driver, for every disk,     *)
(* every size of the request buffer, every queue size and every width of   *)
(* the ring indices.                                                       *)
(*                                                                         *)
(* The driver gives up whenever it likes and the device answers whenever  *)
(* it likes.  What a call promises holds if the driver and the device were *)
(* even when it began: then they are never more than one request apart     *)
(* until the next call, and the invariant can say what stands in the       *)
(* shared buffer at each stage of that one request, a timeout included.    *)
(***************************************************************************)
EXTENDS Block, SequenceTheorems, TLAPS

Codes == {"OK", "busy", "INVAL", "ROFS", "NOTREADY", "TIMEOUT", "IO"}

\* The caller's operation keeps its type.
OpOK == op \in [kind : {"none", "read", "write"}, lba : Nat, count : Nat,
                value : Contents, out : Seq(Contents), current : Nat,
                remaining : Nat, rc : Codes]

Requests == [sector : Nat, type : {"IN", "OUT"}, count : 0 .. RequestSectors]

\* What driver and device exchange keeps its type, in step or not.
Typed ==
    /\ TypeOK
    /\ OpOK
    /\ queue_size \in QueueSizes
    /\ pc \in {"idle", "loop", "wait"}
    /\ header \in [type : {"IN", "OUT"}, sector : Nat]
    /\ desc \in [count : 0 .. RequestSectors, device_writes : BOOLEAN]
    /\ inflight \in Seq(Requests)

\* The sectors dealt with so far, and the ones that the request in hand names.
Done    == op.lba .. op.current - 1
Current == op.current .. op.current + Chunk - 1

\* An operation that passed the checks lies on the disk and has sectors left.
Placed ==
    /\ op.kind \in {"read", "write"}
    /\ op.remaining \in 1 .. op.count
    /\ op.current = op.lba + (op.count - op.remaining)
    /\ op.lba + op.count <= SectorCount

\* The header and the descriptors are those of the next chunk.
Described ==
    /\ header = [type |-> IF op.kind = "read" THEN "IN" ELSE "OUT", sector |-> op.current]
    /\ desc = [count |-> Chunk, device_writes |-> op.kind = "read"]

Request == [sector |-> op.current, type |-> IF op.kind = "read" THEN "IN" ELSE "OUT",
            count |-> Chunk]

\* A read has returned the sectors before those left as they are on the disk.
Faithful ==
    op.kind = "read" =>
        /\ Len(op.out) = op.count - op.remaining
        /\ \A i \in 1 .. Len(op.out) : op.out[i] = disk[op.lba + i - 1]

\* The device has written the sectors of S, and none if the caller reads.
Wrote(S) == touched = IF op.kind = "write" THEN S ELSE {}

\* The request is published, taken, or dropped.
Unanswered ==
    /\ used_index = used_seen
    /\ Wrote(Done)
    /\ \/ inflight = <<>> /\ avail_index = NextIndex(device_seen)
       \/ inflight = <<Request>> /\ avail_index = device_seen
       \/ inflight = <<>> /\ avail_index = device_seen

\* The request is answered, and the driver has not looked yet.
AnsweredOk ==
    /\ cells[Chunk + 1] = StatusOk
    /\ op.kind = "read" => \A k \in 1 .. Chunk : cells[k] = disk[op.current + k - 1]
    /\ Wrote(Done \cup Current)

AnsweredError == cells[Chunk + 1] = StatusError /\ Wrote(Done)

Answering ==
    /\ inflight = <<>> /\ avail_index = device_seen
    /\ used_index = NextIndex(used_seen)
    /\ AnsweredOk \/ AnsweredError

\* The one request of the call in hand, wherever it is.
Underway == Placed /\ Described /\ Faithful /\ (Unanswered \/ Answering)

\* What the last operation left behind.
Outcome == ReadReturnsDisk /\ WritesReachTheirSectors

\* A call that began with nothing outstanding keeps the device to its own
\* request, also after it gave that request up.
Held ==
    /\ pc = "idle" => (Quiet /\ Outcome) \/ (op.rc = "TIMEOUT" /\ Underway)
    /\ pc = "loop" => Quiet /\ Faithful /\ Wrote(Done)
    /\ pc = "wait" => Underway

\* The inductive invariant.
BlockInv ==
    /\ Typed
    /\ pc # "idle" => Placed /\ op.rc = "busy"
    /\ pc = "wait" => Described
    /\ in_step => Held

----------------------------------------------------------------------------
(* Indices, chunks, rings.                                                 *)

\* A ring index stays within its width and moves on every step, so that a
\* counter that has advanced by one is told from one that has not.
LEMMA NextIndexMoves ==
    ASSUME NEW i \in 0 .. IndexMod - 1
    PROVE  NextIndex(i) \in 0 .. IndexMod - 1 /\ NextIndex(i) # i
<1>1. IndexMod \in Nat /\ IndexMod > 2
  BY BlockAssumption
<1> QED
  BY <1>1 DEF NextIndex

\* Two adjacent runs of sectors make one.
LEMMA RunsJoin ==
    ASSUME NEW a \in Nat, NEW c \in Nat, NEW d \in Nat, a <= c
    PROVE  (a .. c - 1) \cup (c .. c + d - 1) = a .. c + d - 1
OBVIOUS

\* The chunk of an operation under way is not empty, fits the buffer, and lies
\* in what is left of the operation and so on the disk.
LEMMA ChunkFits ==
    ASSUME OpOK, Placed
    PROVE  /\ Chunk \in 1 .. RequestSectors /\ Chunk \in Nat
           /\ Chunk <= op.remaining
           /\ op.lba \in Nat /\ op.count \in Nat /\ op.current \in Nat /\ op.remaining \in Nat
           /\ op.lba <= op.current
           /\ op.current + Chunk <= op.lba + op.count
           /\ op.current + Chunk <= SectorCount
<1>1. RequestSectors \in Nat /\ RequestSectors > 0 /\ SectorCount \in Nat
  BY BlockAssumption
<1>2. op.lba \in Nat /\ op.count \in Nat /\ op.current \in Nat /\ op.remaining \in Nat
  BY DEF OpOK
<1>3. /\ op.remaining \in 1 .. op.count
      /\ op.current = op.lba + (op.count - op.remaining)
      /\ op.lba + op.count <= SectorCount
  BY DEF Placed
<1>4. Chunk \in 1 .. RequestSectors /\ Chunk \in Nat /\ Chunk <= op.remaining
  BY ONLY <1>1, <1>2, <1>3 DEF Chunk
<1> QED
  BY ONLY <1>1, <1>2, <1>3, <1>4

\* The rings fit the frames that virtio_setup_queue reserves for them,
\* whatever queue size the device offers.
LEMMA RingsFitAlways ==
    ASSUME queue_size \in QueueSizes
    PROVE  RingsFit
<1>1. queue_size \in 1 .. 256
  BY BlockAssumption DEF VIRTQ_MAX_SIZE
<1>2. used_offset(queue_size) \in {4096, 8192}
  BY <1>1 DEF used_offset, AlignUp, desc_bytes, avail_bytes, PageSize
<1>3. desc_bytes(queue_size) + avail_bytes(queue_size) <= used_offset(queue_size)
  BY <1>1 DEF used_offset, AlignUp, desc_bytes, avail_bytes, PageSize
<1>4. used_offset(queue_size) + 6 + 8 * queue_size <= queue_frames(queue_size) * PageSize
  BY <1>1, <1>2 DEF queue_frames, used_bytes, PageSize
<1> QED
  BY <1>2, <1>3, <1>4 DEF RingsFit, PageSize

\* A request that lies on the disk and is the call's; what the device has
\* written is what the call named.
LEMMA UnderwaySound ==
    ASSUME OpOK, Underway
    PROVE  /\ touched \subseteq Asking /\ (touched # {} => op.kind = "write")
           /\ Len(inflight) <= 1
           /\ \A i \in DOMAIN inflight : SectorsOf(inflight[i]) \subseteq Asking \cap Sectors
<1>0. SectorCount \in Nat
  BY BlockAssumption
<1>1. Placed /\ (Unanswered \/ Answering)
  BY DEF Underway
<1>2. /\ Chunk \in Nat /\ op.lba \in Nat /\ op.count \in Nat /\ op.current \in Nat
      /\ op.lba <= op.current
      /\ op.current + Chunk <= op.lba + op.count
      /\ op.current + Chunk <= SectorCount
  BY <1>1, ChunkFits
<1>3. Done \subseteq Asking /\ Current \subseteq Asking /\ Current \subseteq Sectors
  <2> DEFINE a == op.lba
             b == op.count
             c == op.current
             d == Chunk
  <2>1. /\ a \in Nat /\ b \in Nat /\ c \in Nat /\ d \in Nat
        /\ a <= c /\ c + d <= a + b /\ c + d <= SectorCount
    BY <1>2
  <2> HIDE DEF a, b, c, d
  <2>2. /\ a .. c - 1 \subseteq a .. a + b - 1
        /\ c .. c + d - 1 \subseteq a .. a + b - 1
        /\ c .. c + d - 1 \subseteq 0 .. SectorCount - 1
    BY <1>0, <2>1
  <2> QED
    BY <2>2 DEF Done, Current, Asking, Sectors, a, b, c, d
<1>4. touched \in {{}, Done, Done \cup Current} /\ (touched # {} => op.kind = "write")
  BY <1>1 DEF Wrote, Unanswered, Answering, AnsweredOk, AnsweredError
<1>5. inflight = <<>> \/ inflight = <<Request>>
  BY <1>1 DEF Unanswered, Answering
<1>6. SectorsOf(Request) = Current
  BY DEF SectorsOf, Request, Current
<1>7. Len(inflight) <= 1 /\ \A i \in DOMAIN inflight : inflight[i] = Request
  BY <1>5
<1> QED
  BY <1>3, <1>4, <1>6, <1>7

\* The same of a call between two requests.
LEMMA WroteSound ==
    ASSUME OpOK, Placed, Wrote(Done)
    PROVE  touched \subseteq Asking /\ (touched # {} => op.kind = "write")
<1>1. /\ op.lba \in Nat /\ op.count \in Nat /\ op.current \in Nat /\ Chunk \in Nat
      /\ op.current + Chunk <= op.lba + op.count
  BY ChunkFits
<1>2. Done \subseteq Asking
  BY <1>1 DEF Done, Asking
<1> QED
  BY <1>2 DEF Wrote

\* What the invariant says of the properties.
LEMMA BlockInvImplies ==
    ASSUME BlockInv
    PROVE  RequestsSound /\ ReadReturnsDisk /\ WritesReachTheirSectors
<1> USE DEF BlockInv, Typed
<1>1. RingsFit
  BY RingsFitAlways
<1>2. ASSUME in_step
      PROVE  /\ Len(inflight) <= 1
             /\ \A i \in DOMAIN inflight : SectorsOf(inflight[i]) \subseteq Asking \cap Sectors
  <2>1. Underway \/ Quiet
    BY <1>2 DEF Held
  <2>2. CASE Quiet
    BY <2>2 DEF Quiet, Outstanding
  <2> QED
    BY <2>1, <2>2, UnderwaySound
<1>3. ASSUME in_step
      PROVE  ReadReturnsDisk /\ WritesReachTheirSectors
  <2>1. CASE pc = "idle" /\ Quiet /\ Outcome
    BY <2>1 DEF Outcome
  <2>2. CASE Underway /\ op.rc \in {"busy", "TIMEOUT"}
    BY <2>2, UnderwaySound DEF ReadReturnsDisk, WritesReachTheirSectors
  <2>3. CASE pc = "loop"
    BY <1>3, <2>3, WroteSound DEF Held, ReadReturnsDisk, WritesReachTheirSectors
  <2> QED
    BY <1>3, <2>1, <2>2, <2>3 DEF Held
<1> QED
  BY <1>1, <1>2, <1>3 DEF RequestsSound, RequestsInRange, ReadReturnsDisk,
                          WritesReachTheirSectors

\* The driver and the device at rest, as after initialisation.
LEMMA InitBlockInv == Init => BlockInv
<1> SUFFICES ASSUME Init PROVE BlockInv
  OBVIOUS
<1>0. IndexMod \in Nat /\ IndexMod > 2 /\ RequestSectors \in Nat /\ SectorCount \in Nat
  BY BlockAssumption
<1>1. Zeros \in Contents /\ \A x \in Sectors : <<"disk", x>> \in Contents
  BY DEF Contents
<1>2. OpOK
  <2>1. <<>> \in Seq(Contents)
    OBVIOUS
  <2> QED
    BY <1>1, <2>1 DEF Init, Nothing, OpOK, Codes
<1>3. TypeOK
  <2>1. disk \in [Sectors -> Contents] /\ cells \in [1 .. RequestSectors + 1 -> Contents]
    BY <1>1 DEF Init
  <2>2. desc.count = 0 /\ op.remaining = 0
    BY DEF Init, Nothing
  <2>3. 0 \in 0 .. IndexMod - 1 /\ 0 \in 0 .. RequestSectors /\ 0 \in Nat
    BY <1>0
  <2> QED
    BY <2>1, <2>2, <2>3 DEF Init, TypeOK
<1>4. Quiet /\ pc = "idle" /\ queue_size \in QueueSizes
  BY DEF Init, Quiet, Outstanding
<1>5. /\ header \in [type : {"IN", "OUT"}, sector : Nat]
      /\ desc \in [count : 0 .. RequestSectors, device_writes : BOOLEAN]
      /\ inflight \in Seq(Requests)
  BY <1>0 DEF Init
<1>6. Outcome
  BY DEF Init, Nothing, Outcome, ReadReturnsDisk, WritesReachTheirSectors
<1> QED
  BY <1>2, <1>3, <1>4, <1>5, <1>6 DEF BlockInv, Typed, Held

----------------------------------------------------------------------------
(* One step of the block layer or the driver.                              *)

\* A request on an idle driver begins an operation, or is refused.  Whether it
\* is in step is settled here.
LEMMA CallBlockInv ==
    ASSUME BlockInv, NEW lba \in Lbas, NEW count \in Counts,
           NEW kind \in {"read", "write"}, NEW value \in Contents,
           Begin(kind, lba, count, value) \/ refuse(kind, lba, count)
    PROVE  BlockInv'
<1> USE DEF BlockInv, Typed
<1>0. lba \in Nat /\ count \in Nat /\ SectorCount \in Nat
  BY BlockAssumption
<1>1. /\ pc = "idle" /\ in_step' = Quiet
      /\ disk' = disk /\ cells' = cells /\ desc' = desc /\ header' = header
      /\ used_index' = used_index /\ device_seen' = device_seen /\ inflight' = inflight
      /\ avail_index' = avail_index /\ used_seen' = used_seen
      /\ queue_size' = queue_size /\ touched' = {}
  BY DEF Begin, refuse, deviceVars, setupVars, sharedVars
<1>2. in_step' => Quiet'
  BY <1>1 DEF Quiet, Outstanding
<1>3. <<>> \in Seq(Contents) /\ Zeros \in Contents
  BY DEF Contents
<1>b. in_step' \in BOOLEAN
  BY <1>1 DEF Quiet
<1>4. CASE Begin(kind, lba, count, value)
  <2>1. /\ op' = Asked(kind, lba, count, value) /\ pc' = "loop"
        /\ check_range(lba, count)
    BY <1>4 DEF Begin, Refusal
  <2>2. /\ OpOK'
        /\ op'.kind = kind /\ op'.lba = lba /\ op'.count = count /\ op'.out = <<>>
        /\ op'.current = lba /\ op'.remaining = count /\ op'.rc = "busy"
    BY <1>0, <1>3, <2>1 DEF Asked, OpOK, Codes
  <2>3. count > 0 /\ lba + count <= SectorCount
    BY <2>1 DEF check_range
  <2>4. Placed' /\ Faithful'
    BY <1>0, <2>2, <2>3 DEF Placed, Faithful
  <2>5. Done' = {}
    BY <1>0, <2>2 DEF Done
  <2>6. Wrote(Done)'
    BY <1>1, <2>5 DEF Wrote
  <2>7. TypeOK'
    BY <1>0, <1>1, <1>b, <2>2 DEF TypeOK
  <2> QED
    BY <1>1, <1>2, <2>1, <2>2, <2>4, <2>6, <2>7 DEF Held
<1>5. CASE refuse(kind, lba, count)
  <2>1. PICK rc \in {"INVAL", "ROFS"} :
              op' = [Asked(kind, lba, count, Zeros) EXCEPT !.rc = rc]
    BY <1>5 DEF refuse, Refusal
  <2>2. pc' = "idle"
    BY <1>1, <1>5 DEF refuse
  <2>3. OpOK' /\ op'.rc = rc /\ op'.remaining = count
    BY <1>0, <1>3, <2>1 DEF Asked, OpOK, Codes
  <2>4. Outcome'
    BY <1>1, <2>3 DEF Outcome, ReadReturnsDisk, WritesReachTheirSectors
  <2>5. TypeOK'
    BY <1>0, <1>1, <1>b, <2>3 DEF TypeOK
  <2> QED
    BY <1>1, <1>2, <2>2, <2>3, <2>4, <2>5 DEF Held
<1> QED
  BY <1>4, <1>5

\* The driver gives a call up: between two requests, over an error, or at the
\* spin limit, which leaves the request where it is.
LEMMA FailBlockInv ==
    ASSUME BlockInv, not_ready \/ time_out
    PROVE  BlockInv'
<1> USE DEF BlockInv, Typed
<1>1. PICK rc \in {"NOTREADY", "TIMEOUT"} :
           /\ Return(rc)
           /\ rc = "TIMEOUT" => pc = "wait"
           /\ rc = "NOTREADY" => pc = "loop"
  BY DEF not_ready, time_out
<1>2. /\ pc # "idle" /\ pc' = "idle" /\ in_step' = in_step
      /\ op' = [op EXCEPT !.rc = rc]
      /\ disk' = disk /\ cells' = cells /\ desc' = desc /\ header' = header
      /\ used_index' = used_index /\ device_seen' = device_seen /\ inflight' = inflight
      /\ avail_index' = avail_index /\ used_seen' = used_seen
      /\ queue_size' = queue_size /\ touched' = touched
  BY <1>1 DEF not_ready, time_out, Return, deviceVars, setupVars, sharedVars
<1>3. /\ OpOK' /\ op'.rc = rc /\ op'.kind = op.kind /\ op'.lba = op.lba
      /\ op'.count = op.count /\ op'.out = op.out /\ op'.current = op.current
      /\ op'.remaining = op.remaining
  BY <1>2 DEF OpOK, Codes
<1>4. TypeOK'
  BY <1>2, <1>3 DEF TypeOK
<1>5. in_step => Held'
  <2> SUFFICES ASSUME in_step PROVE Held'
    OBVIOUS
  <2>1. CASE rc = "NOTREADY"
    <3>1. Quiet /\ Placed /\ Wrote(Done)
      BY <1>1, <2>1 DEF Held
    <3>2. touched \subseteq Asking /\ (touched # {} => op.kind = "write")
      BY <3>1, WroteSound
    <3>3. Asking' = Asking
      BY <1>3 DEF Asking
    <3>4. Quiet' /\ Outcome'
      BY <1>2, <1>3, <2>1, <3>1, <3>2, <3>3
      DEF Quiet, Outstanding, Outcome, ReadReturnsDisk, WritesReachTheirSectors
    <3> QED
      BY <1>2, <3>4 DEF Held
  <2>2. CASE rc = "TIMEOUT"
    <3>1. Underway
      BY <1>1, <2>2 DEF Held
    <3>2. Chunk' = Chunk /\ Done' = Done /\ Current' = Current
      BY <1>3 DEF Chunk, Done, Current
    <3>3. Request' = Request
      BY <1>3, <3>2 DEF Request
    <3>4. Placed' /\ Described' /\ Faithful'
      BY <1>2, <1>3, <3>1, <3>2 DEF Underway, Placed, Described, Faithful
    <3>5. Unanswered => Unanswered'
      BY <1>2, <1>3, <3>2, <3>3 DEF Unanswered, Wrote
    <3>6. Answering => Answering'
      BY <1>2, <1>3, <3>2 DEF Answering, AnsweredOk, AnsweredError, Wrote
    <3> QED
      BY <1>2, <1>3, <2>2, <3>1, <3>4, <3>5, <3>6 DEF Held, Underway
  <2> QED
    BY <2>1, <2>2
<1> QED
  BY <1>2, <1>3, <1>4, <1>5

\* The driver publishes the next chunk.
LEMMA PublishBlockInv ==
    ASSUME BlockInv, publish
    PROVE  BlockInv'
<1> USE DEF BlockInv, Typed
<1>0. RequestSectors \in Nat
  BY BlockAssumption
<1>1. /\ pc = "loop" /\ pc' = "wait" /\ in_step' = in_step
      /\ Placed /\ op.rc = "busy" /\ in_step => Held
      /\ header' = [type |-> IF op.kind = "read" THEN "IN" ELSE "OUT", sector |-> op.current]
      /\ cells' = [cells EXCEPT ![Chunk + 1] = StatusUnset]
      /\ desc' = [count |-> Chunk, device_writes |-> op.kind = "read"]
      /\ avail_index' = NextIndex(avail_index)
      /\ disk' = disk /\ used_index' = used_index /\ device_seen' = device_seen
      /\ inflight' = inflight /\ touched' = touched
      /\ queue_size' = queue_size /\ used_seen' = used_seen /\ op' = op
  BY DEF publish, deviceVars, setupVars
<1>2. Chunk \in 1 .. RequestSectors /\ op.current \in Nat
  BY <1>1, ChunkFits
<1>3. Chunk' = Chunk /\ Done' = Done /\ OpOK'
  BY <1>1 DEF Chunk, Done, OpOK
<1>4. Placed' /\ op'.rc = "busy"
  BY <1>1 DEF Placed
<1>5. Described'
  BY <1>1, <1>3 DEF Described
<1>6. in_step => Underway'
  <2> SUFFICES ASSUME in_step PROVE Underway'
    OBVIOUS
  <2>1. Quiet /\ Faithful /\ Wrote(Done)
    BY <1>1 DEF Held
  <2>2. Unanswered'
    BY <1>1, <1>3, <2>1 DEF Unanswered, Quiet, Outstanding, Wrote
  <2>3. Faithful'
    BY <1>1, <2>1 DEF Faithful
  <2> QED
    BY <1>4, <1>5, <2>2, <2>3 DEF Underway
<1>7. /\ header' \in [type : {"IN", "OUT"}, sector : Nat]
      /\ desc' \in [count : 0 .. RequestSectors, device_writes : BOOLEAN]
      /\ desc'.count \in 0 .. RequestSectors
  BY <1>0, <1>1, <1>2
<1>8. TypeOK'
  <2>1. StatusUnset \in Contents
    BY DEF Contents, Statuses
  <2>2. cells' \in [1 .. RequestSectors + 1 -> Contents]
    BY <1>1, <2>1 DEF TypeOK
  <2>3. avail_index' \in 0 .. IndexMod - 1
    BY <1>1, NextIndexMoves DEF TypeOK
  <2> QED
    BY <1>1, <1>7, <2>2, <2>3 DEF TypeOK
<1> QED
  BY <1>1, <1>3, <1>4, <1>5, <1>6, <1>7, <1>8 DEF Held

\* The driver looks at an answer: a chunk is done, or the operation fails.
LEMMA CompleteBlockInv ==
    ASSUME BlockInv, complete
    PROVE  BlockInv'
<1> USE DEF BlockInv, Typed
<1>0. RequestSectors \in Nat /\ SectorCount \in Nat
  BY BlockAssumption
<1>1. /\ pc = "wait" /\ used_index # used_seen /\ in_step' = in_step
      /\ used_seen' = NextIndex(used_seen)
      /\ disk' = disk /\ desc' = desc /\ header' = header /\ touched' = touched
      /\ used_index' = used_index /\ device_seen' = device_seen /\ inflight' = inflight
      /\ avail_index' = avail_index /\ queue_size' = queue_size
  BY DEF complete, deviceVars, setupVars, Return
<1>2. Placed /\ op.rc = "busy" /\ Described
  BY <1>1
<1>3. /\ Chunk \in 1 .. RequestSectors /\ Chunk \in Nat
      /\ Chunk <= op.remaining
      /\ op.lba \in Nat /\ op.count \in Nat /\ op.current \in Nat /\ op.remaining \in Nat
      /\ op.lba <= op.current
      /\ op.current + Chunk <= op.lba + op.count
      /\ op.current + Chunk <= SectorCount
  BY <1>2, ChunkFits
<1>4. desc.count = Chunk /\ desc.device_writes = (op.kind = "read")
  BY <1>2 DEF Described
<1>5. used_seen' \in 0 .. IndexMod - 1
  BY <1>1, NextIndexMoves DEF TypeOK
<1>6. /\ StatusOk \in Statuses /\ StatusError \in Statuses /\ StatusOk # StatusError
      /\ ReadsAsZero(StatusOk) = {TRUE} /\ ReadsAsZero(StatusError) = {FALSE}
  BY DEF Statuses, StatusOk, StatusError, ReadsAsZero
<1>7. in_step => Faithful /\ Answering /\ Quiet'
  <2> SUFFICES ASSUME in_step PROVE Faithful /\ Answering /\ Quiet'
    OBVIOUS
  <2>1. Faithful /\ Answering
    BY <1>1 DEF Held, Underway, Unanswered
  <2> QED
    BY <1>1, <2>1 DEF Answering, Quiet, Outstanding
<1>8. CASE FALSE \in Succeeds /\ Return("IO") /\ UNCHANGED cells
  <2>1. /\ pc' = "idle" /\ OpOK' /\ op'.rc = "IO" /\ op'.kind = op.kind /\ op'.lba = op.lba
        /\ op'.count = op.count /\ op'.remaining = op.remaining
    BY <1>8 DEF Return, OpOK, Codes
  <2>2. TypeOK'
    BY <1>1, <1>5, <1>8, <2>1 DEF TypeOK
  <2>3. in_step => Outcome'
    <3> SUFFICES ASSUME in_step PROVE Outcome'
      OBVIOUS
    <3>1. touched \subseteq Asking /\ (touched # {} => op.kind = "write")
      BY <1>1, UnderwaySound DEF Held
    <3>2. Asking' = Asking
      BY <2>1 DEF Asking
    <3> QED
      BY <1>1, <2>1, <3>1, <3>2 DEF Outcome, ReadReturnsDisk, WritesReachTheirSectors
  <2> QED
    BY <1>1, <1>7, <2>1, <2>2, <2>3 DEF Held
<1>9. CASE /\ TRUE \in Succeeds /\ copy_data
           /\ pc' = IF op'.rc = "OK" THEN "idle" ELSE "loop"
  <2> DEFINE left == op.remaining - Chunk
             code == IF left = 0 THEN "OK" ELSE "busy"
  <2>1. in_step => AnsweredOk
    BY <1>4, <1>6, <1>7, <1>9 DEF Answering, AnsweredError, Succeeds
  <2>2. copy_data /\ pc' = IF op'.rc = "OK" THEN "idle" ELSE "loop"
    BY <1>9
  <2>3. left \in Nat /\ code \in Codes
    BY <1>3 DEF Codes
  <2>4. Advanced = [op EXCEPT !.current = op.current + Chunk, !.remaining = left]
    BY <1>4 DEF Advanced
  <2>a. op.current + Chunk \in Nat
    BY <1>3
  <2> HIDE DEF left, code
  <2>5. /\ Advanced.remaining = left
        /\ Advanced \in [kind : {"none", "read", "write"}, lba : Nat, count : Nat,
                         value : Contents, out : Seq(Contents), current : Nat,
                         remaining : Nat, rc : Codes]
        /\ Advanced.out = op.out /\ Advanced.kind = op.kind /\ Advanced.lba = op.lba
        /\ Advanced.count = op.count /\ Advanced.current = op.current + Chunk
    BY <2>3, <2>4, <2>a DEF OpOK
  <2>6. /\ op'.kind = op.kind /\ op'.lba = op.lba /\ op'.count = op.count
        /\ op'.current = op.current + Chunk /\ op'.remaining = left /\ op'.rc = code
        /\ OpOK'
        /\ op.kind = "read" => op'.out = op.out \o SubSeq(cells, 1, Chunk) /\ cells' = cells
        /\ cells' \in [1 .. RequestSectors + 1 -> Contents]
    <3>1. CASE op.kind = "read"
      <4>1. cells \in Seq(Contents) /\ Len(cells) = RequestSectors + 1
        <5>1. cells \in [1 .. RequestSectors + 1 -> Contents] /\ RequestSectors + 1 \in Nat
          BY <1>0 DEF TypeOK
        <5> QED
          BY ONLY <5>1, IsASeq
      <4>2. SubSeq(cells, 1, Chunk) \in Seq(Contents)
        BY <1>0, <1>3, <4>1, SubSeqProperties
      <4>3. op.out \o SubSeq(cells, 1, Chunk) \in Seq(Contents)
        BY <4>2, ConcatProperties DEF OpOK
      <4>4. op' = [Advanced EXCEPT !.out = op.out \o SubSeq(cells, 1, Chunk), !.rc = code]
        BY <1>4, <2>2, <2>5, <3>1 DEF copy_data, code
      <4>5. cells' = cells
        BY <1>4, <2>2, <3>1 DEF copy_data
      <4> HIDE DEF Advanced
      <4> QED
        BY <2>3, <2>5, <4>3, <4>4, <4>5 DEF OpOK, TypeOK
    <3>2. CASE op.kind # "read"
      <4>1. op' = [Advanced EXCEPT !.rc = code]
        BY <1>4, <2>2, <2>5, <3>2 DEF copy_data, code
      <4>2. cells' = [k \in DOMAIN cells |-> IF k <= Chunk THEN op.value ELSE cells[k]]
        BY <1>4, <2>2, <3>2 DEF copy_data
      <4>3. cells' \in [1 .. RequestSectors + 1 -> Contents]
        BY <4>2 DEF TypeOK, OpOK
      <4> HIDE DEF Advanced
      <4> QED
        BY <2>3, <2>5, <3>2, <4>1, <4>3 DEF OpOK
    <3> QED
      BY <3>1, <3>2
  <2>7. TypeOK'
    BY <1>1, <1>5, <2>3, <2>6 DEF TypeOK
  <2>8. in_step /\ op.kind = "read" =>
           /\ Len(op'.out) = op.count - left
           /\ \A i \in 1 .. Len(op'.out) : op'.out[i] = disk[op.lba + i - 1]
    <3> SUFFICES ASSUME in_step, op.kind = "read"
                 PROVE  /\ Len(op'.out) = op.count - left
                        /\ \A i \in 1 .. Len(op'.out) : op'.out[i] = disk[op.lba + i - 1]
      OBVIOUS
    <3> DEFINE n == Len(op.out)
               new == SubSeq(cells, 1, Chunk)
    <3>1. cells \in Seq(Contents) /\ Len(cells) = RequestSectors + 1 /\ op.out \in Seq(Contents)
      BY <1>0, IsASeq DEF TypeOK, OpOK
    <3>2. new \in Seq(Contents) /\ Len(new) = Chunk /\ \A k \in 1 .. Chunk : new[k] = cells[k]
      BY <1>0, <1>3, <3>1, SubSeqProperties
    <3> HIDE DEF new
    <3>a. /\ Len(op.out \o new) = n + Chunk
          /\ \A i \in 1 .. n + Chunk :
                (op.out \o new)[i] = IF i <= n THEN op.out[i] ELSE new[i - n]
      BY ONLY <3>1, <3>2, ConcatProperties DEF n
    <3>b. op'.out = op.out \o new
      BY <2>6 DEF new
    <3>3. /\ Len(op'.out) = n + Chunk
          /\ \A i \in 1 .. n + Chunk : op'.out[i] = IF i <= n THEN op.out[i] ELSE new[i - n]
      BY <3>a, <3>b
    <3>4. /\ n \in Nat /\ n = op.count - op.remaining
          /\ op.current = op.lba + n
          /\ \A i \in 1 .. n : op.out[i] = disk[op.lba + i - 1]
      BY <1>2, <1>3, <1>7, <3>1 DEF Placed, Faithful
    <3>5. \A k \in 1 .. Chunk : cells[k] = disk[op.current + k - 1]
      BY <2>1 DEF AnsweredOk
    <3> HIDE DEF n
    <3>6. n + Chunk = op.count - left
      BY ONLY <1>3, <3>4 DEF left
    <3>7. ASSUME NEW i \in 1 .. n + Chunk
          PROVE  op'.out[i] = disk[op.lba + i - 1]
      <4>1. CASE i <= n
        BY <1>3, <3>3, <3>4, <4>1
      <4>2. CASE i > n
        <5>1. i - n \in 1 .. Chunk /\ op.current + (i - n) - 1 = op.lba + i - 1
          BY ONLY <1>3, <3>4, <3>7, <4>2
        <5>2. op'.out[i] = new[i - n]
          BY <1>3, <3>3, <3>4, <4>2
        <5> QED
          BY <3>2, <3>5, <5>1, <5>2
      <4> QED
        BY <1>3, <3>4, <4>1, <4>2
    <3> QED
      BY <3>3, <3>6, <3>7
  <2>9. in_step => touched = IF op.kind = "write" THEN op.lba .. op.current + Chunk - 1 ELSE {}
    <3>1. Done \cup Current = op.lba .. op.current + Chunk - 1
      BY <1>3, RunsJoin DEF Done, Current
    <3> QED
      BY <2>1, <3>1 DEF AnsweredOk, Wrote
  <2>10. CASE left = 0
    <3>1. op'.rc = "OK" /\ pc' = "idle" /\ op.current + Chunk = op.lba + op.count
      BY <1>2, <1>3, <2>2, <2>6, <2>10 DEF code, left, Placed
    <3>2. ReadReturnsDisk'
      <4> SUFFICES ASSUME in_step, op.kind = "read"
                   PROVE  op'.out = [i \in 1 .. op.count |-> disk[op.lba + i - 1]]
        BY <1>1, <2>6 DEF ReadReturnsDisk
      <4>1. op'.out \in Seq(Contents) /\ Len(op'.out) = op.count
        BY <1>3, <2>6, <2>8, <2>10 DEF OpOK
      <4>2. op'.out \in [1 .. op.count -> Contents]
        BY <4>1, LenProperties
      <4> QED
        BY <2>8, <4>1, <4>2
    <3>3. WritesReachTheirSectors'
      <4> SUFFICES ASSUME in_step
                   PROVE  /\ touched' \subseteq Asking'
                          /\ touched' # {} => op'.kind = "write"
                          /\ op'.kind = "write" /\ op'.rc = "OK" => touched' = Asking'
        BY <1>1 DEF WritesReachTheirSectors
      <4>1. Asking' = op.lba .. op.lba + op.count - 1
        BY <2>6 DEF Asking
      <4>2. op.kind = "write" => touched' = Asking'
        <5>1. touched' = touched
          BY <1>1
        <5>2. op.current + Chunk - 1 = op.lba + op.count - 1
          BY ONLY <1>3, <3>1
        <5> QED
          BY <2>9, <4>1, <5>1, <5>2
      <4>3. op.kind # "write" => touched' = {}
        BY <1>1, <2>9
      <4> QED
        BY <2>6, <4>2, <4>3
    <3> QED
      BY <1>1, <1>7, <2>6, <2>7, <3>1, <3>2, <3>3 DEF Outcome, Held
  <2>11. CASE left # 0
    <3>1. op'.rc = "busy" /\ pc' = "loop"
      BY <2>2, <2>6, <2>11 DEF code
    <3>2. left \in 1 .. op.count /\ op.current + Chunk = op.lba + (op.count - left)
      <4>1. op.remaining <= op.count /\ op.current = op.lba + (op.count - op.remaining)
        BY <1>2, <1>3 DEF Placed
      <4>2. left = op.remaining - Chunk
        BY DEF left
      <4> QED
        BY ONLY <1>3, <2>3, <2>11, <4>1, <4>2
    <3>3. Placed'
      BY <1>1, <1>2, <2>6, <3>1, <3>2 DEF Placed
    <3>4. in_step => Wrote(Done)' /\ Faithful'
      <4>1. Done' = op.lba .. op.current + Chunk - 1
        BY <1>3, <2>6 DEF Done
      <4> QED
        BY <1>1, <2>6, <2>8, <2>9, <4>1 DEF Wrote, Faithful
    <3> QED
      BY <1>1, <1>7, <2>6, <2>7, <3>1, <3>3, <3>4 DEF Held
  <2> QED
    BY <2>10, <2>11
<1> QED
  BY <1>8, <1>9 DEF complete

----------------------------------------------------------------------------
(* One step of the device.                                                 *)

\* What every step of the device leaves alone.
LEMMA DeviceLeaves ==
    ASSUME Device
    PROVE  /\ op' = op /\ pc' = pc /\ in_step' = in_step /\ queue_size' = queue_size
           /\ header' = header /\ desc' = desc /\ avail_index' = avail_index
           /\ used_seen' = used_seen
           /\ Chunk' = Chunk /\ Done' = Done /\ Current' = Current /\ Request' = Request
BY DEF Device, device_fetch, device_read, device_write, device_error, device_drop, Answered,
       setupVars, sharedVars, callVars, Chunk, Done, Current, Request

\* Whatever the device works on, late or not, it keeps the types.
LEMMA DeviceTyped ==
    ASSUME Typed, Device
    PROVE  Typed'
<1> USE DEF Typed
<1>0. RequestSectors \in Nat /\ SectorCount \in Nat
  BY BlockAssumption
<1>1. /\ op' = op /\ pc' = pc /\ in_step' = in_step /\ queue_size' = queue_size
      /\ header' = header /\ desc' = desc /\ avail_index' = avail_index
      /\ used_seen' = used_seen
  BY DeviceLeaves
<1>2. OpOK'
  BY <1>1 DEF OpOK
<1>3. disk \in [Sectors -> Contents] /\ cells \in [1 .. RequestSectors + 1 -> Contents]
  BY DEF TypeOK
<1>4. StatusOk \in Contents /\ StatusError \in Contents
  BY DEF Contents, Statuses
<1>5. CASE device_fetch
  <2>1. device_seen' \in 0 .. IndexMod - 1
    BY <1>5, NextIndexMoves DEF device_fetch, TypeOK
  <2>2. [sector |-> header.sector, type |-> header.type, count |-> desc.count] \in Requests
    BY DEF Requests
  <2>3. inflight' \in Seq(Requests)
    BY <1>5, <2>2, AppendProperties DEF device_fetch
  <2>4. disk' = disk /\ cells' = cells /\ used_index' = used_index
    BY <1>5 DEF device_fetch, sharedVars
  <2> QED
    BY <1>1, <1>2, <2>1, <2>3, <2>4 DEF TypeOK
<1>6. CASE device_drop
  <2>1. /\ inflight' \in Seq(Requests)
        /\ disk' = disk /\ cells' = cells /\ used_index' = used_index
        /\ device_seen' = device_seen
    BY <1>6, HeadTailProperties DEF device_drop, sharedVars
  <2> QED
    BY <1>1, <1>2, <2>1 DEF TypeOK
<1>7. CASE device_read \/ device_write \/ device_error
  <2> DEFINE r == Head(inflight)
  <2>1. inflight # <<>> /\ Answered
    BY <1>7 DEF device_read, device_write, device_error
  <2>2. r \in Requests /\ Tail(inflight) \in Seq(Requests)
    BY <2>1, HeadTailProperties
  <2>3. r.sector \in Nat /\ r.count \in 0 .. RequestSectors /\ r.count \in Nat
    BY <1>0, <2>2 DEF Requests
  <2> HIDE DEF r
  <2>4. /\ used_index' \in 0 .. IndexMod - 1 /\ device_seen' = device_seen
        /\ inflight' \in Seq(Requests)
    BY <2>1, <2>2, NextIndexMoves DEF Answered, TypeOK
  <2>5. disk' \in [Sectors -> Contents] /\ cells' \in [1 .. RequestSectors + 1 -> Contents]
    <3>1. CASE device_read
      <4>1. /\ SectorsOf(r) \subseteq Sectors /\ disk' = disk
            /\ cells' = [k \in DOMAIN cells |->
                           IF k <= r.count THEN disk[r.sector + k - 1]
                           ELSE IF k = r.count + 1 THEN StatusOk ELSE cells[k]]
        BY <3>1 DEF device_read, r
      <4>2. ASSUME NEW k \in 1 .. RequestSectors + 1, k <= r.count
            PROVE  disk[r.sector + k - 1] \in Contents
        <5>1. r.sector + k - 1 \in r.sector .. r.sector + r.count - 1
          BY <1>0, <2>3, <4>2
        <5>2. r.sector + k - 1 \in Sectors
          BY <4>1, <5>1 DEF SectorsOf
        <5> QED
          BY <1>3, <5>2
      <4> QED
        BY <1>3, <1>4, <4>1, <4>2
    <3>2. CASE device_write
      <4>1. /\ SectorsOf(r) \subseteq Sectors
            /\ disk' = [x \in Sectors |-> IF x \in SectorsOf(r)
                                           THEN cells[x - r.sector + 1] ELSE disk[x]]
            /\ cells' = [cells EXCEPT ![r.count + 1] = StatusOk]
        BY <3>2 DEF device_write, r
      <4>2. ASSUME NEW x \in SectorsOf(r)
            PROVE  cells[x - r.sector + 1] \in Contents
        <5>1. x - r.sector + 1 \in 1 .. RequestSectors + 1
          BY <1>0, <2>3 DEF SectorsOf
        <5> QED
          BY <1>3, <5>1
      <4> QED
        BY <1>3, <1>4, <4>1, <4>2
    <3>3. CASE device_error
      <4>1. disk' = disk /\ cells' = [cells EXCEPT ![r.count + 1] = StatusError]
        BY <3>3 DEF device_error, r
      <4> QED
        BY <1>3, <1>4, <4>1
    <3> QED
      BY <1>7, <3>1, <3>2, <3>3
  <2> QED
    BY <1>1, <1>2, <2>4, <2>5 DEF TypeOK
<1> QED
  BY <1>5, <1>6, <1>7 DEF Device

\* The device takes the request, which is the one the driver described, or
\* drops it, and no answer will come.
LEMMA TakenUnderway ==
    ASSUME Typed, Underway, device_fetch \/ device_drop
    PROVE  Underway'
<1>1. /\ op' = op /\ header' = header /\ desc' = desc /\ avail_index' = avail_index
      /\ used_seen' = used_seen
      /\ Chunk' = Chunk /\ Done' = Done /\ Request' = Request
  BY DeviceLeaves DEF Device
<1>2. disk' = disk /\ touched' = touched /\ used_index' = used_index
  BY DEF device_fetch, device_drop
<1>3. Placed' /\ Described' /\ Faithful'
  BY <1>1, <1>2 DEF Underway, Placed, Described, Faithful
<1>4. CASE device_fetch
  <2>1. /\ device_seen # avail_index
        /\ device_seen' = NextIndex(device_seen)
        /\ inflight' = Append(inflight, [sector |-> header.sector, type |-> header.type,
                                         count |-> desc.count])
    BY <1>4 DEF device_fetch
  <2>2. Unanswered /\ inflight = <<>> /\ avail_index = NextIndex(device_seen)
    BY <2>1 DEF Underway, Unanswered, Answering
  <2>3. inflight' = <<Request>>
    BY <2>1, <2>2 DEF Underway, Described, Request
  <2>4. Unanswered'
    BY <1>1, <1>2, <2>1, <2>2, <2>3 DEF Unanswered, Wrote
  <2> QED
    BY <1>3, <2>4 DEF Underway
<1>5. CASE device_drop
  <2>1. inflight # <<>> /\ inflight' = Tail(inflight) /\ device_seen' = device_seen
    BY <1>5 DEF device_drop
  <2>2. Unanswered /\ inflight = <<Request>> /\ avail_index = device_seen
    BY <2>1 DEF Underway, Unanswered, Answering
  <2>3. inflight' = <<>>
    BY <2>1, <2>2
  <2>4. Unanswered'
    BY <1>1, <1>2, <2>1, <2>2, <2>3 DEF Unanswered, Wrote
  <2> QED
    BY <1>3, <2>4 DEF Underway
<1> QED
  BY <1>4, <1>5

\* An answer: the status, and what goes with it, is in place before the
\* driver can see the counter move.
LEMMA AnsweredUnderway ==
    ASSUME Typed, Underway, device_read \/ device_write \/ device_error
    PROVE  Underway'
<1> USE DEF Typed
<1>0. RequestSectors \in Nat /\ SectorCount \in Nat
  BY BlockAssumption
<1>1. inflight # <<>> /\ Answered
  BY DEF device_read, device_write, device_error
<1>2. /\ op' = op /\ header' = header /\ desc' = desc /\ avail_index' = avail_index
      /\ used_seen' = used_seen
      /\ Chunk' = Chunk /\ Done' = Done /\ Current' = Current
  BY DeviceLeaves DEF Device
<1>3. /\ Placed /\ Described /\ Faithful
      /\ inflight = <<Request>> /\ avail_index = device_seen /\ used_index = used_seen
      /\ Wrote(Done) /\ desc.count = Chunk
  BY <1>1 DEF Underway, Unanswered, Answering, Described
<1>4. Head(inflight) = Request /\ Tail(inflight) = <<>>
  BY <1>3
<1>5. /\ Chunk \in 1 .. RequestSectors /\ Chunk \in Nat
      /\ op.lba \in Nat /\ op.count \in Nat /\ op.current \in Nat
      /\ op.current + Chunk <= SectorCount
  BY <1>3, ChunkFits
<1>6. /\ Request.sector = op.current /\ Request.count = Chunk
      /\ Request.type = IF op.kind = "read" THEN "IN" ELSE "OUT"
      /\ SectorsOf(Request) = Current
  BY DEF Request, SectorsOf, Current
<1>7. cells \in [1 .. RequestSectors + 1 -> Contents]
  BY DEF TypeOK
<1>8. Placed' /\ Described'
  BY <1>2, <1>3 DEF Placed, Described
<1>9. /\ inflight' = <<>> /\ avail_index' = device_seen'
      /\ used_index' = NextIndex(used_seen')
  BY <1>1, <1>2, <1>3, <1>4 DEF Answered
<1>10. (AnsweredOk' \/ AnsweredError') /\ (op.kind = "read" => disk' = disk)
  <2>1. CASE device_read
    <3>1. /\ op.kind = "read" /\ disk' = disk /\ touched' = touched
          /\ cells' = [k \in DOMAIN cells |->
                          IF k <= Chunk THEN disk[op.current + k - 1]
                          ELSE IF k = Chunk + 1 THEN StatusOk ELSE cells[k]]
      BY <1>4, <1>6, <2>1 DEF device_read
    <3>2. /\ cells'[Chunk + 1] = StatusOk
          /\ \A k \in 1 .. Chunk : cells'[k] = disk[op.current + k - 1]
      BY <1>0, <1>5, <1>7, <3>1
    <3>3. AnsweredOk'
      BY <1>2, <1>3, <3>1, <3>2 DEF AnsweredOk, Wrote
    <3> QED
      BY <3>1, <3>3
  <2>2. CASE device_write
    <3>1. /\ op.kind = "write" /\ touched' = touched \cup Current
          /\ cells' = [cells EXCEPT ![Chunk + 1] = StatusOk]
      BY <1>3, <1>4, <1>6, <2>2 DEF device_write, Placed
    <3>2. cells'[Chunk + 1] = StatusOk
      BY <1>0, <1>5, <1>7, <3>1
    <3>3. AnsweredOk'
      BY <1>2, <1>3, <3>1, <3>2 DEF AnsweredOk, Wrote
    <3> QED
      BY <3>1, <3>3
  <2>3. CASE device_error
    <3>1. /\ disk' = disk /\ touched' = touched
          /\ cells' = [cells EXCEPT ![Chunk + 1] = StatusError]
      BY <1>4, <1>6, <2>3 DEF device_error
    <3>2. cells'[Chunk + 1] = StatusError
      BY <1>0, <1>5, <1>7, <3>1
    <3>3. AnsweredError'
      BY <1>2, <1>3, <3>1, <3>2 DEF AnsweredError, Wrote
    <3> QED
      BY <3>1, <3>3
  <2> QED
    BY <2>1, <2>2, <2>3
<1>11. Faithful'
  BY <1>2, <1>3, <1>10 DEF Faithful
<1> QED
  BY <1>8, <1>9, <1>10, <1>11 DEF Underway, Answering

\* A step of the device, whose request may be of the call in hand or of one
\* given up long ago.
LEMMA DeviceBlockInv ==
    ASSUME BlockInv, Device
    PROVE  BlockInv'
<1> USE DEF BlockInv
<1>1. Typed'
  BY DeviceTyped
<1>2. op' = op /\ pc' = pc /\ in_step' = in_step /\ header' = header /\ desc' = desc /\ Chunk' = Chunk
  BY DeviceLeaves
<1>3. (pc' # "idle" => Placed' /\ op'.rc = "busy") /\ (pc' = "wait" => Described')
  BY <1>2 DEF Placed, Described
<1>4. in_step => Held'
  <2> SUFFICES ASSUME in_step PROVE Held'
    OBVIOUS
  <2>1. ~Quiet
    BY DEF Device, device_fetch, device_read, device_write, device_error, device_drop, Quiet,
           Outstanding
  <2>2. Underway /\ pc # "loop" /\ (pc = "idle" => op.rc = "TIMEOUT")
    BY <2>1 DEF Held, Typed
  <2>3. Underway'
    BY <2>2, TakenUnderway, AnsweredUnderway DEF Device
  <2> QED
    BY <1>2, <2>2, <2>3 DEF Held
<1> QED
  BY <1>1, <1>2, <1>3, <1>4

----------------------------------------------------------------------------
\* Every step of the system keeps the invariant.
LEMMA NextBlockInv ==
    ASSUME BlockInv, [Next]_vars
    PROVE  BlockInv'
<1>1. ASSUME NEW lba \in Lbas, NEW count \in Counts, block_read(lba, count)
      PROVE  BlockInv'
  <2>1. Zeros \in Contents
    BY DEF Contents
  <2> QED
    BY <1>1, <2>1, CallBlockInv DEF block_read
<1>2. ASSUME NEW lba \in Lbas, NEW count \in Counts, NEW v \in Values,
             block_write(lba, count, v)
      PROVE  BlockInv'
  <2>1. <<"written", v>> \in Contents
    BY <1>2 DEF Contents
  <2> QED
    BY <1>2, <2>1, CallBlockInv DEF block_write
<1>3. ASSUME NEW lba \in Lbas, NEW count \in Counts, NEW kind \in {"read", "write"},
             refuse(kind, lba, count)
      PROVE  BlockInv'
  <2>1. Zeros \in Contents
    BY DEF Contents
  <2> QED
    BY <1>3, <2>1, CallBlockInv
<1>4. CASE UNCHANGED vars
  <2>1. /\ disk' = disk /\ cells' = cells /\ desc' = desc /\ header' = header
        /\ touched' = touched /\ used_index' = used_index /\ used_seen' = used_seen
        /\ device_seen' = device_seen /\ inflight' = inflight /\ in_step' = in_step
        /\ avail_index' = avail_index /\ queue_size' = queue_size /\ op' = op /\ pc' = pc
    BY <1>4 DEF vars, deviceVars, setupVars, sharedVars, callVars
  <2>2. /\ OpOK' = OpOK /\ Chunk' = Chunk /\ Done' = Done /\ Current' = Current
        /\ TypeOK' = TypeOK /\ Placed' = Placed /\ Faithful' = Faithful /\ Asking' = Asking
    BY <2>1 DEF TypeOK, OpOK, Chunk, Done, Current, Placed, Faithful, Asking
  <2>3. /\ Quiet' = Quiet /\ Wrote(Done)' = Wrote(Done)
        /\ Described' = Described /\ Request' = Request
    BY <2>1, <2>2 DEF Quiet, Outstanding, Wrote, Described, Request
  <2>4. Unanswered' = Unanswered /\ Answering' = Answering /\ Outcome' = Outcome
    BY <2>1, <2>2, <2>3 DEF Unanswered, Answering, AnsweredOk, AnsweredError, Wrote, Outcome,
                            ReadReturnsDisk, WritesReachTheirSectors
  <2>5. Underway' = Underway
    BY <2>2, <2>3, <2>4 DEF Underway
  <2> QED
    BY <2>1, <2>2, <2>3, <2>4, <2>5 DEF BlockInv, Typed, Held
<1> QED
  BY <1>1, <1>2, <1>3, <1>4, PublishBlockInv, CompleteBlockInv, FailBlockInv,
     DeviceBlockInv DEF Next, Driver

\* The ring indices stay within their width and the rings fit their frames;
\* while a call is in step, at most one request is in flight, within what the
\* caller asked for and on the disk.
THEOREM BlockRequestsSound == Spec => []RequestsSound
<1>1. Init => BlockInv
  BY InitBlockInv
<1>2. BlockInv /\ [Next]_vars => BlockInv'
  BY NextBlockInv
<1>3. BlockInv => RequestsSound
  BY BlockInvImplies
<1> QED
  BY <1>1, <1>2, <1>3, PTL DEF Spec

\* A read that began with nothing outstanding and reports success has returned
\* what the disk holds in the sectors asked for, through any number of requests
\* of any size.
THEOREM BlockReadReturnsDisk == Spec => []ReadReturnsDisk
<1>1. Init => BlockInv
  BY InitBlockInv
<1>2. BlockInv /\ [Next]_vars => BlockInv'
  BY NextBlockInv
<1>3. BlockInv => ReadReturnsDisk
  BY BlockInvImplies
<1> QED
  BY <1>1, <1>2, <1>3, PTL DEF Spec

\* During and after a call that began with nothing outstanding, the device
\* writes sectors the caller named and no others, none of them for a read, and
\* all of them when a write reports success.
THEOREM BlockWritesReachTheirSectors == Spec => []WritesReachTheirSectors
<1>1. Init => BlockInv
  BY InitBlockInv
<1>2. BlockInv /\ [Next]_vars => BlockInv'
  BY NextBlockInv
<1>3. BlockInv => WritesReachTheirSectors
  BY BlockInvImplies
<1> QED
  BY <1>1, <1>2, <1>3, PTL DEF Spec

============================================================================
