------------------------------- MODULE Block -------------------------------
(***************************************************************************)
(* The block layer (kernel/core/block.c) and the virtio driver below it    *)
(* (kernel/drivers/virtio_blk.c), with the device they talk to.            *)
(*                                                                         *)
(* A read or write of several sectors becomes a series of requests through *)
(* one buffer, one in flight at a time.  Driver and device share that      *)
(* buffer, the descriptors, and two counters that only ever go up, modulo  *)
(* their width; the driver waits until the device's counter has moved, or  *)
(* gives up.  The available ring always names descriptor 0 and is left out.*)
(*                                                                         *)
(* Cell k of the buffer is its k-th sector.  The status byte follows the   *)
(* last sector of the request, so that its place depends on the length:    *)
(* it is the first byte of cell count + 1.                                 *)
(***************************************************************************)
EXTENDS Integers, Sequences

CONSTANTS SectorCount,     \* s_blk.sector_count
          RequestSectors,  \* request_sector_count
          QueueSizes,      \* the sizes a device may offer for queue 0
          IndexMod,        \* values of the 16-bit ring indices
          Lbas, Counts,    \* bound: what callers ask for
          Values,          \* bound: what callers write
          MaxCalls         \* bound: calls in a history

VIRTQ_MAX_SIZE == 256
PageSize       == 4096

\* lba + count stays within 64 bits on every device smaller than 2^64 - 2^32
\* sectors, so that the sum is taken as it is.
ASSUME BlockAssumption ==
    /\ SectorCount \in Nat \ {0}
    /\ RequestSectors \in Nat \ {0}
    /\ QueueSizes \subseteq 1 .. VIRTQ_MAX_SIZE
    /\ IndexMod \in Nat /\ IndexMod > 2
    /\ Lbas \subseteq Nat /\ Counts \subseteq Nat
    /\ MaxCalls \in Nat

VARIABLES disk,         \* device: the sectors
          read_only,    \* s_blk.read_only, from the features of the device
          queue_size,   \* s_queue.size
          header,       \* the request header in the buffer
          cells,        \* the rest of the buffer
          desc,         \* length and direction of the payload descriptor
          avail_index,  \* avail->index
          used_index,   \* used->index, which the device writes
          used_seen,    \* s_queue.used_seen
          device_seen,  \* device: how far it has read the available ring
          inflight,     \* device: requests it has taken, oldest first
          op,           \* the caller's read or write and how far it is
          pc,           \* "idle", or where the driver is in it
          touched,      \* history: sectors the device wrote since op began
          in_step,      \* history: nothing of an earlier call was left when op began
          calls         \* how many calls were made

deviceVars == <<disk, used_index, device_seen, inflight, touched>>
setupVars  == <<read_only, queue_size>>
sharedVars == <<header, cells, desc, avail_index>>
callVars == <<op, pc, calls, in_step>>
vars == <<deviceVars, setupVars, sharedVars, used_seen, callVars>>

Sectors == 0 .. SectorCount - 1

\* What a cell can hold: the two status codes, a sector as it was on the disk
\* at first, a sector somebody wrote, or the zeros of a fresh frame.
StatusOk    == <<"status", 0>>
StatusUnset == <<"status", 255>>
StatusError == <<"status", 1>>
Statuses    == {StatusOk, StatusUnset, StatusError}
Zeros       == <<"zeros", 0>>
Contents    == {<<"disk", s>> : s \in Sectors} \cup {<<"written", v>> : v \in Values}
                   \cup Statuses \cup {Zeros}

Nothing == [kind |-> "none", lba |-> 0, count |-> 0, value |-> Zeros, out |-> <<>>,
            current |-> 0, remaining |-> 0, rc |-> "OK"]

Init ==
    /\ disk = [s \in Sectors |-> <<"disk", s>>]
    /\ read_only \in BOOLEAN
    /\ queue_size \in QueueSizes
    /\ header = [type |-> "IN", sector |-> 0]
    /\ cells = [k \in 1 .. RequestSectors + 1 |-> Zeros]
    /\ desc = [count |-> 0, device_writes |-> FALSE]
    /\ avail_index = 0 /\ used_index = 0 /\ used_seen = 0 /\ device_seen = 0
    /\ inflight = <<>>
    /\ op = Nothing
    /\ pc = "idle"
    /\ touched = {}
    /\ in_step = TRUE
    /\ calls = 0

\* A request is on its way to the device or with it.
Outstanding == inflight # <<>> \/ device_seen # avail_index

\* Nothing is between the driver and the device.
Quiet == ~Outstanding /\ used_index = used_seen

----------------------------------------------------------------------------
(* virtio_setup_queue: where the rings are, in bytes from the base.        *)

AlignUp(n, a) == ((n + a - 1) \div a) * a

desc_bytes(size)  == 16 * size
avail_bytes(size) == 6 + 2 * size
used_bytes(size)  == 6 + 4 * size

used_offset(size) == AlignUp(desc_bytes(size) + avail_bytes(size), PageSize)

queue_frames(size) == (used_offset(size) + used_bytes(size) + PageSize - 1) \div PageSize

----------------------------------------------------------------------------
(* The block layer.                                                        *)

check_range_StartOnly(lba, count) == count > 0 /\ lba < SectorCount

check_range(lba, count) ==
    /\ count > 0
    /\ lba < SectorCount
    /\ lba + count <= SectorCount

Refusal(kind, lba, count) ==
    IF ~check_range(lba, count) THEN {"INVAL"}
    ELSE IF kind = "write" /\ read_only THEN {"ROFS"} ELSE {}

Asked(kind, lba, count, value) ==
    [kind |-> kind, lba |-> lba, count |-> count, value |-> value, out |-> <<>>,
     current |-> lba, remaining |-> count, rc |-> "busy"]

Begin(kind, lba, count, value) ==
    /\ pc = "idle" /\ calls < MaxCalls
    /\ calls' = calls + 1
    /\ Refusal(kind, lba, count) = {}
    /\ op' = Asked(kind, lba, count, value)
    /\ pc' = "loop"
    /\ touched' = {}
    /\ in_step' = Quiet
    /\ UNCHANGED <<disk, used_index, device_seen, inflight, setupVars, sharedVars, used_seen>>

refuse(kind, lba, count) ==
    /\ pc = "idle" /\ calls < MaxCalls
    /\ calls' = calls + 1
    /\ \E rc \in Refusal(kind, lba, count) :
          op' = [Asked(kind, lba, count, Zeros) EXCEPT !.rc = rc]
    /\ touched' = {}
    /\ in_step' = Quiet
    /\ UNCHANGED <<disk, used_index, device_seen, inflight, setupVars, sharedVars, used_seen, pc>>

block_read(lba, count) == Begin("read", lba, count, Zeros)

block_write(lba, count, v) == Begin("write", lba, count, <<"written", v>>)

----------------------------------------------------------------------------
(* The driver: virtio_blk_read and virtio_blk_write around                 *)
(* virtio_blk_request.                                                     *)

Return(rc) == op' = [op EXCEPT !.rc = rc] /\ pc' = "idle" /\ UNCHANGED <<calls, in_step>>

Chunk == IF op.remaining > RequestSectors THEN RequestSectors ELSE op.remaining

not_ready ==
    /\ pc = "loop"
    /\ queue_size < 3
    /\ Return("NOTREADY")
    /\ UNCHANGED <<deviceVars, setupVars, sharedVars, used_seen>>

NextIndex(i) == (i + 1) % IndexMod

\* One step, as nothing looks while driver and device are even.  A device that
\* is behind may fetch halves of two requests here; of a call that began out of
\* step nothing is claimed that this could change.
publish ==
    /\ pc = "loop"
    /\ queue_size >= 3
    /\ header' = [type |-> IF op.kind = "read" THEN "IN" ELSE "OUT", sector |-> op.current]
    /\ cells' = [cells EXCEPT ![Chunk + 1] = StatusUnset]
    /\ desc' = [count |-> Chunk, device_writes |-> op.kind = "read"]
    /\ avail_index' = NextIndex(avail_index)
    /\ pc' = "wait"
    /\ UNCHANGED <<deviceVars, setupVars, used_seen, op, calls, in_step>>

\* Whether *status reads as zero.  A sector that lies where the status should
\* be may begin with any byte.
ReadsAsZero(cell) == IF cell \in Statuses THEN {cell = StatusOk} ELSE BOOLEAN

Advanced_KeepsPlace == [op EXCEPT !.remaining = @ - desc.count]

Advanced_Stuck == op

Advanced == [op EXCEPT !.current = @ + desc.count, !.remaining = @ - desc.count]

\* The buffer is copied out after a read; after a write the caller's data is
\* copied into it.
copy_data ==
    IF desc.device_writes
    THEN /\ op' = [Advanced EXCEPT !.out = @ \o SubSeq(cells, 1, desc.count),
                                   !.rc = IF Advanced.remaining = 0 THEN "OK" ELSE "busy"]
         /\ UNCHANGED cells
    ELSE /\ op' = [Advanced EXCEPT !.rc = IF Advanced.remaining = 0 THEN "OK" ELSE "busy"]
         /\ cells' = [k \in DOMAIN cells |-> IF k <= desc.count THEN op.value ELSE cells[k]]

Succeeds_Always == {TRUE}

Succeeds == ReadsAsZero(cells[desc.count + 1])

complete ==
    /\ pc = "wait"
    /\ used_index # used_seen
    /\ used_seen' = NextIndex(used_seen)
    /\ \/ /\ TRUE \in Succeeds
          /\ copy_data
          /\ pc' = IF op'.rc = "OK" THEN "idle" ELSE "loop"
          /\ UNCHANGED <<calls, in_step>>
       \/ /\ FALSE \in Succeeds
          /\ Return("IO")
          /\ UNCHANGED cells
    /\ UNCHANGED <<deviceVars, setupVars, header, desc, avail_index>>

\* The spin limit, which says nothing about the device: it may have dropped the
\* request, hold it still, or not have fetched it yet.  Nothing takes it back.
time_out ==
    /\ pc = "wait"
    /\ used_index = used_seen
    /\ Return("TIMEOUT")
    /\ UNCHANGED <<deviceVars, setupVars, sharedVars, used_seen>>

----------------------------------------------------------------------------
(* The device (external).  It answers when it likes, also long after the   *)
(* driver gave up, into the buffer that now serves another call.           *)

device_fetch ==
    /\ device_seen # avail_index
    /\ device_seen' = NextIndex(device_seen)
    /\ inflight' = Append(inflight, [sector |-> header.sector, type |-> header.type,
                                     count |-> desc.count])
    /\ UNCHANGED <<disk, used_index, touched, setupVars, sharedVars, used_seen, callVars>>

SectorsOf(r) == r.sector .. r.sector + r.count - 1

Answered ==
    /\ inflight' = Tail(inflight)
    /\ used_index' = NextIndex(used_index)
    /\ UNCHANGED <<device_seen, setupVars, header, desc, avail_index, used_seen, callVars>>

device_read ==
    /\ inflight # <<>>
    /\ LET r == Head(inflight)
       IN  /\ r.type = "IN" /\ SectorsOf(r) \subseteq Sectors
           /\ cells' = [k \in DOMAIN cells |->
                           IF k <= r.count THEN disk[r.sector + k - 1]
                           ELSE IF k = r.count + 1 THEN StatusOk ELSE cells[k]]
           /\ Answered
    /\ UNCHANGED <<disk, touched>>

device_write ==
    /\ inflight # <<>>
    /\ LET r == Head(inflight)
       IN  /\ r.type = "OUT" /\ SectorsOf(r) \subseteq Sectors
           /\ disk' = [s \in Sectors |-> IF s \in SectorsOf(r)
                                         THEN cells[s - r.sector + 1] ELSE disk[s]]
           /\ touched' = touched \cup SectorsOf(r)
           /\ cells' = [cells EXCEPT ![r.count + 1] = StatusOk]
           /\ Answered

\* An error, of the device's own or because the request leaves the disk.
device_error ==
    /\ inflight # <<>>
    /\ cells' = [cells EXCEPT ![Head(inflight).count + 1] = StatusError]
    /\ Answered
    /\ UNCHANGED <<disk, touched>>

device_drop ==
    /\ inflight # <<>>
    /\ inflight' = Tail(inflight)
    /\ UNCHANGED <<disk, used_index, device_seen, touched, setupVars, sharedVars, used_seen, callVars>>

----------------------------------------------------------------------------
Driver == not_ready \/ publish \/ complete \/ time_out
Device == device_fetch \/ device_read \/ device_write \/ device_error \/ device_drop

Next ==
    \/ \E lba \in Lbas, count \in Counts : block_read(lba, count)
    \/ \E lba \in Lbas, count \in Counts, v \in Values : block_write(lba, count, v)
    \/ \E lba \in Lbas, count \in Counts, kind \in {"read", "write"} : refuse(kind, lba, count)
    \/ Driver
    \/ Device

\* The driver spins with nothing else to run, and a device either answers a
\* request or drops it.
Fairness == WF_vars(Driver) /\ WF_vars(Device)

Spec == Init /\ [][Next]_vars /\ Fairness

----------------------------------------------------------------------------
(* Properties.                                                             *)

\* Every variable keeps its type and the indices their width.
TypeOK ==
    /\ disk \in [Sectors -> Contents]
    /\ cells \in [1 .. RequestSectors + 1 -> Contents]
    /\ {avail_index, used_index, used_seen, device_seen} \subseteq 0 .. IndexMod - 1
    /\ desc.count \in 0 .. RequestSectors
    /\ op.remaining \in Nat
    /\ in_step \in BOOLEAN

Asking == op.lba .. op.lba + op.count - 1

\* A read that reports success has put into the caller's buffer what the disk
\* holds in the sectors asked for, in their order, however many requests it
\* took and whatever requests failed or were dropped before, unless a request
\* of an earlier call, given up on, was still with the device when it began.
ReadReturnsDisk ==
    in_step /\ op.kind = "read" /\ op.rc = "OK" =>
        op.out = [i \in 1 .. op.count |-> disk[op.lba + i - 1]]

\* block.c: an out-of-range request never reaches the device, whether it was
\* asked for or came from splitting.  While in step requests are the call's,
\* and one at a time.
RequestsInRange ==
    in_step =>
        /\ Len(inflight) <= 1
        /\ \A i \in DOMAIN inflight : SectorsOf(inflight[i]) \subseteq Asking \cap Sectors

\* The device writes sectors the caller named and no others, and a write that
\* reports success has written all of them; a call in step, that is, for a late
\* write of an earlier call lands whenever the device gets to it.
WritesReachTheirSectors ==
    in_step =>
        /\ touched \subseteq Asking
        /\ touched # {} => op.kind = "write"
        /\ op.kind = "write" /\ op.rc = "OK" => touched = Asking

\* The rings as the device lays them out (its used elements are twice as long
\* as those the driver declares) do not overlap and end inside the frames.
RingsFit ==
    /\ desc_bytes(queue_size) + avail_bytes(queue_size) <= used_offset(queue_size)
    /\ used_offset(queue_size) % PageSize = 0
    /\ used_offset(queue_size) + 6 + 8 * queue_size <= queue_frames(queue_size) * PageSize

\* The counters stay within their width and the rings they go through fit their
\* frames; while in step, one request at a time is in flight, within what was
\* asked and on the disk.
RequestsSound == TypeOK /\ RequestsInRange /\ RingsFit

\* Every read and write returns, whatever the device answers or does not.
CallReturns == [](pc # "idle" => <>(pc = "idle"))

----------------------------------------------------------------------------
(* What the comments say and the code does not do.                         *)

\* block.h: block_read reads the sectors asked for.  After a timeout it takes
\* the answer to the request given up on for its own, and copies out what the
\* device has not filled.
EveryReadReturnsDisk ==
    op.kind = "read" /\ op.rc = "OK" =>
        op.out = [i \in 1 .. op.count |-> disk[op.lba + i - 1]]

\* virtio_blk.c: "virtio_blk_request copies the data into the request buffer
\* itself when the device reads".  It does so after the device has read it.
WriteLands ==
    op.kind = "write" /\ op.rc = "OK" => \A s \in Asking : disk[s] = op.value
============================================================================
