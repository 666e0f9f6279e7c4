-------------------------------- MODULE Pmm --------------------------------
(***************************************************************************)
(* The physical memory manager (kernel/core/pmm.c): one bit and one        *)
(* saturating reference count per frame, a count of the free frames and a  *)
(* hint where the next search starts.                                      *)
(*                                                                         *)
(* Addresses count in units of which FrameUnits make a frame, so that a    *)
(* range need not begin or end at a frame: reservations are rounded        *)
(* outwards and releases inwards.                                          *)
(*                                                                         *)
(* Callers are modelled by what they hold: owners[f] references to a frame *)
(* (history), and the ranges they have reserved (history).  A caller frees *)
(* or drops only what it holds.                                            *)
(***************************************************************************)
EXTENDS Integers, FiniteSets, FiniteSetsExt

CONSTANTS FrameCount,    \* s_frame_count
          FrameUnits,    \* AF_FRAME_SIZE
          Regions,       \* usable regions of the boot map: <<base, size>>
          Survivors,     \* what pmm_init reserves: null page, kernel image, ...
          RefMax,        \* AF_REFCOUNT_MAX
          MaxOwners,     \* bound: references held to one frame
          MaxRun,        \* bound: frames of one request
          MaxClaims,     \* bound: ranges reserved after pmm_init
          ClaimFree      \* whether callers reserve only ranges that are free

ASSUME PmmAssumption ==
    /\ FrameCount \in Nat \ {0}
    /\ FrameUnits \in Nat \ {0}
    /\ Regions \subseteq Nat \X Nat
    /\ Survivors \subseteq Nat \X Nat
    /\ <<0, FrameUnits>> \in Survivors
    /\ RefMax \in Nat \ {0}
    /\ MaxOwners \in Nat \ {0}
    /\ MaxRun \in Nat \ {0}
    /\ MaxClaims \in Nat
    /\ ClaimFree \in BOOLEAN

Frames == 0 .. FrameCount - 1

VARIABLES used,            \* frames whose bit in s_bitmap is 1
          refcount,        \* s_refcount
          free_frames,     \* s_free_frames
          search_hint,     \* s_search_hint
          owners,          \* history: references callers hold
          claims,          \* history: ranges reserved after pmm_init
          lost             \* history: frames only partly inside a released range

vars == <<used, refcount, free_frames, search_hint, owners, claims, lost>>

----------------------------------------------------------------------------
(* Ranges.  A range of size 0 is no range; both roundings stop at the last *)
(* frame.                                                                  *)

Outwards(base, size) ==
    IF size = 0 THEN {}
    ELSE {f \in Frames : f * FrameUnits < base + size /\ (f + 1) * FrameUnits > base}

Inwards_Outwards(base, size) == Outwards(base, size)

Inwards(base, size) ==
    {f \in Frames : f * FrameUnits >= base /\ (f + 1) * FrameUnits <= base + size}

Covers(ranges) == UNION {Outwards(r[1], r[2]) : r \in ranges}

\* What pmm_init may hand out: all frames start used, those wholly inside a
\* usable region are freed, then what must survive is reserved.
Offered == (UNION {Inwards(r[1], r[2]) : r \in Regions}) \ Covers(Survivors)

Init ==
    /\ used = Frames \ Offered
    /\ refcount = [f \in Frames |-> 0]
    /\ free_frames = Cardinality(Offered)
    /\ search_hint = 0
    /\ owners = [f \in Frames |-> 0]
    /\ claims = {}
    /\ lost = {}

----------------------------------------------------------------------------
(* Allocation.                                                             *)

Run(f, n) == f .. f + n - 1

\* How far the scan of pmm_alloc_frames(1) goes before it looks at f.
Distance(f) == (f - search_hint + FrameCount) % FrameCount

\* The frame that scan returns: the first free one from the hint on, around.
IsNextFree(f) ==
    /\ f \notin used
    /\ \A g \in Frames \ used : Distance(f) <= Distance(g)

\* Where the scan for a run of n free frames stops: the lowest such run.
Fits_OffByOne(f, n) == Run(f, n - 1) \subseteq Frames \ used

Fits(f, n) == Run(f, n) \subseteq Frames \ used

IsFirstFit(f, n) == Fits(f, n) /\ \A g \in Frames : Fits(g, n) => f <= g

Take(S) ==
    /\ used' = used \cup S
    /\ refcount' = [f \in Frames |-> IF f \in S THEN 1 ELSE refcount[f]]
    /\ owners' = [f \in Frames |-> IF f \in S THEN owners[f] + 1 ELSE owners[f]]
    /\ UNCHANGED <<claims, lost>>

HintAfter(f) == (f + 1) % FrameCount

pmm_alloc_frame(f) ==
    /\ free_frames >= 1
    /\ IsNextFree(f)
    /\ Take({f})
    /\ free_frames' = free_frames - 1
    /\ search_hint' = HintAfter(f)

pmm_alloc_frames(f, n) ==
    /\ n > 1 /\ n <= free_frames
    /\ IsFirstFit(f, n)
    /\ Take(Run(f, n))
    /\ free_frames' = free_frames - n
    /\ UNCHANGED search_hint

----------------------------------------------------------------------------
(* Freeing and references.                                                 *)

\* The assertions of pmm_free_frame: not a double free, and not shared.
Freeable(f) == f \in used /\ refcount[f] <= 1

pmm_free_frames(f, n) ==
    /\ Run(f, n) \subseteq Frames \ {0}
    /\ \A k \in Run(f, n) : owners[k] = 1 /\ Freeable(k)
    /\ used' = used \ Run(f, n)
    /\ refcount' = [k \in Frames |-> IF k \in Run(f, n) THEN 0 ELSE refcount[k]]
    /\ free_frames' = free_frames + n
    /\ search_hint' = IF f < search_hint THEN f ELSE search_hint
    /\ owners' = [k \in Frames |-> IF k \in Run(f, n) THEN 0 ELSE owners[k]]
    /\ UNCHANGED <<claims, lost>>

\* A count at its maximum stays there.
Referenced(f) == IF refcount[f] = RefMax THEN RefMax ELSE refcount[f] + 1

pmm_frame_ref(f) ==
    /\ owners[f] \in 1 .. MaxOwners - 1
    /\ refcount' = [refcount EXCEPT ![f] = Referenced(f)]
    /\ owners' = [owners EXCEPT ![f] = @ + 1]
    /\ UNCHANGED <<used, free_frames, search_hint, claims, lost>>

\* Whether the reference being dropped is the last.
LastReference(f) == refcount[f] = 1

pmm_frame_unref(f) ==
    /\ owners[f] > 0
    /\ owners' = [owners EXCEPT ![f] = @ - 1]
    /\ refcount' = [refcount EXCEPT ![f] = IF @ = 0 THEN 0 ELSE @ - 1]
    /\ used' = IF LastReference(f) THEN used \ {f} ELSE used
    /\ free_frames' = IF LastReference(f) THEN free_frames + 1 ELSE free_frames
    /\ UNCHANGED <<search_hint, claims, lost>>

----------------------------------------------------------------------------
(* Reservation.                                                            *)

\* The frames of a range that pmm_reserve_range takes, and the ones that
\* pmm_release_range gives back.
Newly(base, size) == Outwards(base, size) \ used

GivenBack(base, size) == {f \in Inwards(base, size) : f \in used /\ refcount[f] = 0}

pmm_reserve_range(base, size) ==
    /\ Cardinality(claims) < MaxClaims
    /\ <<base, size>> \notin claims
    /\ Outwards(base, size) # {}
    /\ ClaimFree => Outwards(base, size) \cap used = {}
    /\ used' = used \cup Newly(base, size)
    /\ refcount' = [f \in Frames |-> IF f \in Newly(base, size) THEN 0 ELSE refcount[f]]
    /\ free_frames' = free_frames - Cardinality(Newly(base, size))
    /\ claims' = claims \cup {<<base, size>>}
    /\ UNCHANGED <<search_hint, owners, lost>>

pmm_release_range(base, size) ==
    /\ <<base, size>> \in claims
    /\ used' = used \ GivenBack(base, size)
    /\ free_frames' = free_frames + Cardinality(GivenBack(base, size))
    /\ claims' = claims \ {<<base, size>>}
    /\ lost' = lost \cup (Outwards(base, size) \ Inwards(base, size))
    /\ UNCHANGED <<refcount, search_hint, owners>>

----------------------------------------------------------------------------
Units == 0 .. FrameCount * FrameUnits

Next ==
    \/ \E f \in Frames : pmm_alloc_frame(f)
    \/ \E f \in Frames, n \in 1 .. MaxRun : pmm_alloc_frames(f, n)
    \/ \E f \in Frames, n \in 1 .. MaxRun : pmm_free_frames(f, n)
    \/ \E f \in Frames : pmm_frame_ref(f)
    \/ \E f \in Frames : pmm_frame_unref(f)
    \/ \E base, size \in Units : pmm_reserve_range(base, size)
    \/ \E base, size \in Units : pmm_release_range(base, size)

Spec == Init /\ [][Next]_vars

----------------------------------------------------------------------------
(* Properties.                                                             *)

\* Every variable stays in its range; counts never pass the width of a byte.
TypeOK ==
    /\ used \subseteq Frames
    /\ refcount \in [Frames -> 0 .. RefMax]
    /\ free_frames \in 0 .. FrameCount
    /\ search_hint \in Frames
    /\ owners \in [Frames -> Nat]
    /\ claims \subseteq Units \X Units
    /\ lost \subseteq Frames

\* s_free_frames is the number of clear bits, through every path that sets or
\* clears one.  It guards allocation, so an error either way is a failure to
\* allocate or an underflow.
FreeCountExact == free_frames = Cardinality(Frames \ used)

Owned == {f \in Frames : owners[f] > 0}

\* A frame is marked used exactly when somebody holds it: an owner, a
\* reservation, or the boot map.  None is free while held and, but for the
\* edges of released ranges, none is used with no holder.
FramesAccounted == used = Owned \cup Covers(claims) \cup lost \cup (Frames \ Offered)

\* The count of a frame is the number of its owners, so that the last to let
\* go, and only the last, frees it.
RefsExact == \A f \in Frames : refcount[f] = owners[f]

\* Every frame is counted right: used while held, by as many as hold it, and
\* counted as free when it is not used.
CountsExact == TypeOK /\ FreeCountExact /\ FramesAccounted /\ RefsExact

\* What is handed out lies wholly in usable memory and outside everything
\* that has to survive, frame 0 (the "no frame" value) included.
HandedOutIsUsable ==
    \A f \in Owned :
        /\ f \notin Covers(Survivors)
        /\ \E r \in Regions : r[1] <= f * FrameUnits /\ (f + 1) * FrameUnits <= r[1] + r[2]

----------------------------------------------------------------------------
(* What the comments say and the code does not do.                         *)

\* pmm.c: "a wrapped refcount frees a frame that is still in use" is why the
\* count saturates.  Saturation forgets references, and unref goes on counting
\* down, so the frame is freed under its remaining owners all the same.
OwnedIsUsed == Owned \subseteq used

\* pmm.h: "Marks a physical range used, permanently".  A frame of the range
\* that has an owner is left to that owner, who will free it.
ReservedStaysUsed == Covers(claims) \subseteq used
============================================================================
