----------------------------- MODULE HeapProofs -----------------------------
(***************************************************************************)
(* Proofs about physical memory: the memory manager, for every size of     *)
(* memory, every boot map and every set of ranges that have to survive,    *)
(* and the heap on it, for every page size and table of classes.           *)
(*                                                                         *)
(* The manager.  The count of free frames alone is not inductive:          *)
(* pmm_frame_unref adds to it on the last reference, which is right only   *)
(* if that frame is used, which in turn holds only if no reference was     *)
(* forgotten.  The reference counts are exact as long as no frame has more *)
(* owners than a count can hold (MaxOwners <= RefMax): beyond that the     *)
(* count saturates and frees under the remaining owners.                   *)
(*                                                                         *)
(* The heap.  Its invariant says what each pointer that is held is, an     *)
(* object of a slab or a block in a run of its own, since kfree has to     *)
(* find that out from the address alone; the free lists and the frames     *)
(* then agree with the pointers, and the layout keeps their bytes apart.   *)
(***************************************************************************)
EXTENDS Heap, FiniteSetTheorems, WellFoundedInduction, TLAPS

----------------------------------------------------------------------------
(* The memory manager.                                                     *)

\* What holds however callers reserve ranges, as long as no count saturates.
RefInv ==
    /\ TypeOK
    /\ FreeCountExact
    /\ RefsExact
    /\ OwnedIsUsed

\* Two reservations never share a frame.
ClaimsDisjoint ==
    \A r, s \in claims :
        r # s => Outwards(r[1], r[2]) \cap Outwards(s[1], s[2]) = {}

\* A reserved frame is held by nobody else: not by an owner, not by the edge
\* of a released range, not by the boot map.
ClaimsApart ==
    \A r \in claims :
        Outwards(r[1], r[2]) \cap (Owned \cup lost \cup (Frames \ Offered)) = {}

\* An owned frame was offered by the boot map and is no released edge.
OwnedApart == Owned \subseteq Offered \ lost

\* The inductive invariant when callers reserve only free ranges.
PmmInv ==
    /\ RefInv
    /\ FramesAccounted
    /\ ClaimsDisjoint
    /\ ClaimsApart
    /\ OwnedApart

----------------------------------------------------------------------------
(* Ranges and sizes.                                                       *)

\* Rounding a range outwards yields frames, and rounding it inwards yields
\* some of those.
LEMMA Roundings ==
    ASSUME NEW base \in Nat, NEW size \in Nat
    PROVE  /\ Outwards(base, size) \subseteq Frames
           /\ Inwards(base, size) \subseteq Outwards(base, size)
<1>1. Outwards(base, size) \subseteq Frames
  BY DEF Outwards
<1>2. ASSUME NEW f \in Inwards(base, size)
      PROVE  f \in Outwards(base, size)
  <2> DEFINE lo == f * FrameUnits
             hi == (f + 1) * FrameUnits
  <2>1. f \in Frames /\ lo >= base /\ hi <= base + size
    BY DEF Inwards
  <2>2. FrameUnits \in Nat /\ FrameUnits > 0 /\ f \in Nat
    BY <2>1, PmmAssumption DEF Frames
  <2>3. lo \in Nat /\ hi \in Nat /\ hi = lo + FrameUnits
    BY <2>2
  <2> HIDE DEF lo, hi
  <2>4. size # 0 /\ lo < base + size /\ hi > base
    BY <2>1, <2>2, <2>3
  <2> QED
    BY <2>1, <2>4 DEF Outwards, lo, hi
<1> QED
  BY <1>1, <1>2

\* Sets of frames are finite and their sizes lie between 0 and FrameCount.
LEMMA FrameSets ==
    ASSUME NEW S \in SUBSET Frames
    PROVE  IsFiniteSet(S) /\ Cardinality(S) \in 0 .. FrameCount
<1>1. FrameCount \in Nat /\ FrameCount > 0
  BY PmmAssumption
<1>2. IsFiniteSet(Frames) /\ Cardinality(Frames) = FrameCount
  BY <1>1, FS_Interval, 0 \in Int, FrameCount - 1 \in Int DEF Frames
<1>3. IsFiniteSet(S) /\ Cardinality(S) <= FrameCount
  BY <1>2, FS_Subset
<1> QED
  BY <1>1, <1>3, FS_CardinalityType

\* Marking free frames used takes them off the number of clear bits.
LEMMA MarkUsed ==
    ASSUME NEW U \in SUBSET Frames, NEW S \in SUBSET (Frames \ U)
    PROVE  Cardinality(Frames \ (U \cup S)) = Cardinality(Frames \ U) - Cardinality(S)
<1>1. Frames \ (U \cup S) = (Frames \ U) \ S /\ (Frames \ U) \cap S = S
  OBVIOUS
<1>2. IsFiniteSet(Frames \ U)
  BY FrameSets
<1> QED
  BY <1>1, <1>2, FS_Difference

\* Clearing the bits of used frames adds them to the number of clear bits.
LEMMA MarkFree ==
    ASSUME NEW U \in SUBSET Frames, NEW S \in SUBSET U
    PROVE  Cardinality(Frames \ (U \ S)) = Cardinality(Frames \ U) + Cardinality(S)
<1>1. Frames \ (U \ S) = (Frames \ U) \cup S /\ (Frames \ U) \cap S = {}
  OBVIOUS
<1>2. IsFiniteSet(Frames \ U) /\ IsFiniteSet(S)
  BY FrameSets
<1>3. Cardinality(Frames \ (U \ S))
        = Cardinality(Frames \ U) + Cardinality(S) - Cardinality({})
  BY <1>1, <1>2, FS_Union
<1>4. Cardinality({}) = 0 /\ Cardinality(Frames \ U) \in Nat /\ Cardinality(S) \in Nat
  BY <1>2, FS_EmptySet, FS_CardinalityType
<1> QED
  BY <1>3, <1>4

\* A run of n frames has n elements.
LEMMA RunSize ==
    ASSUME NEW f \in Frames, NEW n \in Nat \ {0}
    PROVE  Cardinality(Run(f, n)) = n /\ f \in Run(f, n)
<1>1. f \in Int /\ f + n - 1 \in Int /\ f <= f + n - 1
  BY PmmAssumption DEF Frames
<1> QED
  BY <1>1, FS_Interval DEF Run

----------------------------------------------------------------------------
(* Reference counts and the count of free frames.                          *)

\* What pmm_init leaves behind is counted right.
LEMMA InitRefInv == Init => RefInv
<1> SUFFICES ASSUME Init PROVE RefInv
  OBVIOUS
<1>0. FrameCount \in Nat /\ FrameCount > 0 /\ RefMax \in Nat
  BY PmmAssumption
<1>1. Offered \subseteq Frames /\ Frames \ used = Offered
  BY DEF Init, Offered, Inwards
<1>2. Cardinality(Offered) \in 0 .. FrameCount
  BY <1>1, FrameSets
<1>3. TypeOK
  BY <1>0, <1>1, <1>2 DEF Init, TypeOK, Frames
<1>4. FreeCountExact
  BY <1>1 DEF Init, FreeCountExact
<1>5. RefsExact /\ OwnedIsUsed
  BY DEF Init, RefsExact, OwnedIsUsed, Owned
<1> QED
  BY <1>3, <1>4, <1>5 DEF RefInv

\* Handing out free frames, of which there are n, keeps the counts right.
LEMMA TakeRefInv ==
    ASSUME RefInv, NEW S \in SUBSET (Frames \ used), NEW n \in Nat, n = Cardinality(S),
           Take(S), free_frames' = free_frames - n, search_hint' \in Frames
    PROVE  RefInv'
<1>0. FrameCount \in Nat /\ RefMax \in Nat /\ RefMax > 0
  BY PmmAssumption
<1>1. /\ used' = used \cup S
      /\ refcount' = [f \in Frames |-> IF f \in S THEN 1 ELSE refcount[f]]
      /\ owners' = [f \in Frames |-> IF f \in S THEN owners[f] + 1 ELSE owners[f]]
      /\ claims' = claims /\ lost' = lost
  BY DEF Take
<1>2. used \subseteq Frames /\ used' \subseteq Frames
  BY <1>1 DEF RefInv, TypeOK
<1>3. FreeCountExact'
  BY <1>1, <1>2, MarkUsed DEF RefInv, FreeCountExact
<1>4. \A f \in S : owners[f] = 0
  BY DEF RefInv, OwnedIsUsed, Owned, TypeOK
<1>5. TypeOK'
  <2>1. free_frames' \in 0 .. FrameCount
    BY <1>2, <1>3, FrameSets DEF FreeCountExact
  <2>2. refcount' \in [Frames -> 0 .. RefMax] /\ owners' \in [Frames -> Nat]
    BY <1>0, <1>1 DEF RefInv, TypeOK
  <2> QED
    BY <1>1, <1>2, <2>1, <2>2 DEF RefInv, TypeOK
<1>6. RefsExact'
  BY <1>1, <1>4 DEF RefInv, RefsExact
<1>7. OwnedIsUsed'
  BY <1>1 DEF RefInv, OwnedIsUsed, Owned
<1> QED
  BY <1>3, <1>5, <1>6, <1>7 DEF RefInv

\* Every operation keeps them right, as long as no count saturates.
LEMMA NextRefInv ==
    ASSUME MaxOwners <= RefMax, RefInv, [Next]_vars
    PROVE  RefInv'
<1>0. /\ FrameCount \in Nat /\ FrameCount > 0 /\ MaxRun \in Nat
      /\ RefMax \in Nat /\ RefMax > 0 /\ MaxOwners \in Nat
  BY PmmAssumption
<1>t. /\ used \subseteq Frames
      /\ refcount \in [Frames -> 0 .. RefMax]
      /\ free_frames \in 0 .. FrameCount
      /\ search_hint \in Frames
      /\ owners \in [Frames -> Nat]
      /\ claims \subseteq Units \X Units
      /\ lost \subseteq Frames
  BY DEF RefInv, TypeOK
<1>u. Units \subseteq Nat
  BY <1>0 DEF Units
<1>1. ASSUME NEW f \in Frames, pmm_alloc_frame(f)
      PROVE  RefInv'
  <2>1. f \notin used /\ Take({f}) /\ free_frames' = free_frames - 1
    BY <1>1 DEF pmm_alloc_frame, IsNextFree
  <2>2. Cardinality({f}) = 1
    BY FS_Singleton
  <2>3. search_hint' \in Frames
    BY <1>0, <1>1 DEF pmm_alloc_frame, HintAfter, Frames
  <2> QED
    BY <2>1, <2>2, <2>3, TakeRefInv
<1>2. ASSUME NEW f \in Frames, NEW n \in 1 .. MaxRun, pmm_alloc_frames(f, n)
      PROVE  RefInv'
  <2>1. /\ Run(f, n) \subseteq Frames \ used
        /\ Take(Run(f, n)) /\ free_frames' = free_frames - n /\ search_hint' \in Frames
    BY <1>2, <1>t DEF pmm_alloc_frames, IsFirstFit, Fits
  <2>2. n \in Nat /\ Cardinality(Run(f, n)) = n
    BY <1>0, RunSize
  <2> QED
    BY <2>1, <2>2, TakeRefInv
<1>3. ASSUME NEW f \in Frames, NEW n \in 1 .. MaxRun, pmm_free_frames(f, n)
      PROVE  RefInv'
  <2> DEFINE S == Run(f, n)
  <2>1. /\ S \subseteq used
        /\ used' = used \ S
        /\ refcount' = [k \in Frames |-> IF k \in S THEN 0 ELSE refcount[k]]
        /\ free_frames' = free_frames + n
        /\ owners' = [k \in Frames |-> IF k \in S THEN 0 ELSE owners[k]]
        /\ search_hint' \in Frames
        /\ claims' = claims /\ lost' = lost
    BY <1>3, <1>t DEF pmm_free_frames, Freeable
  <2>2. n = Cardinality(S)
    BY <1>0, RunSize
  <2> HIDE DEF S
  <2>3. FreeCountExact'
    BY <1>t, <2>1, <2>2, MarkFree DEF RefInv, FreeCountExact
  <2>4. free_frames' \in 0 .. FrameCount
    BY <1>t, <2>1, <2>3, FrameSets DEF FreeCountExact
  <2>5. refcount' \in [Frames -> 0 .. RefMax] /\ owners' \in [Frames -> Nat]
    BY <1>0, <1>t, <2>1
  <2>6. TypeOK'
    BY <1>t, <2>1, <2>4, <2>5 DEF TypeOK
  <2>7. RefsExact' /\ OwnedIsUsed'
    BY <2>1 DEF RefInv, RefsExact, OwnedIsUsed, Owned
  <2> QED
    BY <2>3, <2>6, <2>7 DEF RefInv
<1>4. ASSUME NEW f \in Frames, pmm_frame_ref(f)
      PROVE  RefInv'
  <2>1. /\ owners[f] \in 1 .. MaxOwners - 1
        /\ refcount' = [refcount EXCEPT ![f] = Referenced(f)]
        /\ owners' = [owners EXCEPT ![f] = owners[f] + 1]
        /\ used' = used /\ free_frames' = free_frames /\ search_hint' = search_hint
        /\ claims' = claims /\ lost' = lost
    BY <1>4 DEF pmm_frame_ref
  <2>2. Referenced(f) = owners[f] + 1 /\ owners[f] + 1 \in 1 .. RefMax
    BY <1>0, <1>t, <2>1 DEF Referenced, RefInv, RefsExact
  <2>3. refcount' \in [Frames -> 0 .. RefMax] /\ owners' \in [Frames -> Nat]
    BY <1>t, <2>1, <2>2
  <2>4. TypeOK'
    BY <1>t, <2>1, <2>3 DEF TypeOK
  <2>5. RefsExact' /\ OwnedIsUsed' /\ FreeCountExact'
    BY <1>t, <2>1, <2>2 DEF RefInv, RefsExact, OwnedIsUsed, Owned, FreeCountExact
  <2> QED
    BY <2>4, <2>5 DEF RefInv
<1>5. ASSUME NEW f \in Frames, pmm_frame_unref(f)
      PROVE  RefInv'
  <2>0. owners[f] > 0 /\ owners[f] = refcount[f] /\ f \in used
    BY <1>5, <1>t DEF pmm_frame_unref, RefInv, RefsExact, OwnedIsUsed, Owned
  <2>n. (IF refcount[f] = 0 THEN 0 ELSE refcount[f] - 1) = refcount[f] - 1
    BY <1>t, <2>0
  <2>a. refcount' = [refcount EXCEPT ![f] = refcount[f] - 1]
    BY <1>5, <2>n DEF pmm_frame_unref
  <2>1. /\ owners[f] > 0 /\ owners[f] = refcount[f] /\ f \in used
        /\ owners' = [owners EXCEPT ![f] = owners[f] - 1]
        /\ refcount' = [refcount EXCEPT ![f] = refcount[f] - 1]
        /\ search_hint' = search_hint
        /\ claims' = claims /\ lost' = lost
    BY <1>5, <2>0, <2>a DEF pmm_frame_unref
  <2>2. refcount' \in [Frames -> 0 .. RefMax] /\ owners' \in [Frames -> Nat]
    BY <1>0, <1>t, <2>1
  <2>3. RefsExact'
    BY <1>t, <2>1 DEF RefInv, RefsExact
  <2>4. CASE refcount[f] = 1
    <3>1. used' = used \ {f} /\ free_frames' = free_frames + 1
      BY <1>5, <2>4 DEF pmm_frame_unref, LastReference
    <3>s. Cardinality({f}) = 1 /\ {f} \in SUBSET used
      BY <2>1, FS_Singleton
    <3>m. Cardinality(Frames \ (used \ {f})) = Cardinality(Frames \ used) + Cardinality({f})
      BY <1>t, <3>s, MarkFree
    <3>2. FreeCountExact'
      BY <3>s, <3>m, <3>1 DEF RefInv, FreeCountExact
    <3>3. free_frames' \in 0 .. FrameCount
      BY <1>t, <3>1, <3>2, FrameSets DEF FreeCountExact
    <3>4. OwnedIsUsed'
      BY <1>t, <2>1, <2>4, <3>1 DEF RefInv, OwnedIsUsed, Owned
    <3> QED
      BY <1>t, <2>1, <2>2, <2>3, <3>1, <3>2, <3>3, <3>4 DEF RefInv, TypeOK
  <2>5. CASE refcount[f] # 1
    <3>1. used' = used /\ free_frames' = free_frames
      BY <1>5, <2>5 DEF pmm_frame_unref, LastReference
    <3>2. OwnedIsUsed' /\ FreeCountExact'
      BY <1>t, <2>1, <3>1 DEF RefInv, OwnedIsUsed, Owned, FreeCountExact
    <3> QED
      BY <1>t, <2>1, <2>2, <2>3, <3>1, <3>2 DEF RefInv, TypeOK
  <2> QED
    BY <2>4, <2>5
<1>6. ASSUME NEW base \in Units, NEW size \in Units, pmm_reserve_range(base, size)
      PROVE  RefInv'
  <2> DEFINE S == Newly(base, size)
  <2>1. /\ used' = used \cup S
        /\ refcount' = [f \in Frames |-> IF f \in S THEN 0 ELSE refcount[f]]
        /\ free_frames' = free_frames - Cardinality(S)
        /\ claims' = claims \cup {<<base, size>>}
        /\ search_hint' = search_hint /\ owners' = owners /\ lost' = lost
    BY <1>6 DEF pmm_reserve_range
  <2>2. S \subseteq Frames \ used
    BY <1>u, Roundings DEF Newly
  <2> HIDE DEF S
  <2>3. \A f \in S : owners[f] = 0
    BY <1>t, <2>2 DEF RefInv, OwnedIsUsed, Owned
  <2>4. FreeCountExact'
    BY <1>t, <2>1, <2>2, MarkUsed DEF RefInv, FreeCountExact
  <2>5. free_frames' \in 0 .. FrameCount
    BY <1>t, <2>1, <2>2, <2>4, FrameSets DEF FreeCountExact
  <2>6. refcount' \in [Frames -> 0 .. RefMax]
    BY <1>0, <1>t, <2>1
  <2>7. RefsExact' /\ OwnedIsUsed'
    BY <2>1, <2>3 DEF RefInv, RefsExact, OwnedIsUsed, Owned
  <2>8. used' \subseteq Frames /\ claims' \subseteq Units \X Units
    BY <1>t, <2>1, <2>2
  <2> QED
    BY <1>t, <2>1, <2>4, <2>5, <2>6, <2>7, <2>8 DEF RefInv, TypeOK
<1>7. ASSUME NEW base \in Units, NEW size \in Units, pmm_release_range(base, size)
      PROVE  RefInv'
  <2> DEFINE S == GivenBack(base, size)
  <2>1. /\ used' = used \ S
        /\ free_frames' = free_frames + Cardinality(S)
        /\ claims' = claims \ {<<base, size>>}
        /\ lost' = lost \cup (Outwards(base, size) \ Inwards(base, size))
        /\ refcount' = refcount /\ search_hint' = search_hint /\ owners' = owners
    BY <1>7 DEF pmm_release_range
  <2>2. S \subseteq used /\ \A f \in S : f \in Frames /\ refcount[f] = 0
    BY <1>t DEF GivenBack
  <2> HIDE DEF S
  <2>3. FreeCountExact'
    BY <1>t, <2>1, <2>2, MarkFree DEF RefInv, FreeCountExact
  <2>4. free_frames' \in 0 .. FrameCount
    BY <1>t, <2>1, <2>3, FrameSets DEF FreeCountExact
  <2>5. RefsExact' /\ OwnedIsUsed'
    BY <1>t, <2>1, <2>2 DEF RefInv, RefsExact, OwnedIsUsed, Owned
  <2>6. lost' \subseteq Frames
    BY <1>t, <1>u, <2>1, Roundings
  <2>7. used' \subseteq Frames /\ claims' \subseteq Units \X Units
    BY <1>t, <2>1
  <2> QED
    BY <1>t, <2>1, <2>3, <2>4, <2>5, <2>6, <2>7 DEF RefInv, TypeOK
<1>8. CASE UNCHANGED vars
  BY <1>8 DEF vars, RefInv, TypeOK, FreeCountExact, RefsExact, OwnedIsUsed, Owned
<1> QED
  BY <1>1, <1>2, <1>3, <1>4, <1>5, <1>6, <1>7, <1>8 DEF Next

\* Whatever ranges callers reserve and release, a frame with an owner is never
\* free, and s_free_frames is the number of clear bits: allocation neither
\* fails with memory to give nor underflows.  The hypothesis is that no frame
\* has more owners than its count can hold.
THEOREM PmmOwnedIsUsed ==
    ASSUME MaxOwners <= RefMax
    PROVE  Spec => [](TypeOK /\ FreeCountExact /\ OwnedIsUsed)
<1>1. Init => RefInv
  BY InitRefInv
<1>2. RefInv /\ [Next]_vars => RefInv'
  BY NextRefInv
<1>3. RefInv => TypeOK /\ FreeCountExact /\ OwnedIsUsed
  BY DEF RefInv
<1> QED
  BY <1>1, <1>2, <1>3, PTL DEF Spec

----------------------------------------------------------------------------
(* Who holds each used frame.                                              *)

\* A frame is reserved when some reservation covers it.
LEMMA CoversDef ==
    ASSUME NEW R, NEW f
    PROVE  f \in Covers(R) <=> \E r \in R : f \in Outwards(r[1], r[2])
BY DEF Covers

\* After pmm_init only the boot map holds frames.
LEMMA InitPmmInv == Init => PmmInv
<1> SUFFICES ASSUME Init PROVE PmmInv
  OBVIOUS
<1>1. RefInv
  BY InitRefInv
<1>2. Owned = {}
  BY DEF Init, Owned
<1>3. Covers(claims) = {}
  BY DEF Init, Covers
<1>4. FramesAccounted
  BY <1>2, <1>3 DEF Init, FramesAccounted
<1> QED
  BY <1>1, <1>2, <1>4 DEF Init, PmmInv, ClaimsDisjoint, ClaimsApart, OwnedApart

\* Handing out free frames to owners keeps everything accounted for.
LEMMA TakePmmInv ==
    ASSUME PmmInv, NEW S \in SUBSET (Frames \ used), Take(S), RefInv'
    PROVE  PmmInv'
<1>1. /\ used' = used \cup S
      /\ owners' = [f \in Frames |-> IF f \in S THEN owners[f] + 1 ELSE owners[f]]
      /\ claims' = claims /\ lost' = lost
  BY DEF Take
<1>2. Owned' = Owned \cup S
  <2>1. owners \in [Frames -> Nat] /\ S \subseteq Frames
    BY DEF PmmInv, RefInv, TypeOK
  <2> QED
    BY <1>1, <2>1 DEF Owned
<1>3. FramesAccounted'
  BY <1>1, <1>2 DEF PmmInv, FramesAccounted, Covers
<1>4. ClaimsDisjoint'
  BY <1>1 DEF PmmInv, ClaimsDisjoint
<1>5. \A r \in claims : Outwards(r[1], r[2]) \subseteq used
  BY CoversDef DEF PmmInv, FramesAccounted
<1>6. ClaimsApart'
  BY <1>1, <1>2, <1>5 DEF PmmInv, ClaimsApart
<1>7. S \subseteq Offered \ lost
  BY DEF PmmInv, FramesAccounted
<1>8. OwnedApart'
  BY <1>1, <1>2, <1>7 DEF PmmInv, OwnedApart
<1> QED
  BY <1>3, <1>4, <1>6, <1>8 DEF PmmInv

\* An owner letting go of frames it alone holds frees exactly those.
LEMMA FreePmmInv ==
    ASSUME PmmInv, NEW S \in SUBSET Owned, RefInv',
           used' = used \ S, Owned' = Owned \ S, claims' = claims, lost' = lost
    PROVE  PmmInv'
<1>1. S \cap Covers(claims) = {}
  BY CoversDef DEF PmmInv, ClaimsApart
<1>2. S \cap (lost \cup (Frames \ Offered)) = {}
  BY DEF PmmInv, OwnedApart
<1>3. FramesAccounted'
  BY <1>1, <1>2 DEF PmmInv, FramesAccounted, Covers
<1>4. ClaimsDisjoint' /\ ClaimsApart' /\ OwnedApart'
  BY DEF PmmInv, ClaimsDisjoint, ClaimsApart, OwnedApart
<1> QED
  BY <1>3, <1>4 DEF PmmInv

\* Every operation keeps the frames accounted for, as long as callers reserve
\* free ranges only and no count saturates.
LEMMA NextPmmInv ==
    ASSUME ClaimFree, MaxOwners <= RefMax, PmmInv, [Next]_vars
    PROVE  PmmInv'
<1>r. RefInv /\ RefInv'
  BY NextRefInv DEF PmmInv
<1>t. /\ owners \in [Frames -> Nat] /\ claims \subseteq Units \X Units
      /\ \A f \in Frames : refcount[f] = owners[f]
  BY <1>r DEF RefInv, TypeOK, RefsExact
<1>u. Units \subseteq Nat
  BY PmmAssumption DEF Units
<1>1. ASSUME NEW f \in Frames, pmm_alloc_frame(f)
      PROVE  PmmInv'
  <2>1. {f} \in SUBSET (Frames \ used) /\ Take({f})
    BY <1>1 DEF pmm_alloc_frame, IsNextFree
  <2> QED
    BY <1>r, <2>1, TakePmmInv
<1>2. ASSUME NEW f \in Frames, NEW n \in 1 .. MaxRun, pmm_alloc_frames(f, n)
      PROVE  PmmInv'
  <2>1. Run(f, n) \in SUBSET (Frames \ used) /\ Take(Run(f, n))
    BY <1>2 DEF pmm_alloc_frames, IsFirstFit, Fits
  <2> QED
    BY <1>r, <2>1, TakePmmInv
<1>3. ASSUME NEW f \in Frames, NEW n \in 1 .. MaxRun, pmm_free_frames(f, n)
      PROVE  PmmInv'
  <2> DEFINE S == Run(f, n)
  <2>1. /\ S \subseteq Frames /\ \A k \in S : owners[k] = 1
        /\ used' = used \ S
        /\ owners' = [k \in Frames |-> IF k \in S THEN 0 ELSE owners[k]]
        /\ claims' = claims /\ lost' = lost
    BY <1>3 DEF pmm_free_frames
  <2> HIDE DEF S
  <2>2. S \in SUBSET Owned /\ Owned' = Owned \ S
    BY <1>t, <2>1 DEF Owned
  <2> QED
    BY <1>r, <2>1, <2>2, FreePmmInv
<1>4. ASSUME NEW f \in Frames, pmm_frame_ref(f)
      PROVE  PmmInv'
  <2>1. /\ owners[f] > 0 /\ owners' = [owners EXCEPT ![f] = owners[f] + 1]
        /\ used' = used /\ claims' = claims /\ lost' = lost
    BY <1>4 DEF pmm_frame_ref
  <2>2. Owned' = Owned
    BY <1>t, <2>1 DEF Owned
  <2>3. {} \in SUBSET Owned /\ used' = used \ {} /\ Owned' = Owned \ {}
    BY <2>1, <2>2
  <2> QED
    BY <1>r, <2>1, <2>3, FreePmmInv
<1>5. ASSUME NEW f \in Frames, pmm_frame_unref(f)
      PROVE  PmmInv'
  <2> DEFINE S == IF refcount[f] = 1 THEN {f} ELSE {}
  <2>1. /\ owners[f] > 0 /\ owners' = [owners EXCEPT ![f] = owners[f] - 1]
        /\ used' = used \ S /\ claims' = claims /\ lost' = lost
    BY <1>5 DEF pmm_frame_unref, LastReference
  <2>2. S \in SUBSET Owned /\ Owned' = Owned \ S
    BY <1>t, <2>1 DEF Owned
  <2> HIDE DEF S
  <2> QED
    BY <1>r, <2>1, <2>2, FreePmmInv
<1>6. ASSUME NEW base \in Units, NEW size \in Units, pmm_reserve_range(base, size)
      PROVE  PmmInv'
  <2> DEFINE S == Outwards(base, size)
             c == <<base, size>>
  <2>1. /\ S \cap used = {}
        /\ used' = used \cup Newly(base, size)
        /\ claims' = claims \cup {c}
        /\ owners' = owners /\ lost' = lost
    BY <1>6 DEF pmm_reserve_range
  <2>2. S \subseteq Frames /\ used' = used \cup S
    BY <1>u, <2>1, Roundings DEF Newly
  <2>3. Outwards(c[1], c[2]) = S
    OBVIOUS
  <2>4. Owned' = Owned
    BY <2>1 DEF Owned
  <2> HIDE DEF S, c
  <2>5. Covers(claims') = Covers(claims) \cup S
    BY <2>1, <2>3, CoversDef
  <2>6. FramesAccounted'
    BY <2>1, <2>2, <2>4, <2>5 DEF PmmInv, FramesAccounted, Covers
  <2>7. /\ \A r \in claims : Outwards(r[1], r[2]) \cap S = {}
        /\ S \cap (Owned \cup lost \cup (Frames \ Offered)) = {}
    BY <2>1, CoversDef DEF PmmInv, FramesAccounted
  <2>8. \A r \in claims' : r \in claims \/ (r = c /\ Outwards(r[1], r[2]) = S)
    BY <2>1, <2>3
  <2>9. ClaimsDisjoint'
    BY <2>7, <2>8 DEF PmmInv, ClaimsDisjoint
  <2>10. ClaimsApart' /\ OwnedApart'
    BY <2>1, <2>4, <2>7, <2>8 DEF PmmInv, ClaimsApart, OwnedApart
  <2> QED
    BY <1>r, <2>6, <2>9, <2>10 DEF PmmInv
<1>7. ASSUME NEW base \in Units, NEW size \in Units, pmm_release_range(base, size)
      PROVE  PmmInv'
  <2> DEFINE S == Outwards(base, size)
             I == Inwards(base, size)
             c == <<base, size>>
  <2>1. /\ c \in claims
        /\ used' = used \ GivenBack(base, size)
        /\ claims' = claims \ {c}
        /\ lost' = lost \cup (S \ I)
        /\ owners' = owners
    BY <1>7 DEF pmm_release_range
  <2>2. S \subseteq Frames /\ I \subseteq S
    BY <1>u, Roundings
  <2>3. Outwards(c[1], c[2]) = S
    OBVIOUS
  <2>4. Owned' = Owned
    BY <2>1 DEF Owned
  <2>5. S \subseteq used /\ S \cap (Owned \cup lost \cup (Frames \ Offered)) = {}
    BY <2>1, <2>3, CoversDef DEF PmmInv, FramesAccounted, ClaimsApart
  <2>6. GivenBack(base, size) = I
    BY <1>t, <2>2, <2>5 DEF GivenBack, Owned
  <2> HIDE DEF S, I, c
  <2>7. \A r \in claims \ {c} : Outwards(r[1], r[2]) \cap S = {}
    BY <2>1, <2>3 DEF PmmInv, ClaimsDisjoint
  <2>8. Covers(claims') = Covers(claims) \ S
    BY <2>1, <2>3, <2>7, CoversDef
  <2>9. FramesAccounted'
    <3>1. used = Owned \cup Covers(claims) \cup lost \cup (Frames \ Offered)
      BY DEF PmmInv, FramesAccounted
    <3>2. used' = Owned' \cup Covers(claims') \cup lost' \cup (Frames \ Offered)
      BY <2>1, <2>2, <2>4, <2>5, <2>6, <2>8, <3>1
    <3> QED
      BY <3>2 DEF FramesAccounted, Covers
  <2>10. ClaimsDisjoint'
    BY <2>1 DEF PmmInv, ClaimsDisjoint
  <2>11. ClaimsApart'
    BY <2>1, <2>4, <2>7 DEF PmmInv, ClaimsApart
  <2>12. OwnedApart'
    BY <2>1, <2>4, <2>5 DEF PmmInv, OwnedApart
  <2> QED
    BY <1>r, <2>9, <2>10, <2>11, <2>12 DEF PmmInv
<1>8. CASE UNCHANGED vars
  BY <1>r, <1>8 DEF vars, PmmInv, FramesAccounted, ClaimsDisjoint, ClaimsApart,
                    OwnedApart, Owned, Covers
<1> QED
  BY <1>1, <1>2, <1>3, <1>4, <1>5, <1>6, <1>7, <1>8 DEF Next

\* Every frame is counted right: a frame is used exactly while somebody holds
\* it, its count is the number of its owners, and s_free_frames counts the
\* rest.  The hypotheses are the callers' side: only free ranges are reserved
\* (pmm_reserve_range leaves a frame that is in use to its owner, who will
\* free it), and no frame has more owners than a count can hold.
THEOREM PmmCountsExact ==
    ASSUME ClaimFree, MaxOwners <= RefMax
    PROVE  Spec => []CountsExact
<1>1. Init => PmmInv
  BY InitPmmInv
<1>2. PmmInv /\ [Next]_vars => PmmInv'
  BY NextPmmInv
<1>3. PmmInv => CountsExact
  BY DEF PmmInv, RefInv, CountsExact
<1> QED
  BY <1>1, <1>2, <1>3, PTL DEF Spec

\* What pmm_alloc_frame and pmm_alloc_frames hand out lies wholly in a usable
\* region of the boot map and outside the null page, the kernel image and
\* everything else pmm_init reserved.
THEOREM PmmHandedOutIsUsable ==
    ASSUME ClaimFree, MaxOwners <= RefMax
    PROVE  Spec => []HandedOutIsUsable
<1>1. Init => PmmInv
  BY InitPmmInv
<1>2. PmmInv /\ [Next]_vars => PmmInv'
  BY NextPmmInv
<1>3. PmmInv => HandedOutIsUsable
  <2> SUFFICES ASSUME PmmInv, NEW f \in Owned
               PROVE  /\ f \notin Covers(Survivors)
                      /\ \E r \in Regions : /\ r[1] <= f * FrameUnits
                                            /\ (f + 1) * FrameUnits <= r[1] + r[2]
    BY DEF HandedOutIsUsable
  <2>1. f \in Offered
    BY DEF PmmInv, OwnedApart
  <2>2. PICK r \in Regions : f \in Inwards(r[1], r[2])
    BY <2>1 DEF Offered
  <2>3. f * FrameUnits >= r[1] /\ (f + 1) * FrameUnits <= r[1] + r[2]
    BY <2>2 DEF Inwards
  <2>4. r[1] \in Nat /\ f * FrameUnits \in Nat
    BY PmmAssumption DEF Owned, Frames
  <2>5. r[1] <= f * FrameUnits
    BY <2>3, <2>4
  <2> QED
    BY <2>1, <2>3, <2>5 DEF Offered
<1> QED
  BY <1>1, <1>2, <1>3, PTL DEF Spec

----------------------------------------------------------------------------
(* The heap: natural numbers and the layout of frames.                     *)

\* A set of natural numbers that is not empty has a least element: the lowest
\* free frame that alloc_table takes exists.
LEMMA LeastNatural ==
    ASSUME NEW T, T \subseteq Nat, T # {}
    PROVE  \E x \in T : \A y \in T : x <= y
<1> DEFINE R == OpToRel(<, Nat)
<1>1. IsWellFoundedOn(R, Nat)
    BY NatLessThanWellFounded
<1>2. \E x \in T : \A y \in T : ~(<<y, x>> \in R)
    BY ONLY <1>1, T \subseteq Nat, T # {}, WFMin
<1>3. \A x, y \in Nat : <<y, x>> \in R <=> y < x
    BY DEF OpToRel
<1> HIDE DEF R
<1>4. PICK x \in T : \A y \in T : ~(<<y, x>> \in R)
    BY <1>2
<1>5. \A y \in T : x <= y
    <2> TAKE y \in T
    <2>1. x \in Nat /\ y \in Nat /\ ~(y < x)
        BY <1>3, <1>4
    <2> QED BY <2>1
<1> QED BY <1>5


\* Quotient and remainder.
LEMMA Division ==
    ASSUME NEW n \in Nat, NEW d \in Nat \ {0}
    PROVE  \E q \in Nat, r \in 0 .. d - 1 : n = d * q + r /\ n \div d = q /\ n % d = r
<1> DEFINE q == n \div d
           r == n % d
<1>1. q \in Nat /\ r \in 0 .. d - 1 /\ n = d * q + r
    OBVIOUS
<1>2. n \div d = q /\ n % d = r
    OBVIOUS
<1> HIDE DEF q, r
<1> QED
    BY <1>1, <1>2

\* Rounding up to a multiple adds less than one.
LEMMA Rounded ==
    ASSUME NEW n \in Nat, NEW a \in Nat \ {0}
    PROVE  AlignUp(n, a) \in Nat /\ n <= AlignUp(n, a) /\ AlignUp(n, a) < n + a
<1> DEFINE q == (n + a - 1) \div a
           r == (n + a - 1) % a
<1>1. q \in Nat /\ r \in 0 .. a - 1 /\ n + a - 1 = a * q + r
    OBVIOUS
<1>2. AlignUp(n, a) = a * q
    BY <1>1 DEF AlignUp
<1>3. a * q \in Nat
    BY <1>1
<1> HIDE DEF q, r
<1> QED
    BY <1>1, <1>2, <1>3

\* A multiple and less than one more divide to the multiple.
LEMMA DividesTo ==
    ASSUME NEW m \in Nat, NEW d \in Nat \ {0}, NEW r \in 0 .. d - 1
    PROVE  (m * d + r) \div d = m /\ (m * d + r) % d = r
<1> DEFINE x == m * d + r
           q == x \div d
           s == x % d
<1>1. x \in Nat
    OBVIOUS
<1>2. q \in Nat /\ s \in 0 .. d - 1 /\ x = d * q + s
    BY <1>1
<1>3. ~(q < m)
    <2> SUFFICES ASSUME q <= m - 1 PROVE FALSE
        BY <1>2
    <2>1. d * q <= d * (m - 1)
        BY <1>2
    <2> QED
        BY <1>2, <2>1
<1>4. ~(q > m)
    <2> SUFFICES ASSUME q >= m + 1 PROVE FALSE
        BY <1>2
    <2>1. d * q >= d * (m + 1)
        BY <1>2
    <2> QED
        BY <1>2, <2>1
<1>5. q = m
    BY <1>2, <1>3, <1>4
<1> QED
    BY <1>2, <1>5

\* The frame of an address is the one whose bytes it lies among.
LEMMA FrameOf ==
    ASSUME NEW p \in Nat, NEW lo \in Nat, NEW hi \in Nat, lo * Page <= p, p < hi * Page
    PROVE  PageOf(p) \in lo .. hi - 1
<1> DEFINE q == p \div Page
           r == p % Page
<1>1. Page \in Nat \ {0}
    BY PmmAssumption DEF Page
<1>2. q \in Nat /\ r \in 0 .. Page - 1 /\ p = Page * q + r
    BY <1>1
<1>3. ~(q < lo)
    <2> SUFFICES ASSUME q + 1 <= lo PROVE FALSE
        BY <1>2
    <2>1. Page * (q + 1) <= Page * lo
        BY <1>1, <1>2
    <2> QED
        BY <1>1, <1>2, <2>1
<1>4. q < hi
    <2> SUFFICES ASSUME q >= hi PROVE FALSE
        BY <1>2
    <2>1. Page * q >= Page * hi
        BY <1>1, <1>2
    <2> QED
        BY <1>1, <1>2, <2>1
<1> QED
    BY <1>2, <1>3, <1>4 DEF PageOf

\* The objects of a slab lie one stride apart, behind the header and inside
\* the frame, with their guard bands.
LEMMA SlabLayout ==
    ASSUME NEW c \in Classes
    PROVE  /\ slab_stride(c) \in Nat \ {0}
           /\ ClassSizes[c] \in Nat \ {0}
           /\ ClassSizes[c] + Redzone <= slab_stride(c)
           /\ slab_capacity(c) \in Nat \ {0}
           /\ \A i \in 1 .. slab_capacity(c) :
                 /\ (i - 1) * slab_stride(c) \in Nat
                 /\ ObjectOffset + (i - 1) * slab_stride(c) + slab_stride(c) <= Page - Redzone
<1> DEFINE s == slab_stride(c)
           room == Page - ObjectOffset - Redzone
           k == slab_capacity(c)
<1>1. /\ Page \in Nat \ {0} /\ ObjectOffset \in Nat /\ Redzone \in Nat
      /\ ClassSizes[c] \in Nat \ {0}
      /\ ObjectOffset + ClassSizes[c] + 2 * Redzone + 7 <= Page
    BY PmmAssumption, HeapAssumption DEF Page, Classes
<1>2. s \in Nat \ {0} /\ ClassSizes[c] + Redzone <= s /\ s < ClassSizes[c] + Redzone + 8
    <2> DEFINE n == ClassSizes[c] + Redzone
    <2>1. n \in Nat
        BY <1>1
    <2>2. AlignUp(n, 8) \in Nat /\ n <= AlignUp(n, 8) /\ AlignUp(n, 8) < n + 8
        BY <2>1, Rounded
    <2>3. s = AlignUp(n, 8)
        BY DEF slab_stride
    <2> HIDE DEF s
    <2> QED
        BY <1>1, <2>1, <2>2, <2>3
<1>3. room \in Nat /\ s <= room
    BY <1>1, <1>2
<1>4. k = room \div s
    BY DEF slab_capacity
<1> HIDE DEF s, room
<1>5. k \in Nat /\ s * k <= room /\ room < s * k + s
    <2>1. PICK q \in Nat, r \in 0 .. s - 1 : room = s * q + r /\ room \div s = q
        BY <1>2, <1>3, Division
    <2>2. s * q \in Nat /\ k = q
        BY <1>2, <1>4, <2>1
    <2> QED
        BY <1>2, <1>3, <2>1, <2>2
<1> HIDE DEF k
<1>6. k # 0
    BY <1>2, <1>3, <1>5
<1>7. ASSUME NEW i \in 1 .. k
      PROVE  (i - 1) * s \in Nat /\ ObjectOffset + (i - 1) * s + s <= Page - Redzone
    <2>1. i \in Nat /\ i - 1 \in Nat /\ (i - 1) * s \in Nat /\ s * i \in Nat
        BY <1>2, <1>5, <1>7
    <2>2. (i - 1) * s + s = s * i
        BY <1>2, <2>1
    <2>3. s * i <= s * k
        BY <1>2, <1>5, <1>7
    <2>4. ObjectOffset + s * i <= Page - Redzone
        <3>1. s * k \in Nat
            BY <1>2, <1>5
        <3> QED
            BY <1>1, <1>3, <1>5, <2>1, <2>3, <3>1 DEF room
    <2> QED
        BY <1>1, <1>2, <2>1, <2>2, <2>4
<1> QED
    BY <1>1, <1>2, <1>5, <1>6, <1>7 DEF s, k

\* From the address of an object its frame and its number can be told, and
\* what its owner may use, with the guard band, ends inside the frame.
LEMMA ObjectPlace ==
    ASSUME NEW c \in Classes, NEW f \in Frames, NEW i \in 1 .. slab_capacity(c)
    PROVE  /\ ObjectAt(c, f, i) \in Nat
           /\ PageOf(ObjectAt(c, f, i)) = f
           /\ ObjectIndex(c, ObjectAt(c, f, i)) = i
           /\ ObjectAt(c, f, i) + ClassSizes[c] + Redzone <= (f + 1) * Page
<1> DEFINE s == slab_stride(c)
           k == slab_capacity(c)
           off == ObjectOffset + (i - 1) * s
<1>1. /\ Page \in Nat \ {0} /\ ObjectOffset \in Nat /\ Redzone \in Nat /\ f \in Nat
    BY PmmAssumption, HeapAssumption DEF Page, Frames
<1>2. /\ s \in Nat \ {0} /\ ClassSizes[c] \in Nat /\ ClassSizes[c] + Redzone <= s
      /\ k \in Nat /\ (i - 1) * s \in Nat /\ off + s <= Page - Redzone
    BY SlabLayout
<1>3. off \in 0 .. Page - 1 /\ i - 1 \in Nat /\ f * Page \in Nat
    <2> DEFINE t == (i - 1) * s
    <2>1. t \in Nat /\ ObjectOffset + t + s <= Page - Redzone /\ s \in Nat /\ s > 0
        BY <1>2
    <2> HIDE DEF t, s
    <2>2. ObjectOffset + t \in 0 .. Page - 1
        BY <1>1, <2>1
    <2>3. i - 1 \in Nat /\ f * Page \in Nat
        BY <1>1, <1>2
    <2> QED
        BY <2>2, <2>3 DEF t, s
<1>4. ObjectAt(c, f, i) = f * Page + off
    BY <1>1, <1>2 DEF ObjectAt
<1>5. (f * Page + off) \div Page = f /\ (f * Page + off) % Page = off
    BY <1>1, <1>3, DividesTo
<1>6. off - ObjectOffset = (i - 1) * s
    BY <1>1, <1>2
<1>7. ((i - 1) * s) \div s = i - 1
    <2>1. ((i - 1) * s + 0) \div s = i - 1
        BY ONLY <1>2, <1>3, 0 \in 0 .. s - 1, DividesTo
    <2> QED
        BY ONLY <2>1, <1>2
<1>8. (f + 1) * Page = f * Page + Page
    BY <1>1
<1>9. f * Page + off + ClassSizes[c] + Redzone <= (f + 1) * Page
    BY <1>1, <1>2, <1>3, <1>8
<1> QED
    BY <1>3, <1>4, <1>5, <1>6, <1>7, <1>9 DEF PageOf, ObjectIndex

\* The frames of a large block hold its size, its trailer and the padding of
\* any alignment up to a page.
LEMMA LargeLayout ==
    ASSUME NEW size \in Nat
    PROVE  /\ FramesFor(size) \in Nat \ {0}
           /\ size + TrailerSize + Page <= FramesFor(size) * Page
<1> DEFINE x == size + TrailerSize + Page + Page - 1
<1>1. Page \in Nat \ {0} /\ TrailerSize \in Nat
    BY PmmAssumption, HeapAssumption DEF Page
<1>2. x \in Nat /\ FramesFor(size) = x \div Page
    BY <1>1 DEF FramesFor
<1>3. PICK q \in Nat, r \in 0 .. Page - 1 : x = Page * q + r /\ x \div Page = q
    BY <1>1, <1>2, Division
<1>4. Page * q \in Nat /\ q * Page = Page * q
    BY <1>1
<1>5. size + TrailerSize + Page <= q * Page
    BY <1>1, <1>3, <1>4
<1>6. q # 0
    BY <1>1, <1>4, <1>5
<1> QED
    BY <1>2, <1>3, <1>5, <1>6

\* Where the block of a run begins: behind its trailer, less than a page late.
LEMMA UserPlace ==
    ASSUME NEW base \in Nat, NEW a \in Nat \ {0}, a <= 8 \/ a <= Page
    PROVE  /\ UserAt(base, a) \in Nat
           /\ base + TrailerSize <= UserAt(base, a)
           /\ UserAt(base, a) < base + TrailerSize + Page
<1>1. Page \in Nat \ {0} /\ TrailerSize \in Nat
    BY PmmAssumption, HeapAssumption DEF Page
<1>2. base + TrailerSize \in Nat
    BY <1>1
<1> QED
    BY <1>1, <1>2, Rounded DEF UserAt

\* Objects begin behind the header of their slab.
LEMMA ObjectBehind ==
    ASSUME NEW c \in Classes, NEW f \in Frames, NEW i \in 1 .. slab_capacity(c)
    PROVE  f * Page <= ObjectAt(c, f, i) /\ f * Page + HeaderSize <= ObjectAt(c, f, i)
<1> DEFINE t == (i - 1) * slab_stride(c)
<1>1. t \in Nat
    BY SlabLayout
<1>2. ObjectAt(c, f, i) = f * Page + ObjectOffset + t
    BY DEF ObjectAt
<1> HIDE DEF t
<1>3. /\ Page \in Nat \ {0} /\ HeaderSize \in Nat /\ Redzone \in Nat /\ ObjectOffset \in Nat
      /\ HeaderSize + Redzone <= ObjectOffset /\ f \in Nat
    BY PmmAssumption, HeapAssumption DEF Page, Frames
<1>4. f * Page \in Nat
    BY <1>3
<1> QED
    BY <1>1, <1>2, <1>3, <1>4

\* An object with its guard band ends before the next ones begin.
LEMMA ObjectsApart ==
    ASSUME NEW c \in Classes, NEW f \in Frames,
           NEW i \in 1 .. slab_capacity(c), NEW j \in 1 .. slab_capacity(c), i < j
    PROVE  ObjectAt(c, f, i) + ClassSizes[c] + Redzone <= ObjectAt(c, f, j)
<1> DEFINE s == slab_stride(c)
           lo == (i - 1) * s
           hi == (j - 1) * s
<1>1. /\ s \in Nat \ {0} /\ ClassSizes[c] \in Nat /\ ClassSizes[c] + Redzone <= s
      /\ slab_capacity(c) \in Nat /\ lo \in Nat /\ hi \in Nat
    BY SlabLayout
<1>2. lo + s <= hi
    <2>1. i \in Nat /\ j \in Nat /\ i <= j - 1
        BY <1>1
    <2>2. lo + s = i * s
        BY <1>1, <2>1
    <2>3. i * s <= (j - 1) * s
        BY <1>1, <2>1
    <2> QED
        BY <2>2, <2>3
<1>3. /\ ObjectAt(c, f, i) = f * Page + ObjectOffset + lo
      /\ ObjectAt(c, f, j) = f * Page + ObjectOffset + hi
    BY DEF ObjectAt
<1>4. f * Page \in Nat /\ ObjectOffset \in Nat /\ Redzone \in Nat
    BY PmmAssumption, HeapAssumption DEF Page, Frames
<1> HIDE DEF s, lo, hi
<1> QED
    BY <1>1, <1>2, <1>3, <1>4

----------------------------------------------------------------------------
(* Free lists as sequences.                                                *)

\* No number stands twice.
Once(s) == \A i, j \in 1 .. Len(s) : s[i] = s[j] => i = j

\* The elements of a list.
LEMMA ListElements ==
    ASSUME NEW S, NEW s \in Seq(S)
    PROVE  ToSet(s) \subseteq S /\ \A T : S \subseteq T => s \in Seq(T)
<1>1. Len(s) \in Nat /\ DOMAIN s = 1 .. Len(s) /\ \A i \in 1 .. Len(s) : s[i] \in S
    OBVIOUS
<1>2. s = [i \in 1 .. Len(s) |-> s[i]]
    BY <1>1
<1> QED
    BY <1>1, <1>2 DEF ToSet

\* Taking the head of a list takes that number off it.
LEMMA TailOnce ==
    ASSUME NEW S, NEW s \in Seq(S), s # <<>>, Once(s)
    PROVE  /\ Head(s) \in S /\ Head(s) \in ToSet(s)
           /\ Tail(s) \in Seq(S) /\ Once(Tail(s))
           /\ ToSet(Tail(s)) = ToSet(s) \ {Head(s)}
<1>1. Len(s) \in Nat /\ Len(s) > 0 /\ DOMAIN s = 1 .. Len(s) /\ Head(s) = s[1]
    OBVIOUS
<1>2. /\ Tail(s) \in Seq(S) /\ Len(Tail(s)) = Len(s) - 1
      /\ DOMAIN Tail(s) = 1 .. Len(s) - 1
      /\ \A i \in 1 .. Len(s) - 1 : Tail(s)[i] = s[i + 1]
    OBVIOUS
<1>3. Once(Tail(s))
    BY <1>1, <1>2 DEF Once
<1>4. ASSUME NEW x PROVE x \in ToSet(Tail(s)) <=> x \in ToSet(s) \ {Head(s)}
    <2>1. ASSUME x \in ToSet(Tail(s)) PROVE x \in ToSet(s) \ {Head(s)}
        <3>1. PICK i \in 1 .. Len(s) - 1 : x = Tail(s)[i]
            BY <1>2, <2>1 DEF ToSet
        <3>2. x = s[i + 1] /\ i + 1 \in 1 .. Len(s) /\ 1 \in 1 .. Len(s) /\ i + 1 # 1
            BY <1>1, <1>2, <3>1
        <3> QED
            BY <1>1, <3>2 DEF ToSet, Once
    <2>2. ASSUME x \in ToSet(s), x # Head(s) PROVE x \in ToSet(Tail(s))
        <3>1. PICK i \in 1 .. Len(s) : x = s[i]
            BY <1>1, <2>2 DEF ToSet
        <3>2. i - 1 \in 1 .. Len(s) - 1 /\ i - 1 + 1 = i
            BY <1>1, <2>2, <3>1
        <3> QED
            BY <1>2, <3>1, <3>2 DEF ToSet
    <2> QED
        BY <2>1, <2>2
<1>5. ToSet(Tail(s)) = ToSet(s) \ {Head(s)}
    BY <1>4
<1>6. Head(s) \in S /\ Head(s) \in ToSet(s)
    <2>1. 1 \in 1 .. Len(s) /\ s[1] \in S
        BY <1>1
    <2> QED
        BY <1>1, <2>1 DEF ToSet
<1> QED
    BY <1>2, <1>3, <1>5, <1>6

\* Putting a number in front of a list that lacks it adds that number.
LEMMA PushOnce ==
    ASSUME NEW S, NEW s \in Seq(S), NEW x \in S
    PROVE  /\ <<x>> \o s \in Seq(S)
           /\ ToSet(<<x>> \o s) = {x} \cup ToSet(s)
           /\ Once(s) /\ x \notin ToSet(s) => Once(<<x>> \o s)
<1> DEFINE t == <<x>> \o s
<1>1. Len(s) \in Nat /\ DOMAIN s = 1 .. Len(s)
    OBVIOUS
<1>2. /\ t \in Seq(S) /\ Len(t) = Len(s) + 1 /\ DOMAIN t = 1 .. Len(s) + 1
      /\ t[1] = x /\ \A i \in 1 .. Len(s) : t[i + 1] = s[i]
    OBVIOUS
<1> HIDE DEF t
<1>3. \A i \in 1 .. Len(s) + 1 : i # 1 => i - 1 \in 1 .. Len(s) /\ t[i] = s[i - 1]
    <2> TAKE i \in 1 .. Len(s) + 1
    <2> HAVE i # 1
    <2>1. i - 1 \in 1 .. Len(s) /\ i - 1 + 1 = i
        BY <1>1
    <2> QED
        BY <1>2, <2>1
<1>4. \A y : y \in ToSet(t) <=> y \in {x} \cup ToSet(s)
    <2> TAKE y
    <2>1. ASSUME y \in ToSet(t) PROVE y \in {x} \cup ToSet(s)
        BY <1>1, <1>2, <1>3, <2>1 DEF ToSet
    <2>2. ASSUME y \in ToSet(s) PROVE y \in ToSet(t)
        <3>1. PICK i \in 1 .. Len(s) : y = s[i]
            BY <1>1, <2>2 DEF ToSet
        <3>2. i + 1 \in 1 .. Len(s) + 1 /\ t[i + 1] = y
            BY <1>1, <1>2, <3>1
        <3> QED
            BY <1>2, <3>2 DEF ToSet
    <2>3. x \in ToSet(t)
        BY <1>1, <1>2 DEF ToSet
    <2> QED
        BY <2>1, <2>2, <2>3
<1>5. ASSUME Once(s), x \notin ToSet(s), NEW i \in 1 .. Len(s) + 1, NEW j \in 1 .. Len(s) + 1,
             t[i] = t[j]
      PROVE  i = j
    <2>1. \A k \in 1 .. Len(s) + 1 : k # 1 => t[k] # x
        BY <1>1, <1>3, <1>5 DEF ToSet
    <2>2. CASE i = 1 \/ j = 1
        BY <1>2, <1>5, <2>1, <2>2
    <2>3. CASE i # 1 /\ j # 1
        <3>1. i - 1 = j - 1
            BY <1>3, <1>5, <2>3 DEF Once
        <3> QED
            BY <1>1, <3>1
    <2> QED
        BY <2>2, <2>3
<1> QED
    BY <1>2, <1>4, <1>5 DEF t, Once

\* A list that holds each number once is as long as the set of its numbers.
LEMMA OnceCounts ==
    ASSUME NEW S, NEW s \in Seq(S), Once(s)
    PROVE  Cardinality(ToSet(s)) = Len(s)
<1> DEFINE n == Len(s)
<1>1. n \in Nat /\ DOMAIN s = 1 .. n
    OBVIOUS
<1>2. s \in Bijection(1 .. n, ToSet(s))
    BY <1>1 DEF Bijection, Injection, Surjection, ToSet, Once, IsInjective
<1> QED
    BY <1>1, <1>2, FS_CountingElements DEF ExistsBijection

\* The free list of a new slab: every number but the first, upwards.
LEMMA NewFreeList ==
    ASSUME NEW n \in Nat \ {0}
    PROVE  LET s == [k \in 1 .. n - 1 |-> k + 1]
           IN  s \in Seq(1 .. n) /\ Once(s) /\ ToSet(s) = 2 .. n
<1> DEFINE s == [k \in 1 .. n - 1 |-> k + 1]
<1>1. s \in Seq(1 .. n) /\ Len(s) = n - 1 /\ DOMAIN s = 1 .. n - 1
    <2>1. n - 1 \in Nat /\ s \in [1 .. n - 1 -> 1 .. n]
        OBVIOUS
    <2> QED
        BY <2>1
<1>2. \A k \in 1 .. n - 1 : s[k] = k + 1
    OBVIOUS
<1> HIDE DEF s
<1>3. Once(s)
    BY <1>1, <1>2 DEF Once
<1>4. \A x : x \in ToSet(s) <=> x \in 2 .. n
    <2> TAKE x
    <2>1. ASSUME x \in ToSet(s) PROVE x \in 2 .. n
        BY <1>1, <1>2, <2>1 DEF ToSet
    <2>2. ASSUME x \in 2 .. n PROVE x \in ToSet(s)
        <3>1. x - 1 \in 1 .. n - 1 /\ s[x - 1] = x
            BY <1>2, <2>2
        <3> QED
            BY <1>1, <3>1 DEF ToSet
    <2> QED
        BY <2>1, <2>2
<1> QED
    BY <1>1, <1>3, <1>4 DEF s

----------------------------------------------------------------------------
(* The inductive invariant of the heap.                                    *)

\* The sizes a caller asks for, and those krealloc asks for.
Requests == Sizes \cup GrowTo

\* Each cache has its own frames, one owner each.
CachesOK ==
    /\ slabs \in [Classes -> Seq(Frames)]
    /\ \A c, d \in Classes : c # d => SlabFrames(c) \cap SlabFrames(d) = {}
    /\ DOMAIN free_list = Slabs

\* A frame has no owner or one, and is marked used while it has one.
OwnersOK == owners \in [Frames -> {0, 1}] /\ Owned \subseteq used

\* A large block lies with its trailer in a run of its own.
LargeOK(p) ==
    /\ p \in Nat
    /\ trailers[p] \in [base : Frames, frames : Nat \ {0}, requested : Nat \ {0}]
    /\ LargeFrames(p) \subseteq Frames
    /\ trailers[p].base * Page + TrailerSize <= p
    /\ ~Beyond(p, trailers[p].requested)

TrailersOK == \A p \in DOMAIN trailers : LargeOK(p)

\* A pointer p is that of an object of some slab, with n bytes to use.
IsObject(p, n) ==
    \E c \in Classes : \E f \in SlabFrames(c), i \in 1 .. slab_capacity(c) :
        p = ObjectAt(c, f, i) /\ n = ClassSizes[c]

\* What callers hold: blocks with a trailer, of the size asked for, and
\* objects.  A trailer stands only below a block that is held.
HeldOK ==
    /\ DOMAIN trailers \subseteq DOMAIN held
    /\ \A p \in DOMAIN held :
          IF p \in DOMAIN trailers THEN held[p] = trailers[p].requested
          ELSE IsObject(p, held[p])

\* The free list of slab f of class c has the objects nobody holds, once each.
FreeListOK(c, f) ==
    /\ free_list[f] \in Seq(1 .. slab_capacity(c))
    /\ Once(free_list[f])
    /\ \A i \in 1 .. slab_capacity(c) :
          i \in ToSet(free_list[f]) <=> ObjectAt(c, f, i) \notin DOMAIN held

FreeListsOK == \A c \in Classes : \A f \in SlabFrames(c) : FreeListOK(c, f)

\* krealloc holds the old block and the new one, which are different.
MovingOK ==
    \/ moving = <<>>
    \/ \E p, q \in DOMAIN held : p # q /\ moving = <<p, q>>

\* The inductive invariant: who has each frame, what each pointer is, and
\* which objects are free.
HeapInv ==
    /\ CachesOK
    /\ OwnersOK
    /\ TrailersOK
    /\ FramesHeld
    /\ HeldOK
    /\ FreeListsOK
    /\ MovingOK

\* The slab of a class is a frame, and its class is known from the frame.
LEMMA SlabFacts ==
    ASSUME CachesOK, NEW c \in Classes, NEW f \in SlabFrames(c)
    PROVE  /\ f \in Frames /\ f \in Slabs
           /\ \A d \in Classes : f \in SlabFrames(d) => d = c
<1>1. slabs[c] \in Seq(Frames)
    BY DEF CachesOK
<1>2. f \in Frames
    BY <1>1 DEF SlabFrames, ToSet
<1> QED
    BY <1>2 DEF CachesOK, Slabs

\* kfree finds the class of an object, and the object has no trailer.
LEMMA ObjectFacts ==
    ASSUME CachesOK, NEW c \in Classes, NEW f \in SlabFrames(c),
           NEW i \in 1 .. slab_capacity(c), NEW p, p = ObjectAt(c, f, i)
    PROVE  /\ p \in Nat /\ PageOf(p) = f /\ SlabClass(p) = c /\ SlabClass(p) # 0
           /\ ObjectIndex(c, p) = i
<1>1. f \in Frames /\ \A d \in Classes : f \in SlabFrames(d) => d = c
    BY SlabFacts
<1>2. p \in Nat /\ PageOf(p) = f /\ ObjectIndex(c, p) = i
    BY <1>1, ObjectPlace
<1>3. SlabClass(p) = c
    BY <1>1, <1>2 DEF SlabClass
<1>4. c # 0
    BY DEF Classes
<1> QED
    BY <1>2, <1>3, <1>4

\* Different objects have different addresses.
LEMMA ObjectsDiffer ==
    ASSUME CachesOK, NEW c \in Classes, NEW f \in SlabFrames(c), NEW i \in 1 .. slab_capacity(c),
           NEW d \in Classes, NEW g \in SlabFrames(d), NEW j \in 1 .. slab_capacity(d),
           ObjectAt(c, f, i) = ObjectAt(d, g, j)
    PROVE  c = d /\ f = g /\ i = j
BY ObjectFacts

\* A pointer that far into the frames of a request is still in them.
LEMMA InsideRun ==
    ASSUME NEW b \in Nat, NEW n \in Nat \ {0}, NEW p \in Nat,
           b * Page <= p, p < (b + n) * Page
    PROVE  PageOf(p) \in Run(b, n) /\ b \in Run(b, n)
<1> DEFINE e == b + n
<1>1. e \in Nat /\ b * Page <= p /\ p < e * Page
    OBVIOUS
<1> HIDE DEF e
<1>2. PageOf(p) \in b .. e - 1
    BY <1>1, FrameOf
<1>3. PageOf(p) \in b .. b + n - 1 /\ b \in b .. b + n - 1
    BY <1>2 DEF e
<1> QED
    BY <1>3 DEF Run

\* A large block begins in its own run.
LEMMA LargeFacts ==
    ASSUME NEW p \in DOMAIN trailers, LargeOK(p)
    PROVE  /\ PageOf(p) \in LargeFrames(p)
           /\ trailers[p].frames \in Nat \ {0}
           /\ trailers[p].base \in LargeFrames(p)
<1> DEFINE b == trailers[p].base
           n == trailers[p].frames
           r == trailers[p].requested
<1>1. /\ p \in Nat /\ b \in Nat /\ n \in Nat \ {0} /\ r \in Nat \ {0}
      /\ b * Page + TrailerSize <= p /\ ~(p + r > (b + n) * Page)
    BY DEF LargeOK, Beyond, Frames
<1>2. Page \in Nat \ {0} /\ TrailerSize \in Nat
    BY PmmAssumption, HeapAssumption DEF Page
<1> HIDE DEF b, n, r
<1>3. b * Page \in Nat /\ (b + n) * Page \in Nat
    BY <1>1, <1>2
<1>4. b * Page <= p /\ p < (b + n) * Page
    BY <1>1, <1>2, <1>3
<1> QED
    BY <1>1, <1>4, InsideRun DEF LargeFrames, b, n

\* kfree finds no slab magic in front of a large block.
LEMMA LargeIsNoSlab ==
    ASSUME HeapInv, NEW p \in DOMAIN trailers
    PROVE  SlabClass(p) = 0 /\ PageOf(p) \in LargeFrames(p) /\ PageOf(p) \notin Slabs
<1>1. PageOf(p) \in LargeFrames(p)
    BY LargeFacts DEF HeapInv, TrailersOK
<1>2. PageOf(p) \notin Slabs
    BY <1>1 DEF HeapInv, FramesHeld
<1> QED
    BY <1>1, <1>2 DEF SlabClass, Slabs

\* What is held is a block with a trailer or an object, never both, and kfree
\* tells them apart.
LEMMA HeldKinds ==
    ASSUME HeapInv, NEW p \in DOMAIN held
    PROVE  SlabClass(p) = 0 <=> p \in DOMAIN trailers
<1>1. ASSUME p \notin DOMAIN trailers PROVE SlabClass(p) # 0
    <2>0. PICK c \in Classes : \E f \in SlabFrames(c), i \in 1 .. slab_capacity(c) :
                                  p = ObjectAt(c, f, i)
        BY <1>1 DEF HeapInv, HeldOK, IsObject
    <2>1. PICK f \in SlabFrames(c), i \in 1 .. slab_capacity(c) : p = ObjectAt(c, f, i)
        BY <2>0
    <2> QED
        BY <2>1, ObjectFacts DEF HeapInv
<1> QED
    BY <1>1, LargeIsNoSlab

\* No block begins in a frame that has no owner.
LEMMA HeldIsOwned ==
    ASSUME HeapInv, NEW p \in DOMAIN held
    PROVE  PageOf(p) \in Owned
<1>1. CASE p \in DOMAIN trailers
    BY <1>1, LargeIsNoSlab DEF HeapInv, FramesHeld
<1>2. CASE p \notin DOMAIN trailers
    <2>0. PICK c \in Classes : \E f \in SlabFrames(c), i \in 1 .. slab_capacity(c) :
                                  p = ObjectAt(c, f, i)
        BY <1>2 DEF HeapInv, HeldOK, IsObject
    <2>1. PICK f \in SlabFrames(c), i \in 1 .. slab_capacity(c) : p = ObjectAt(c, f, i)
        BY <2>0
    <2>2. PageOf(p) = f /\ f \in Slabs
        BY <2>1, ObjectFacts, SlabFacts DEF HeapInv
    <2> QED
        BY <2>2 DEF HeapInv, FramesHeld
<1> QED
    BY <1>1, <1>2

----------------------------------------------------------------------------
(* The steps of the memory manager, as the heap sees them.                 *)

\* pmm_alloc_frame hands out a frame nobody owns.
LEMMA FrameTaken ==
    ASSUME OwnersOK, NEW f \in Frames, pmm_alloc_frame(f)
    PROVE  OwnersOK' /\ f \notin Owned /\ Owned' = Owned \cup {f}
<1>1. f \notin used /\ Owned \subseteq used
    BY DEF OwnersOK, pmm_alloc_frame, IsNextFree
<1>2. owners[f] = 0
    BY <1>1 DEF OwnersOK, Owned
<1>3. /\ used' = used \cup {f}
      /\ owners' = [g \in Frames |-> IF g \in {f} THEN owners[g] + 1 ELSE owners[g]]
    BY DEF pmm_alloc_frame, Take
<1>4. owners' \in [Frames -> {0, 1}]
    BY <1>2, <1>3 DEF OwnersOK
<1>5. Owned' = Owned \cup {f}
    BY <1>2, <1>3 DEF OwnersOK, Owned
<1> QED
    BY <1>1, <1>3, <1>4, <1>5 DEF OwnersOK

\* pmm_alloc_frames hands out a run of frames nobody owns.
LEMMA RunTaken ==
    ASSUME OwnersOK, NEW f \in Frames, NEW n, pmm_alloc_frames(f, n)
    PROVE  /\ OwnersOK'
           /\ Run(f, n) \subseteq Frames /\ Run(f, n) \cap Owned = {}
           /\ Owned' = Owned \cup Run(f, n)
<1>1. Run(f, n) \subseteq Frames \ used /\ Owned \subseteq used
    BY DEF OwnersOK, pmm_alloc_frames, IsFirstFit, Fits
<1> DEFINE S == Run(f, n)
<1>2. /\ used' = used \cup S
      /\ owners' = [g \in Frames |-> IF g \in S THEN owners[g] + 1 ELSE owners[g]]
    BY DEF pmm_alloc_frames, Take
<1> HIDE DEF S
<1>3. S \subseteq Frames \ used
    BY <1>1 DEF S
<1>4. \A g \in S : owners[g] = 0
    BY <1>1, <1>3 DEF OwnersOK, Owned
<1>5. owners' \in [Frames -> {0, 1}]
    BY <1>2, <1>4 DEF OwnersOK
<1>6. Owned' = Owned \cup S
    BY <1>2, <1>3, <1>4 DEF OwnersOK, Owned
<1> QED
    BY <1>1, <1>2, <1>3, <1>5, <1>6 DEF OwnersOK, S

\* pmm_free_frames takes the owner off each frame of the run.
LEMMA RunFreed ==
    ASSUME OwnersOK, NEW f, NEW n, pmm_free_frames(f, n)
    PROVE  OwnersOK' /\ Owned' = Owned \ Run(f, n)
<1> DEFINE S == Run(f, n)
<1>1. /\ used' = used \ S
      /\ owners' = [k \in Frames |-> IF k \in S THEN 0 ELSE owners[k]]
    BY DEF pmm_free_frames
<1> HIDE DEF S
<1>2. owners' \in [Frames -> {0, 1}]
    BY <1>1 DEF OwnersOK
<1>3. Owned' = Owned \ S
    BY <1>1 DEF OwnersOK, Owned
<1> QED
    BY <1>1, <1>2, <1>3 DEF OwnersOK, S

----------------------------------------------------------------------------
(* Handing out and taking back a pointer.                                  *)

\* Where a new pointer goes: to a caller, or to the krealloc of a pointer that
\* is held.
Receiver(from) == from = {} \/ \E q \in DOMAIN held : from = {q}

\* The pointer handed out is held, with so many bytes to use.
LEMMA HandedOut ==
    ASSUME MovingOK, NEW p, p \notin DOMAIN held, NEW n, NEW from, Receiver(from),
           GoesTo(p, n, from)
    PROVE  /\ MovingOK'
           /\ DOMAIN held' = DOMAIN held \cup {p}
           /\ held'[p] = n
           /\ \A q \in DOMAIN held : held'[q] = held[q]
<1>1. /\ DOMAIN held' = DOMAIN held \cup {p}
      /\ held'[p] = n
      /\ \A q \in DOMAIN held : held'[q] = held[q]
    BY DEF GoesTo, With
<1>2. CASE from = {}
    BY <1>1, <1>2 DEF GoesTo, MovingOK
<1>3. CASE from # {}
    <2>1. PICK q \in DOMAIN held : from = {q}
        BY <1>3 DEF Receiver
    <2>2. moving' = <<q, p>>
        BY <2>1 DEF GoesTo
    <2> QED
        BY <1>1, <2>2 DEF MovingOK
<1> QED
    BY <1>1, <1>2, <1>3

\* Taking a pointer out of a function leaves the others.
LEMMA TakenOut ==
    ASSUME NEW fn, NEW p
    PROVE  /\ DOMAIN Without(fn, p) = DOMAIN fn \ {p}
           /\ \A q \in DOMAIN fn \ {p} : Without(fn, p)[q] = fn[q]
BY DEF Without, Restrict

\* The class that serves a size is a class, and large enough.
LEMMA ClassServes ==
    ASSUME NEW size \in Nat, class_for_size(size) # 0
    PROVE  class_for_size(size) \in Classes /\ size <= ClassSizes[class_for_size(size)]
<1> DEFINE T == {c \in Classes : size <= ClassSizes[c]}
<1>1. T \subseteq Nat /\ T # {}
    BY DEF class_for_size, Classes
<1>2. PICK c \in T : \A d \in T : c <= d
    BY <1>1, LeastNatural
<1> QED
    BY <1>2 DEF class_for_size

----------------------------------------------------------------------------
(* Allocation.                                                             *)

\* take_object hands out the lowest free object of the newest slab.
LEMMA TakeObjectInv ==
    ASSUME HeapInv, NEW size \in Nat, NEW from, Receiver(from), take_object(size, from)
    PROVE  HeapInv'
<1> DEFINE c == class_for_size(size)
           f == Head(slabs[c])
           i == Head(free_list[f])
           p == ObjectAt(c, f, i)
<1>1. /\ c \in Classes /\ slabs[c] # <<>> /\ free_list[f] # <<>>
      /\ free_list' = [free_list EXCEPT ![f] = Tail(@)]
      /\ GoesTo(p, ClassSizes[c], from)
      /\ UNCHANGED <<used, owners, slabs, trailers>>
    BY ClassServes DEF take_object, Roomy, vars
<1> HIDE DEF c
<1>2. f \in SlabFrames(c)
    <2>1. slabs[c] \in Seq(Frames)
        BY <1>1 DEF HeapInv, CachesOK
    <2>2. 1 \in DOMAIN slabs[c] /\ f = slabs[c][1]
        BY <1>1, <2>1
    <2> QED
        BY <2>2 DEF SlabFrames, ToSet
<1> HIDE DEF f
<1>3. FreeListOK(c, f) /\ f \in Slabs /\ f \in DOMAIN free_list
    BY <1>1, <1>2, SlabFacts DEF HeapInv, FreeListsOK, CachesOK
<1>4. /\ i \in 1 .. slab_capacity(c) /\ i \in ToSet(free_list[f])
      /\ Tail(free_list[f]) \in Seq(1 .. slab_capacity(c)) /\ Once(Tail(free_list[f]))
      /\ ToSet(Tail(free_list[f])) = ToSet(free_list[f]) \ {i}
    BY <1>1, <1>3, TailOnce DEF FreeListOK
<1> HIDE DEF i
<1>5. p \notin DOMAIN held
    BY <1>3, <1>4 DEF FreeListOK
<1>6. SlabClass(p) # 0
    BY <1>1, <1>2, <1>4, ObjectFacts DEF HeapInv
<1>7. p \notin DOMAIN trailers
    BY <1>6, LargeIsNoSlab
<1>8. /\ MovingOK'
      /\ DOMAIN held' = DOMAIN held \cup {p}
      /\ held'[p] = ClassSizes[c]
      /\ \A q \in DOMAIN held : held'[q] = held[q]
    BY <1>1, <1>5, HandedOut DEF HeapInv
<1> DEFINE free2 == free_list'
<1>9. /\ DOMAIN free2 = DOMAIN free_list
      /\ free2[f] = Tail(free_list[f])
      /\ \A g \in DOMAIN free_list : g # f => free2[g] = free_list[g]
    BY <1>1, <1>3
<1> HIDE DEF free2, p
<1>10. /\ \A d \in Classes : SlabFrames(d)' = SlabFrames(d)
       /\ Slabs' = Slabs /\ Owned' = Owned
       /\ \A q : LargeFrames(q)' = LargeFrames(q) /\ LargeOK(q)' = LargeOK(q)
       /\ \A q, n : IsObject(q, n)' = IsObject(q, n)
    BY <1>1 DEF SlabFrames, Slabs, Owned, LargeFrames, LargeOK, Beyond, IsObject
<1>11. CachesOK' /\ OwnersOK' /\ TrailersOK' /\ FramesHeld'
    BY <1>1, <1>9, <1>10 DEF HeapInv, CachesOK, OwnersOK, TrailersOK, FramesHeld, free2
<1>12. HeldOK'
    <2>1. IsObject(p, ClassSizes[c])
        BY <1>1, <1>2, <1>4 DEF IsObject, p
    <2> QED
        BY <1>1, <1>7, <1>8, <1>10, <2>1 DEF HeapInv, HeldOK
<1>13. FreeListsOK'
    <2> SUFFICES ASSUME NEW d \in Classes, NEW g \in SlabFrames(d)
                 PROVE  FreeListOK(d, g)'
        BY <1>10 DEF FreeListsOK
    <2>1. FreeListOK(d, g) /\ g \in DOMAIN free_list
        BY SlabFacts DEF HeapInv, FreeListsOK, CachesOK
    <2>2. CASE g = f
        <3>1. d = c
            BY <1>1, <1>2, <2>2, SlabFacts DEF HeapInv
        <3>2. \A j \in 1 .. slab_capacity(c) : ObjectAt(c, f, j) = p => j = i
            BY <1>1, <1>2, <1>4, ObjectsDiffer DEF HeapInv, p
        <3>3. \A j \in 1 .. slab_capacity(c) :
                  j \in ToSet(free2[f]) <=> ObjectAt(c, f, j) \notin DOMAIN held'
            BY <1>3, <1>4, <1>8, <1>9, <3>2 DEF FreeListOK, p
        <3> QED
            BY <1>4, <1>9, <2>2, <3>1, <3>3 DEF FreeListOK, free2
    <2>3. CASE g # f
        <3>1. \A j \in 1 .. slab_capacity(d) : ObjectAt(d, g, j) # p
            BY <1>1, <1>2, <1>4, <2>3, ObjectsDiffer DEF HeapInv, p
        <3> QED
            BY <1>8, <1>9, <2>1, <2>3, <3>1 DEF FreeListOK, free2
    <2> QED
        BY <2>2, <2>3
<1> QED
    BY <1>8, <1>11, <1>12, <1>13 DEF HeapInv

\* A new slab is a frame nobody had; its first object is handed out and its
\* free list has the others.
LEMMA GrowCacheInv ==
    ASSUME HeapInv, NEW size \in Nat, NEW from, Receiver(from), grow_cache(size, from)
    PROVE  HeapInv'
<1> DEFINE c == class_for_size(size)
           n == slab_capacity(c)
<1>1. PICK f \in Frames :
          /\ pmm_alloc_frame(f)
          /\ slabs' = [slabs EXCEPT ![c] = <<f>> \o @]
          /\ free_list' = With(free_list, f, [k \in 1 .. n - 1 |-> k + 1])
          /\ GoesTo(ObjectAt(c, f, 1), ClassSizes[c], from)
    BY DEF grow_cache
<1> DEFINE p == ObjectAt(c, f, 1)
           fresh == [k \in 1 .. n - 1 |-> k + 1]
<1>2. c \in Classes /\ trailers' = trailers
    BY ClassServes DEF grow_cache
<1> HIDE DEF c
<1>3. n \in Nat \ {0} /\ 1 \in 1 .. n
    <2>1. n \in Nat \ {0}
        BY <1>2, SlabLayout
    <2> HIDE DEF n
    <2> QED
        BY <2>1
<1> HIDE DEF n
<1>4. OwnersOK' /\ f \notin Owned /\ Owned' = Owned \cup {f}
    BY <1>1, FrameTaken DEF HeapInv
<1>5. f \notin Slabs /\ \A q \in DOMAIN trailers : f \notin LargeFrames(q)
    BY <1>4 DEF HeapInv, FramesHeld
<1>6. p \in Nat /\ PageOf(p) = f
    BY <1>2, <1>3, ObjectPlace DEF n
<1>7. p \notin DOMAIN held
    BY <1>4, <1>6, HeldIsOwned
<1>8. /\ MovingOK'
      /\ DOMAIN held' = DOMAIN held \cup {p}
      /\ held'[p] = ClassSizes[c]
      /\ \A q \in DOMAIN held : held'[q] = held[q]
    BY <1>1, <1>7, HandedOut DEF HeapInv
<1>9. fresh \in Seq(1 .. n) /\ Once(fresh) /\ ToSet(fresh) = 2 .. n
    BY <1>3, NewFreeList
<1> HIDE DEF fresh
<1> DEFINE free2 == free_list'
<1>10. /\ DOMAIN free2 = DOMAIN free_list \cup {f}
       /\ free2[f] = fresh
       /\ \A g \in DOMAIN free_list : g # f => free2[g] = free_list[g]
    BY <1>1 DEF With, fresh
<1> HIDE DEF free2, p
<1>11. /\ slabs' \in [Classes -> Seq(Frames)]
       /\ SlabFrames(c)' = {f} \cup SlabFrames(c)
       /\ \A d \in Classes : d # c => SlabFrames(d)' = SlabFrames(d)
    <2>1. slabs[c] \in Seq(Frames) /\ slabs \in [Classes -> Seq(Frames)]
        BY <1>2 DEF HeapInv, CachesOK
    <2>2. <<f>> \o slabs[c] \in Seq(Frames) /\ ToSet(<<f>> \o slabs[c]) = {f} \cup ToSet(slabs[c])
        BY <2>1, PushOnce
    <2> QED
        BY <1>1, <1>2, <2>1, <2>2 DEF SlabFrames
<1>12. Slabs' = Slabs \cup {f}
    <2>1. ASSUME NEW g PROVE g \in Slabs' <=> g \in Slabs \cup {f}
        BY <1>2, <1>11 DEF Slabs
    <2> QED
        BY <2>1
<1>13. CachesOK'
    <2>1. \A d \in Classes : f \notin SlabFrames(d)
        BY <1>5 DEF Slabs
    <2>2. \A d, e \in Classes : d # e => SlabFrames(d)' \cap SlabFrames(e)' = {}
        <3> TAKE d, e \in Classes
        <3> HAVE d # e
        <3>1. SlabFrames(d) \cap SlabFrames(e) = {}
            BY DEF HeapInv, CachesOK
        <3>2. CASE d = c
            BY <1>2, <1>11, <2>1, <3>1, <3>2
        <3>3. CASE e = c
            BY <1>2, <1>11, <2>1, <3>1, <3>3
        <3>4. CASE d # c /\ e # c
            BY <1>11, <3>1, <3>4
        <3> QED
            BY <3>2, <3>3, <3>4
    <2> QED
        BY <1>10, <1>11, <1>12, <2>2 DEF HeapInv, CachesOK, free2
<1>14. \A q : LargeFrames(q)' = LargeFrames(q) /\ LargeOK(q)' = LargeOK(q)
    BY <1>2 DEF LargeFrames, LargeOK, Beyond
<1>15. TrailersOK' /\ FramesHeld'
    <2>1. TrailersOK'
        BY <1>2, <1>14 DEF HeapInv, TrailersOK
    <2>2. Owned' = Slabs' \cup UNION {LargeFrames(q)' : q \in DOMAIN trailers'}
        BY <1>2, <1>4, <1>12, <1>14 DEF HeapInv, FramesHeld
    <2>3. \A q \in DOMAIN trailers : LargeFrames(q) \cap (Slabs \cup {f}) = {}
        BY <1>5 DEF HeapInv, FramesHeld
    <2> QED
        BY <1>2, <1>12, <1>14, <2>1, <2>2, <2>3 DEF HeapInv, FramesHeld
<1>16. p \notin DOMAIN trailers
    BY <1>7 DEF HeapInv, HeldOK
<1>17. HeldOK'
    <2>1. IsObject(p, ClassSizes[c])'
        BY <1>2, <1>3, <1>11 DEF IsObject, p, n
    <2>2. ASSUME NEW q, NEW k, IsObject(q, k) PROVE IsObject(q, k)'
        BY <1>2, <1>11, <2>2 DEF IsObject
    <2> QED
        BY <1>2, <1>8, <1>16, <2>1, <2>2 DEF HeapInv, HeldOK
<1>18. FreeListsOK'
    <2> SUFFICES ASSUME NEW d \in Classes, NEW g \in SlabFrames(d)'
                 PROVE  FreeListOK(d, g)'
        BY DEF FreeListsOK
    <2>1. CASE g = f
        <3>1. d = c
            BY <1>5, <1>11, <2>1 DEF Slabs
        <3>2. \A j \in 1 .. n : PageOf(ObjectAt(c, f, j)) = f
            BY <1>2, ObjectPlace DEF n
        <3>3. \A j \in 1 .. n : ObjectAt(c, f, j) \notin DOMAIN held
            BY <1>4, <3>2, HeldIsOwned
        <3>4. \A j \in 1 .. n : ObjectAt(c, f, j) = p => j = 1
            BY <1>2, <1>3, ObjectPlace DEF n, p
        <3>5. \A j \in 1 .. n : j \in 2 .. n <=> j # 1
            BY <1>3
        <3>6. \A j \in 1 .. n : j \in ToSet(fresh) <=> ObjectAt(c, f, j) \notin DOMAIN held'
            BY <1>8, <1>9, <3>3, <3>4, <3>5 DEF p
        <3> QED
            BY <1>9, <1>10, <2>1, <3>1, <3>6 DEF FreeListOK, free2, n
    <2>2. CASE g # f
        <3>1. g \in SlabFrames(d) /\ g \in Frames /\ g \in DOMAIN free_list
            <4>1. g \in SlabFrames(d)
                BY <1>2, <1>11, <2>2
            <4> QED
                BY <4>1, SlabFacts DEF HeapInv, CachesOK
        <3>2. FreeListOK(d, g)
            BY <3>1 DEF HeapInv, FreeListsOK
        <3>3. \A j \in 1 .. slab_capacity(d) : ObjectAt(d, g, j) # p
            BY <1>6, <2>2, <3>1, ObjectPlace
        <3> QED
            BY <1>8, <1>10, <2>2, <3>1, <3>2, <3>3 DEF FreeListOK, free2
    <2> QED
        BY <2>1, <2>2
<1> QED
    BY <1>4, <1>8, <1>13, <1>15, <1>17, <1>18 DEF HeapInv

\* A large block gets a run of frames nobody had.
LEMMA LargeAllocInv ==
    ASSUME HeapInv, NEW size \in Requests, NEW alignment \in Nat \ {0},
           alignment <= 8 \/ alignment <= Page,
           NEW from, Receiver(from), large_alloc(size, alignment, from)
    PROVE  HeapInv'
<1> DEFINE n == FramesFor(size)
<1>1. PICK f \in Frames :
          /\ pmm_alloc_frames(f, n)
          /\ trailers' = With(trailers, UserAt(f * Page, alignment),
                              [base |-> f, frames |-> n, requested |-> size])
          /\ GoesTo(UserAt(f * Page, alignment), size, from)
    BY DEF large_alloc
<1> DEFINE p == UserAt(f * Page, alignment)
           block == [base |-> f, frames |-> n, requested |-> size]
<1>2. UNCHANGED <<slabs, free_list>>
    BY DEF large_alloc
<1>3. /\ size \in Nat \ {0} /\ Page \in Nat \ {0} /\ TrailerSize \in Nat /\ f \in Nat
      /\ f * Page \in Nat
    BY PmmAssumption, HeapAssumption DEF Requests, Page, Frames
<1>4. p \in Nat /\ f * Page + TrailerSize <= p /\ p < f * Page + TrailerSize + Page
    BY <1>3, UserPlace
<1>5. /\ OwnersOK'
      /\ Run(f, n) \subseteq Frames /\ Run(f, n) \cap Owned = {}
      /\ Owned' = Owned \cup Run(f, n)
    BY <1>1, RunTaken DEF HeapInv
<1> HIDE DEF p, n
<1> DEFINE trailers2 == trailers'
<1>6. /\ DOMAIN trailers2 = DOMAIN trailers \cup {p}
      /\ trailers2[p] = block
      /\ \A q \in DOMAIN trailers : q # p => trailers2[q] = trailers[q]
    BY <1>1 DEF With, p
<1> HIDE DEF trailers2
<1>7. PageOf(p) \in Run(f, n) /\ n \in Nat \ {0} /\ p + size <= (f + n) * Page
    <2>1. n \in Nat \ {0} /\ size + TrailerSize + Page <= n * Page
        BY <1>3, LargeLayout DEF n
    <2>2. n * Page \in Nat /\ (f + n) * Page = f * Page + n * Page
        BY <1>3, <2>1
    <2>3. p + size <= (f + n) * Page
        BY <1>3, <1>4, <2>1, <2>2
    <2>4. f * Page <= p /\ p < (f + n) * Page
        BY <1>3, <1>4, <2>2, <2>3
    <2> QED
        BY <1>3, <1>4, <2>1, <2>3, <2>4, InsideRun
<1>8. LargeOK(p)' /\ LargeFrames(p)' = Run(f, n)
    <2>1. LargeFrames(p)' = Run(f, n)
        BY <1>6 DEF LargeFrames, trailers2
    <2>2. Beyond(p, size)' <=> p + size > (f + n) * Page
        BY <1>6 DEF Beyond, trailers2
    <2>3. ~Beyond(p, size)'
        <3>1. (f + n) * Page \in Nat
            BY <1>3, <1>7
        <3> QED
            BY <1>3, <1>4, <1>7, <2>2, <3>1
    <2>4. ~Beyond(p, trailers[p].requested)'
        BY <1>6, <2>3 DEF Beyond, trailers2
    <2> QED
        BY <1>3, <1>4, <1>5, <1>6, <1>7, <2>1, <2>4 DEF LargeOK, trailers2
<1>9. p \notin DOMAIN held
    BY <1>5, <1>7, HeldIsOwned
<1>10. p \notin DOMAIN trailers
    BY <1>9 DEF HeapInv, HeldOK
<1>11. /\ MovingOK'
       /\ DOMAIN held' = DOMAIN held \cup {p}
       /\ held'[p] = size
       /\ \A q \in DOMAIN held : held'[q] = held[q]
    BY <1>1, <1>9, HandedOut DEF HeapInv, p
<1>12. /\ \A d \in Classes : SlabFrames(d)' = SlabFrames(d)
       /\ Slabs' = Slabs
       /\ \A q, k : IsObject(q, k)' = IsObject(q, k)
       /\ \A q \in DOMAIN trailers :
             LargeFrames(q)' = LargeFrames(q) /\ LargeOK(q)' = LargeOK(q)
    BY <1>2, <1>6, <1>10 DEF SlabFrames, Slabs, IsObject, LargeFrames, LargeOK, Beyond, trailers2
<1>13. CachesOK' /\ TrailersOK'
    BY <1>2, <1>6, <1>8, <1>12 DEF HeapInv, CachesOK, TrailersOK, trailers2
<1>14. FramesHeld'
    <2>1. ASSUME NEW g
          PROVE  (\E q \in DOMAIN trailers' : g \in LargeFrames(q)')
                   <=> g \in Run(f, n) \/ \E q \in DOMAIN trailers : g \in LargeFrames(q)
        <3>1. ASSUME NEW q \in DOMAIN trailers', g \in LargeFrames(q)'
              PROVE  g \in Run(f, n) \/ \E r \in DOMAIN trailers : g \in LargeFrames(r)
            BY <1>6, <1>8, <1>12, <3>1 DEF trailers2
        <3>2. p \in DOMAIN trailers' /\ \A q \in DOMAIN trailers : q \in DOMAIN trailers'
            BY <1>6 DEF trailers2
        <3> QED
            BY <1>8, <1>12, <3>1, <3>2
    <2>2. Owned' = Slabs' \cup UNION {LargeFrames(q)' : q \in DOMAIN trailers'}
        <3>1. ASSUME NEW g
              PROVE  g \in Owned' <=> \/ g \in Slabs'
                                     \/ \E q \in DOMAIN trailers' : g \in LargeFrames(q)'
            BY <1>5, <1>12, <2>1 DEF HeapInv, FramesHeld
        <3> QED
            BY <3>1
    <2>3. Run(f, n) \cap Slabs = {} /\ \A q \in DOMAIN trailers : LargeFrames(q) \cap Run(f, n) = {}
        BY <1>5 DEF HeapInv, FramesHeld
    <2>4. \A q \in DOMAIN trailers' :
              /\ LargeFrames(q)' \cap Slabs' = {}
              /\ \A r \in DOMAIN trailers' \ {q} : LargeFrames(q)' \cap LargeFrames(r)' = {}
        BY <1>6, <1>8, <1>12, <2>3 DEF HeapInv, FramesHeld, trailers2
    <2> QED
        BY <2>2, <2>4 DEF FramesHeld
<1>15. HeldOK'
    BY <1>6, <1>10, <1>11, <1>12 DEF HeapInv, HeldOK, trailers2
<1>16. FreeListsOK'
    <2> SUFFICES ASSUME NEW d \in Classes, NEW g \in SlabFrames(d)
                 PROVE  FreeListOK(d, g)'
        BY <1>12 DEF FreeListsOK
    <2>1. FreeListOK(d, g) /\ g \in Slabs
        BY SlabFacts DEF HeapInv, FreeListsOK
    <2>2. g \notin Run(f, n)
        BY <1>5, <2>1 DEF HeapInv, FramesHeld
    <2>3. \A j \in 1 .. slab_capacity(d) : ObjectAt(d, g, j) # p
        BY <1>7, <2>2, ObjectFacts DEF HeapInv
    <2> QED
        BY <1>2, <1>11, <2>1, <2>3 DEF FreeListOK
<1> QED
    BY <1>5, <1>11, <1>13, <1>14, <1>15, <1>16 DEF HeapInv

----------------------------------------------------------------------------
(* Freeing and resizing.                                                   *)

\* What is left of the held pointers when p is no longer one of them.
LEMMA LetGo ==
    ASSUME NEW p \in DOMAIN held, held' = Without(held, p)
    PROVE  /\ DOMAIN held' = DOMAIN held \ {p}
           /\ \A q \in DOMAIN held \ {p} : held'[q] = held[q]
BY TakenOut

\* kfree of an object puts its number back on the free list of its slab.
LEMMA FreeObjectInv ==
    ASSUME HeapInv, NEW p \in DOMAIN held, kfree_object(p),
           held' = Without(held, p), MovingOK'
    PROVE  HeapInv'
<1>1. /\ SlabClass(p) # 0
      /\ free_list' = [free_list EXCEPT ![PageOf(p)] = PushedAt(p) \o @]
      /\ UNCHANGED <<used, owners, slabs, trailers>>
    BY DEF kfree_object, vars
<1>2. p \notin DOMAIN trailers
    BY <1>1, HeldKinds
<1>3. PICK c \in Classes : \E f \in SlabFrames(c), i \in 1 .. slab_capacity(c) :
                              p = ObjectAt(c, f, i)
    BY <1>2 DEF HeapInv, HeldOK, IsObject
<1>4. PICK f \in SlabFrames(c), i \in 1 .. slab_capacity(c) : p = ObjectAt(c, f, i)
    BY <1>3
<1>5. PageOf(p) = f /\ PushedAt(p) = <<i>>
    BY <1>4, ObjectFacts DEF HeapInv, PushedAt
<1>6. FreeListOK(c, f) /\ f \in DOMAIN free_list
    BY SlabFacts DEF HeapInv, FreeListsOK, CachesOK
<1>7. i \notin ToSet(free_list[f])
    BY <1>4, <1>6 DEF FreeListOK
<1>8. /\ <<i>> \o free_list[f] \in Seq(1 .. slab_capacity(c))
      /\ ToSet(<<i>> \o free_list[f]) = {i} \cup ToSet(free_list[f])
      /\ Once(<<i>> \o free_list[f])
    BY <1>6, <1>7, PushOnce DEF FreeListOK
<1> DEFINE free2 == free_list'
<1>9. /\ DOMAIN free2 = DOMAIN free_list
      /\ free2[f] = <<i>> \o free_list[f]
      /\ \A g \in DOMAIN free_list : g # f => free2[g] = free_list[g]
    BY <1>1, <1>5, <1>6
<1> HIDE DEF free2
<1>10. /\ DOMAIN held' = DOMAIN held \ {p}
       /\ \A q \in DOMAIN held \ {p} : held'[q] = held[q]
    BY LetGo
<1>11. /\ \A d \in Classes : SlabFrames(d)' = SlabFrames(d)
       /\ Slabs' = Slabs /\ Owned' = Owned
       /\ \A q : LargeFrames(q)' = LargeFrames(q) /\ LargeOK(q)' = LargeOK(q)
       /\ \A q, n : IsObject(q, n)' = IsObject(q, n)
    BY <1>1 DEF SlabFrames, Slabs, Owned, LargeFrames, LargeOK, Beyond, IsObject
<1>12. CachesOK' /\ OwnersOK' /\ TrailersOK' /\ FramesHeld'
    BY <1>1, <1>9, <1>11 DEF HeapInv, CachesOK, OwnersOK, TrailersOK, FramesHeld, free2
<1>13. HeldOK'
    BY <1>1, <1>2, <1>10, <1>11 DEF HeapInv, HeldOK
<1>14. FreeListsOK'
    <2> SUFFICES ASSUME NEW d \in Classes, NEW g \in SlabFrames(d)
                 PROVE  FreeListOK(d, g)'
        BY <1>11 DEF FreeListsOK
    <2>1. FreeListOK(d, g) /\ g \in DOMAIN free_list
        BY SlabFacts DEF HeapInv, FreeListsOK, CachesOK
    <2>2. CASE g = f
        <3>1. d = c
            BY <2>2, SlabFacts DEF HeapInv
        <3>2. \A j \in 1 .. slab_capacity(c) : ObjectAt(c, f, j) = p <=> j = i
            BY <1>4, ObjectsDiffer DEF HeapInv
        <3>3. \A j \in 1 .. slab_capacity(c) :
                  j \in ToSet(free2[f]) <=> ObjectAt(c, f, j) \notin DOMAIN held'
            BY <1>6, <1>8, <1>9, <1>10, <3>2 DEF FreeListOK
        <3> QED
            BY <1>8, <1>9, <2>2, <3>1, <3>3 DEF FreeListOK, free2
    <2>3. CASE g # f
        <3>1. \A j \in 1 .. slab_capacity(d) : ObjectAt(d, g, j) # p
            BY <1>4, <2>3, ObjectsDiffer DEF HeapInv
        <3> QED
            BY <1>9, <1>10, <2>1, <2>3, <3>1 DEF FreeListOK, free2
    <2> QED
        BY <2>2, <2>3
<1> QED
    BY <1>12, <1>13, <1>14 DEF HeapInv

\* kfree of a large block gives its run back to pmm, all of it.
LEMMA FreeLargeInv ==
    ASSUME HeapInv, NEW p \in DOMAIN held, kfree_large(p),
           held' = Without(held, p), MovingOK'
    PROVE  HeapInv'
<1>1. /\ p \in DOMAIN trailers /\ SlabClass(p) = 0
      /\ pmm_free_frames(trailers[p].base, trailers[p].frames)
      /\ trailers' = Without(trailers, p)
      /\ UNCHANGED <<slabs, free_list>>
    BY DEF kfree_large
<1> DEFINE R == LargeFrames(p)
<1>2. OwnersOK' /\ Owned' = Owned \ R
    BY <1>1, RunFreed DEF HeapInv, LargeFrames
<1>3. R \cap Slabs = {} /\ \A q \in DOMAIN trailers \ {p} : R \cap LargeFrames(q) = {}
    BY <1>1 DEF HeapInv, FramesHeld
<1> DEFINE trailers2 == trailers'
<1>4. /\ DOMAIN trailers2 = DOMAIN trailers \ {p}
      /\ \A q \in DOMAIN trailers \ {p} : trailers2[q] = trailers[q]
    BY <1>1, TakenOut
<1> HIDE DEF trailers2
<1>5. /\ DOMAIN held' = DOMAIN held \ {p}
      /\ \A q \in DOMAIN held \ {p} : held'[q] = held[q]
    BY LetGo
<1>6. /\ \A d \in Classes : SlabFrames(d)' = SlabFrames(d)
      /\ Slabs' = Slabs
      /\ \A q, k : IsObject(q, k)' = IsObject(q, k)
      /\ \A q \in DOMAIN trailers \ {p} :
            LargeFrames(q)' = LargeFrames(q) /\ LargeOK(q)' = LargeOK(q)
    BY <1>1, <1>4 DEF SlabFrames, Slabs, IsObject, LargeFrames, LargeOK, Beyond, trailers2
<1>7. CachesOK' /\ TrailersOK' /\ HeldOK'
    BY <1>1, <1>4, <1>5, <1>6
       DEF HeapInv, CachesOK, TrailersOK, HeldOK, trailers2
<1> HIDE DEF R
<1>8. FramesHeld'
    <2>1. ASSUME NEW g
          PROVE  g \in Owned' <=> \/ g \in Slabs'
                                 \/ \E q \in DOMAIN trailers' : g \in LargeFrames(q)'
        <3>1. g \in Owned' <=> /\ g \notin R
                              /\ \/ g \in Slabs
                                 \/ \E q \in DOMAIN trailers : g \in LargeFrames(q)
            BY <1>2 DEF HeapInv, FramesHeld
        <3>2. (g \notin R /\ \E q \in DOMAIN trailers : g \in LargeFrames(q))
                <=> \E q \in DOMAIN trailers \ {p} : g \in LargeFrames(q)
            BY <1>3 DEF R
        <3>3. g \in Slabs => g \notin R
            BY <1>3
        <3>4. (\E q \in DOMAIN trailers' : g \in LargeFrames(q)')
                <=> \E q \in DOMAIN trailers \ {p} : g \in LargeFrames(q)
            BY <1>4, <1>6 DEF trailers2
        <3> QED
            BY <1>6, <3>1, <3>2, <3>3, <3>4
    <2>2. \A q \in DOMAIN trailers' :
              /\ LargeFrames(q)' \cap Slabs' = {}
              /\ \A r \in DOMAIN trailers' \ {q} : LargeFrames(q)' \cap LargeFrames(r)' = {}
        BY <1>4, <1>6 DEF HeapInv, FramesHeld, trailers2
    <2> QED
        BY <2>1, <2>2 DEF FramesHeld
<1>9. FreeListsOK'
    <2> SUFFICES ASSUME NEW d \in Classes, NEW g \in SlabFrames(d)
                 PROVE  FreeListOK(d, g)'
        BY <1>6 DEF FreeListsOK
    <2>1. FreeListOK(d, g)
        BY DEF HeapInv, FreeListsOK
    <2>2. \A j \in 1 .. slab_capacity(d) : ObjectAt(d, g, j) # p
        BY <1>1, ObjectFacts DEF HeapInv
    <2> QED
        BY <1>1, <1>5, <2>1, <2>2 DEF FreeListOK
<1> QED
    BY <1>2, <1>7, <1>8, <1>9 DEF HeapInv

\* A block that grows where it is only changes the size in its trailer.
LEMMA GrowInPlaceInv ==
    ASSUME HeapInv, NEW p \in DOMAIN held, NEW size \in GrowTo, krealloc_in_place(p, size),
           ~overrun'
    PROVE  HeapInv'
<1>1. /\ SlabClass(p) = 0 /\ ~Beyond(p, size)
      /\ trailers' = [trailers EXCEPT ![p].requested = size]
      /\ held' = [held EXCEPT ![p] = size]
      /\ UNCHANGED <<used, owners, slabs, free_list, moving>>
    BY DEF krealloc_in_place, GrowsInPlace, vars
<1>2. p \in DOMAIN trailers
    BY <1>1, HeldKinds
<1>3. size \in Nat \ {0}
    BY HeapAssumption
<1> DEFINE trailers2 == trailers'
<1>4. /\ DOMAIN trailers2 = DOMAIN trailers
      /\ \A q \in DOMAIN trailers : q # p => trailers2[q] = trailers[q]
      /\ trailers2[p] = [trailers[p] EXCEPT !.requested = size]
    BY <1>1, <1>2
<1> HIDE DEF trailers2
<1>5. /\ \A q \in DOMAIN trailers :
            /\ trailers2[q] \in [base : Frames, frames : Nat \ {0}, requested : Nat \ {0}]
            /\ trailers2[q].base = trailers[q].base
            /\ trailers2[q].frames = trailers[q].frames
      /\ trailers2[p].requested = size
    BY <1>2, <1>3, <1>4 DEF HeapInv, TrailersOK, LargeOK
<1>6. /\ \A d \in Classes : SlabFrames(d)' = SlabFrames(d)
      /\ Slabs' = Slabs /\ Owned' = Owned
      /\ \A q, k : IsObject(q, k)' = IsObject(q, k)
      /\ \A q \in DOMAIN trailers : LargeFrames(q)' = LargeFrames(q)
    BY <1>1, <1>5 DEF SlabFrames, Slabs, Owned, IsObject, LargeFrames, trailers2
<1>7. /\ DOMAIN held' = DOMAIN held /\ held'[p] = size
      /\ \A q \in DOMAIN held : q # p => held'[q] = held[q]
    BY <1>1
<1>8. CachesOK' /\ OwnersOK'
    BY <1>1, <1>6 DEF HeapInv, CachesOK, OwnersOK
<1>9. TrailersOK'
    <2> SUFFICES ASSUME NEW q \in DOMAIN trailers PROVE LargeOK(q)'
        BY <1>4 DEF TrailersOK, trailers2
    <2>1. LargeOK(q)
        BY DEF HeapInv, TrailersOK
    <2>2. trailers2[q].requested = IF q = p THEN size ELSE trailers[q].requested
        BY <1>4, <1>5
    <2>3. ~Beyond(q, trailers[q].requested)'
        BY <1>1, <1>5, <2>1, <2>2 DEF LargeOK, Beyond, trailers2
    <2> QED
        BY <1>5, <1>6, <2>1, <2>3 DEF LargeOK, trailers2
<1>10. FramesHeld'
    <2>1. DOMAIN trailers' = DOMAIN trailers
        BY <1>4 DEF trailers2
    <2>2. \A g : (\E q \in DOMAIN trailers' : g \in LargeFrames(q)')
                   <=> \E q \in DOMAIN trailers : g \in LargeFrames(q)
        BY <1>6, <2>1
    <2>3. \A g : g \in Owned' <=> \/ g \in Slabs'
                                  \/ \E q \in DOMAIN trailers' : g \in LargeFrames(q)'
        BY <1>6, <2>2 DEF HeapInv, FramesHeld
    <2>4. Owned' = Slabs' \cup UNION {LargeFrames(q)' : q \in DOMAIN trailers'}
        BY <2>3
    <2>5. \A q \in DOMAIN trailers' :
              /\ LargeFrames(q)' \cap Slabs' = {}
              /\ \A r \in DOMAIN trailers' \ {q} : LargeFrames(q)' \cap LargeFrames(r)' = {}
        BY <1>6, <2>1 DEF HeapInv, FramesHeld
    <2> QED
        BY <2>4, <2>5 DEF FramesHeld
<1>11. HeldOK'
    BY <1>2, <1>4, <1>5, <1>6, <1>7 DEF HeapInv, HeldOK, trailers2
<1>12. FreeListsOK' /\ MovingOK'
    BY <1>1, <1>6, <1>7 DEF HeapInv, FreeListsOK, FreeListOK, MovingOK
<1> QED
    BY <1>8, <1>9, <1>10, <1>11, <1>12 DEF HeapInv

----------------------------------------------------------------------------
(* The invariant, for every sequence of calls.                             *)

\* An empty heap on the memory pmm_init leaves.
LEMMA HeapInitInv == HeapInit => HeapInv
<1> SUFFICES ASSUME HeapInit PROVE HeapInv
    OBVIOUS
<1>1. /\ owners = [f \in Frames |-> 0] /\ slabs = [c \in Classes |-> <<>>]
      /\ free_list = <<>> /\ trailers = <<>> /\ held = <<>> /\ moving = <<>>
    BY DEF HeapInit, Init
<1>2. DOMAIN free_list = {} /\ DOMAIN trailers = {} /\ DOMAIN held = {}
    BY <1>1
<1>3. slabs \in [Classes -> Seq(Frames)] /\ \A c \in Classes : SlabFrames(c) = {}
    BY <1>1 DEF SlabFrames, ToSet
<1>4. Slabs = {} /\ Owned = {}
    BY <1>1, <1>3 DEF Slabs, Owned
<1>5. CachesOK /\ FreeListsOK
    BY <1>2, <1>3, <1>4 DEF CachesOK, FreeListsOK
<1>6. OwnersOK
    BY <1>1, <1>4 DEF OwnersOK
<1>7. TrailersOK /\ FramesHeld /\ HeldOK
    BY <1>2, <1>4 DEF TrailersOK, FramesHeld, HeldOK
<1>8. MovingOK
    BY <1>1 DEF MovingOK
<1> QED
    BY <1>5, <1>6, <1>7, <1>8 DEF HeapInv

\* kmalloc, by whichever of its paths.
LEMMA KmallocInv ==
    ASSUME HeapInv, NEW size \in Requests, NEW from, Receiver(from), kmalloc(size, from)
    PROVE  HeapInv'
<1>1. size \in Nat
    BY HeapAssumption DEF Requests
<1>2. CASE take_object(size, from)
    BY <1>1, <1>2, TakeObjectInv
<1>3. CASE grow_cache(size, from)
    BY <1>1, <1>3, GrowCacheInv
<1>4. CASE large_alloc(size, 8, from)
    BY <1>4, LargeAllocInv
<1> QED
    BY <1>2, <1>3, <1>4 DEF kmalloc

\* kfree, of an object or of a large block.
LEMMA KfreeInv ==
    ASSUME HeapInv, NEW p \in DOMAIN held, kfree(p), held' = Without(held, p), MovingOK'
    PROVE  HeapInv'
<1>1. CASE kfree_object(p)
    BY <1>1, FreeObjectInv
<1>2. CASE kfree_large(p)
    BY <1>2, FreeLargeInv
<1> QED
    BY <1>1, <1>2 DEF kfree

\* Every call keeps the invariant, unless it gives a block bytes its frames do
\* not hold.
LEMMA HeapNextInv ==
    ASSUME HeapInv, [HeapNext]_heapVars, ~overrun'
    PROVE  HeapInv'
<1>1. ASSUME Idle, NEW s \in Sizes, kmalloc(s, {}) PROVE HeapInv'
    BY <1>1, KmallocInv DEF Requests, Receiver
<1>2. ASSUME Idle, NEW s \in Sizes, NEW a \in Alignments, kmalloc_aligned(s, a)
      PROVE  HeapInv'
    <2>1. a \in Nat \ {0} /\ s \in Requests
        BY HeapAssumption DEF Requests
    <2>2. CASE a <= 8
        BY <1>2, <2>1, <2>2, KmallocInv DEF kmalloc_aligned, Receiver
    <2>3. CASE ~(a <= 8)
        <3>1. large_alloc(s, a, {}) /\ ~(a > Page)
            BY <1>2, <2>3 DEF kmalloc_aligned, large_alloc
        <3>2. a <= Page
            BY <2>1, <3>1, PmmAssumption DEF Page
        <3> QED
            BY <2>1, <3>1, <3>2, LargeAllocInv DEF Receiver
    <2> QED
        BY <2>2, <2>3
<1>3. ASSUME Idle, NEW p \in DOMAIN held, free(p) PROVE HeapInv'
    <2>1. MovingOK'
        BY <1>3 DEF Idle, free, MovingOK
    <2> QED
        BY <1>3, <2>1, KfreeInv DEF free
<1>4. ASSUME NEW p \in DOMAIN held, NEW s \in GrowTo, krealloc_in_place(p, s) PROVE HeapInv'
    BY <1>4, GrowInPlaceInv
<1>5. ASSUME NEW p \in DOMAIN held, NEW s \in GrowTo, krealloc_move(p, s) PROVE HeapInv'
    <2>1. kmalloc(s, {p}) /\ s \in Requests /\ Receiver({p})
        BY <1>5 DEF krealloc_move, Requests, Receiver
    <2> QED
        BY <2>1, KmallocInv
<1>6. ASSUME krealloc_finish PROVE HeapInv'
    <2>1. moving[1] \in DOMAIN held
        BY <1>6 DEF krealloc_finish, HeapInv, MovingOK
    <2>2. MovingOK'
        BY <1>6 DEF krealloc_finish, MovingOK
    <2> QED
        BY <1>6, <2>1, <2>2, KfreeInv DEF krealloc_finish
<1>7. CASE UNCHANGED heapVars
    <2>1. UNCHANGED <<used, owners, slabs, free_list, trailers, held, moving>>
        BY <1>7 DEF heapVars, vars
    <2>2. /\ \A c \in Classes : SlabFrames(c)' = SlabFrames(c)
          /\ Slabs' = Slabs /\ Owned' = Owned
          /\ \A q : LargeFrames(q)' = LargeFrames(q) /\ LargeOK(q)' = LargeOK(q)
          /\ \A q, n : IsObject(q, n)' = IsObject(q, n)
        BY <2>1 DEF SlabFrames, Slabs, Owned, LargeFrames, LargeOK, Beyond, IsObject
    <2>3. CachesOK' /\ OwnersOK' /\ TrailersOK' /\ FramesHeld'
        BY <2>1, <2>2 DEF HeapInv, CachesOK, OwnersOK, TrailersOK, FramesHeld
    <2>4. HeldOK' /\ FreeListsOK' /\ MovingOK'
        BY <2>1, <2>2 DEF HeapInv, HeldOK, FreeListsOK, FreeListOK, MovingOK
    <2> QED
        BY <2>3, <2>4 DEF HeapInv
<1> QED
    BY <1>1, <1>2, <1>3, <1>4, <1>5, <1>6, <1>7 DEF HeapNext

\* The invariant holds until a block is given bytes its frames do not hold.
SoundInv == ~overrun => HeapInv

LEMMA Sound == HeapSpec => []SoundInv
<1>1. HeapInit => SoundInv
    BY HeapInitInv DEF SoundInv
<1>2. ASSUME [HeapNext]_heapVars PROVE overrun => overrun'
    BY <1>2 DEF HeapNext, heapVars, kmalloc, kmalloc_aligned, take_object, grow_cache,
       large_alloc, free, kfree, kfree_object, kfree_large, krealloc_in_place,
       krealloc_move, krealloc_finish
<1>3. SoundInv /\ [HeapNext]_heapVars => SoundInv'
    BY <1>2, HeapNextInv DEF SoundInv
<1> QED
    BY <1>1, <1>3, PTL DEF HeapSpec

\* The frames the heap has from pmm are those of its slabs and of the runs
\* whose pointers are held, none in two of them and none leaked, whatever is
\* allocated, aligned, resized and freed, until large_realloc or large_alloc
\* give a block bytes its frames do not hold.
THEOREM HeapFramesSound == HeapSpec => []HeapSound
<1>1. HeapInv => HeapTypeOK /\ FramesHeld
    <2> SUFFICES ASSUME HeapInv PROVE HeapTypeOK
        BY DEF HeapInv
    <2>1. \A f \in Slabs : free_list[f] \in Seq(Nat \ {0})
        <3> TAKE f \in Slabs
        <3>1. PICK c \in Classes : f \in SlabFrames(c)
            BY DEF Slabs
        <3>2. free_list[f] \in Seq(1 .. slab_capacity(c)) /\ slab_capacity(c) \in Nat
            BY <3>1, SlabLayout DEF HeapInv, FreeListsOK, FreeListOK
        <3>3. 1 .. slab_capacity(c) \subseteq Nat \ {0}
            BY <3>2
        <3> QED
            <4>1. \A T : 1 .. slab_capacity(c) \subseteq T => free_list[f] \in Seq(T)
                BY <3>2, ListElements
            <4> QED
                BY ONLY <3>3, <4>1
    <2>2. \A p \in DOMAIN trailers :
              trailers[p].base \in Frames /\ LargeFrames(p) \subseteq Frames
        BY DEF HeapInv, TrailersOK, LargeOK
    <2>3. \A p \in DOMAIN held : held[p] \in Nat \ {0}
        <3> TAKE p \in DOMAIN held
        <3>1. CASE p \in DOMAIN trailers
            BY <3>1 DEF HeapInv, TrailersOK, LargeOK, HeldOK
        <3>2. CASE p \notin DOMAIN trailers
            BY <3>2, SlabLayout DEF HeapInv, HeldOK, IsObject
        <3> QED
            BY <3>1, <3>2
    <2>4. moving = <<>> \/ ToSet(moving) \subseteq DOMAIN held
        <3>1. ASSUME NEW p \in DOMAIN held, NEW q \in DOMAIN held, moving = <<p, q>>
              PROVE  ToSet(moving) \subseteq DOMAIN held
            BY <3>1 DEF ToSet
        <3> QED
            BY <3>1 DEF HeapInv, MovingOK
    <2> QED
        BY <2>1, <2>2, <2>3, <2>4 DEF HeapTypeOK, HeapInv, CachesOK, HeldOK
<1>2. SoundInv => HeapSound
    BY <1>1 DEF SoundInv, HeapSound
<1> QED
    BY <1>2, Sound, PTL

\* heap_check: however slabs are made, filled and emptied, the free list of
\* each holds every object that nobody holds, once, and no other.
THEOREM HeapFreeListsExact == HeapSpec => []FreeListsExact
<1>1. SoundInv => FreeListsExact
    <2> SUFFICES ASSUME HeapInv, NEW c \in Classes, NEW f \in SlabFrames(c)
                 PROVE  /\ Cardinality(ToSet(free_list[f])) = Len(free_list[f])
                        /\ ToSet(free_list[f]) = {i \in 1 .. slab_capacity(c) :
                                                     ObjectAt(c, f, i) \notin DOMAIN held}
        BY DEF FreeListsExact, SoundInv
    <2>1. FreeListOK(c, f)
        BY DEF HeapInv, FreeListsOK
    <2>2. Cardinality(ToSet(free_list[f])) = Len(free_list[f])
        BY <2>1, OnceCounts DEF FreeListOK
    <2>3. ToSet(free_list[f]) \subseteq 1 .. slab_capacity(c)
        BY <2>1, ListElements DEF FreeListOK
    <2>4. ToSet(free_list[f]) = {i \in 1 .. slab_capacity(c) :
                                    ObjectAt(c, f, i) \notin DOMAIN held}
        BY <2>1, <2>3 DEF FreeListOK
    <2> QED
        BY <2>2, <2>4
<1> QED
    BY <1>1, Sound, PTL

----------------------------------------------------------------------------
(* Where the bytes of each block lie.                                      *)

\* Runs that share no frame lie one behind the other.
LEMMA RunsApart ==
    ASSUME NEW b \in Nat, NEW n \in Nat \ {0}, NEW d \in Nat, NEW m \in Nat \ {0},
           Run(b, n) \cap Run(d, m) = {}
    PROVE  b + n <= d \/ d + m <= b
<1>1. CASE b <= d
    <2>1. d \in Run(d, m)
        BY DEF Run
    <2>2. d \notin b .. b + n - 1
        BY <2>1 DEF Run
    <2> QED
        BY <1>1, <2>2
<1>2. CASE ~(b <= d)
    <2>1. b \in Run(b, n)
        BY DEF Run
    <2>2. b \notin d .. d + m - 1
        BY <2>1 DEF Run
    <2> QED
        BY <1>2, <2>2
<1> QED
    BY <1>1, <1>2

\* A stretch of bytes inside the frames of a run.
Inside(s, b, n) ==
    s[1] \in Int /\ s[2] \in Int /\ b * Page <= s[1] /\ s[2] <= (b + n) * Page

\* Stretches inside runs that share no frame do not overlap.
LEMMA StretchesApart ==
    ASSUME NEW b \in Nat, NEW n \in Nat \ {0}, NEW d \in Nat, NEW m \in Nat \ {0},
           Run(b, n) \cap Run(d, m) = {},
           NEW s, NEW t, Inside(s, b, n), Inside(t, d, m)
    PROVE  s[2] <= t[1] \/ t[2] <= s[1]
<1>1. Page \in Nat \ {0}
    BY PmmAssumption DEF Page
<1>2. CASE b + n <= d
    <2>1. (b + n) * Page <= d * Page /\ (b + n) * Page \in Nat /\ d * Page \in Nat
        BY <1>1, <1>2
    <2> QED
        BY <2>1 DEF Inside
<1>3. CASE d + m <= b
    <2>1. (d + m) * Page <= b * Page /\ (d + m) * Page \in Nat /\ b * Page \in Nat
        BY <1>1, <1>3
    <2> QED
        BY <2>1 DEF Inside
<1> QED
    BY <1>2, <1>3, RunsApart

\* The header of slab f, and object i of it with its guard band.
Header(f) == <<f * Page, f * Page + HeaderSize, "header">>
Object(c, f, i) ==
    <<ObjectAt(c, f, i), ObjectAt(c, f, i) + ClassSizes[c] + Redzone, "block">>

\* The block at p and the trailer below it.
LargeBlock(p)   == <<p, p + held[p], "block">>
LargeTrailer(p) == <<p - TrailerSize, p, "trailer">>

InSlab(s, c, f) ==
    s = Header(f) \/ \E i \in 1 .. slab_capacity(c) : s = Object(c, f, i)

InLarge(s, p) == s = LargeBlock(p) \/ s = LargeTrailer(p)

\* Every stretch belongs to a slab or to a large block.
LEMMA StretchKinds ==
    ASSUME HeapInv, NEW s \in Stretches
    PROVE  \/ \E c \in Classes : \E f \in SlabFrames(c) : InSlab(s, c, f)
           \/ \E p \in DOMAIN trailers : InLarge(s, p)
<1>1. ASSUME NEW f \in Slabs, s = <<f * Page, f * Page + HeaderSize, "header">>
      PROVE  \E c \in Classes : \E g \in SlabFrames(c) : InSlab(s, c, g)
    BY <1>1 DEF Slabs, InSlab, Header
<1>2. ASSUME NEW p \in DOMAIN held,
             s = <<p, p + held[p] + (IF SlabClass(p) # 0 THEN Redzone ELSE 0), "block">>
      PROVE  \/ \E c \in Classes : \E f \in SlabFrames(c) : InSlab(s, c, f)
             \/ \E q \in DOMAIN trailers : InLarge(s, q)
    <2>1. CASE p \in DOMAIN trailers
        <3>1. SlabClass(p) = 0 /\ p \in Nat /\ held[p] \in Nat
            BY <2>1, LargeIsNoSlab DEF HeapInv, TrailersOK, LargeOK, HeldOK
        <3>2. s = LargeBlock(p)
            BY <1>2, <3>1 DEF LargeBlock
        <3> QED
            BY <2>1, <3>2 DEF InLarge
    <2>2. CASE p \notin DOMAIN trailers
        <3>1. SlabClass(p) # 0
            BY <2>2, HeldKinds
        <3>2. PICK c \in Classes : \E f \in SlabFrames(c), i \in 1 .. slab_capacity(c) :
                  p = ObjectAt(c, f, i) /\ held[p] = ClassSizes[c]
            BY <2>2 DEF HeapInv, HeldOK, IsObject
        <3>3. PICK f \in SlabFrames(c), i \in 1 .. slab_capacity(c) :
                  p = ObjectAt(c, f, i) /\ held[p] = ClassSizes[c]
            BY <3>2
        <3>4. s = Object(c, f, i)
            BY <1>2, <3>1, <3>3 DEF Object
        <3> QED
            BY <3>4 DEF InSlab
    <2> QED
        BY <2>1, <2>2
<1>3. ASSUME NEW p \in DOMAIN trailers, s = <<p - TrailerSize, p, "trailer">>
      PROVE  \E q \in DOMAIN trailers : InLarge(s, q)
    BY <1>3 DEF InLarge, LargeTrailer
<1> QED
    BY <1>1, <1>2, <1>3 DEF Stretches

\* What belongs to a slab lies inside its frame.
LEMMA SlabStretch ==
    ASSUME HeapInv, NEW c \in Classes, NEW f \in SlabFrames(c), NEW s, InSlab(s, c, f)
    PROVE  Inside(s, f, 1)
<1>1. f \in Frames /\ f \in Nat
    BY SlabFacts DEF HeapInv, Frames
<1>2. /\ Page \in Nat \ {0} /\ HeaderSize \in Nat /\ Redzone \in Nat /\ ObjectOffset \in Nat
      /\ HeaderSize + Redzone <= ObjectOffset
      /\ ClassSizes[c] \in Nat /\ ObjectOffset + ClassSizes[c] + 2 * Redzone + 7 <= Page
    BY PmmAssumption, HeapAssumption DEF Page, Classes
<1>3. f * Page \in Nat /\ (f + 1) * Page = f * Page + Page /\ (f + 1) * Page \in Nat
    BY <1>1, <1>2
<1>4. CASE s = Header(f)
    BY <1>2, <1>3, <1>4 DEF Header, Inside
<1>5. ASSUME NEW i \in 1 .. slab_capacity(c), s = Object(c, f, i)
      PROVE  Inside(s, f, 1)
    <2> DEFINE p == ObjectAt(c, f, i)
    <2>1. p \in Nat /\ f * Page <= p /\ p + ClassSizes[c] + Redzone <= (f + 1) * Page
        BY <1>1, ObjectPlace, ObjectBehind
    <2> HIDE DEF p
    <2>2. s[1] = p /\ s[2] = p + ClassSizes[c] + Redzone
        BY <1>5 DEF Object, p
    <2> QED
        BY <1>2, <2>1, <2>2 DEF Inside
<1> QED
    BY <1>4, <1>5 DEF InSlab

\* A large block and its trailer lie inside their run.
LEMMA LargeStretch ==
    ASSUME HeapInv, NEW p \in DOMAIN trailers, NEW s, InLarge(s, p)
    PROVE  Inside(s, trailers[p].base, trailers[p].frames)
<1> DEFINE b == trailers[p].base
           n == trailers[p].frames
           r == trailers[p].requested
<1>1. LargeOK(p)
    BY DEF HeapInv, TrailersOK
<1>2. /\ p \in Nat /\ b \in Nat /\ n \in Nat \ {0} /\ r \in Nat \ {0} /\ held[p] = r
      /\ b * Page + TrailerSize <= p /\ ~(p + r > (b + n) * Page)
    BY <1>1 DEF LargeOK, Beyond, Frames, HeapInv, HeldOK
<1>3. Page \in Nat \ {0} /\ TrailerSize \in Nat
    BY PmmAssumption, HeapAssumption DEF Page
<1> HIDE DEF b, n, r
<1>5. (b + n) * Page \in Nat /\ b * Page \in Nat
    BY <1>2, <1>3
<1>7. p + r <= (b + n) * Page /\ p <= (b + n) * Page /\ b * Page <= p - TrailerSize
    BY <1>2, <1>3, <1>5
<1>8. b * Page <= p
    BY <1>2, <1>3, <1>5
<1>9. Inside(LargeBlock(p), b, n) /\ Inside(LargeTrailer(p), b, n)
    BY <1>2, <1>3, <1>7, <1>8 DEF Inside, LargeBlock, LargeTrailer
<1> QED
    BY <1>9 DEF InLarge, b, n

\* Two stretches of one slab do not overlap.
LEMMA SameSlab ==
    ASSUME HeapInv, NEW c \in Classes, NEW f \in SlabFrames(c),
           NEW s, InSlab(s, c, f), NEW t, InSlab(t, c, f), s # t
    PROVE  s[2] <= t[1] \/ t[2] <= s[1]
<1>1. f \in Frames
    BY SlabFacts DEF HeapInv
<1>2. ASSUME NEW i \in 1 .. slab_capacity(c)
      PROVE  Header(f)[2] <= Object(c, f, i)[1]
    BY <1>1, ObjectBehind DEF Header, Object
<1>3. ASSUME NEW i \in 1 .. slab_capacity(c), NEW j \in 1 .. slab_capacity(c), i < j
      PROVE  Object(c, f, i)[2] <= Object(c, f, j)[1]
    BY <1>1, <1>3, ObjectsApart DEF Object
<1>4. CASE s = Header(f)
    BY <1>2, <1>4 DEF InSlab
<1>5. CASE t = Header(f)
    BY <1>2, <1>5 DEF InSlab
<1>6. ASSUME NEW i \in 1 .. slab_capacity(c), NEW j \in 1 .. slab_capacity(c),
             s = Object(c, f, i), t = Object(c, f, j)
      PROVE  s[2] <= t[1] \/ t[2] <= s[1]
    <2>1. slab_capacity(c) \in Nat
        BY SlabLayout
    <2>2. i < j \/ j < i
        BY <1>6, <2>1
    <2> QED
        BY <1>3, <1>6, <2>2
<1> QED
    BY <1>4, <1>5, <1>6 DEF InSlab

\* A large block begins where its trailer ends.
LEMMA SameLarge ==
    ASSUME NEW p, NEW s, InLarge(s, p), NEW t, InLarge(t, p), s # t, p \in Nat
    PROVE  s[2] <= t[1] \/ t[2] <= s[1]
BY DEF InLarge, LargeBlock, LargeTrailer

\* Two stretches lie in one slab, in one run, or in frames that differ.
LEMMA BlocksAreApart ==
    ASSUME HeapInv PROVE BlocksApart
<1> SUFFICES ASSUME NEW s \in Stretches, NEW t \in Stretches, s # t
             PROVE  s[2] <= t[1] \/ t[2] <= s[1]
    BY DEF BlocksApart
<1>0. HeapInv
    OBVIOUS
<1>1. ASSUME NEW c \in Classes, NEW f \in SlabFrames(c)
      PROVE  f \in Nat /\ f \in Slabs /\ Run(f, 1) = {f}
    <2>1. f \in Nat /\ f \in Slabs
        BY <1>0, SlabFacts DEF HeapInv, Frames
    <2>2. f + 1 - 1 = f /\ f .. f = {f}
        BY <2>1
    <2> QED
        BY <2>1, <2>2 DEF Run
<1>2. ASSUME NEW p \in DOMAIN trailers
      PROVE  /\ p \in Nat /\ trailers[p].base \in Nat /\ trailers[p].frames \in Nat \ {0}
             /\ LargeFrames(p) = Run(trailers[p].base, trailers[p].frames)
             /\ LargeFrames(p) \cap Slabs = {}
    BY <1>0 DEF HeapInv, TrailersOK, LargeOK, FramesHeld, LargeFrames, Frames
<1>3. ASSUME NEW c \in Classes, NEW f \in SlabFrames(c), InSlab(s, c, f),
             NEW d \in Classes, NEW g \in SlabFrames(d), InSlab(t, d, g)
      PROVE  s[2] <= t[1] \/ t[2] <= s[1]
    <2>1. CASE f = g
        <3>1. c = d
            BY <1>0, <2>1, SlabFacts DEF HeapInv
        <3> QED
            BY <1>0, <1>3, <2>1, <3>1, SameSlab
    <2>2. CASE f # g
        <3>1. Inside(s, f, 1) /\ Inside(t, g, 1)
            BY <1>0, <1>3, SlabStretch
        <3>2. Run(f, 1) \cap Run(g, 1) = {} /\ f \in Nat /\ g \in Nat
            BY <1>1, <2>2
        <3> QED
            BY <3>1, <3>2, StretchesApart
    <2> QED
        BY <2>1, <2>2
<1>4. ASSUME NEW u, NEW v, NEW c \in Classes, NEW f \in SlabFrames(c), InSlab(u, c, f),
             NEW p \in DOMAIN trailers, InLarge(v, p)
      PROVE  u[2] <= v[1] \/ v[2] <= u[1]
    <2>1. Inside(u, f, 1) /\ Inside(v, trailers[p].base, trailers[p].frames)
        BY <1>0, <1>4, SlabStretch, LargeStretch
    <2>2. Run(f, 1) \cap Run(trailers[p].base, trailers[p].frames) = {}
        BY <1>1, <1>2
    <2> QED
        BY <1>1, <1>2, <2>1, <2>2, StretchesApart
<1>5. ASSUME NEW p \in DOMAIN trailers, InLarge(s, p), NEW q \in DOMAIN trailers, InLarge(t, q)
      PROVE  s[2] <= t[1] \/ t[2] <= s[1]
    <2>1. CASE p = q
        BY <1>2, <1>5, <2>1, SameLarge
    <2>2. CASE p # q
        <3>1. /\ Inside(s, trailers[p].base, trailers[p].frames)
              /\ Inside(t, trailers[q].base, trailers[q].frames)
            BY <1>5, LargeStretch
        <3>2. LargeFrames(p) \cap LargeFrames(q) = {}
            BY <1>0, <2>2 DEF HeapInv, FramesHeld
        <3> QED
            BY <1>2, <3>1, <3>2, StretchesApart
    <2> QED
        BY <2>1, <2>2
<1> QED
    BY <1>0, <1>3, <1>4, <1>5, StretchKinds

\* An object ends with its guard band in its slab, a large block in its run.
LEMMA BlocksAreInside ==
    ASSUME HeapInv PROVE BlocksInside
<1> SUFFICES ASSUME NEW p \in DOMAIN held
             PROVE  IF SlabClass(p) # 0
                    THEN p + held[p] + Redzone <= (PageOf(p) + 1) * Page
                    ELSE /\ p - TrailerSize >= trailers[p].base * Page
                         /\ p + held[p] <= (trailers[p].base + trailers[p].frames) * Page
    BY DEF BlocksInside
<1>0. HeapInv
    OBVIOUS
<1>1. CASE p \in DOMAIN trailers
    <2> DEFINE b == trailers[p].base
               n == trailers[p].frames
    <2>1. SlabClass(p) = 0
        BY <1>0, <1>1, HeldKinds
    <2>2. Inside(LargeBlock(p), b, n) /\ Inside(LargeTrailer(p), b, n)
        BY <1>1, LargeStretch DEF InLarge
    <2>3. /\ p - TrailerSize \in Int /\ b * Page <= p - TrailerSize
          /\ p + held[p] <= (b + n) * Page
        BY <2>2 DEF Inside, LargeBlock, LargeTrailer
    <2>4. b * Page \in Nat
        <3>1. b \in Nat /\ Page \in Nat
            BY <1>0, <1>1, PmmAssumption DEF HeapInv, TrailersOK, LargeOK, Frames, Page
        <3> QED
            BY <3>1
    <2> QED
        BY <2>1, <2>3, <2>4
<1>2. CASE p \notin DOMAIN trailers
    <2>1. PICK c \in Classes : \E f \in SlabFrames(c), i \in 1 .. slab_capacity(c) :
              p = ObjectAt(c, f, i) /\ held[p] = ClassSizes[c]
        BY <1>0, <1>2 DEF HeapInv, HeldOK, IsObject
    <2>2. PICK f \in SlabFrames(c), i \in 1 .. slab_capacity(c) :
              p = ObjectAt(c, f, i) /\ held[p] = ClassSizes[c]
        BY <2>1
    <2>3. f \in Frames
        BY <1>0, SlabFacts DEF HeapInv
    <2>4. SlabClass(p) # 0 /\ PageOf(p) = f
        BY <1>0, <2>2, ObjectFacts DEF HeapInv
    <2>5. p + held[p] + Redzone <= (f + 1) * Page
        BY <2>2, <2>3, ObjectPlace
    <2> QED
        BY <2>4, <2>5
<1> QED
    BY <1>1, <1>2

\* No block handed out reaches into another, into the header of a slab, into
\* the guard band of a neighbour or into a trailer, and each lies with its
\* trailer in frames of the heap's own, for every page size, every table of
\* classes and every sequence of calls, whatever grew where it stands, until
\* large_realloc or large_alloc give a block bytes its frames do not hold.
THEOREM HeapBlocksSound == HeapSpec => []BlocksSound
<1>1. SoundInv => BlocksSound
    BY BlocksAreApart, BlocksAreInside DEF BlocksSound, SoundInv
<1> QED
    BY <1>1, Sound, PTL

=============================================================================
