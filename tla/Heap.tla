-------------------------------- MODULE Heap --------------------------------
(***************************************************************************)
(* The kernel heap (kernel/core/heap.c) on top of the physical memory      *)
(* manager, whose module it extends: every frame it takes or gives back is *)
(* an action of Pmm.                                                       *)
(*                                                                         *)
(* A request up to the largest class is served from a slab, a frame cut    *)
(* into objects of one size; a larger or more strictly aligned one from a  *)
(* run of frames, with a trailer just below the pointer handed out.        *)
(* Addresses and sizes are in bytes.                                       *)
(*                                                                         *)
(* Callers are modelled by the pointers they hold and free only those.     *)
(* Guard bands count as part of an object's neighbourhood: a caller that   *)
(* stays inside its block never touches them, so their check never fails.  *)
(* Calls follow one another, as they do at boot: the code takes no lock.   *)
(* The statistics are left out, and a size of zero, which kmalloc makes 1. *)
(*                                                                         *)
(* A large block may be let grow over the end of its frames, or be aligned *)
(* beyond them, since neither is tested.  What its owner then writes there *)
(* is not modelled: the variable overrun records that it may, and from     *)
(* there on nothing is claimed.                                            *)
(***************************************************************************)
EXTENDS Pmm, Sequences, SequencesExt, Functions

CONSTANTS ClassSizes,    \* k_class_sizes
          ObjectOffset,  \* SLAB_OBJECT_OFFSET
          HeaderSize,    \* sizeof(slab_t)
          Redzone,       \* REDZONE_LEN
          TrailerSize,   \* sizeof(large_trailer_t)
          Sizes,         \* bound: sizes callers ask for
          Alignments,    \* bound: alignments callers ask for
          GrowTo,        \* bound: sizes callers ask krealloc for
          MaxHeld        \* bound: blocks held at once

ASSUME HeapAssumption ==
    /\ ClassSizes \in Seq(Nat \ {0})
    /\ \A i \in 1 .. Len(ClassSizes) - 1 : ClassSizes[i] < ClassSizes[i + 1]
    /\ Sizes \cup GrowTo \subseteq Nat \ {0}
    /\ Alignments \subseteq Nat \ {0}
    /\ MaxHeld \in Nat
    /\ {ObjectOffset, HeaderSize, Redzone, TrailerSize} \subseteq Nat
    /\ HeaderSize + Redzone <= ObjectOffset
    \* A frame holds an object of each class, with padding and guard bands.
    /\ \A i \in 1 .. Len(ClassSizes) :
          ObjectOffset + ClassSizes[i] + 2 * Redzone + 7 <= FrameUnits

VARIABLES slabs,      \* slabs[c]: the frames of cache c, newest first
          free_list,  \* free_list[f]: the free objects of slab f, by number
          trailers,   \* trailers[p]: the trailer below p, where its magic stands
          held,       \* history: held[p] is how many bytes its owner may use at p
          moving,     \* krealloc after its kmalloc and before its kfree: <<from, to>>
          overrun     \* history: a block was given bytes its frames do not hold

heapVars == <<vars, slabs, free_list, trailers, held, moving, overrun>>

Classes == 1 .. Len(ClassSizes)
Page    == FrameUnits   \* AF_PAGE_SIZE
PageOf(p) == p \div Page

HeapInit ==
    /\ Init
    /\ slabs = [c \in Classes |-> <<>>]
    /\ free_list = <<>>
    /\ trailers = <<>>
    /\ held = <<>>
    /\ moving = <<>>
    /\ overrun = FALSE

----------------------------------------------------------------------------
(* Layout.                                                                 *)

AlignUp(n, a) == ((n + a - 1) \div a) * a

\* The class that serves a size, or 0.
class_for_size(size) ==
    IF \E c \in Classes : size <= ClassSizes[c]
    THEN CHOOSE c \in Classes : /\ size <= ClassSizes[c]
                                /\ \A d \in Classes : size <= ClassSizes[d] => c <= d
    ELSE 0

slab_stride_NoBand(c) == AlignUp(ClassSizes[c], 8)

slab_stride(c) == AlignUp(ClassSizes[c] + Redzone, 8)

slab_capacity(c) == (Page - ObjectOffset - Redzone) \div slab_stride(c)

ObjectAt(c, f, i) == f * Page + ObjectOffset + (i - 1) * slab_stride(c)

\* Which object of slab f begins at p.
ObjectIndex(c, p) == ((p % Page) - ObjectOffset) \div slab_stride(c) + 1

SlabFrames(c) == ToSet(slabs[c])

\* The class of the slab whose header kfree finds at the start of p's page, or
\* 0 when there is no slab magic there.
SlabClass(p) ==
    IF \E c \in Classes : PageOf(p) \in SlabFrames(c)
    THEN CHOOSE c \in Classes : PageOf(p) \in SlabFrames(c) ELSE 0

Without(fn, p) == Restrict(fn, DOMAIN fn \ {p})
With(fn, p, v) == [q \in DOMAIN fn \cup {p} |-> IF q = p THEN v ELSE fn[q]]

----------------------------------------------------------------------------
(* Allocation.  The new pointer goes to a caller (from is empty) or to the *)
(* krealloc of the pointer in from.                                        *)

GoesTo(p, bytes, from) ==
    /\ Cardinality(DOMAIN held) < MaxHeld
    /\ held' = With(held, p, bytes)
    /\ moving' = IF from = {} THEN moving ELSE <<CHOOSE q \in from : TRUE, p>>

\* The newest slab of the class has a free object, and the lowest is taken.
Roomy(c) == slabs[c] # <<>> /\ free_list[Head(slabs[c])] # <<>>

take_object(size, from) ==
    LET c == class_for_size(size)
        f == Head(slabs[c])
    IN  /\ c # 0 /\ Roomy(c)
        /\ free_list' = [free_list EXCEPT ![f] = Tail(@)]
        /\ GoesTo(ObjectAt(c, f, Head(free_list[f])), ClassSizes[c], from)
        /\ UNCHANGED <<vars, slabs, trailers, overrun>>

\* slab_create: the newest slab is full, and older ones are not looked at.
grow_cache(size, from) ==
    LET c == class_for_size(size)
    IN  /\ c # 0 /\ ~Roomy(c)
        /\ \E f \in Frames :
              /\ pmm_alloc_frame(f)
              /\ slabs' = [slabs EXCEPT ![c] = <<f>> \o @]
              /\ free_list' = With(free_list, f,
                                   [k \in 1 .. slab_capacity(c) - 1 |-> k + 1])
              /\ GoesTo(ObjectAt(c, f, 1), ClassSizes[c], from)
        /\ UNCHANGED <<trailers, overrun>>

\* One frame more than size and trailer need, for the alignment.
FramesFor(size) == (size + TrailerSize + Page + Page - 1) \div Page

UserAt(base, alignment) ==
    IF alignment > 8 THEN AlignUp(base + TrailerSize, alignment) ELSE base + TrailerSize

large_alloc(size, alignment, from) ==
    LET n == FramesFor(size)
    IN  /\ \E f \in Frames :
              /\ pmm_alloc_frames(f, n)
              /\ LET p == UserAt(f * Page, alignment)
                 IN  /\ trailers' = With(trailers, p, [base |-> f, frames |-> n,
                                                       requested |-> size])
                     /\ GoesTo(p, size, from)
        \* heap.c: "Alignment beyond a page is rejected by the caller".  It is not.
        /\ overrun' = (overrun \/ alignment > Page)
        /\ UNCHANGED <<slabs, free_list>>

kmalloc(size, from) ==
    \/ take_object(size, from)
    \/ grow_cache(size, from)
    \/ class_for_size(size) = 0 /\ large_alloc(size, 8, from)

\* Small alignments are those of kmalloc; the others take the large path
\* whatever the size.
kmalloc_aligned(size, alignment) ==
    IF alignment <= 8 THEN kmalloc(size, {}) ELSE large_alloc(size, alignment, {})

----------------------------------------------------------------------------
(* Freeing.                                                                *)

PushedAt_First(p) == <<1>>

PushedAt(p) == <<ObjectIndex(SlabClass(p), p)>>

kfree_object(p) ==
    /\ SlabClass(p) # 0
    /\ free_list' = [free_list EXCEPT ![PageOf(p)] = PushedAt(p) \o @]
    /\ UNCHANGED <<vars, slabs, trailers, overrun>>

kfree_large_OneFrame(p) ==
    /\ SlabClass(p) = 0
    /\ p \in DOMAIN trailers
    /\ pmm_free_frames(trailers[p].base, 1)
    /\ trailers' = Without(trailers, p)
    /\ UNCHANGED <<slabs, free_list, overrun>>

kfree_large(p) ==
    /\ SlabClass(p) = 0
    /\ p \in DOMAIN trailers
    /\ pmm_free_frames(trailers[p].base, trailers[p].frames)
    /\ trailers' = Without(trailers, p)
    /\ UNCHANGED <<slabs, free_list, overrun>>

kfree(p) == kfree_object(p) \/ kfree_large(p)

free(p) ==
    /\ p \in DOMAIN held
    /\ kfree(p)
    /\ held' = Without(held, p)
    /\ UNCHANGED moving

----------------------------------------------------------------------------
(* krealloc.                                                               *)

kmalloc_usable_size(p) ==
    IF SlabClass(p) # 0 THEN ClassSizes[SlabClass(p)]
    ELSE IF p \in DOMAIN trailers THEN trailers[p].requested ELSE 0

\* A large block grows where it is as long as its frames hold the size.
GrowsInPlace(p, size) ==
    /\ SlabClass(p) = 0
    /\ size <= trailers[p].frames * Page

\* Whether n bytes at p reach behind the frames of the block.
Beyond(p, n) == p + n > (trailers[p].base + trailers[p].frames) * Page

Idle == moving = <<>>

krealloc_in_place(p, size) ==
    /\ Idle /\ p \in DOMAIN held
    /\ size > kmalloc_usable_size(p)
    /\ GrowsInPlace(p, size)
    /\ trailers' = [trailers EXCEPT ![p].requested = size]
    /\ held' = [held EXCEPT ![p] = size]
    /\ overrun' = (overrun \/ Beyond(p, size))
    /\ UNCHANGED <<vars, slabs, free_list, moving>>

krealloc_move(p, size) ==
    /\ Idle /\ p \in DOMAIN held
    /\ size > kmalloc_usable_size(p)
    /\ ~GrowsInPlace(p, size)
    /\ kmalloc(size, {p})

\* The contents are copied and the old block is freed.
krealloc_finish ==
    /\ moving # <<>>
    /\ kfree(moving[1])
    /\ held' = Without(held, moving[1])
    /\ moving' = <<>>

----------------------------------------------------------------------------
HeapNext ==
    \/ Idle /\ \E s \in Sizes : kmalloc(s, {})
    \/ Idle /\ \E s \in Sizes, a \in Alignments : kmalloc_aligned(s, a)
    \/ Idle /\ \E p \in DOMAIN held : free(p)
    \/ \E p \in DOMAIN held, s \in GrowTo : krealloc_in_place(p, s)
    \/ \E p \in DOMAIN held, s \in GrowTo : krealloc_move(p, s)
    \/ krealloc_finish

HeapSpec == HeapInit /\ [][HeapNext]_heapVars

----------------------------------------------------------------------------
(* Properties.                                                             *)

Slabs == UNION {SlabFrames(c) : c \in Classes}

LargeFrames(p) == Run(trailers[p].base, trailers[p].frames)

\* Every variable keeps its form: slabs and free lists belong together, and
\* what is held is either an object or a block with its trailer.
HeapTypeOK ==
    /\ slabs \in [Classes -> Seq(Frames)]
    /\ DOMAIN free_list = Slabs
    /\ \A f \in Slabs : free_list[f] \in Seq(Nat \ {0})
    /\ \A p \in DOMAIN trailers :
          /\ trailers[p].base \in Frames
          /\ LargeFrames(p) \subseteq Frames
    /\ DOMAIN trailers \subseteq DOMAIN held
    /\ \A p \in DOMAIN held : held[p] \in Nat \ {0}
    /\ moving = <<>> \/ ToSet(moving) \subseteq DOMAIN held

\* The stretches of memory that mean something, as <<first, beyond, name>>:
\* slab headers, blocks with the guard band behind each object, trailers.
Stretches ==
    {<<f * Page, f * Page + HeaderSize, "header">> : f \in Slabs}
    \cup {<<p, p + held[p] + (IF SlabClass(p) # 0 THEN Redzone ELSE 0), "block">> : p \in DOMAIN held}
    \cup {<<p - TrailerSize, p, "trailer">> : p \in DOMAIN trailers}

\* No block handed out reaches into another, into a slab's header, into the
\* guard band of a neighbour or into a trailer, whatever was allocated, freed,
\* aligned and resized before.
BlocksApart ==
    \A s, t \in Stretches : s # t => s[2] <= t[1] \/ t[2] <= s[1]

\* Every block, with its trailer, lies inside frames the heap holds: those of
\* its own run, or its slab.
BlocksInside ==
    \A p \in DOMAIN held :
        IF SlabClass(p) # 0
        THEN p + held[p] + Redzone <= (PageOf(p) + 1) * Page
        ELSE /\ p - TrailerSize >= trailers[p].base * Page
             /\ p + held[p] <= (trailers[p].base + trailers[p].frames) * Page

\* No block overlaps anything else, and each lies in memory of the heap's own,
\* whatever was grown where it stands, as long as none grew past its frames.
BlocksSound == ~overrun => BlocksApart /\ BlocksInside

\* heap_check: the free list of a slab holds each object that nobody holds,
\* once, and no other.
FreeListsExact == ~overrun =>
    \A c \in Classes : \A f \in SlabFrames(c) :
        /\ Cardinality(ToSet(free_list[f])) = Len(free_list[f])
        /\ ToSet(free_list[f]) =
               {i \in 1 .. slab_capacity(c) : ObjectAt(c, f, i) \notin DOMAIN held}

\* The frames the heap has from pmm are those of its slabs and of the runs
\* whose pointers are held: none is leaked, none is in two of them.
FramesHeld ==
    /\ Owned = Slabs \cup UNION {LargeFrames(p) : p \in DOMAIN trailers}
    /\ \A p \in DOMAIN trailers :
          /\ LargeFrames(p) \cap Slabs = {}
          /\ \A q \in DOMAIN trailers \ {p} : LargeFrames(p) \cap LargeFrames(q) = {}

\* Caches and trailers keep their form and account for every frame.
HeapSound == ~overrun => HeapTypeOK /\ FramesHeld

----------------------------------------------------------------------------
(* What the comments say and the code does not do.                         *)

\* heap.h says kmalloc_usable_size gives the "Bytes actually available in the
\* allocation containing `ptr`".  large_realloc compares the new size with the
\* frames alone and forgets that trailer and padding stand in them.
UsableIsThere ==
    \A p \in DOMAIN trailers : ~Beyond(p, kmalloc_usable_size(p))

\* heap.c: "Prefer a slab with free space so a nearly-empty slab is not
\* stranded behind a full one".  A new slab is made before the older ones are
\* looked at.
NoneStranded ==
    [][\A c \in Classes : slabs'[c] # slabs[c]
          => \A f \in SlabFrames(c) : free_list[f] = <<>>]_heapVars
============================================================================
