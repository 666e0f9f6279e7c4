------------------------------- MODULE Paging -------------------------------
(***************************************************************************)
(* Page tables (kernel/arch/x86_64/paging.c): address spaces created with  *)
(* the kernel's half shared, pages mapped and unmapped, spaces destroyed.  *)
(*                                                                         *)
(* A page is named by its four table indices.  entry[<<t, i>>] is entry i  *)
(* of the table in frame t, where one is present.  The entries of a freed  *)
(* frame are forgotten at once rather than when it is allocated and        *)
(* cleared; that a freed table is still in use is seen by its count.       *)
(*                                                                         *)
(* Callers follow hal.h: a frame belongs to the space it is mapped into,   *)
(* and who shares one takes a reference first.  The allocator hands out    *)
(* the lowest free frame.  Of the flags only USER is kept.                 *)
(*                                                                         *)
(* The loader maps a program wherever its file says (elf.c), and so may    *)
(* put a page outside the one slot of the root that is a process's own,    *)
(* where the tables are the kernel's.  The walk marks those USER, and the  *)
(* end of a space frees what is so marked.  Two variables record it:       *)
(* strayed, the spaces that have such marks, by a mapping of their own or  *)
(* because they were copied from one that had, and lost, that such a space *)
(* has ended.                                                              *)
(***************************************************************************)
EXTENDS Integers, FiniteSets, Functions, FiniteSetsExt

CONSTANTS FrameCount,   \* frames there are
          UserSlot,     \* AF_USER_PML4_INDEX
          UserPages,    \* bound: pages mapped for processes
          KernelPages,  \* bound: pages mapped for the kernel
          IdentityPage, \* a page of the identity map
          MaxSpaces,    \* bound: processes at once
          Shares,       \* bound: further mappings of one frame
          TlbSize       \* bound: translations the processor holds

Frames == 1 .. FrameCount

ASSUME PagingAssumption ==
    /\ FrameCount \in Nat /\ FrameCount > 3
    /\ UserPages \cup KernelPages \cup {IdentityPage} \subseteq Nat \X Nat \X Nat \X Nat
    /\ \A va \in KernelPages \cup {IdentityPage} : va[1] # UserSlot
    /\ MaxSpaces \in Nat /\ Shares \in Nat /\ TlbSize \in Nat

VARIABLES mem,      \* mem.entry: the present entries; mem.ref: pmm's counts, 0 when free
          spaces,   \* the roots created for processes
          cr3,      \* the installed root
          tlb,      \* translations the processor holds: tlb[page] is a frame
          mapped,   \* history: mapped[<<root, page>>] is the frame put there
          strayed,  \* history: spaces whose USER marks reach the kernel's slots
          lost      \* history: whether such a space has been destroyed

vars == <<mem, spaces, cr3, tlb, mapped, strayed, lost>>

\* af_x86_paging_bootstrap: root, PDPT and page directory of the identity map,
\* whose entries are 2 MiB pages.  Frame 0 stands for the memory behind them.
KernelRoot == 1

Entry(to, user, huge) == [to |-> to, user |-> user, huge |-> huge]

BootTables ==
    [x \in {<<1, IdentityPage[1]>>, <<2, IdentityPage[2]>>, <<3, IdentityPage[3]>>} |->
        IF x[1] = 3 THEN Entry(0, FALSE, TRUE) ELSE Entry(x[1] + 1, FALSE, FALSE)]

Init ==
    /\ mem = [entry |-> BootTables, ref |-> [f \in Frames |-> IF f <= 3 THEN 1 ELSE 0]]
    /\ spaces = {}
    /\ cr3 = KernelRoot
    /\ tlb = <<>>
    /\ mapped = <<>>
    /\ strayed = {} /\ lost = FALSE

----------------------------------------------------------------------------
(* Frames.                                                                 *)

FreeFrames(mm) == {f \in Frames : mm.ref[f] = 0}

\* pmm_alloc_frame_z: the frame is clear.
Allocated(mm, f) == [mm EXCEPT !.ref[f] = 1]

pmm_free_frame(mm, f) == [mm EXCEPT !.ref[f] = 0]

WithEntry(mm, t, i, e) ==
    [mm EXCEPT !.entry = [x \in DOMAIN @ \cup {<<t, i>>} |-> IF x = <<t, i>> THEN e ELSE @[x]]]

----------------------------------------------------------------------------
(* The walk.  A result is the memory after it and the table reached, 0 if  *)
(* the walk failed.                                                        *)

NewTable(mm, t, i, user) ==
    LET f == Min(FreeFrames(mm))
    IN  [mem |-> WithEntry(Allocated(mm, f), t, i, Entry(f, user, FALSE)), next |-> f]

walk_to_next_level(w, i, user) ==
    LET mm == w.mem
        e  == mm.entry[<<w.next, i>>]
    IN  IF w.next = 0 THEN w
        ELSE IF <<w.next, i>> \in DOMAIN mm.entry
        THEN IF e.huge THEN [w EXCEPT !.next = 0]
             ELSE [mem  |-> WithEntry(mm, w.next, i, [e EXCEPT !.user = @ \/ user]),
                   next |-> e.to]
        ELSE IF FreeFrames(mm) = {} THEN [w EXCEPT !.next = 0]
        ELSE NewTable(mm, w.next, i, user)

Walk(mm, root, va, user) ==
    walk_to_next_level(
        walk_to_next_level(
            walk_to_next_level([mem |-> mm, next |-> root], va[1], user),
            va[2], user),
        va[3], user)

\* Whether pa may be put into the entry: it is empty or already says pa.
Writable(w, va, pa) ==
    <<w.next, va[4]>> \in DOMAIN w.mem.entry => w.mem.entry[<<w.next, va[4]>>].to = pa

\* Tables made on the way stay when the walk or the last entry fails.
hal_map_page(mm, root, va, pa, user) ==
    LET w == Walk(mm, root, va, user)
    IN  IF w.next # 0 /\ Writable(w, va, pa)
        THEN [mem |-> WithEntry(w.mem, w.next, va[4], Entry(pa, user, FALSE)), ok |-> TRUE]
        ELSE [mem |-> w.mem, ok |-> FALSE]

\* hal_translate: the frame, or -1.
Below(mm, t, i) ==
    IF t > 0 /\ <<t, i>> \in DOMAIN mm.entry THEN mm.entry[<<t, i>>]
    ELSE Entry(-1, FALSE, FALSE)

hal_translate(mm, root, va) ==
    LET pdpte == Below(mm, Below(mm, root, va[1]).to, va[2])
        pde   == Below(mm, pdpte.to, va[3])
    IN  IF pde.huge THEN pde.to ELSE Below(mm, pde.to, va[4]).to

----------------------------------------------------------------------------
(* Address spaces.                                                         *)

Inherits_Everything(i) == TRUE

Inherits(i) == i # UserSlot

hal_pt_create_user ==
    /\ Cardinality(spaces) < MaxSpaces
    /\ FreeFrames(mem) # {}
    /\ LET root  == Min(FreeFrames(mem))
           mm    == Allocated(mem, root)
           slots == {x[2] : x \in {y \in DOMAIN mm.entry : y[1] = cr3 /\ Inherits(y[2])}}
       IN  /\ mem' = [mm EXCEPT !.entry =
                         [x \in DOMAIN @ \cup ({root} \X slots) |->
                             IF x[1] = root THEN @[<<cr3, x[2]>>] ELSE @[x]]]
           /\ spaces' = spaces \cup {root}
           /\ strayed' = IF cr3 \in strayed THEN strayed \cup {root} ELSE strayed
    /\ UNCHANGED <<cr3, tlb, mapped, lost>>

\* What hal_pt_destroy visits below a set of tables.
EntriesOf(tables) == {x \in DOMAIN mem.entry : x[1] \in tables}
TablesOf(entries) == {mem.entry[x].to : x \in {y \in entries : ~mem.entry[y].huge}}

\* Entries of the root that lead to tables of this space.
OwnEntries_All(root) == EntriesOf({root})

OwnEntries(root) == {x \in EntriesOf({root}) : mem.entry[x].user}

Unreferenced_Freed(leaves, f) == 0

Unreferenced(leaves, f) ==
    LET n == Cardinality({x \in leaves : mem.entry[x].to = f})
    IN  IF n < mem.ref[f] THEN mem.ref[f] - n ELSE 0

\* sched_collect_zombies leaves a space before it is destroyed.
LeftFirst(root) == root # cr3

hal_pt_destroy(root) ==
    LET pdpts  == TablesOf(OwnEntries(root))
        pds    == TablesOf(EntriesOf(pdpts))
        pts    == TablesOf(EntriesOf(pds))
        huge   == {x \in EntriesOf(pds) : mem.entry[x].huge}
        leaves == huge \cup EntriesOf(pts)
        tables == {root} \cup pdpts \cup pds \cup pts
    IN  /\ root \in spaces /\ LeftFirst(root)
        /\ mem' = [entry |-> Restrict(mem.entry, DOMAIN mem.entry \ EntriesOf(tables)),
                   ref   |-> [f \in Frames |->
                                 IF f \in tables THEN 0
                                 ELSE IF \E x \in leaves : mem.entry[x].to = f
                                 THEN Unreferenced(leaves, f) ELSE mem.ref[f]]]
        /\ spaces' = spaces \ {root}
        /\ mapped' = Restrict(mapped, {x \in DOMAIN mapped : x[1] # root})
        /\ strayed' = strayed \ {root}
        /\ lost' = (lost \/ root \in strayed)
        /\ UNCHANGED <<cr3, tlb>>

----------------------------------------------------------------------------
(* Mapping and unmapping by their callers.                                 *)

Flushed_Never(root, va) == tlb

\* af_invlpg, when the tables changed are the installed ones.
Flushed(root, va) == IF root = cr3 THEN Restrict(tlb, DOMAIN tlb \ {va}) ELSE tlb

\* The spaces with stray marks once va has been walked to for root.
Straying(root, va) ==
    IF root # KernelRoot /\ va[1] # UserSlot THEN strayed \cup {root} ELSE strayed

Noted(root, va, f) ==
    [x \in DOMAIN mapped \cup {<<root, va>>} |-> IF x = <<root, va>> THEN f ELSE mapped[x]]

\* A fresh frame is mapped, and given back when that fails (elf_load).
map_new(root, va, user) ==
    /\ FreeFrames(mem) # {}
    /\ LET f == Min(FreeFrames(mem))
           m == hal_map_page(Allocated(mem, f), root, va, f, user)
       IN  IF m.ok
           THEN /\ mem' = m.mem
                /\ mapped' = Noted(root, va, f)
                /\ tlb' = Flushed(root, va)
           ELSE /\ mem' = pmm_free_frame(m.mem, f)
                /\ UNCHANGED <<mapped, tlb>>
    /\ strayed' = Straying(root, va)
    /\ UNCHANGED <<spaces, cr3, lost>>

map_user(root, va) == root \in spaces /\ map_new(root, va, TRUE)

\* The kernel's own mappings are made at boot, on the kernel's tables.
map_kernel(va) == spaces = {} /\ cr3 = KernelRoot /\ map_new(KernelRoot, va, FALSE)

\* pmm_frame_ref, then the second mapping.
map_shared(x, root, va) ==
    /\ x \in DOMAIN mapped /\ x[1] \in spaces /\ root \in spaces \ {x[1]}
    /\ mem.ref[mapped[x]] <= Shares
    /\ LET f == mapped[x]
           m == hal_map_page([mem EXCEPT !.ref[f] = @ + 1], root, va, f, TRUE)
       IN  /\ m.ok
           /\ <<root, va>> \notin DOMAIN mapped
           /\ mem' = m.mem
           /\ mapped' = Noted(root, va, f)
           /\ tlb' = Flushed(root, va)
    /\ strayed' = Straying(root, va)
    /\ UNCHANGED <<spaces, cr3, lost>>

\* The last table of a walk that allocates nothing.
TableFor(mm, root, va) == Below(mm, Below(mm, Below(mm, root, va[1]).to, va[2]).to, va[3]).to

\* hal_unmap_page; the frame is its caller's, who frees it.
unmap_kernel(va) ==
    /\ cr3 = KernelRoot
    /\ <<KernelRoot, va>> \in DOMAIN mapped
    /\ LET gone == <<TableFor(mem, KernelRoot, va), va[4]>>
           f    == mapped[<<KernelRoot, va>>]
       IN  /\ gone \in DOMAIN mem.entry
           /\ mem' = pmm_free_frame([mem EXCEPT !.entry = Restrict(@, DOMAIN @ \ {gone})], f)
    /\ mapped' = Restrict(mapped, DOMAIN mapped \ {<<KernelRoot, va>>})
    /\ tlb' = Flushed(KernelRoot, va)
    /\ UNCHANGED <<spaces, cr3, strayed, lost>>

hal_set_page_table(root) ==
    /\ root \in spaces \cup {KernelRoot}
    /\ cr3' = root
    /\ tlb' = <<>>
    /\ UNCHANGED <<mem, spaces, mapped, strayed, lost>>

\* The processor translates a page and remembers the result.
access(va) ==
    /\ va \notin DOMAIN tlb /\ Cardinality(DOMAIN tlb) < TlbSize
    /\ hal_translate(mem, cr3, va) # -1
    /\ tlb' = [x \in DOMAIN tlb \cup {va} |->
                  IF x = va THEN hal_translate(mem, cr3, va) ELSE tlb[x]]
    /\ UNCHANGED <<mem, spaces, cr3, mapped, strayed, lost>>

----------------------------------------------------------------------------
Next ==
    \/ hal_pt_create_user
    \/ \E root \in spaces : hal_pt_destroy(root)
    \/ \E root \in spaces, va \in UserPages : map_user(root, va)
    \/ \E va \in KernelPages : map_kernel(va)
    \/ \E x \in DOMAIN mapped, root \in spaces, va \in UserPages : map_shared(x, root, va)
    \/ \E va \in KernelPages : unmap_kernel(va)
    \/ \E root \in spaces \cup {KernelRoot} : hal_set_page_table(root)
    \/ \E va \in UserPages \cup KernelPages : access(va)

Spec == Init /\ [][Next]_vars

----------------------------------------------------------------------------
(* Properties.                                                             *)

Roots == spaces \cup {KernelRoot}
Pages == UserPages \cup KernelPages \cup {IdentityPage}

\* Every variable keeps its type, and the installed root exists.
TypeOK ==
    /\ \A x \in DOMAIN mem.entry : x[1] \in Frames /\ mem.entry[x].to \in Frames \cup {0}
    /\ mem.ref \in [Frames -> 0 .. Shares + 1]
    /\ spaces \subseteq Frames \ {KernelRoot} /\ cr3 \in Roots
    /\ \A x \in DOMAIN mapped : x[1] \in Roots /\ mapped[x] \in Frames
    /\ strayed \subseteq spaces

\* No process has been given a page outside its own slot.
Calm == strayed = {} /\ ~lost

\* Whether a page lies in the 2 MiB page of the identity map.
InIdentityMap(va) == \A k \in 1 .. 3 : va[k] = IdentityPage[k]

\* A root translates a page to the frame mapped there and to no other.
TranslatesExactly(root, va) ==
    hal_translate(mem, root, va) =
        IF <<root, va>> \in DOMAIN mapped THEN mapped[<<root, va>>]
        ELSE IF InIdentityMap(va) THEN 0 ELSE -1

\* Ring 3 reaches a page exactly when it was mapped for a process: USER stands
\* at every level above such a page, and not at the leaf of any other.
UserCanReach(root, va) ==
    LET pml4e == Below(mem, root, va[1])
        pdpte == Below(mem, pml4e.to, va[2])
        pde   == Below(mem, pdpte.to, va[3])
        pte   == Below(mem, pde.to, va[4])
    IN  pml4e.user /\ pdpte.user /\ pde.user /\ (pde.huge \/ pte.user)

ReachedRightly(root, va) ==
    UserCanReach(root, va) <=> root \in spaces /\ <<root, va>> \in DOMAIN mapped

\* Each space gives ring 3 the pages mapped for it in its own slot, at the
\* frames mapped there, and nothing else: nothing mapped, unmapped or destroyed
\* in one space shows in another, and no table in use was freed or handed out
\* again.  So it is of the kernel's pages and of all others as long as no
\* process has been given a page outside its slot.
SpacesExact ==
    /\ ~lost => \A root \in spaces, va \in UserPages :
                    va[1] = UserSlot => TranslatesExactly(root, va) /\ ReachedRightly(root, va)
    /\ Calm => /\ \A root \in Roots, va \in UserPages \cup KernelPages :
                      va[1] = UserSlot \/ root = KernelRoot => TranslatesExactly(root, va)
               /\ \A root \in Roots, va \in Pages : ReachedRightly(root, va)

\* The kernel stays mapped in every space, so that a switch to it, or the end
\* of another space, never takes the kernel away: not before a space with stray
\* USER marks has ended.
KernelMapped == ~lost => \A root \in Roots : hal_translate(mem, root, IdentityPage) = 0

\* The frames that can be reached as tables, level by level.
Level2 == {mem.entry[x].to : x \in EntriesOf(Roots)}
Level3 == TablesOf(EntriesOf(Level2))
Level4 == TablesOf(EntriesOf(Level3))
Tables == Roots \cup Level2 \cup Level3 \cup Level4

\* Every frame is accounted for: a table in use is counted once, a mapped
\* frame as often as it is mapped, and no other frame is in use.
FramesAccounted ==
    \A f \in Frames :
        mem.ref[f] = IF f \in Tables THEN 1
                     ELSE Cardinality({x \in DOMAIN mapped : mapped[x] = f})

\* The tables keep their form, the installed root exists, and every frame is
\* accounted for, as long as no space with stray USER marks has ended.
TablesSound == ~lost => TypeOK /\ FramesAccounted

\* The processor never uses a translation the installed tables no longer give.
TlbFresh == ~lost => \A va \in DOMAIN tlb : tlb[va] = hal_translate(mem, cr3, va)

----------------------------------------------------------------------------
(* What the comments say and the code does not do.                         *)

\* paging.c on the entries hal_pt_destroy passes by: "Those belong to the kernel,
\* not to this address space, and freeing them would tear the kernel out from
\* under every other process."  The end of a space with a page outside its slot
\* frees the tables of the kernel it has marked USER.
KernelStays == \A root \in Roots : hal_translate(mem, root, IdentityPage) = 0
============================================================================
