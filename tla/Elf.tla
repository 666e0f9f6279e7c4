-------------------------------- MODULE Elf --------------------------------
(***************************************************************************)
(* The ELF loader (kernel/core/elf.c): elf_exec makes a process, reads a   *)
(* file from the volume into one buffer, maps and fills the pages of its   *)
(* segments, maps a stack and enters ring 3.                               *)
(*                                                                         *)
(* Memory is counted in cells, PageCells to a page; cell k of the file     *)
(* holds the value k.  The address space is divided into slots, one for    *)
(* each entry of the root: the first is the kernel's and shared by every   *)
(* space, the second the user region.  The tables under an entry of the    *)
(* root are one frame, and the allocator gives the lowest free one (Paging *)
(* and Pmm have the detail).                                               *)
(***************************************************************************)
EXTENDS Integers, Sequences, FiniteSets, Functions, FiniteSetsExt

CONSTANTS Files,         \* bound: the files there may be at the path
          FrameCounts,   \* bound: how many frames may be free at the start
          PageCells,     \* AF_PAGE_SIZE
          SlotPages,     \* pages under one entry of the root
          IdentityPages, \* the pages of the identity map, mapped as huge pages
          U64,           \* values of a 64-bit word
          UserTop,       \* AF_USER_TOP, the last address
          StackPages,    \* the pages of the stack, the uppermost last
          HeaderSize, PhSize, MaxImage

VARIABLES file,   \* what is on the volume
          mem,    \* frames, their contents, and what is mapped
          image,  \* whether the buffer for the file is held
          load    \* how far elf_exec has come

elfVars == <<file, mem, image, load>>

KernelSlot == 0
Slot(page) == page \div SlotPages
PageOf(a)  == a \div PageCells
Down(a)    == a - (a % PageCells)
Up(a)      == Down((a + PageCells - 1) % U64)

ASSUME ElfAssumption ==
    /\ PageCells \in Nat \ {0} /\ U64 % (PageCells * SlotPages) = 0
    /\ UserTop + 1 < U64 /\ (UserTop + 1) % (PageCells * SlotPages) = 0
    /\ \A p \in IdentityPages : Slot(p) = KernelSlot
    /\ \A p \in StackPages : Slot(p) # KernelSlot /\ p * PageCells <= UserTop

NoFrame   == -1
Old       == -1     \* what a frame held before
KernelPdp == 0      \* the tables of the identity map
Nothing   == [x \in {} |-> 0]

Init ==
    /\ file \in Files
    /\ \E n \in FrameCounts :
          mem = [free |-> 1 .. n, cells |-> [f \in 1 .. n |-> [c \in 0 .. PageCells - 1 |-> Old]],
                 map |-> Nothing, tables |-> Nothing, root |-> NoFrame, user0 |-> FALSE]
    /\ image = FALSE
    /\ load = [pc |-> "idle", i |-> 1, page |-> 0, loaded |-> 0, entry |-> 0, rc |-> "OK"]

----------------------------------------------------------------------------
(* Frames and address spaces.                                              *)

pmm_alloc_frame_z_NotCleared(m, f) == [m EXCEPT !.free = @ \ {f}]

pmm_alloc_frame_z(m, f) ==
    [m EXCEPT !.free = @ \ {f}, !.cells[f] = [c \in 0 .. PageCells - 1 |-> 0]]

pmm_free_frame_Lost(m, f) == m

pmm_free_frame(m, f) == [m EXCEPT !.free = @ \cup {f}]

\* The tables that hold the entry of a page: those of the kernel's slot are one
\* for all spaces.
Tree(space, page) == IF Slot(page) = KernelSlot THEN "kernel" ELSE space

With(fun, x, y) == [z \in DOMAIN fun \cup {x} |-> IF z = x THEN y ELSE fun[z]]

\* walk_to_next_level for a user page: USER is put on the entry of the root even
\* when the walk then ends at a huge page.
Walk(m, space, page) ==
    LET at == <<Tree(space, page), Slot(page)>>
        m1 == IF Slot(page) = KernelSlot THEN [m EXCEPT !.user0 = TRUE] ELSE m
    IN  IF page \in IdentityPages THEN [mem |-> m1, rc |-> "NOMEM"]
        ELSE IF at \in DOMAIN m.tables THEN [mem |-> m1, rc |-> "OK"]
        ELSE IF m.free = {} THEN [mem |-> m1, rc |-> "NOMEM"]
        ELSE [mem |-> [pmm_alloc_frame_z(m1, Min(m.free))
                          EXCEPT !.tables = With(@, at, Min(m.free))], rc |-> "OK"]

\* hal_map_page for a user page, with a frame just allocated.
hal_map_page(m, space, page, frame, flags) ==
    LET w  == Walk(m, space, page)
        at == <<Tree(space, page), page>>
    IN  IF w.rc # "OK" THEN w
        ELSE IF at \in DOMAIN m.map THEN [w EXCEPT !.rc = "EXIST"]
        ELSE [w EXCEPT !.mem.map = With(@, at, [frame |-> frame, flags |-> flags])]

\* pmm_alloc_frame_z, hal_map_page, and the frame given back if it fails.
MapFresh(m, space, page, flags) ==
    IF m.free = {} THEN [mem |-> m, rc |-> "NOMEM", frame |-> NoFrame]
    ELSE LET f == Min(m.free)
             r == hal_map_page(pmm_alloc_frame_z(m, f), space, page, f, flags)
         IN  IF r.rc = "OK" THEN [mem |-> r.mem, rc |-> "OK", frame |-> f]
             ELSE [mem |-> pmm_free_frame(r.mem, f), rc |-> r.rc, frame |-> NoFrame]

\* hal_pt_destroy: what lies under the entries of the root that have USER.
hal_pt_destroy(m) ==
    LET trees  == {"init"} \cup (IF m.user0 THEN {"kernel"} ELSE {})
        gone   == {at \in DOMAIN m.map : at[1] \in trees /\ (at[1] = "kernel" => Slot(at[2]) = KernelSlot)}
        tables == {at \in DOMAIN m.tables : at[1] \in trees /\ (at[1] = "kernel" => at[2] = KernelSlot)}
    IN  [m EXCEPT !.free = @ \cup {m.root} \cup {m.map[at].frame : at \in gone}
                             \cup {m.tables[at] : at \in tables}
                             \cup (IF m.user0 THEN {KernelPdp} ELSE {}),
                  !.map = Restrict(@, DOMAIN @ \ gone),
                  !.tables = Restrict(@, DOMAIN @ \ tables),
                  !.root = NoFrame]

----------------------------------------------------------------------------
(* elf_load.                                                               *)

Goto(pc)   == load' = [load EXCEPT !.pc = pc]
Fail(rc)   == load' = [load EXCEPT !.pc = "failed", !.rc = rc]

\* elf_exec up to the load: process_create (its address space and its capability
\* table), the thread attached to it, and its space installed.
elf_exec ==
    /\ load.pc = "exec"
    /\ \/ /\ mem.free # {}
          /\ \E m \in {pmm_alloc_frame_z(mem, Min(mem.free))} :
                mem' = [m EXCEPT !.root = Min(mem.free)]
          /\ Goto("read")
       \/ /\ mem' = mem
          /\ Goto("panic")
    /\ UNCHANGED <<file, image>>

\* fat32_lookup, kmalloc and fat32_read_file; the last two may fail at any time.
elf_load_read ==
    /\ load.pc = "read"
    /\ \/ image' = FALSE /\ \E rc \in {"NOENT", "IO", "FS_CORRUPT"} : Fail(rc)
       \/ file.dir /\ image' = FALSE /\ Fail("ISDIR")
       \/ /\ ~file.dir /\ file.size \notin 1 .. MaxImage
          /\ image' = FALSE /\ Fail("INVAL")
       \/ /\ ~file.dir /\ file.size \in 1 .. MaxImage
          /\ \/ image' = FALSE /\ Fail("NOMEM")
             \/ image' = TRUE /\ Goto("validate")
    /\ UNCHANGED <<file, mem>>

validate_header(h) ==
    IF h.size < HeaderSize \/ ~h.magic THEN "INVAL"
    ELSE IF h.class # 64 \/ ~h.little \/ h.type \notin {"EXEC", "DYN"} \/ h.machine # "x86_64"
         THEN "NOTSUP"
    ELSE IF h.phnum = 0 \/ h.phentsize # PhSize THEN "INVAL"
    ELSE IF h.phoff > h.size \/ (h.phoff + h.phnum * PhSize) % U64 > h.size THEN "INVAL"
    ELSE "OK"

\* The entry point is kept, for the buffer does not outlive the segments.
elf_load_validate ==
    /\ load.pc = "validate"
    /\ IF validate_header(file) = "OK"
       THEN load' = [load EXCEPT !.pc = "segment", !.entry = file.entry] /\ image' = TRUE
       ELSE Fail(validate_header(file)) /\ image' = FALSE
    /\ UNCHANGED <<file, mem>>

segment_to_hal_flags(ph) == {"user"} \cup (ph.flags \cap {"w", "x"})

SegmentStart(ph) == Down(ph.vaddr)
SegmentPages(ph) == ((Up((ph.vaddr + ph.memsz) % U64) - SegmentStart(ph)) % U64) \div PageCells

SegmentSkipped(ph) == ph.type # "LOAD" \/ ph.memsz = 0

SegmentRefused(ph) ==
    \/ ph.offset > file.size \/ (ph.offset + ph.filesz) % U64 > file.size
    \/ ph.filesz > ph.memsz
    \/ SegmentStart(ph) > UserTop

\* The head of the loop over the program headers.
elf_load_segment ==
    /\ load.pc = "segment" /\ load.i <= file.phnum
    /\ LET ph == file.segments[load.i]
       IN  \/ /\ SegmentSkipped(ph)
              /\ load' = [load EXCEPT !.i = @ + 1]
              /\ image' = image
           \/ /\ ~SegmentSkipped(ph) /\ SegmentRefused(ph)
              /\ Fail("INVAL")
              /\ image' = FALSE
           \/ /\ ~SegmentSkipped(ph) /\ ~SegmentRefused(ph)
              /\ load' = [load EXCEPT !.pc = "page", !.page = 0]
              /\ image' = image
    /\ UNCHANGED <<file, mem>>

\* What the page at address base gets: the file's part of it, or what was there.
FilePart(ph, base, old) ==
    LET file_end == (ph.vaddr + ph.filesz) % U64
    IN  [c \in 0 .. PageCells - 1 |->
            IF base + c >= ph.vaddr /\ base + c < file_end
            THEN ph.offset + (base + c - ph.vaddr) + 1
            ELSE old[c]]

elf_load_page ==
    /\ load.pc = "page"
    /\ LET ph   == file.segments[load.i]
           base == (SegmentStart(ph) + load.page * PageCells) % U64
       IN  IF load.page = SegmentPages(ph)
           THEN /\ load' = [load EXCEPT !.pc = "segment", !.i = @ + 1, !.loaded = @ + 1]
                /\ UNCHANGED <<mem, image>>
           ELSE \E r \in {MapFresh(mem, "init", PageOf(base), segment_to_hal_flags(ph))} :
                   IF r.rc = "OK"
                   THEN /\ mem' = [r.mem EXCEPT !.cells[r.frame] = FilePart(ph, base, @)]
                        /\ load' = [load EXCEPT !.page = @ + 1]
                        /\ image' = image
                   ELSE mem' = r.mem /\ Fail(r.rc) /\ image' = FALSE
    /\ UNCHANGED file

\* Past the last program header.
elf_load_segments_done ==
    /\ load.pc = "segment" /\ load.i > file.phnum
    /\ image' = FALSE
    /\ IF load.loaded = 0 THEN Fail("INVAL")
       ELSE load' = [load EXCEPT !.pc = "stack", !.page = Min(StackPages)]
    /\ UNCHANGED <<file, mem>>

\* A page of the stack; after the last one ring 3 is entered.
elf_load_stack ==
    /\ load.pc = "stack"
    /\ IF load.page \notin StackPages
       THEN Goto("user") /\ mem' = mem
       ELSE \E r \in {MapFresh(mem, "init", load.page, {"user", "w"})} :
               /\ mem' = r.mem
               /\ IF r.rc = "OK" THEN load' = [load EXCEPT !.page = @ + 1] ELSE Fail(r.rc)
    /\ UNCHANGED <<file, image>>

\* elf_exec when the load failed: back to the kernel's tables, the process
\* reaped, and a panic.
elf_exec_failed ==
    /\ load.pc = "failed"
    /\ mem' = hal_pt_destroy(mem)
    /\ Goto("panic")
    /\ UNCHANGED <<file, image>>

ElfNext == \/ elf_exec \/ elf_load_read \/ elf_load_validate
           \/ elf_load_segment \/ elf_load_page \/ elf_load_segments_done
           \/ elf_load_stack \/ elf_exec_failed

----------------------------------------------------------------------------
Segments == {file.segments[k] : k \in 1 .. file.phnum}
Loaded   == {ph \in Segments : ~SegmentSkipped(ph)}

\* Segments whose sizes and addresses are what they say, as whole numbers.
WellFormed ==
    \A ph \in Loaded : /\ ph.offset + ph.filesz <= file.size
                       /\ ph.vaddr + ph.memsz < U64

Touched(ph) == PageOf(ph.vaddr) .. PageOf(ph.vaddr + ph.memsz - 1)
Frame(p)    == mem.map[<<Tree("init", p), p>>].frame
CellAt(a)   == mem.cells[Frame(PageOf(a))][a % PageCells]

\* What the program finds when it is entered (elf.c, steps 2 to 4 of its head):
\* its pages are those of its segments and its stack, with the access their
\* flags ask for; a segment's cells are the file's, and zero after those; the
\* rest of every page, and the stack, is zero, whatever the frames held before;
\* and the entry point is the file's.
LoadExact ==
    (load.pc = "user" /\ WellFormed) =>
        /\ load.entry = file.entry
        /\ {at[2] : at \in {x \in DOMAIN mem.map : x[1] = "init" \/ Slot(x[2]) = KernelSlot}}
               = StackPages \cup UNION {Touched(ph) : ph \in Loaded}
        /\ \A ph \in Loaded :
              /\ \A p \in Touched(ph) : mem.map[<<Tree("init", p), p>>].flags = segment_to_hal_flags(ph)
              /\ \A c \in 0 .. ph.memsz - 1 :
                    CellAt(ph.vaddr + c) = IF c < ph.filesz THEN ph.offset + c + 1 ELSE 0
              /\ \A a \in Down(ph.vaddr) .. ph.vaddr - 1 : CellAt(a) = 0
              /\ \A p \in {PageOf(ph.vaddr + ph.memsz - 1)} :
                    \A a \in ph.vaddr + ph.memsz .. p * PageCells + PageCells - 1 : CellAt(a) = 0
        /\ \A p \in StackPages : /\ mem.map[<<"init", p>>].flags = {"user", "w"}
                                 /\ \A c \in 0 .. PageCells - 1 : mem.cells[Frame(p)][c] = 0

\* paging.c, hal_pt_destroy: the tables shared with the kernel are not freed.
\* A program linked at an address of the kernel's slot, mapped or refused, puts
\* USER on that entry of its root, and they are.
KernelKept == KernelPdp \notin mem.free

\* elf.c: "a malformed file must be rejected rather than trusted".  A segment
\* whose offset and size wrap around passes the check and is counted as loaded.
MalformedRejected == load.pc = "user" => WellFormed
============================================================================
