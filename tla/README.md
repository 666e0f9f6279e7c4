# AfriyieOS in TLA+

A model of AfriyieOS from the firmware to a user program: the boot bridge, the core of the
kernel, its storage, its loader, and the package library. The modules describe what the C code
does, TLC checks them on small instances, and TLAPS proves the main safety properties of nine
of them, and the refinement of the channels, for every value of their constants. `PROJECT.json`
says, for every definition, which lines of the source it stands for.

## 1. The system

AfriyieOS is a small x86-64 kernel for one processor. Its parts, the state each keeps and
how they meet:

| Part | State | Operations | Meets |
|---|---|---|---|
| capability table (`core/cap.c`) | per process: slots with object, rights, generation, parent index; `used` | insert, derive, delete, revoke, lookup | every system call and the `*_cap` entry points of IPC go through `cap_lookup` |
| IPC endpoints (`core/ipc.c`) | table of endpoints: ring of messages, list of receivers, list of senders, references; next id | create, ref, unref, send, recv, call, reply | blocks and wakes threads through the scheduler |
| scheduler, threads (`core/sched.c`, `core/thread.c`, `context.asm`) | thread states, run queues, current thread, time slices, deadlines, list of zombies; interrupt flag, installed page tables | tick, yield, block, unblock, sleep, exit, create, admit, collect | called by everybody; the timer interrupt calls `sched_tick` |
| processes (`core/process.c`) | process table: state, parent, address space, capabilities, thread count, exit code, waiter; `s_live`, `s_next_pid` | create, attach, detach, exit, wait, reap | the collector of zombies detaches threads and reaps processes |
| physical memory (`core/pmm.c`) | bitmap, reference counts, free count, search hint | alloc, free, ref, unref, reserve, release | heap, paging, process teardown |
| kernel heap (`core/heap.c`) | slabs by size class, large allocations, totals | kmalloc, kfree, krealloc, kmalloc_aligned | frames from pmm |
| paging (`arch/x86_64/paging.c`) | four-level tables | map, unmap, create and destroy of user roots | frames and references from pmm |
| virtio driver, block layer (`drivers/virtio_blk.c`, `core/block.c`) | descriptor ring, request buffer, device table | read, write | frames from pmm |
| partitions, FAT32 (`fs/gpt.c`, `fs/fat32.c`) | partition table, mounted volume, open files | mount, lookup, open, read, close | `block_read` |
| boot bridge, boot information (`boot/uefi/efi_main.c`, `core/boot_info.c`, start of `core/kmain.c`) | memory map and its key, the structure handed over, its copy | screen, kernel image, map, exit from the firmware, validation | the firmware; pmm and paging read the structure |
| ELF loader (`core/elf.c`) | the buffer for the file, pages of the new process | exec, load | FAT32, pmm, paging, processes |
| system calls (`core/syscall.c`) | counters | dispatch, checks of user buffers, the user mode test | paging, scheduler, processes |
| package library (`libs/libafpkg`) | scratch buffer, the open package, an iterator | open, list; gunzip, inflate, xz, zstd | host tests; the kernel's installer to come |
| binary format detection (`core/binfmt.c`) | none: a function of the bytes read | detect, detect from the tail, can run | callers with a prefix of a file |

What is hard here: a kernel thread can be interrupted by a tick between any two
instructions, and the paths that test a condition and then block do so without a lock
(system calls cannot, they come through an interrupt gate, but none of them blocks: the callers of
IPC and of waits are kernel threads);
pointers to table slots are kept across `sched_block` while the slot may be freed or
reused; the switch of threads is written three times, with different steps left out; exited
processes are torn down by their parent or by the collector, whichever comes first; counts
(`used`, `s_free_frames`, `thread_count`, `s_live`) are kept by hand in many places; handles
carry fewer bits of the generation than the slot; queues and lists have fixed lengths; the
firmware changes its memory map while it is being read; a load fails at any of its pages;
disks, programs and packages are damaged, and sizes read from them are added and subtracted in
unsigned words.
`PROJECT.json`, "hazards", lists each of these with its line and the properties aimed at it.

## 2. The modules

Operators keep the names of the C functions they stand for. An action is the whole
function, or, where other threads can come in, the whole stretch between two such points.
Definitions with a suffix after an underscore (`Enqueue_NoTailStep`) are plausible bugs, used to
show that a property notices them; nothing in the specifications uses them.

Where the code leaves a case open in which a guarantee ends, the case is in the model, always, and
a variable marked "history" says where it has happened: `crossed` (a wakeup lost), `missed` (an
exit slipped past), `torn` (a thread lost or queued twice), `in_step` (no request given up on is
still out), `overrun` (a block longer than its frames), `strayed` and `lost` (pages outside the slot
of processes, and tables of the kernel freed for them). A property then says what holds up to that
point, or everywhere else, and section 5 has the sentence of the code that TLC refutes for it.
These variables are read by no guard.

### `Cap`, `CapProofs`

The five arrays of the slots, `count` (`table->used`), and two additions: `issued`, a history
of every handle returned with what it was granted for and from which handles it descends,
and `overflow`, set when a revocation recurses for ever. A handle is a record of the index
and of the generation modulo `HandleGens`, so that the handle carries less than the slot, as
the packed word does. `revoke_children` deletes the slots reachable over parent indices; the
recursion is written as the least set of slots closed under children, and the case in which the real recursion does
not end, a cycle of parents, is an action of its own after which nothing happens. Every word
may be presented as a handle, not only the ones issued.

### `Ipc`, `IpcChannel`, `IpcProofs`

Endpoints are slots with the ring written out (`buf`, `head`, `tail`, `count`). A thread has
a program counter for the stretches of `ipc_send` and `ipc_recv`: look at the endpoint,
decide to wait, enlist, block, be woken, delist, look again. `ipc_call` makes a private
endpoint, sends, receives there and drops it; `ipc_reply` sends to the id the request
carried. The callers are kernel threads, and any thread may run between any two steps. What is
one step is the look at the endpoint with the move of the message it leads to; a tick inside it,
between the fields of the ring, is left out, and so is one inside the insertion into a list.
`crossed` gets the list of an endpoint for which `sched_unblock` is called while a thread is between its look
and `sched_block` (`Window`): that thread may then have been taken off the list, or not be on
it yet, and sleep on.
`IpcChannel` is what a user of endpoints relies on: each is a first-in first-out channel. A send to
a waiting receiver may find it full (`Overrun`), and the message then stands in the place of the
oldest. The mapping reads the queue from the ring, `head` and `count`.

### `Sched`, `SchedProofs`

Thread states, queues per priority, `current`, the list of zombies, and of the processor the
interrupt flag and the installed page tables. `switch_to` and the switch written by hand in
`sched_block` and `sched_sleep` are separate operators because the code is. `frame` records
how a thread was suspended, which decides what its interrupt flag will be when it goes on.
`pick_next` and the switch are two steps, and a tick may come between them: `sched_yield`,
`sched_block` and `sched_sleep` choose the next thread before they turn interrupts off, and two of
them have by then set the caller's state. `torn` is set by the tick that ends the slice of such a
caller (`Tears`): `sched_tick` then chooses again for a thread that is in the middle of a switch, and
what becomes of the first choice depends on what runs next. A change of state and the `pick_next` after it are one step, and the
queue operations are atomic, as in the code, which turns interrupts off for them.

### `Process`, `ProcessProofs`

The process table, with the address space and the capability table as one resource,
`process_wait` in its steps, `process_exit`, `thread_exit` (a thread that returns from its function
leaves its process as it is), and one round of `sched_collect_zombies`, which
shares the teardown. Nothing in the tree calls `process_wait` yet; it is a kernel function, so any
thread may run between its steps. `process_exit` is one step, since its only caller is the
EXIT system call, behind an interrupt gate. `children`, `due` and `missed` are history: which children were never waited for,
the code a waiting parent ought to hear, and whether the exit came after its test and before its block.

### `Pmm`

Bitmap, saturating counts, free count and hint. Addresses count in fractions of a frame, so
that reservations (rounded outwards) and releases (rounded inwards) differ at the edges.
`owners` and `claims` are history: what callers hold. Callers free only what they hold;
`ClaimFree` restricts reservations to ranges that are free.

### `Heap`, `HeapProofs`

Extends `Pmm`: every frame the heap takes or returns is an action of `Pmm` on its variables, and the
heap's own specification is `HeapSpec`. `HeapProofs` holds the theorems about both.
`slabs` and `free_list` are the caches, `trailers` what stands below a large block; `held` is
history: the pointers callers have and how many bytes they may use. `overrun` is set when a block
is given more bytes than there are to the end of its frames (`Beyond`): when it grows in place,
where the size is compared with the frames alone, or when it is aligned beyond a page. Sizes and offsets are the
bytes of the code, so that overlaps show. `krealloc` is two steps (allocate, then free) with
no other call between them.

### `Block`, `BlockProofs`

`block.c` over `virtio_blk.c` over a device. The request buffer is a row of cells, a sector
each; the status byte is the beginning of the cell behind the data and moves with the length
of the request. The device (external) takes a request, reads or writes at some later time,
fails, or falls silent; the driver may give up at any time, and the answer come later.
`touched` and `in_step` are history: the sectors written since the call began, and whether it began
with nothing between driver and device (`Quiet`). The layout of the rings is a
set of functions of the queue size.

### `Paging`, `PagingProofs`

Tables in frames, entries with USER and HUGE, reference counts, the installed root and the
TLB. `hal_map_page` is three steps of `walk_to_next_level` on a record of the memory, so that
what a failed walk leaves behind is in the model. Callers follow hal.h: a frame belongs to the
space it is mapped into. Pages of a process may lie in any slot of the root, as the loader takes
them. `strayed` are the spaces given one outside the slot that is private to processes, whose walk
sets USER on entries they share with the kernel; `lost` is set when such a space ends, which frees
what lies below. `mapped` is history: what was mapped where. The allocator is reduced
to the lowest free frame; its own behaviour is in `Pmm`.

### `Gpt`, `Fat32`

`Fat32` extends `Gpt`, which reads through the bounds check of `block_read`. The disk is an
input and never changes; `bad` is the set of sectors that fail at present, and `device_fault`
changes it between any two calls. The byte `i` of cluster `c` is the pair `<<c, i>>`, so that
what was read tells where it is from. Directories are sequences of slots: long-name fragments,
entries, deleted ones and the end. The loops over clusters, slots, fragments and path
components are folds, with the states the loops keep. `last` and `got` are history: the outcome
of the last call, and the bytes read through each handle. The reference for `LookupExact`
(`Listing`, `TrueName`, `Entries`, `Reached`) is written from the format: follow the links,
take each entry with the fragments that stand before it and belong to it.

### `Boot`, `BootProofs`

One machine from `efi_main` to the framebuffer. Memory counts in frames; the firmware's map is
a sequence of descriptors that `firmware_allocates` may split before any step of the bridge,
which moves the map key. The bridge's steps are its firmware calls: the screen, the pages of
the kernel, the probe of the map's size, the map, the exit. `info` is `s_boot_info`, `backup`
its copy at 0x7000, `arg` the register, which may be lost. The kernel has two extents: that of the
file, which the bridge claims and reports (`File`, `Reported`), and the linker's, with the .bss
(`Kernel`), which `pmm_init` withholds and the entry code clears. The build makes them the same by
writing the .bss into kernel.bin (kernel/CMakeLists.txt:139-150); a machine has either kind of file. The kernel's steps are validation,
`pmm_init`, the page tables (each frame taken is cleared, whatever it held), and `af_fb_init`;
where the bitmap and the counts are laid over the running kernel, the behaviour ends ("overwritten").

### `Elf`, `Syscall`

`Elf` is `elf_exec` on the calling thread: the process, the file into a buffer, the header,
each program header, each page, the stack, and every failure with what it gives back. Memory
counts in cells, a few to a page; cell `k` of the file holds `k`, an untouched frame holds
`Old`, so that what a program finds tells where it came from. Sums wrap at `U64`. The tables
below an entry of the root are one frame, since `Paging` has their detail; what is kept of them
is which entries a space shares with the kernel. `Syscall` extends it with the checks of user
buffers, the dispatch, the stub that runs in the kernel's space, `kernel_main`'s wait for it,
and init, which makes calls with any arguments.

### `Inflate`, `Afpkg`, `Binfmt`, `Package`

`Inflate` is the decoder with bytes of four bits and small alphabets: the bit reader with its
loads ahead, code tables built from lengths, stored, fixed and dynamic blocks, copies. A step is
a block header, a table description, a stored block or a symbol. `Afpkg` extends it: a file is
a row of cells (bytes of a stream, blocks of a tar, lines of a text) and marks (headers and
trailers of gzip and ar; the optional fields of a gzip header are cells); `afpkg_open` goes through the members of an `.apk`, the two members of
a `.deb`, or the one stream of a pacman package, into a scratch buffer that it reuses.
`packed` is history: what was packed, and whether the file was altered or cut since. `Binfmt`
has the lengths and offsets of the code; a sample is what the classifiers can tell of a file.
`Package` composes the two: a file is looked at in growing prefixes and, when it is a package,
opened and listed.

The `MC` modules only name model values, a symmetry set, state constraints and the priorities, memory
maps, size classes, pages, disks, machines, programs and packages of the instances.

## 3. The runs

| Run | Instance | Shows |
|---|---|---|
| `MCCap` | 3 usable slots, 2 generations a handle can carry, 2 objects, 4 grants | `TableSound`, `AuthorityIsGranted`, `LineageNarrows`, `StaysDead`, `RevokeDisarms` |
| `MCIpc` | 2 threads and the idle thread, 2 slots, ring of 1, 2 endpoints created, 2 references | `EndpointsSound`, `NoneStranded`, `ImplementsChannel`, `WaitersServed` |
| `MCSched` | boot, idle, 2 threads with processes, 3 priorities, slice of 2 ticks, list of 2 zombies, up to `torn` | `ThreadsSound`, `ThreadsRun` |
| `MCProcess` | 2 processes, 3 threads, 2 exit codes | `TableSound`, `WaitsSound`, `WaiterReturns` |
| `MCPmm` | 9 frames of 2 units, 2 regions, runs of up to 3 frames, 2 owners, 1 range reserved at a time | `CountsExact`, `HandedOutIsUsable` |
| `MCHeap` | classes of 1024 and 2048 bytes, 7 frames, 3 blocks at once, up to `overrun` | `HeapSound`, `BlocksSound`, `FreeListsExact` |
| `MCBlock` | 4 sectors, buffer of 2, 3 calls, indices modulo 4, late answers | `RequestsSound`, `ReadReturnsDisk`, `WritesReachTheirSectors`, `CallReturns` |
| `MCPaging` | 12 frames, 2 processes, 2 pages in their slot and 1 in another, 1 page of the kernel's, 1 inside the identity map, up to `lost` | `TablesSound`, `SpacesExact`, `KernelMapped`, `TlbFresh` |
| `MCFat32` | 45 disks of 11 sectors, 5 clusters, 6 paths, reads of 3 and 6 bytes | `VolumeSound`, `LookupExact`, `FilesSound` |
| `MCBoot` | 30 machines of 12 to 14 frames, a kernel of 2 pages with a file of 1 or 2, 4 attempts, up to 4 changes of the map | `HandsOutSound`, `HandoffSound`, `BootSettles` |
| `MCSyscall` | programs of up to 3 headers, pages of 2 cells, words of 32 values, 1 to 12 frames | `LoadExact`, `FramesExact`, `ReadsAreTheCallers` |
| `MCPackage` | packages of all three formats, scratch of 0, 6, 16 and 24 cells, files for the detector | `InflateSound`, `PackageExact`, `PrefixStable`, `ReadingAdvances` |

Most modules have one invariant that joins the type invariant with the structural facts the other
properties take for granted, and several properties are conjunctions of named parts:

* `TableSound` (`Cap`): `TypeOK`, and `CountExact`: `used` is the number of used slots.
* `EndpointsSound` (`Ipc`): a ring holds more than it has room for only while receivers already
  woken owe it a look for each message (`OverfullIsOwed`), where no wakeup of receivers was crossed.
* `NoneStranded` (`Ipc`): where no wakeup was crossed, every blocked thread is on a list that will wake it (`BlockedIsListed`),
  and no wakeup is consumed in vain: no receiver stays blocked beside a message, and no sender
  beside room, unless others already woken will take it.
* `ThreadsSound` (`Sched`): up to `torn`, a runnable thread is queued exactly once or in the hands
  of one thread in mid-switch (`RunnableIsQueued`, `HeldOnce`), only the current one runs, zombies
  are listed. `ThreadsRun`: `RunnableRuns` and `SleeperRuns`, for threads of the highest priority
  that no lower one, suspended in mid-switch, is holding (`HeldBelow`).
* `TableSound` (`Process`): exact counters, no address space freed under a thread that can run
  (`ThreadsHaveSpace`), and no process left behind by its last thread (`ZombiesAreWatched`).
  `WaitsSound`: `BlockedIsAwaited` and `AnswerIsDue`. `WaiterReturns`: a wait for an exited child
  ends, unless it `missed` the exit.
* `CountsExact` (`Pmm`): frames, references and the free count add up.
* `HeapSound`: the frames the heap holds are those of its slabs and runs. `BlocksSound`:
  `BlocksApart` and `BlocksInside`. These and `FreeListsExact` hold up to `overrun`.
* `RequestsSound` (`Block`): no request leaves what was asked or the disk, and the rings fit where
  the device looks for them (`RingsFit`). It and the two properties of what a call does speak of calls `in_step`.
* `TablesSound` (`Paging`): every frame is a table, a page or free. `SpacesExact`: every process
  has its pages in its own slot, at the frames mapped there and for ring 3; while no space has strayed,
  so are the kernel's pages and those of other slots (`TranslatesExactly`, `ReachedRightly`).
  The four properties of `Paging` hold up to `lost`.
* `VolumeSound` (`Fat32`): the first EFI system partition is the one mounted (`EspFound`), and a
  volume that fits its partition keeps its clusters there (`VolumeInside`). `FilesSound`: `TypeOK`
  and `ReadsExact`, that the bytes read through a handle are those of the file from its start.
* `HandoffSound` (`Boot`): what the kernel was told is the map as it was at the exit, with the
  screen (`HandoffExact`), and the attempts are used up only by that many changes of the map
  (`RetriesSuffice`). `HandsOutSound`: frames to hand out, and bitmap and counts, lie in reclaimed
  memory, apart from each other and from what must survive (`FramesGivenUp`, `MetadataSound`), and the
  metadata is not laid over a kernel whose file is the whole of it.
* `PackageExact` (`Afpkg`): a whole package that fits its buffer opens, a cut one does not, and one that opens has the name,
  version, dependencies and scripts packed (`OpenExact`); its list is that of the files packed
  (`ListExact`).

Why the bounds are enough to be interesting:

* Cap: four grants in three slots are what a cycle of parents takes, and they let a slot be
  freed and refilled past the last generation its handles carry. A chain of three handles is the
  shortest with a middle. One right besides the empty set suffices for narrowing and for the
  test of the REVOKE right.
* Ipc: two receivers can wait at a ring of one place, while the idle thread, which never blocks,
  sends or takes: the case of more waiting receivers than places, which with the 8 places of the code
  takes nine threads. Ticks come in every window. The second slot is that of a private endpoint, or takes the
  next endpoint while threads still point to the first. Two state constraints keep the run small: one
  endpoint besides the private ones (`OneServed`), and no calls by the idle thread (`IdleServes`). With one place the
  indices of the ring do not move; that they wrap as they should for every length is part of
  `IpcImplementsChannel` (section 4).
* Sched: the boot thread and one of the others have the highest priority, the third the next, the
  idle thread the lowest; a slice does not end with the first tick, so that ticks fall into a switch with
  and without ending it; and a list of two zombies overflows. States behind the first `torn` are not explored
  (`BeforeTear`): there the linked lists of the code are no longer sequences.
* Process: a child with a thread, a parent with a thread, and a kernel thread that outlives
  both. `MCProcess` gives a process one thread, as the loader does.
* Pmm: two regions that begin and end inside frames, a survivor that touches two frames, and
  a free area large enough for runs of three to fail through fragmentation.
* Heap: a slab of the larger class holds one object, so that slabs fill and are stranded, and a
  slab of the smaller one holds three. The sizes asked for lie in a class, at its end and just
  beyond it; the alignments are none, one page and two. A block of two frames grows within its class, to the last byte
  there is behind its trailer (8168), past it but not past the frames (8180), and past the frames (9000).
  States behind the first `overrun` are not explored (`BeforeOverrun`).
* Block: calls begin and end on both sides of the last sector and take up to three requests;
  the indices wrap. Three calls are one that times out, one into which its answer falls, and one
  more. An answer may come at any time after the timeout, or never.
* Paging: the two pages of a process in its slot share two of their three tables; the third lies in the slot of the
  identity map, where its walk puts USER on the kernel's entries and goes on into the kernel's tables.
  The page inside the identity map lies below a large page, where the walk has to stop. Both processes
  with all their pages need more than the 12 frames, so that memory runs out at every level. States behind the first `lost`
  are not explored (`BeforeLoss`).
* Fat32: the root lies in two clusters and a long name in two fragments; links lead inside, with
  reserved bits, out of the volume and back. A sector of the FAT and one of the
  file fail and recover between calls. The other disks each have one field of the table or the boot sector wrong.
* Boot: the map grows past the slack of the second call, past the table of regions and past the
  four attempts; the screen lies inside RAM, above it, or nowhere. kernel.bin holds both pages of the
  kernel or one; behind one page, the frame of the .bss is RAM like any other or kept by the firmware.
* Syscall: segments of every position and size relative to a page, the slot of the kernel, the end
  of the user half and the wrap of the word; every number of frames from one that fails at the
  root to one that suffices; buffers at every address.
* Package: every kind of block, joined; codes that are complete and one that is not; members that
  end inside a tar entry, and one that gives nothing when the buffer is full; each optional field of a gzip header, whole
  and cut; control members under every name the code tells apart and one it does not; copies longer than
  their distance; all inputs of two bytes; archives with each header wrong; prefixes on both sides
  of every offset the detector looks at.

Bounds that are not in the code (`MaxGrants`, `MaxId`, `MaxRefs`, `MaxSleep`, `ThreadsEach`,
`MaxOwners`, `MaxRun`, `MaxClaims`, `MaxHeld`, `MaxCalls`, `MaxSpaces`, `Shares`, `TlbSize`,
`Disks`, `Breakable`, `Paths`, `Requests`, `Rooms`, `Firmwares`, `MaxChanges`, `Files`, `FrameCounts`,
`Buffers`, `Lengths`, `Packages`, `Scratches`, `Samples`, `Magics`) are constants marked "bound" where they are declared and
stand in the guards.

Deadlock is checked in `MCSched`, where the idle thread can always go on, and in `MCPaging`. It is off
elsewhere because those systems may stop: every thread of `Ipc` can be blocked with nobody
left to wake it, `Process` ends when every thread has exited and been collected and the pids
are used up, a capability table is full or out of grants, in `Pmm`, `Heap` and `Block` a bound is
reached, and a boot, a load or a listing is over.

### Fairness

* `Ipc`: weak fairness of every thread inside an operation. Threads of one priority take
  turns, first in first out, so one that is runnable and stays so is run. Nothing makes a
  thread begin an operation, so a liveness property never relies on a caller's goodwill.
* `Sched`: ticks keep coming (`[]<>` of a tick that changes something), and a thread in the
  middle of a switch that is resumed again and again at some time finishes it: ticks are 10 ms apart, and it has a
  few instructions left. Threads outside the scheduler are owed nothing. The properties are about
  threads of the highest priority, because the scheduler does not promise the others anything.
* `Process`: weak fairness of a thread inside `process_wait`, as for `Ipc`. Nothing is asked of the
  collector, which runs in the boot loops and the idle thread, below everybody else (kmain.c:424-427): `WaiterReturns`
  holds whether it ever runs or not.
* `Block`: weak fairness of the driver, which spins, and of the device, which answers a request
  or drops it. A dropped request ends in the driver's timeout.
* `Boot`: weak fairness of the bridge and the kernel together: the processor goes on. Nothing is
  asked of the firmware's own allocations, which may come or not.
* `Package`: none. `ReadingAdvances` is about steps: each takes something of what is left.

## 4. The proofs

Each `*Proofs` module extends the module of its component (`HeapProofs` covers `Pmm` and `Heap`)
and holds the inductive invariant, a lemma per operator or kind of effect, the proof that the
invariant is inductive, and the theorems below, which follow from it. The constants are arbitrary but for the named assumption of each
module (`CapAssumption` and so on: sets finite and not empty, sizes positive, special values
distinct), which TLC evaluates in every run. Ticks, late answers, growth in place, foreign slots and rings
shorter than their lists of receivers are in the specifications the theorems are about. What a theorem does not claim
is written in the property it states: the history variables of section 2 say where it ends. The few
hypotheses left are about callers of `Pmm` and about processes with several threads, and section 5 has the
trace for each.

| Theorem | States | Hypotheses |
|---|---|---|
| `CapTableSound` | `TableSound` | none |
| `CapAuthority` | `AuthorityIsGranted` | none |
| `CapNarrowing` | `LineageNarrows` | none |
| `CapStaysDead` | `StaysDead` | none |
| `CapRevokeDisarms` | `RevokeDisarms` | none |
| `IpcEndpointsSound`, `IpcNoneStranded`, `IpcImplementsChannel` | `EndpointsSound`, `NoneStranded`, `ImplementsChannel` | none |
| `SchedThreadsSound` | `ThreadsSound` | none |
| `ProcessTableSound`, `ProcessWaitsSound` | `TableSound`, `WaitsSound` | `ThreadsEach = 1` |
| `PmmCountsExact`, `PmmHandedOutIsUsable` | `CountsExact`, `HandedOutIsUsable` | `ClaimFree`; `MaxOwners <= RefMax` |
| `HeapFramesSound`, `HeapFreeListsExact`, `HeapBlocksSound` | `HeapSound`, `FreeListsExact`, `BlocksSound` | none |
| `BlockRequestsSound`, `BlockReadReturnsDisk`, `BlockWritesReachTheirSectors` | the properties of those names | none |
| `BootHandoffSound`, `BootHandsOutSound` | `HandoffSound`, `HandsOutSound` | none |
| `PagingTablesSound`, `PagingSpacesExact`, `PagingKernelMapped`, `PagingTlbFresh` | the properties of those names, while `Calm` | none |

### Capabilities

`AuthorityIsGranted`, `LineageNarrows` and `StaysDead` are not inductive: each speaks of what
resolves now, and a step that refills a slot could bring an old handle back to life if its
generation were still to come. `CapInv` adds where every handle ever seen stands: `Known(cap)`
says that its generation is in the past of its slot, or is the present one and the slot is in
use. `IssuedKnown` says so of every grant, and that a current handle denotes exactly its grant;
`LinesKnown` of every handle in a line of descent; `UsedGranted` that a used slot was granted. A
handle whose generation did not fit has generation 0 and never resolves, because slots begin at
generation 1 (`PackedGeneration`). The steps are proved per kind of effect: `FillCapInv` for
insertion and derivation, `ClearCapInv` for deletion and revocation.

`RevokeDisarms` compares two accounts of descent: the parent indices that `revoke_children`
follows, and the lines of derivation. `LineInv` ties them together: no handle is returned twice
(`CapsUnique`, which needs `UnfitStays`: a handle that cannot carry its generation blocks its slot
for good), none is its own ancestor, and the slot of a handle that resolves names the slot of the
handle it was derived from (`Linked`). `DescendantReached` then climbs from a derived handle to the revoked one, by
induction on the number of slots between them. Induction is had from the least element of the
set of counterexamples (`LeastNatural`), since the schema with an operator parameter cannot be
used here.

### IPC

`NoneStranded` needs to know why each blocked thread is where it is. `IpcInv` says that the
lists hold only threads that wait there, once, and all of them where no wakeup was crossed
(`ListsExact`); that nobody waits at a slot out of use (`WaitsWhereUsed`); that every message beside a
waiting receiver, and every free place beside a waiting sender, is promised to a thread already awake
(`Promised`); and that the ring's `head`, `tail` and `count` agree (`RingExact`), also when `count` has
passed the number of places. A waiting thread counts as one from its look on, before it is on a list: a
wakeup while it is on its way makes the list crossed, and the invariant then asks nothing more of it.
`Promised` covers the messages of an overfull ring as well, which is `OverfullIsOwed`. For the refinement, the
initial state maps to an initial state of `IpcChannel`, and each action is shown to map to a step of it
or a stutter; the facts needed are what `Enqueue` and `Dequeue` do to the queue read out of the
ring, over its wrap and over an overrun. `ImplementsChannel` does not need to know what was crossed.

### Scheduler

`SchedInv` is `Whole` up to `torn`. `Whole` joins `ThreadsSound` with what holds inside the scheduler.
A thread suspended there by a tick was only yielding, the running one is there in the state its call or
a tick gave it, and each has picked another thread, which is runnable (`InsideSound`); no thread is picked twice
(`HeldOnce`); and the idle thread is never blocked, asleep or exited (`IdleReady`), for which reason
`pick_next` always finds a thread. The queues and the list of zombies each hold exactly the threads of a
state, once (`QueuesHold`, `Lists`), where a picked thread is in no queue. The step that matters is the
tick that ends a slice in mid-switch: for a thread that is still RUNNING it is a switch like any other, with one more
thread in hand, and for any other it sets `torn`.

### Processes

`ProcInv` says of a slot that a live process has its resources and that the threads of one that
exited have exited (`SlotOK`), that the counters are exact, and of a thread inside `process_wait`
what it may rely on at each step (`WaitOK`): the slot is free or holds the child it asked for; up
to the block the child is alive and the thread is its waiter; and once the child has exited its
code is in the slot, which keeps it when the child is reaped. A thread blocked on a child that has
exited has `missed` it, and nobody else has: the waiter in a slot is a thread that registered and has not been
woken, and only one that was still awake at the exit stays registered. With one thread to a process a
child has one waiter, so that no waiter is replaced.

### Physical memory

`PmmInv` keeps owners, reservations and the boot map apart: two reservations never share a frame
(`ClaimsDisjoint`), a reserved frame is neither owned nor withheld nor the edge of a released
range (`ClaimsApart`), and an owned frame is neither of the last two (`OwnedApart`). `RefInv`, that the count is the number of owners,
needs only that the count does not saturate. The free count then follows from the cardinalities
of disjoint sets of frames.

### Heap

`kfree` has only an address. `HeapInv` therefore says of each pointer that is held what it is: the
address of an object, which determines its slab, its class and its number (`IsObject`), or one in
a run of its own, less than a page and a trailer behind its start (`LargeOK`). Each slab and each
run is owned once and by the heap (`CachesOK`, `FramesHeld`), so that the frame an address lies in
tells the kinds apart (`HeldKinds`), and the free list of a slab holds the numbers nobody holds
(`FreeListOK`). Of `Pmm` the proof needs that a frame handed out had no owner (`OwnersOK`). The layout
lemmas hold for every page size and table of classes of which each leaves room for an object in a
frame: `ObjectPlace` recovers the number from an address, `LargeLayout` and `UserPlace` bound the
padding, and `StretchesApart` reduces the bytes of two blocks to their frames.

All of this is `SoundInv`, up to `overrun`. The theorems take any alignment and any size to grow to: where the
padding of an alignment beyond a page puts a block behind its run, and where `large_realloc` grows a block past its
frames, `overrun` is set in that very step, and of every other step it is proved that the block stays
inside (`LargeOK`, by `Beyond`).

### Block layer

Driver and device share one buffer, and the status byte moves into it behind the data. `BlockInv`
says what holds of every call (the form of rings and request: `Typed`, `Placed`, `Described`), and `Held` what holds
of a call that is in step: for each stage of its request, what the cells of the buffer hold and who may
still change them (`Unanswered`, `AnsweredOk`, `AnsweredError`). A call that gives up stays in step, since its own
request is the one still out; the next call is in step only if that one has been dropped or answered, and the
answer seen (`Quiet`).

### Boot

`BootInv` says that each failed attempt was spent on a change of the map (`AttemptsSpent`), that
the structure's regions are those of the map the bridge holds while its key is current
(`RegionsCurrent`), that the copy at 0x7000 is the structure until frames are taken (`CopyExact`),
and that the frames given out are those the copy offers less what must survive (`FramesDerived`).
The lemmas underneath are about how regions are made from descriptors and cut to frames. `Placed`
adds where the metadata goes: the region chosen for it is usable, so the firmware has given it up
(`MetadataInside`), it is clear of the size the bridge reports, and where the boot goes on it is clear of the linker's extent too;
a boot in which it is not has a kernel.bin without the whole kernel.

### Paging

A walk follows entries; the properties speak of what all walks reach. `PagingInv` therefore says
that the tables form a tree, by two labels: `lev` gives each frame the level at which it is a
table, or 0, and `own` the root whose table it is, the kernel's for the tables all roots share.
`Shape` says of every entry that it leads one level down within one space, with USER exactly in the
tables of processes (`EntryOK`); that a table is entered from one place, or from one slot of several
roots (`Single`), and from some place at all (`Reached`); that outside the slot of processes every
root says what the kernel's says (`Shared`); and that a table is counted once and a page as often
as it is mapped (`Counted`). `Leaves` ties the entries of the last level to `mapped`, one to one.
From these a walk is determined: `Translates` is what `hal_translate` returns for any page and
root, `UserReaches` what ring 3 can reach, and `IdentityWalk` keeps the kernel in every space.
The steps are proved along the code: `WalkStep` for each of the four outcomes of
`walk_to_next_level`, `WalkKeeps` for three of them in a row, whatever fails on the way, and
`MapAdds` and `MapFails` for `hal_map_page`. For `hal_pt_destroy`, `DestroyVisits` shows that the
loops over the entries with USER find exactly the tables that carry the space's label,
`LeafCount` that the references it drops are the space's mappings, one by one, and `CutKeeps` that
what is left is a tree again. `KernelAlone`, that the kernel shares none of its frames, is needed
since `unmap_kernel` frees a frame instead of dropping a reference.
The theorems speak of states in which no process has a page outside its slot, nor has had one when it ended
(`Calm`). The loader does not see to that, and the model has such pages: with one, an entry of the kernel's
carries USER in one root, the tables are a tree no longer, and the invariant says nothing. TLC checks the
four properties on, until such a space ends.

### Only model-checked

* Liveness (`WaitersServed`, `ThreadsRun`, `WaiterReturns`, `CallReturns`, `BootSettles`): the prover
  treats neither fairness nor `ENABLED`.
* In `Paging`, the states between the first page outside a slot and the end of its space.
* `Fat32`, `Elf`, `Syscall`, `Inflate`, `Afpkg`, and `ReadingAdvances` of `Package`: what they compute is a fold over a
  sequence read from memory, a disk or a file, and what a fold gives for every input needs an
  induction over data that the provers cannot instantiate.
* `PrefixStable` of `Binfmt`: a case analysis over the offsets of the formats that TLC settles by
  enumeration.

## 5. Where the code and its comments disagree

The modules state sentences of the comments that TLC refutes, most in the last section of each
module. The instance to use is in brackets, with the property in place of those listed there; TLC's
trace is the shortest scenario.

* `NoneCrossed` [`MCIpc.cfg`]: ipc.c:7 says "a blocked thread is always woken". A tick between the look
  of a receiver and `sched_block` (ipc.c:333-343) lets a sender look for receivers while this one is on no list, or take
  it off the list while `sched_unblock` ignores it as not blocked; it then blocks beside its message.
* `NoneMissed` [`MCProcess.cfg`]: process.c says of the loop of `process_wait` that it closes the race
  with the exit. The child may exit between the test and the block (process.c:255); its wakeup finds a
  thread that is not blocked.
* `NoneTorn` [`MCSched.cfg`]: sched.c says interrupts need to be off only around the queue manipulation. A
  tick after `pick_next` that ends the slice of a thread that has set its state (sched.c:375) chooses
  again, and the first choice is in no queue, in the hands of a thread that waits, for as long as that one waits.
* `ExitCodeKept` [`MCProcess.cfg`]: process.h:137 says "A child that has already exited returns
  immediately, which is the case that must not be missed". The collector (sched.c:539) reaps every
  child nobody is blocked on, and the later call returns `AF_ERR_NOENT`.
* `WriteLands` [`MCBlock.cfg`]: virtio_blk.c:537 says "virtio_blk_request copies the data into the
  request buffer itself when the device reads". The copy (line 478) stands after the wait, when the
  device has already taken the old contents of the buffer.
* `RevokeTerminates` [`MCCap.cfg`]: cap.c says revocation cannot overflow the
  stack. A child outlives its parent's slot, the slot is refilled by a descendant of the child,
  and the parent indices form a cycle.
* `QueueBounded` [`MCIpc.cfg`]: ipc.h says a full queue blocks the
  sender. A send that finds a waiting receiver does not look at the count; receivers already
  woken still leave their messages in the ring. It takes more waiting receivers than the ring
  has places (8 in the code, `AF_EP_QUEUE_LEN`), and the oldest message is lost.
* `TablesMatch` [`MCSched.cfg`]: sched.h says every other change of address space happens in
  `switch_to`. The switches of `sched_block` and `sched_sleep` change none, and the next thread
  runs on the tables of the one that blocked.
* `OwnedIsUsed` [`MCPmm.cfg` with `MaxOwners = 3`]: pmm.c says the count
  saturates so that a frame in use is never freed. Saturation forgets references and the
  releases are still counted.
* `UsableIsThere` [`MCHeap.cfg`]: heap.h says `kmalloc_usable_size` gives the bytes actually there. A
  large block may grow in place to all of its frames (heap.c:291), although the trailer and the padding take some of
  them, and an alignment of two pages, which heap.c says the caller rejects, is accepted.
* `NoneStranded` of `Heap` [`MCHeap.cfg`]: heap.c says a slab with free space is preferred. The loop that
  looks for one comes after a new slab has been made, and never runs.
* `EveryReadReturnsDisk` [`MCBlock.cfg`]: the answer to a request that timed out is
  taken for the answer to the next, which returns the other request's sectors as its own.
* `KernelStays` [`MCPaging.cfg`]: paging.c says a process never writes to the shared tables, since its
  mappings go in its own slot of the root and nowhere else, and that freeing them would tear the kernel out from
  under every other process. The loader accepts other slots (elf.c:334); the walk then sets USER on the
  copy of a kernel entry, and the end of the process frees the kernel's tables.
* `MetadataApart` [`MCBoot.cfg`]: pmm.c:206-207 keeps the metadata off the kernel image, by the size the
  bridge reports, which is that of kernel.bin. A kernel.bin without its .bss would have bitmap and counts
  laid over it. The one the build makes has it (kernel/CMakeLists.txt:139-150), and for that one it is proved
  that nothing is laid over it.
* `LiteralComplete` [`MCPackage.cfg`]: inflate.c:524-527 says an incomplete literal table is an error. The
  test after it, like the one for the fixed tables, is for a negative result only, and a block with such a code is
  decoded until a pattern comes that stands for nothing.
* `RevokeIsTransitive` [`MCCap.cfg`]: a deleted capability in the middle of a chain
  shelters its descendants.
* `RevokeSparesStrangers` [`MCCap.cfg`]: the revocation of the new occupant of a slot
  destroys the children of the old one.
* `FreshHandleResolves` [`MCCap.cfg`]: after 2^24 - 1 reuses a slot
  takes capabilities whose handles do not resolve.
* `WaitsWhereItAsked` [`MCIpc.cfg`]: a receiver woken by the destruction of
  its endpoint goes on waiting at the next endpoint in the slot.
* `CallerCanReturn` [`MCIpc.cfg`]: a caller whose request is queued at a destroyed endpoint
  is never told.
* `StrictPriority` [`MCSched.cfg`]: at the end of its slice a thread loses the processor to any
  queued thread, the idle thread included.
* `TicksEnabled` [`MCSched.cfg`]: a thread that yielded and is resumed from a tick runs with
  interrupts off.
* `TopRuns` [`MCSched.cfg` with `Threads = {1, 2, 3, 4, 5}`]: sched.c says strict priority. A thread of a
  lower priority that a tick takes the processor from after its `pick_next` holds a thread of the highest, in no queue,
  as long as two others of that priority take turns.
* `Attachment` [`MCSched.cfg`]: the overflow of the list of zombies frees a thread that its
  process still counts.
* `BlockedIsAwaited` [`MCProcess.cfg` with `ThreadsEach = 2`]: the second waiting thread of the
  parent replaces the first.
* `ReapWaitsForThreads` [`MCProcess.cfg`]: the refusal to reap a process with threads stands
  after the freeing of its address space.
* `PidsReused` [`MCProcess.cfg`]: a slot of the process table is used once.
* `ReservedStaysUsed` [`MCPmm.cfg` with `ClaimFree = FALSE`]: reserving an allocated frame does not
  keep it reserved.
* `NoentMeansNone` [`MCFat32.cfg`]: fs.h says "Returns AF_ERR_NOENT when there is no ESP". Entries
  behind the last that is kept are not looked at.
* `NoentIsTrue` [`MCFat32.cfg`]: a sector of the FAT that cannot be read ends a directory like the
  end of the chain, and names behind it are not there.
* `NamesTrue` [`MCFat32.cfg`]: fat32.c compares a checksum so that no name is "assembled from
  somebody else's fragments". Only the last fragment's is compared.
* `ClustersInside` [`MCFat32.cfg`]: fat32.c says "a lying BPB cannot make the walker run past the
  end". A difference of sizes wraps. The block layer still refuses sectors off the disk.
* `EntryInBuffer` [`MCFat32.cfg` with `bps = 8` in place of 6 in `BootSectors`]: sectors of up to
  4096 bytes are accepted, and 512 bytes of each are read.
* `ScreenMapped` [`MCBoot.cfg`]: paging.c says the screen is mapped before the first pixel. A mode
  without a linear framebuffer leaves the address set and the flag clear; the flag decides what is
  mapped, the address whether there is a screen.
* `StructureStays` [`MCBoot.cfg`]: efi_main.c:71-77 says the pages of its image stay valid. The
  allocator is given them, and a page table may be made of the structure's before the screen is
  read from it.
* `KernelKept` [`MCSyscall.cfg`]: a program linked into the kernel's slot puts USER on its root's
  copy of that entry, and the end of the process frees the kernel's tables.
* `MalformedRejected` [`MCSyscall.cfg`]: elf.c:10-11 says "a malformed file must be rejected". A
  segment whose sums wrap passes the checks and counts as loaded.
* `EndIsExplained` [`MCPackage.cfg`]: afpkg.h:219-220 says the error of the package tells a list
  that ended from one that met a malformed header. It is not touched after `afpkg_open`.
* `AppImageFound` [`MCPackage.cfg`]: binfmt.c:594-597 says the magic is found in the last 64 KiB.
  The scan stops at the first multiple of 1 KiB.

Smaller things met while reading, without a property: the comment on `AF_USER_TOP` (config.h:81)
names another value than the constant; the stub's two pages are never unmapped; control fields
are recognised by their first letters; an `.apk` cut exactly between two members opens; the magic
of a PE optional header is read two bytes past the 24 checked; a copy from before the start of the
output is reported as too much output; a pacman package needs no version.

## 6. What is not modelled

* `xz_decode.c` and `zstd_decode.c`: their range coder, tables and windows leave no instance small
  enough to check in which the interesting cases happen. `Afpkg` takes what such a stream gives,
  or how it fails, from the stream.
* Descriptor tables, interrupt stubs, PCI enumeration, strings and the user library are constant
  data, a straight line or small pure functions; font, splash, log and panic are output. The self
  tests are fixed sequences of calls on components modelled here.
* The `*_cap` entry points of IPC are a rights test in front of the primitives and are not yet
  composed with `Cap`.
* In `Ipc` ticks fall between the look at an endpoint, the enlisting and the block; the few
  assignments to the fields of a ring, and those to a list, are one step each, although a tick may fall between them too.
* In `Sched`, collection of a zombie is one step, so is a change of a thread's state with the
  `pick_next` that follows it, and stacks and the saved context are left out. In `Pmm`, `Heap` and `Paging` each operation is one step, although the code takes no lock.
* The statistics of `Heap` and its test of guard bands; in `Paging` the spaces of `hal_pt_create`,
  which only the self test uses, and flags other than USER; in `Block` the search for the device
  and the handshake of features.
* In `Fat32` volumes with sectors larger than the device's go no further than their mount; in
  `Syscall` what init stores in its memory, the time and the counters per number; in `Boot` the
  dump, names and serial output; in `Binfmt` and `Afpkg` the wording of answers.
* Memory is sequentially consistent, which on one processor it is.

## 7. Plan

Done: `Cap`, `Ipc` over `IpcChannel`, `Sched`, `Process`, `Pmm`, `Heap` over
`Pmm`, `Block`, `Paging`, `Fat32` over `Gpt`, `Boot`, `Syscall` over `Elf`, and `Package` over
`Afpkg`, `Inflate` and `Binfmt`; the proofs of section 4.

Next, in this order:

1. `IpcCap`: endpoints reached through capabilities, the composition of `Ipc` with `Cap`.
2. `Irq` and `Log`: the handler table, and the lock of the log in interrupts.
3. The collector of `Sched` and the searches of `Pmm` in their steps, with ticks between them.

Theorem to follow: that the loader gives back every frame when it fails (`FramesExact`), once its
pages are counted as in `PagingProofs`.
