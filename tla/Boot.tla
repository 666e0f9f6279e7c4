-------------------------------- MODULE Boot --------------------------------
(***************************************************************************)
(* From firmware to a running kernel: the UEFI bridge (boot/uefi/          *)
(* efi_main.c), the handoff structure (kernel/core/boot_info.c) and the    *)
(* first steps of kmain that read it.                                      *)
(*                                                                         *)
(* Memory counts in frames.  The firmware may change its memory map at any *)
(* time until it is left: it takes a frame for itself, and the map key     *)
(* moves.  Everything it says of the map is a sequence of descriptors.     *)
(* One frame of the bridge's image holds s_boot_info; a frame the kernel   *)
(* takes for a page table is cleared, whatever was in it.                  *)
(*                                                                         *)
(* The kernel occupies the frames the linker gave it, .bss included.  The  *)
(* bridge knows kernel.bin only, which need not hold .bss: it claims and   *)
(* reports that much.  Metadata that pmm_init then puts over .bss is       *)
(* written over its own variables, and nothing is said of what follows.    *)
(***************************************************************************)
EXTENDS Integers, Sequences, FiniteSets, SequencesExt

CONSTANTS Firmwares,     \* bound: machines: [map, gop, loads, file]
          MaxRegions,    \* AF_MAX_MEMORY_REGIONS
          Storage,       \* descriptors that fit s_memmap_storage
          Slack,         \* descriptors that fit the 4096 bytes added to the probe
          MaxAttempts,   \* calls of ExitBootServices: 4
          MaxChanges,    \* bound: times the firmware changes its map
          KernelBase,    \* KERNEL_PHYS_BASE
          KernelPages,   \* frames from __kernel_start to __kernel_end
          InfoFrame,     \* the bridge's frame that holds s_boot_info
          BackupFrame,   \* AF_BOOT_INFO_BACKUP_ADDR
          MinFrames,     \* fewest frames pmm_init manages: 1024
          MetaFrames,    \* frames of the bitmap and the counts
          MetaSpare      \* what the region must hold beyond them: AF_MIB

ASSUME BootAssumption ==
    /\ MaxRegions \in Nat /\ Storage \in Nat /\ Slack \in Nat
    /\ MaxAttempts \in Nat \ {0} /\ MaxChanges \in Nat
    /\ KernelBase \in Nat /\ KernelPages \in Nat \ {0}
    /\ InfoFrame \in Nat /\ BackupFrame \in 0 .. KernelBase - 1
    /\ MinFrames \in Nat /\ MetaFrames \in Nat \ {0} /\ MetaSpare \in Nat

\* What the firmware says of a stretch of memory, and of a mode of the screen.
\* Types of memory that the kernel treats alike are one.
EfiMemoryType ==
    {"Conventional", "LoaderData", "BootServicesData", "RuntimeServicesData", "Reserved"}
Descriptor == [base : Nat, pages : Nat, type : EfiMemoryType]
Mode == [base : Nat, pages : Nat, format : STRING, pitch : BOOLEAN]

\* A machine, with the frames kernel.bin has: all of the kernel, or not its .bss.
\* The bridge's image is the loader's memory, and the region the copy lies in is
\* too small for the metadata: low memory ends below 1 MiB.
ASSUME MachineAssumption ==
    \A m \in Firmwares :
        /\ m \in [map : Seq(Descriptor), gop : Seq(Mode), loads : BOOLEAN, file : 1 .. KernelPages]
        /\ \E d \in ToSet(m.map) :
              d.type = "LoaderData" /\ InfoFrame \in d.base .. d.base + d.pages - 1
        /\ \A d \in ToSet(m.map) :
              d.type = "Conventional" /\ BackupFrame \in d.base .. d.base + d.pages - 1 =>
                  d.pages < MetaFrames + MetaSpare \/ d.base = 0

VARIABLES pc,       \* the next step of the bridge, then of kmain
          fw,       \* the machine: the member of Firmwares, its map as it is now
          key,      \* the map key; it counts the changes
          probed,   \* descriptors the first call of GetMemoryMap promised
          map_key,  \* the key the second call returned
          attempt,  \* attempts to leave the firmware
          info,     \* s_boot_info
          backup,   \* the copy at BackupFrame
          arg,      \* the register kmain is called with: "info", or "lost"
          pmm,      \* [count, used]: what pmm_init manages and what is not free
          taken,    \* frames the kernel has taken for page tables
          reach,    \* frames the identity map covers
          screen    \* the screen af_fb_init made available, or {}

vars == <<pc, fw, key, probed, map_key, attempt, info, backup, arg, pmm, taken, reach, screen>>

bridge == <<fw, key, probed, map_key, attempt>>
kernel == <<pmm, taken, reach, screen>>

Range2(base, pages) == base .. base + pages - 1

\* What the linker gave the kernel, and what the bridge reports of it.
Kernel == Range2(KernelBase, KernelPages)
Reported(bi) == Range2(KernelBase, bi.size)

NoInfo == [magic |-> FALSE, regions |-> <<>>, fb |-> <<>>, flag |-> FALSE, size |-> 0]

Init ==
    /\ pc = "start"
    /\ fw \in Firmwares
    /\ key = 0 /\ probed = 0 /\ map_key = 0 /\ attempt = 0
    /\ info = NoInfo /\ backup = NoInfo /\ arg = "none"
    /\ pmm = [count |-> 0, used |-> {}]
    /\ taken = {}
    /\ reach = 0
    /\ screen = {}

----------------------------------------------------------------------------
(* The firmware.                                                           *)

InFirmware ==
    pc \in {"start", "gop", "load", "probe", "read", "mark", "exit", "retry"}

\* It takes the last frame of conventional memory for a driver of its own: for
\* boot services only, or for good.
Split(i, type) ==
    LET d == fw.map[i]
    IN  SubSeq(fw.map, 1, i - 1)
            \o <<[d EXCEPT !.pages = @ - 1],
                 [base |-> d.base + d.pages - 1, pages |-> 1, type |-> type]>>
            \o SubSeq(fw.map, i + 1, Len(fw.map))

firmware_allocates(i, type) ==
    /\ InFirmware /\ key < MaxChanges
    /\ fw.map[i].type = "Conventional" /\ fw.map[i].pages > 0
    /\ fw' = [fw EXCEPT !.map = Split(i, type)]
    /\ key' = key + 1
    /\ UNCHANGED <<pc, probed, map_key, attempt, info, backup, arg, kernel>>

----------------------------------------------------------------------------
(* The bridge.                                                             *)

Halted(why) == pc' = why /\ UNCHANGED <<probed, map_key, attempt, info>>

\* efi_main: the watchdog is stopped and the structure begun.
efi_main_begin ==
    /\ pc = "start"
    /\ info' = [magic |-> TRUE, regions |-> <<>>, fb |-> <<>>, flag |-> FALSE, size |-> 0]
    /\ pc' = "gop"
    /\ UNCHANGED <<bridge, backup, arg, kernel>>

\* A mode the kernel can draw in: it has a base and is not BLT-only.
Linear(gop) == gop # <<>> /\ gop[1].base # 0 /\ gop[1].format # "BltOnly"

\* In every case the bridge goes on.  The fields are filled before the format is
\* looked at, so a BLT-only mode leaves them without the flag.
gop_init ==
    /\ pc = "gop"
    /\ info' = [info EXCEPT
                  !.fb   = IF fw.gop # <<>> /\ fw.gop[1].base # 0 THEN fw.gop ELSE <<>>,
                  !.flag = Linear(fw.gop)]
    /\ pc' = "load"
    /\ UNCHANGED <<bridge, backup, arg, kernel>>

\* AllocatePages(AllocateAddress): the frames become the loader's.
Piece(base, pages, type) ==
    IF pages > 0 THEN <<[base |-> base, pages |-> pages, type |-> type]>> ELSE <<>>

Cut(d, frames) ==
    LET in   == frames \cap Range2(d.base, d.pages)
        low  == CHOOSE f \in in : \A g \in in : f <= g
        high == low + Cardinality(in)
    IN  IF d.type # "Conventional" \/ in = {} THEN <<d>>
        ELSE Piece(d.base, low - d.base, d.type)
                \o Piece(low, Cardinality(in), "LoaderData")
                \o Piece(high, d.base + d.pages - high, d.type)

Claimed(map, frames) == FlattenSeq([i \in 1 .. Len(map) |-> Cut(map[i], frames)])

ConventionalFrames(map) ==
    UNION {Range2(d.base, d.pages) : d \in {e \in ToSet(map) : e.type = "Conventional"}}

\* Frames for kernel.bin, and not for what it leaves out.
File == Range2(KernelBase, fw.file)

load_kernel ==
    /\ pc = "load"
    /\ IF fw.loads /\ File \subseteq ConventionalFrames(fw.map)
       THEN /\ fw' = [fw EXCEPT !.map = Claimed(@, File)]
            /\ info' = [info EXCEPT !.size = fw.file]
            /\ pc' = "probe"
            /\ UNCHANGED <<probed, map_key, attempt>>
       ELSE Halted("halted_kernel") /\ UNCHANGED fw
    /\ UNCHANGED <<key, backup, arg, kernel>>

\* read_memory_map, first call: how much there is.
read_memory_map_probe ==
    /\ pc = "probe"
    /\ IF Len(fw.map) + Slack > Storage
       THEN Halted("halted_map")
       ELSE /\ probed' = Len(fw.map) + Slack
            /\ pc' = "read"
            /\ UNCHANGED <<map_key, attempt, info>>
    /\ UNCHANGED <<fw, key, backup, arg, kernel>>

MemoryType(type) ==
    CASE type = "Conventional" -> "USABLE"
      [] type \in {"LoaderData", "BootServicesData"} -> "BOOTLOADER"
      [] type = "RuntimeServicesData" -> "RUNTIME"
      [] OTHER -> "RESERVED"

\* Descriptors without pages are dropped.  A map of more regions than the
\* structure holds is refused, and one of the regions may be an empty one.
Region(d) == [base |-> d.base, length |-> d.pages, type |-> MemoryType(d.type)]

Normalised(map) ==
    FlattenSeq([i \in 1 .. Len(map) |-> IF map[i].pages = 0 THEN <<>> ELSE <<Region(map[i])>>])

Overflows(map) ==
    \E i \in 1 .. Len(map) :
        Cardinality({j \in 1 .. i - 1 : map[j].pages > 0}) >= MaxRegions

\* read_memory_map, second call, and the loop over what it returned.
read_memory_map ==
    /\ pc = "read"
    /\ IF Len(fw.map) > probed \/ Overflows(fw.map)
       THEN Halted("halted_map")
       ELSE /\ info' = [info EXCEPT !.regions = Normalised(fw.map)]
            /\ map_key' = key
            /\ pc' = "mark"
            /\ UNCHANGED <<probed, attempt>>
    /\ UNCHANGED <<fw, key, backup, arg, kernel>>

Screen(bi) == IF bi.fb = <<>> THEN {} ELSE Range2(bi.fb[1].base, bi.fb[1].pages)

Overlaps(r, frames) == Range2(r.base, r.length) \cap frames # {}

\* The whole of a usable region the screen lies in is kept from the kernel.
Marked(bi) ==
    [i \in 1 .. Len(bi.regions) |->
        LET r == bi.regions[i]
        IN  IF bi.flag /\ r.type = "USABLE" /\ Overlaps(r, Screen(bi))
            THEN [r EXCEPT !.type = "FRAMEBUFFER"] ELSE r]

mark_framebuffer ==
    /\ pc = "mark"
    /\ info' = [info EXCEPT !.regions = Marked(info)]
    /\ pc' = "exit"
    /\ UNCHANGED <<bridge, backup, arg, kernel>>

\* ExitBootServices refuses a key that is not the map's.
KeyAccepted == map_key = key

ExitBootServices ==
    /\ pc = "exit"
    /\ pc' = IF KeyAccepted THEN "publish" ELSE "retry"
    /\ UNCHANGED <<bridge, info, backup, arg, kernel>>

\* The loop: the map is read again before every attempt.
NextAttempt == IF attempt + 1 < MaxAttempts THEN "probe" ELSE "halted_exit"

refetch_KeepsMap ==
    /\ pc = "retry"
    /\ attempt' = attempt + 1
    /\ map_key' = key
    /\ pc' = IF attempt + 1 < MaxAttempts THEN "exit" ELSE "halted_exit"
    /\ UNCHANGED <<fw, key, probed, info, backup, arg, kernel>>

refetch_Forever ==
    /\ pc = "retry"
    /\ pc' = "exit"
    /\ UNCHANGED <<fw, key, probed, map_key, attempt, info, backup, arg, kernel>>

refetch ==
    /\ pc = "retry"
    /\ attempt' = attempt + 1
    /\ pc' = NextAttempt
    /\ UNCHANGED <<fw, key, probed, map_key, info, backup, arg, kernel>>

\* The firmware is gone: the copy, and the jump.  The register may not survive.
publish ==
    /\ pc = "publish"
    /\ backup' = info
    /\ pc' = "jump"
    /\ UNCHANGED <<bridge, info, arg, kernel>>

\* The entry stub clears .bss, and what the firmware had put there.
jump_to_kernel(survives) ==
    /\ pc = "jump"
    /\ arg' = IF survives THEN "info" ELSE "lost"
    /\ info' = IF InfoFrame \in Kernel THEN NoInfo ELSE info
    /\ pc' = "validate"
    /\ UNCHANGED <<bridge, backup, kernel>>

----------------------------------------------------------------------------
(* The kernel.                                                             *)

GeometryValid(bi) == bi.fb # <<>> /\ bi.fb[1].base # 0 /\ bi.fb[1].pitch

af_boot_info_validate(bi) ==
    /\ bi.magic
    /\ Len(bi.regions) \in 1 .. MaxRegions
    /\ \A r \in ToSet(bi.regions) : r.length > 0
    /\ \E r \in ToSet(bi.regions) : r.type = "USABLE"
    /\ bi.flag => GeometryValid(bi)

\* The structure kmain reads, wherever it lies.
Given(where) == CASE where = "info" -> info [] where = "backup" -> backup [] OTHER -> NoInfo

\* A structure that is not valid is looked for at the fixed address.
Recovered(where) ==
    IF ~af_boot_info_validate(Given(where)) /\ af_boot_info_validate(backup)
    THEN "backup" ELSE where

kmain_validate ==
    /\ pc = "validate"
    /\ arg' = Recovered(arg)
    /\ pc' = IF af_boot_info_validate(Given(arg')) THEN "pmm" ELSE "failed"
    /\ UNCHANGED <<bridge, info, backup, kernel>>

Reclaimable(r) == r.type \in {"USABLE", "BOOTLOADER"}

\* af_boot_info_max_usable_address, in frames.
MaxUsable(bi) ==
    LET ends == {r.base + r.length : r \in {x \in ToSet(bi.regions) : Reclaimable(x)}}
    IN  CHOOSE e \in ends : \A x \in ends : x <= e

\* Where the metadata goes: the first of the largest usable regions that do not
\* meet the kernel, as far as the bridge reports it.
MetadataRegions(bi) ==
    {i \in 1 .. Len(bi.regions) :
        bi.regions[i].type = "USABLE" /\ ~Overlaps(bi.regions[i], Reported(bi))}

MetadataRegion(bi) ==
    CHOOSE i \in MetadataRegions(bi) :
        \A j \in MetadataRegions(bi) :
            \/ bi.regions[j].length < bi.regions[i].length
            \/ bi.regions[j].length = bi.regions[i].length /\ i <= j

Metadata(bi) == Range2(bi.regions[MetadataRegion(bi)].base, MetaFrames)

MetadataFits(bi) ==
    /\ MetadataRegions(bi) # {}
    /\ bi.regions[MetadataRegion(bi)].base # 0
    /\ bi.regions[MetadataRegion(bi)].length >= MetaFrames + MetaSpare

Survivors_Reported(bi) ==
    {0, BackupFrame} \cup Reported(bi) \cup Metadata(bi)
        \cup (IF bi.flag THEN Screen(bi) ELSE {})

Survivors(bi) ==
    {0, BackupFrame} \cup Kernel \cup Reported(bi) \cup Metadata(bi)
        \cup (IF bi.flag THEN Screen(bi) ELSE {})

Freed(bi) == UNION {Range2(r.base, r.length) : r \in {x \in ToSet(bi.regions) : Reclaimable(x)}}

\* Metadata over the kernel's variables is written over them.
pmm_init ==
    LET bi == Given(arg)
    IN  /\ pc = "pmm"
        /\ IF MaxUsable(bi) >= MinFrames /\ MetadataFits(bi)
           THEN IF Metadata(bi) \cap Kernel # {}
                THEN pc' = "overwritten" /\ UNCHANGED pmm
                ELSE /\ pmm' = [count |-> MaxUsable(bi),
                                used  |-> (0 .. MaxUsable(bi) - 1) \ (Freed(bi) \ Survivors(bi))]
                     /\ pc' = "root"
           ELSE pc' = "failed" /\ UNCHANGED pmm
        /\ UNCHANGED <<bridge, info, backup, arg, taken, reach, screen>>

FreeFrames == (0 .. pmm.count - 1) \ (pmm.used \cup taken)

\* alloc_table: the lowest free frame, cleared.
alloc_table(next) ==
    IF FreeFrames = {} THEN pc' = "panic" /\ UNCHANGED <<taken, info>>
    ELSE LET f == CHOOSE x \in FreeFrames : \A y \in FreeFrames : x <= y
         IN  /\ taken' = taken \cup {f}
             /\ info' = IF f = InfoFrame THEN NoInfo ELSE info
             /\ pc' = next

\* af_x86_paging_bootstrap: a root; how far the map must go; the tables below.
paging_root ==
    /\ pc = "root"
    /\ alloc_table("identity")
    /\ UNCHANGED <<bridge, backup, arg, pmm, reach, screen>>

ScreenEnd(bi) == IF bi.flag THEN bi.fb[1].base + bi.fb[1].pages ELSE 0

paging_identity ==
    /\ pc = "identity"
    /\ reach' = IF ScreenEnd(Given(arg)) > pmm.count THEN ScreenEnd(Given(arg)) ELSE pmm.count
    /\ pc' = "tables"
    /\ UNCHANGED <<bridge, info, backup, arg, pmm, taken, screen>>

paging_tables ==
    /\ pc = "tables"
    /\ alloc_table("fb")
    /\ UNCHANGED <<bridge, backup, arg, pmm, reach, screen>>

\* It looks at the fields only.
af_fb_init ==
    /\ pc = "fb"
    /\ screen' = IF GeometryValid(Given(arg)) THEN Screen(Given(arg)) ELSE {}
    /\ pc' = "running"
    /\ UNCHANGED <<bridge, info, backup, arg, pmm, taken, reach>>

----------------------------------------------------------------------------
Step ==
    \/ efi_main_begin \/ gop_init \/ load_kernel
    \/ read_memory_map_probe \/ read_memory_map \/ mark_framebuffer
    \/ ExitBootServices \/ refetch \/ publish
    \/ \E survives \in BOOLEAN : jump_to_kernel(survives)
    \/ kmain_validate \/ pmm_init
    \/ paging_root \/ paging_identity \/ paging_tables \/ af_fb_init

Next ==
    \/ Step
    \/ \E i \in 1 .. Len(fw.map), type \in {"BootServicesData", "RuntimeServicesData"} :
           firmware_allocates(i, type)

\* The processor goes on with the program it is in.
Spec == Init /\ [][Next]_vars /\ WF_vars(Step)

----------------------------------------------------------------------------
(* Properties.                                                             *)

InKernel ==
    pc \in {"validate", "pmm", "overwritten", "root", "identity", "tables", "fb",
            "running", "failed", "panic"}

\* What the firmware has given up when it is left.
Reclaimed(map) ==
    UNION {Range2(d.base, d.pages) :
              d \in {e \in ToSet(map) :
                        e.type \in {"Conventional", "LoaderData", "BootServicesData"}}}

Spared == {0, BackupFrame} \cup Kernel \cup (IF backup.flag THEN Screen(backup) ELSE {})

\* A frame the kernel may hand out, or has handed out, is one the firmware has
\* given up, by the map as it was when the firmware was left, however often that
\* map changed while the bridge read it; and it is none of those that must
\* survive: the null page, the kernel with its .bss, whatever kernel.bin holds
\* of it, the copy of the structure, and the screen it was told of.
FramesGivenUp ==
    (pmm.count > 0) =>
        /\ FreeFrames \cup taken \subseteq Reclaimed(fw.map)
        /\ (FreeFrames \cup taken) \cap Spared = {}

\* So do the allocator's own bitmap and counts: they lie in memory the firmware
\* has given up, apart from all that must survive and from every frame the
\* kernel may hand out.  A kernel.bin that holds the whole kernel, as the one
\* the build makes does, is never written over.
MetadataSound ==
    /\ pmm.count > 0 =>
          /\ Metadata(backup) \subseteq Reclaimed(fw.map)
          /\ Metadata(backup) \cap (Spared \cup FreeFrames \cup taken) = {}
    /\ fw.file = KernelPages => pc # "overwritten"

\* Where the memory is managed, what is handed out and where the account of it is
\* kept are both sound.
HandsOutSound == FramesGivenUp /\ MetadataSound

\* The structure the kernel accepts is the one the bridge built for this
\* machine, register or no register: the boot fails only when that structure
\* is itself refused.
HandoffExact ==
    /\ pc = "pmm" => Given(arg) = backup
    /\ (pc = "failed" /\ pmm.count = 0) =>
          \/ ~af_boot_info_validate(backup)
          \/ MaxUsable(backup) < MinFrames \/ ~MetadataFits(backup)
    /\ InKernel => backup.regions = Marked([backup EXCEPT !.regions = Normalised(fw.map)])

\* The bridge gives up leaving the firmware only when the map changed under
\* each of its attempts.
RetriesSuffice == pc = "halted_exit" => key >= MaxAttempts

\* The handoff is exact and the attempts are used up only by that many changes.
HandoffSound == HandoffExact /\ RetriesSuffice

Settled ==
    pc \in {"halted_kernel", "halted_map", "halted_exit", "failed", "panic", "running",
            "overwritten"}

\* Every boot ends: in a kernel that runs, in a stop that says why, or in
\* metadata over the kernel's own variables.
BootSettles == <>Settled

\* Not so: the screen the kernel draws on is mapped (paging.c: the first pixel
\* drawn would take a page fault).  A BLT-only mode leaves the fields set and
\* the flag clear, and af_fb_init looks at the fields.
ScreenMapped == screen \subseteq 0 .. reach - 1

\* Not so: the metadata keeps off the kernel image (pmm.c: skip anything
\* overlapping the kernel image).  The region that begins where kernel.bin ends
\* is not skipped, and there .bss lies, when kernel.bin is without it.
MetadataApart == pc # "overwritten"

\* Not so: the pages of the bridge's image stay valid (efi_main.c).  They are
\* given to the allocator, which may clear the structure before kmain has read
\* the screen from it.
StructureStays == (InKernel /\ arg = "info") => info = backup
============================================================================
