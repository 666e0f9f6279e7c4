-------------------------------- MODULE Gpt --------------------------------
(***************************************************************************)
(* The partition table (kernel/fs/gpt.c), read through the bounds-checked  *)
(* block_read of kernel/core/block.c.                                      *)
(*                                                                         *)
(* The disk is what a formatting tool or an accident left there; nothing   *)
(* writes to it.  disk.mbr and disk.gpt say whether the two signatures are *)
(* in place, disk.entries is the array of partition entries as it lies on  *)
(* the disk, entry k at byte k * entry_size.  bad is the set of sectors    *)
(* the device fails to read at present.                                    *)
(***************************************************************************)
EXTENDS Integers, Sequences, FiniteSets, SequencesExt

CONSTANTS Disks,           \* bound: the disks there may be
          DeviceSectors,   \* dev->sector_count
          Breakable,       \* bound: the sectors that may fail, one at a time
          EntrySectorSize, \* SECTOR_SIZE of gpt.c
          EntrySizeMin,    \* the smallest plausible size of an entry
          EntriesMax,      \* the entries of the array that are looked at
          MaxPartitions,   \* AF_MAX_PARTITIONS
          U64              \* values of a 64-bit word

ASSUME GptAssumption ==
    /\ DeviceSectors \in Nat \ {0}
    /\ EntrySizeMin \in Nat \ {0} /\ EntrySectorSize >= EntrySizeMin
    /\ EntriesMax \in Nat /\ MaxPartitions \in Nat
    /\ U64 \in Nat /\ U64 > DeviceSectors

VARIABLES disk, bad,
          table            \* af_partition_table_t, with what the read returned

gptVars == <<disk, bad, table>>

\* block_read: the range is checked before the device is asked.
block_read(lba, count) ==
    IF count = 0 \/ lba >= DeviceSectors \/ lba + count > DeviceSectors THEN "INVAL"
    ELSE IF (lba .. lba + count - 1) \cap bad # {} THEN "IO"
    ELSE "OK"

\* A loop: acc goes through the items of a sequence.
Loop(step(_, _), base, items) ==
    LET acc[k \in 0 .. Len(items)] ==
            IF k = 0 THEN base ELSE LET before == acc[k - 1] IN step(before, items[k])
    IN acc[Len(items)]

NoEntry  == [type |-> "none", first |-> 0, last |-> 0]
Junk     == [type |-> "junk", first |-> 0, last |-> 0]
Unread   == [rc |-> "UNREAD", entries |-> <<>>]

\* What the array holds at a byte: an entry, or the middle of one.
EntryAt(byte) ==
    IF byte % disk.entry_size # 0 THEN Junk
    ELSE IF byte \div disk.entry_size < Len(disk.entries)
         THEN disk.entries[byte \div disk.entry_size + 1]
         ELSE NoEntry

\* One turn of the loop over the entries: read the sector entry i lies in, skip
\* an unused entry, and take the others while there is room.
EntryStep(acc, i) ==
    LET per_sector == EntrySectorSize \div disk.entry_size
        sector     == i \div per_sector
        rc         == block_read((disk.entries_lba + sector) % U64, 1)
        e          == EntryAt(sector * EntrySectorSize + (i % per_sector) * disk.entry_size)
    IN IF acc.rc # "OK" \/ Len(acc.entries) >= MaxPartitions THEN acc
       ELSE IF rc # "OK" THEN [acc EXCEPT !.rc = rc]
       ELSE IF e.type = "none" THEN acc
       ELSE [acc EXCEPT !.entries = Append(@,
                [type |-> e.type, start_lba |-> e.first,
                 sector_count |-> (e.last - e.first + 1) % U64])]

EntriesLooked == Min({disk.entry_count, EntriesMax})

TableOf ==
    IF block_read(0, 1) # "OK" THEN [Unread EXCEPT !.rc = block_read(0, 1)]
    ELSE IF ~disk.mbr THEN [Unread EXCEPT !.rc = "NOENT"]
    ELSE IF block_read(1, 1) # "OK" THEN [Unread EXCEPT !.rc = block_read(1, 1)]
    ELSE IF ~disk.gpt THEN [Unread EXCEPT !.rc = "NOTSUP"]
    ELSE IF disk.entry_size \notin EntrySizeMin .. EntrySectorSize
         THEN [Unread EXCEPT !.rc = "FS_CORRUPT"]
    ELSE Loop(EntryStep, [rc |-> "OK", entries |-> <<>>],
                  [k \in 1 .. EntriesLooked |-> k - 1])

partition_table_read ==
    /\ table' = TableOf
    /\ UNCHANGED <<disk, bad>>

Esps == {k \in DOMAIN table.entries : table.entries[k].type = "esp"}

\* The caller gives up unless the table was read.
partition_find_esp ==
    IF table.rc # "OK" THEN [rc |-> table.rc]
    ELSE IF Esps = {} THEN [rc |-> "NOENT"]
    ELSE [rc |-> "OK", part |-> table.entries[Min(Esps)]]

\* The device begins or ceases to fail at a sector.
device_fault ==
    /\ bad' \in {{}} \cup {{s} : s \in Breakable}
    /\ bad' # bad
    /\ UNCHANGED <<disk, table>>

----------------------------------------------------------------------------
\* The entries in use, as the disk has them, of the array as far as it is
\* looked at.
OnDisk == {k \in 1 .. Min({EntriesLooked, Len(disk.entries)}) : disk.entries[k].type # "none"}

\* Sizes of entries the partition table format allows divide a sector.
Regular == disk.entry_size > 0 /\ EntrySectorSize % disk.entry_size = 0

\* partition_find_esp gives the first EFI System Partition of the array, with
\* the sectors from its first to its last, and says that there is none only when
\* there is none.  A table with more entries in use than fit is left out: there
\* the ESP may be among those not looked at.
EspFound ==
    (table.rc = "OK" /\ Regular /\ Cardinality(OnDisk) <= MaxPartitions) =>
        LET esps == {k \in OnDisk : disk.entries[k].type = "esp"}
            got  == partition_find_esp
        IN IF esps = {} THEN got.rc = "NOENT"
           ELSE LET e == disk.entries[Min(esps)]
                IN /\ got.rc = "OK"
                   /\ got.part.start_lba = e.first
                   /\ e.first <= e.last =>
                        got.part.start_lba + got.part.sector_count - 1 = e.last

\* fs.h: "Returns AF_ERR_NOENT when there is no ESP".  The entries after the
\* MaxPartitions-th are not looked at, and an ESP among them is not found.
NoentMeansNone ==
    (table.rc = "OK" /\ Regular /\ partition_find_esp.rc = "NOENT") =>
        \A k \in OnDisk : disk.entries[k].type # "esp"
============================================================================
