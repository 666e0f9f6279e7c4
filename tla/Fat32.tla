------------------------------- MODULE Fat32 -------------------------------
(***************************************************************************)
(* The read-only FAT32 file system (kernel/fs/fat32.c) on the partition    *)
(* that Gpt finds.                                                         *)
(*                                                                         *)
(* disk.bpb is the boot sector.  disk.fat gives the word at every place a  *)
(* FAT lookup can reach, the places behind the FAT included; disk.slots    *)
(* gives what a cluster holds when it is read as a directory.  The byte i  *)
(* of cluster c is written <<c, i>>, so that data tells where it is from.  *)
(* Names are sequences of character codes.                                 *)
(***************************************************************************)
EXTENDS Gpt

CONSTANTS SectorSize,      \* SECTOR_SIZE of fat32.c, and of the device
          WordSize,        \* bytes of a FAT entry
          SlotSize,        \* bytes of a directory entry
          U32,             \* values of a 32-bit word
          Mask,            \* values of the 28 bits of a FAT entry
          EOC,             \* FAT32_EOC
          MinClusters,     \* the least number of clusters of a FAT32 volume
          BufferSize,      \* sizeof(cluster_data)
          NameMax,         \* AF_NAME_MAX
          MaxOrdinal,      \* fragments of a long name
          MaxOpen,         \* AF_FAT_MAX_OPEN
          MaxDepth,        \* directories a path may pass
          Paths,           \* bound: the paths callers ask for
          Requests,        \* bound: the bytes callers ask for
          Rooms            \* bound: the buffers callers have for a whole file

ASSUME Fat32Assumption ==
    /\ SectorSize \in Nat \ {0} /\ SlotSize \in Nat \ {0} /\ WordSize \in Nat \ {0}
    /\ SectorSize % SlotSize = 0
    /\ U32 \in Nat /\ U64 >= U32
    /\ Mask \in Nat /\ EOC \in 2 .. Mask - 1
    /\ MaxOpen \in Nat \ {0}

VARIABLES vol,             \* fat32_volume_t
          files,           \* s_open_files
          last,            \* history: the last operation and its outcome
          got              \* history: what was read through each handle since it was opened

vars == <<disk, bad, table, vol, files, last, got>>

Unmounted == [mounted |-> FALSE]
Handles   == 1 .. MaxOpen
Closed    == [in_use |-> FALSE]
Nothing   == [op |-> "none"]

----------------------------------------------------------------------------
(* Mounting *)

PowerOfTwo(n) == n \in {1, 2, 4, 8, 16, 32, 64, 128}

\* Sectors left for data, in unsigned arithmetic, and the clusters they make.
DataSectors(part, b)  == (part.sector_count - b.reserved - b.num_fats * b.fat_sectors) % U64
ClusterCount_ForgetsFats(part, b) ==
    (((part.sector_count - b.reserved) % U64) \div b.spc) % U32

ClusterCount(part, b) == (DataSectors(part, b) \div b.spc) % U32

BpbValid(b) ==
    /\ b.bps \in {SectorSize, 2 * SectorSize, 4 * SectorSize, 8 * SectorSize}
    /\ PowerOfTwo(b.spc)
    /\ b.reserved # 0
    /\ b.num_fats \in 1 .. 4
    /\ b.fat_sectors # 0
    /\ b.root >= 2

VolumeOf(part, b) ==
    LET fat_start == part.start_lba + b.reserved
    IN [mounted |-> TRUE, part |-> part,
        bps |-> b.bps, spc |-> b.spc, root |-> b.root,
        bytes_per_cluster |-> b.bps * b.spc,
        fat_start |-> fat_start,
        data_start |-> fat_start + b.num_fats * b.fat_sectors,
        cluster_count |-> ClusterCount(part, b)]

MountOf(part) ==
    LET b == disk.bpb rc == block_read(part.start_lba, 1)
    IN IF rc # "OK" THEN rc
       ELSE IF ~b.signature THEN "FS_CORRUPT"
       ELSE IF ~BpbValid(b) THEN "FS_CORRUPT"
       ELSE IF ClusterCount(part, b) < MinClusters THEN "FS_CORRUPT"
       ELSE "OK"

fat32_mount ==
    LET esp == partition_find_esp IN
    /\ ~vol.mounted /\ esp.rc = "OK"
    /\ LET rc == MountOf(esp.part) IN
         /\ vol'  = IF rc = "OK" THEN VolumeOf(esp.part, disk.bpb) ELSE Unmounted
         /\ last' = [op |-> "mount", rc |-> rc]
    /\ UNCHANGED <<disk, bad, table, files, got>>

----------------------------------------------------------------------------
(* Clusters *)

cluster_to_lba(c) == vol.data_start + (c - 2) * vol.spc

InChain(c) == c >= 2 /\ c < EOC

\* The sector that holds the FAT entry of a cluster, and the place in it.  Only
\* volumes with sectors of SectorSize bytes are taken further than their mount: with
\* larger ones the place may lie behind the buffer (EntryInBuffer).
FatSector(c) == vol.fat_start + (c * WordSize) \div vol.bps
FatOffset(c) == (c * WordSize) % vol.bps

\* A sector that cannot be read looks like the end of the chain.
fat_next_cluster(c) ==
    IF block_read(FatSector(c), 1) # "OK" THEN EOC ELSE disk.fat[c] % Mask

read_cluster(c) ==
    IF c < 2 \/ c >= (vol.cluster_count + 2) % U32 THEN "FS_CORRUPT"
    ELSE block_read(cluster_to_lba(c), vol.spc)

\* The clusters a walk from first comes to, by number of steps.
Nth(first, n) ==
    LET nth[k \in 0 .. n] ==
            IF k = 0 THEN first
            ELSE LET c == nth[k - 1] IN IF InChain(c) THEN fat_next_cluster(c) ELSE c
    IN nth

----------------------------------------------------------------------------
(* Directories *)

short_name_checksum(short) ==
    Loop(LAMBDA sum, ch : ((sum % 2) * 128 + sum \div 2 + ch) % 256, 0, short)

Scanning == [done |-> FALSE, rc |-> "OK", entries |-> <<>>,
             lfn |-> <<>>, sum |-> 0, have |-> FALSE]

Forget(acc) == [acc EXCEPT !.have = FALSE, !.lfn = <<>>]

Prepend_Appends(acc, s) ==
    IF s.ord = 0 \/ s.ord > MaxOrdinal THEN Forget(acc)
    ELSE IF Len(s.text) + Len(acc.lfn) + 1 < NameMax
         THEN [acc EXCEPT !.lfn = @ \o s.text, !.sum = s.sum, !.have = TRUE]
         ELSE acc

\* A fragment of a long name goes in front of what was collected, if it fits.
Prepend(acc, s) ==
    IF s.ord = 0 \/ s.ord > MaxOrdinal THEN Forget(acc)
    ELSE IF Len(s.text) + Len(acc.lfn) + 1 < NameMax
         THEN [acc EXCEPT !.lfn = s.text \o @, !.sum = s.sum, !.have = TRUE]
         ELSE acc

\* The entry as it is handed out.  Dots keep their own name.
EntryOf(acc, s) ==
    [first_cluster |-> s.first, size |-> s.size, is_directory |-> s.dir,
     name |-> IF s.short[1] # 46 /\ acc.have /\ acc.sum = short_name_checksum(s.short)
              THEN acc.lfn ELSE s.short]

\* One slot of a directory.  "stop" is where the walk over the clusters ended.
ScanSlot(acc, s) ==
    IF acc.done THEN acc
    ELSE CASE s.kind = "stop"    -> [acc EXCEPT !.done = TRUE, !.rc = s.rc]
           [] s.kind = "end"     -> [acc EXCEPT !.done = TRUE, !.rc = "NOENT"]
           [] s.kind = "deleted" -> Forget(acc)
           [] s.kind = "long"    -> Prepend(acc, s)
           [] s.kind = "label"   -> acc
           [] s.kind = "entry"   -> Forget([acc EXCEPT !.entries = Append(@, EntryOf(acc, s))])

\* The slots the walk over the clusters of a directory passes, and how it ends.
DirectorySlots(first) ==
    LET limit == vol.cluster_count
        nth   == Nth(first, limit)
        end   == Min({k \in 0 .. limit :
                        k = limit \/ ~InChain(nth[k]) \/ read_cluster(nth[k]) # "OK"})
        rc    == IF ~InChain(nth[end]) THEN "NOENT"
                 ELSE IF end = limit THEN "FS_CORRUPT"
                 ELSE read_cluster(nth[end])
    IN FlattenSeq([k \in 1 .. end |-> disk.slots[nth[k - 1]]])
         \o <<[kind |-> "stop", rc |-> rc]>>

\* What the calls for index 0, 1, ... return: a scan for one index passes the
\* slots of the ones before it as their own scans do, so that one scan stands
\* for all.  After the entries comes what ended the scan.
fat32_readdir(first) ==
    IF vol.bytes_per_cluster > BufferSize THEN [rc |-> "NOTSUP", entries |-> <<>>]
    ELSE LET scan == Loop(ScanSlot, Scanning, DirectorySlots(first))
         IN [rc |-> scan.rc, entries |-> scan.entries]

----------------------------------------------------------------------------
(* Paths *)

Upper(name) == [k \in DOMAIN name |-> IF name[k] \in 97 .. 122 THEN name[k] - 32 ELSE name[k]]

SameName(a, b) == Upper(a) = Upper(b)

\* The first entry with the name, or what ended the directory.
FirstNamed(answer, name) ==
    LET hits == {i \in DOMAIN answer.entries : SameName(answer.entries[i].name, name)}
    IN IF hits = {} THEN [rc |-> answer.rc]
       ELSE [rc |-> "OK", entry |-> answer.entries[Min(hits)]]

RootEntry == [first_cluster |-> vol.root, size |-> 0, is_directory |-> TRUE, name |-> <<47>>]

\* Component k of a path, looked for in what the components before it led to.
Component(path, acc, k) ==
    IF acc.rc # "OK" THEN acc
    ELSE IF ~acc.entry.is_directory THEN [rc |-> "NOTDIR"]
    ELSE IF k - 1 > MaxDepth THEN [rc |-> "INVAL"]
    ELSE FirstNamed(fat32_readdir(acc.entry.first_cluster), path[k])

Lookup(path) ==
    Loop(LAMBDA acc, k : Component(path, acc, k),
         [rc |-> "OK", entry |-> RootEntry], [k \in 1 .. Len(path) |-> k])

fat32_lookup(path) ==
    /\ vol.mounted
    /\ last' = [op |-> "lookup", path |-> path, res |-> Lookup(path)]
    /\ UNCHANGED <<disk, bad, table, vol, files, got>>

----------------------------------------------------------------------------
(* Files *)

FreeHandles == {h \in Handles : ~files[h].in_use}

OpenOf(hit) ==
    IF hit.rc # "OK" THEN [rc |-> hit.rc]
    ELSE IF hit.entry.is_directory THEN [rc |-> "ISDIR"]
    ELSE IF FreeHandles = {} THEN [rc |-> "TOOMANY"]
    ELSE [rc |-> "OK", handle |-> Min(FreeHandles), entry |-> hit.entry]

fat32_open(path) ==
    /\ vol.mounted
    /\ \E res \in {OpenOf(Lookup(path))} :
         /\ IF res.rc = "OK"
            THEN /\ files' = [files EXCEPT ![res.handle] =
                                [in_use |-> TRUE, entry |-> res.entry, offset |-> 0]]
                 /\ got' = [got EXCEPT ![res.handle] = <<>>]
            ELSE UNCHANGED <<files, got>>
         /\ last' = [op |-> "open", rc |-> res.rc]
    /\ UNCHANGED <<disk, bad, table, vol>>

Take_KeepsWithin(bytes, acc, guard) ==
    LET c     == acc.cluster
        take  == Min({bytes - Len(acc.data), vol.bytes_per_cluster - acc.within})
        data  == acc.data \o [i \in 1 .. take |-> <<c, acc.within + i>>]
    IN IF acc.rc # "OK" \/ Len(acc.data) >= bytes THEN acc
       ELSE IF ~InChain(c) \/ guard > vol.cluster_count THEN [acc EXCEPT !.rc = "FS_CORRUPT"]
       ELSE IF read_cluster(c) # "OK" THEN [acc EXCEPT !.rc = read_cluster(c)]
       ELSE [acc EXCEPT !.data = data,
             !.cluster = IF Len(data) < bytes THEN fat_next_cluster(c) ELSE c]

\* One turn of the loop of fat32_read: the guard-th cluster.
Take(bytes, acc, guard) ==
    LET c     == acc.cluster
        take  == Min({bytes - Len(acc.data), vol.bytes_per_cluster - acc.within})
        data  == acc.data \o [i \in 1 .. take |-> <<c, acc.within + i>>]
    IN IF acc.rc # "OK" \/ Len(acc.data) >= bytes THEN acc
       ELSE IF ~InChain(c) \/ guard > vol.cluster_count THEN [acc EXCEPT !.rc = "FS_CORRUPT"]
       ELSE IF read_cluster(c) # "OK" THEN [acc EXCEPT !.rc = read_cluster(c)]
       ELSE [rc |-> "OK", data |-> data, within |-> 0,
             cluster |-> IF Len(data) < bytes THEN fat_next_cluster(c) ELSE c]

\* The clusters before the read position are passed without being read.
ReadOf(entry, offset, asked) ==
    LET bytes == Min({asked, entry.size - offset})
        skip  == offset \div vol.bytes_per_cluster
        nth   == Nth(entry.first_cluster, skip)
    IN IF offset >= entry.size THEN [rc |-> "OK", data |-> <<>>]
       ELSE IF \E k \in 0 .. skip - 1 : ~InChain(nth[k]) THEN [rc |-> "FS_CORRUPT"]
       ELSE Loop(LAMBDA acc, guard : Take(bytes, acc, guard),
                     [rc |-> "OK", data |-> <<>>, cluster |-> nth[skip],
                      within |-> offset % vol.bytes_per_cluster],
                     [k \in 1 .. vol.cluster_count + 1 |-> k])

\* The position moves only when everything asked for was read.
fat32_read(h, asked) ==
    /\ files[h].in_use
    /\ \E res \in {ReadOf(files[h].entry, files[h].offset, asked)} :
         /\ IF res.rc = "OK"
            THEN /\ files' = [files EXCEPT ![h].offset = @ + Len(res.data)]
                 /\ got' = [got EXCEPT ![h] = @ \o res.data]
            ELSE UNCHANGED <<files, got>>
         /\ last' = [op |-> "read", rc |-> res.rc]
    /\ UNCHANGED <<disk, bad, table, vol>>

fat32_close(h) ==
    /\ files[h].in_use
    /\ files' = [files EXCEPT ![h] = Closed]
    /\ got' = [got EXCEPT ![h] = <<>>]
    /\ last' = [op |-> "close", rc |-> "OK"]
    /\ UNCHANGED <<disk, bad, table, vol>>

\* Looks up, opens, reads and closes; the handle is free again afterwards.
WholeOf(res, size) ==
    IF res.rc # "OK" THEN [rc |-> res.rc]
    ELSE IF Len(res.data) # size THEN [rc |-> "IO"]
    ELSE [rc |-> "OK", data |-> res.data]

ReadFileOf(hit, room) ==
    IF hit.rc # "OK" THEN [rc |-> hit.rc]
    ELSE IF hit.entry.is_directory THEN [rc |-> "ISDIR"]
    ELSE IF hit.entry.size > room THEN [rc |-> "OVERFLOW"]
    ELSE IF OpenOf(hit).rc # "OK" THEN [rc |-> OpenOf(hit).rc]
    ELSE WholeOf(ReadOf(hit.entry, 0, hit.entry.size), hit.entry.size)

fat32_read_file(path, room) ==
    /\ vol.mounted
    /\ last' = [op |-> "read_file", path |-> path, room |-> room,
                res |-> ReadFileOf(Lookup(path), room)]
    /\ UNCHANGED <<disk, bad, table, vol, files, got>>

----------------------------------------------------------------------------
Init ==
    /\ disk \in Disks
    /\ bad = {}
    /\ table = Unread
    /\ vol = Unmounted
    /\ files = [h \in Handles |-> Closed]
    /\ last = Nothing
    /\ got = [h \in Handles |-> <<>>]

Next ==
    \/ device_fault /\ last' = Nothing /\ UNCHANGED <<vol, files, got>>
    \/ ~vol.mounted /\ partition_table_read /\ last' = Nothing /\ UNCHANGED <<vol, files, got>>
    \/ fat32_mount
    \/ \E path \in Paths : fat32_lookup(path)
    \/ \E path \in Paths : fat32_open(path)
    \/ \E h \in Handles, n \in Requests : fat32_read(h, n)
    \/ \E h \in Handles : fat32_close(h)
    \/ \E path \in Paths, n \in Rooms : fat32_read_file(path, n)

Spec == Init /\ [][Next]_vars
----------------------------------------------------------------------------
(* Properties *)

TypeOK ==
    /\ bad \subseteq Breakable
    /\ vol.mounted \in BOOLEAN
    /\ \A h \in Handles : files[h].in_use =>
         /\ ~files[h].entry.is_directory
         /\ files[h].offset \in 0 .. files[h].entry.size

\* The data begin inside the partition.
Fits == vol.data_start <= vol.part.start_lba + vol.part.sector_count

\* Every sector the file system can address in its data lies in the partition,
\* if the sectors the boot sector counts before it do: the number of clusters
\* is taken from the partition and not from the boot sector.
VolumeInside ==
    (vol.mounted /\ Fits) =>
        \A c \in 2 .. vol.cluster_count + 1 :
            cluster_to_lba(c) + vol.spc <= vol.part.start_lba + vol.part.sector_count

\* A reference for names: the fragments 1, 2, ... stand directly before the
\* entry, each nearer one with the lower number, all with its checksum.
FragmentOf(slots, p, j) ==
    /\ p - j >= 1 /\ slots[p - j].kind = "long"
    /\ slots[p - j].ord = j
    /\ slots[p - j].sum = short_name_checksum(slots[p].short)

Fragments(slots, p) ==
    Max({n \in 0 .. p - 1 : \A j \in 1 .. n : FragmentOf(slots, p, j)})

TrueName(slots, p) ==
    IF Fragments(slots, p) = 0 THEN slots[p].short
    ELSE FlattenSeq([j \in 1 .. Fragments(slots, p) |-> slots[p - j].text])

\* A reference for directories: the clusters that the FAT links, if the links
\* stay in the volume and come to an end, and their slots up to the end mark.
Linked(first) ==
    LET nth[k \in 0 .. vol.cluster_count] ==
            IF k = 0 THEN first
            ELSE LET c == nth[k - 1]
                 IN IF c \in 2 .. vol.cluster_count + 1 THEN disk.fat[c] % Mask ELSE c
    IN nth

Ends(first) == {k \in 0 .. vol.cluster_count : Linked(first)[k] >= EOC}

Listing(first) ==
    LET slots == FlattenSeq([k \in 1 .. Min(Ends(first)) |-> disk.slots[Linked(first)[k - 1]]])
        marks == {p \in DOMAIN slots : slots[p].kind = "end"}
    IN IF marks = {} THEN slots ELSE SubSeq(slots, 1, Min(marks) - 1)

\* A directory no tool has disturbed: its chain is whole, every fragment belongs
\* to an entry, and no name is too long for the reader.
Tidy(first) ==
    /\ Ends(first) # {}
    /\ LET slots == Listing(first) IN
         /\ \A q \in DOMAIN slots : slots[q].kind = "long" =>
               \E p \in DOMAIN slots : /\ slots[p].kind = "entry" /\ p > q
                                       /\ p - q <= Fragments(slots, p)
         /\ \A p \in DOMAIN slots : slots[p].kind = "entry" =>
               Len(TrueName(slots, p)) + 1 < NameMax

\* A reference for paths: step by step the first entry with the name.
Entries(first, name) ==
    LET slots == Listing(first)
    IN {p \in DOMAIN slots : slots[p].kind = "entry" /\ SameName(TrueName(slots, p), name)}

Reached(path) ==
    LET at[k \in 0 .. Len(path)] ==
            IF k = 0 THEN [kind |-> "entry", dir |-> TRUE, first |-> vol.root]
            ELSE LET d == at[k - 1]
                 IN IF d.kind # "entry" THEN d
                    ELSE IF ~d.dir THEN [kind |-> "none"]
                    ELSE IF ~Tidy(d.first) THEN [kind |-> "unclear"]
                    ELSE IF Entries(d.first, path[k]) = {} THEN [kind |-> "none"]
                    ELSE Listing(d.first)[Min(Entries(d.first, path[k]))]
    IN at[Len(path)]

\* While no sector fails, a path leads to the entry that the directories, read
\* by their format, give it, and fails only when they give it none.
LookupExact ==
    (last.op = "lookup" /\ last.path # <<>> /\ Len(last.path) <= MaxDepth /\ bad = {} /\ Fits) =>
        LET e == Reached(last.path) res == last.res
        IN /\ e.kind = "entry" => /\ res.rc = "OK"
                                  /\ res.entry.first_cluster = e.first
                                  /\ res.entry.size = e.size
                                  /\ res.entry.is_directory = e.dir
           /\ e.kind = "none" => res.rc \in {"NOENT", "NOTDIR"}

\* Byte i of a file, where its chain is whole.
ByteOf(entry, i) ==
    LET chain[k \in 0 .. (i - 1) \div vol.bytes_per_cluster] ==
            IF k = 0 THEN entry.first_cluster ELSE disk.fat[chain[k - 1]] % Mask
    IN <<chain[(i - 1) \div vol.bytes_per_cluster], ((i - 1) % vol.bytes_per_cluster) + 1>>

\* What was read through a handle is the file from its beginning to the
\* position, whatever the sizes of the reads, and however many failed; and a file
\* read whole is whole.
ReadsExact ==
    /\ \A h \in Handles : files[h].in_use =>
          /\ Len(got[h]) = files[h].offset
          /\ \A i \in DOMAIN got[h] : got[h][i] = ByteOf(files[h].entry, i)
    /\ (last.op = "read_file" /\ last.res.rc = "OK") =>
          \E hit \in {Lookup(last.path)} :
             /\ Len(last.res.data) = hit.entry.size /\ hit.entry.size <= last.room
             /\ \A i \in DOMAIN last.res.data : last.res.data[i] = ByteOf(hit.entry, i)

\* The partition that is mounted is the right one and holds the whole volume.
VolumeSound == EspFound /\ VolumeInside

\* Handles keep their form, and hand out the bytes of their files.
FilesSound == TypeOK /\ ReadsExact

----------------------------------------------------------------------------
(* What the comments say and the code does not do. *)

\* fs.h: readdir returns AF_ERR_NOENT "past the end".  A sector of the FAT that
\* cannot be read ends the directory too.
NoentIsTrue ==
    (last.op = "lookup" /\ last.path # <<>> /\ last.res.rc = "NOENT") => bad = {}

\* fat32.c: without the checksum "a directory edited by an unaware tool produces
\* a name assembled from somebody else's fragments".  Only the checksum of the
\* last fragment is compared, and fragments left over before it stay in the name;
\* and a name of 255 characters loses its first fragment.
NamesTrue ==
    (vol.mounted /\ bad = {}) =>
        \A c \in {vol.root} : Ends(c) # {} =>
            LET slots == Listing(c)
            IN \A p \in DOMAIN slots : slots[p].kind = "entry" =>
                  \E e \in ToSet(fat32_readdir(c).entries) : e.name = TrueName(slots, p)

\* fat32.c: "a lying BPB cannot make the walker run past the end".  Sectors
\* counted before the data that exceed the partition wrap the difference.
ClustersInside ==
    vol.mounted =>
        \A c \in 2 .. vol.cluster_count + 1 :
            cluster_to_lba(c) + vol.spc <= vol.part.start_lba + vol.part.sector_count

\* fat32.c: "every field the parser will multiply by" is validated.  Sectors of up
\* to 4096 bytes are accepted, and 512 bytes of them are read.
EntryInBuffer ==
    vol.mounted =>
        \A c \in 2 .. vol.cluster_count + 1 : FatOffset(c) + WordSize <= SectorSize
============================================================================
