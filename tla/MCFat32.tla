------------------------------ MODULE MCFat32 ------------------------------
(* Disks of eleven sectors: the partition begins at sector 3 with a boot   *)
(* sector and a FAT of two sectors, and holds five clusters of one sector. *)
EXTENDS Fat32

Long(ord, text, short) ==
    [kind |-> "long", ord |-> ord, text |-> text, sum |-> short_name_checksum(short)]
File(short, first, size) ==
    [kind |-> "entry", short |-> short, dir |-> FALSE, first |-> first, size |-> size]
Dir(short, first) ==
    [kind |-> "entry", short |-> short, dir |-> TRUE, first |-> first, size |-> 0]
End == [kind |-> "end"]
Deleted == [kind |-> "deleted"]
Label == [kind |-> "label"]

AbcLong == <<97, 98, 67>>
AbShort == <<65, 126>>
SubDir  == <<68>>
Other   == <<88>>

\* The root is cluster 2, continued in 3; the file abC begins at 4 and goes on
\* at 6; the directory D is cluster 5.
Roots == {
    <<Long(2, <<67>>, AbShort), Long(1, <<97, 98>>, AbShort), File(AbShort, 4, 6), Dir(SubDir, 5)>>,
    <<Label, Deleted, File(AbShort, 4, 4), Dir(SubDir, 5)>>,
    <<Long(1, <<97>>, Other), Long(1, <<98>>, AbShort), File(AbShort, 4, 5), Dir(SubDir, 5)>>}

Slots(root) ==
    [c \in 2 .. 6 |->
        CASE c = 2 -> root
          [] c = 3 -> <<File(Other, 6, 2), End, Deleted, Deleted>>
          [] c = 5 -> <<Dir(<<46>>, 5), Dir(<<46, 46>>, 0), Long(1, <<97, 98>>, Other), File(Other, 6, 3)>>
          [] OTHER -> <<End, End, End, End>>]

\* Links of the root and of the file: in the volume with and without the
\* reserved bits, out of it, and back to where they come from.
Fat(a, b, d) == [c \in 0 .. 15 |-> CASE c = 2 -> a [] c = 4 -> b [] c = 5 -> d
                                      [] c \in {3, 6} -> 15 [] OTHER -> 2]

Esp(from, to)  == [type |-> "esp", first |-> from, last |-> to]
Data(from, to) == [type |-> "data", first |-> from, last |-> to]

Bpb == [signature |-> TRUE, bps |-> 4, spc |-> 1, reserved |-> 1,
              num_fats |-> 1, fat_sectors |-> 2, root |-> 2]

Whole(fat, root) ==
    [mbr |-> TRUE, gpt |-> TRUE, entries_lba |-> 2, entry_size |-> 2, entry_count |-> 8,
     entries |-> <<NoEntry, Esp(3, 10)>>, bpb |-> Bpb, fat |-> fat, slots |-> Slots(root)]

GoodRoot == CHOOSE r \in Roots : r[1].kind = "long" /\ r[1].ord = 2
Good     == Whole(Fat(3, 6, 14), GoodRoot)

\* Partition tables: without a signature, with entries too small, several to a
\* sector or one, more than are kept, an ESP that ends before it begins.
Tables == {
    [Good EXCEPT !.mbr = FALSE], [Good EXCEPT !.gpt = FALSE], [Good EXCEPT !.entry_size = 1],
    [Good EXCEPT !.entries_lba = 255], [Good EXCEPT !.entry_count = 1],
    [Good EXCEPT !.entry_size = 4], [Good EXCEPT !.entry_size = 3],
    [Good EXCEPT !.entries = <<NoEntry, NoEntry, Data(0, 1), Esp(3, 10)>>, !.entries_lba = 1],
    [Good EXCEPT !.entries = <<Esp(3, 10), Data(5, 6), Esp(4, 4)>>],
    [Good EXCEPT !.entries = <<Data(3, 3), Data(5, 6), Esp(3, 10)>>],
    [Good EXCEPT !.entries = <<Esp(3, 1)>>],
    [Good EXCEPT !.entries = <<NoEntry, NoEntry, NoEntry, NoEntry, Esp(3, 10)>>]}

BootSectors == {
    [Good EXCEPT !.bpb.signature = FALSE], [Good EXCEPT !.bpb.bps = 6], [Good EXCEPT !.bpb.reserved = 0],
    [Good EXCEPT !.bpb.num_fats = 5], [Good EXCEPT !.bpb.fat_sectors = 0],
    [Good EXCEPT !.bpb.root = 1], [Good EXCEPT !.bpb.root = 9], [Good EXCEPT !.bpb.spc = 3],
    [Good EXCEPT !.bpb.spc = 128], [Good EXCEPT !.bpb.fat_sectors = 3], [Good EXCEPT !.bpb.fat_sectors = 9],
    [Good EXCEPT !.bpb.fat_sectors = 1, !.bpb.num_fats = 2]}

MCDisks ==
    {Whole(Fat(a, b, 14), GoodRoot) : a \in {3, 31, 9, 2}, b \in {6, 22, 4, 9}}
      \cup {Whole(Fat(3, 6, d), r) : d \in {5, 14}, r \in Roots} \cup Tables \cup BootSectors

MCPaths == {<<>>, <<<<65, 66, 67>>>>, <<<<120>>>>, <<SubDir, <<88>>>>,
            <<SubDir, <<97, 98>>>>, <<AbShort, <<88>>>>}
============================================================================
