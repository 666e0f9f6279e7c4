----------------------------- MODULE MCSyscall -----------------------------
EXTENDS Syscall

Ph(type, flags, offset, vaddr, filesz, memsz) ==
    [type |-> type, flags |-> flags, offset |-> offset, vaddr |-> vaddr,
     filesz |-> filesz, memsz |-> memsz]

MCHeader(segments) ==
    [dir |-> FALSE, size |-> 6, magic |-> TRUE, class |-> 64, little |-> TRUE,
     type |-> "EXEC", machine |-> "x86_64", phnum |-> Len(segments), phentsize |-> 1,
     phoff |-> 2, entry |-> 9, segments |-> segments]

Text == Ph("LOAD", {"r", "x"}, 2, 9, 2, 2)
Good == MCHeader(<<Text>>)

\* Headers that say something else in one place.
MCHeaders ==
    {[Good EXCEPT !.dir = TRUE], [Good EXCEPT !.size = 0], [Good EXCEPT !.size = 1],
     [Good EXCEPT !.size = 9], [Good EXCEPT !.magic = FALSE], [Good EXCEPT !.class = 32],
     [Good EXCEPT !.little = FALSE], [Good EXCEPT !.type = "REL"],
     [Good EXCEPT !.machine = "other"], [Good EXCEPT !.phentsize = 2],
     [Good EXCEPT !.phoff = 6], [Good EXCEPT !.phoff = 31], [Good EXCEPT !.type = "DYN"],
     MCHeader(<<>>)}

\* One segment anywhere, of any size, wrapping sums included.
MCSegments ==
    {Ph("LOAD", {"r", "w"}, o, v, f, m) :
        o \in {1, 3, 5, 8}, v \in {2, 6, 8, 11, 14, 23, 25, 31},
        f \in {0, 1, 3, 5, 31}, m \in {0, 1, 3, 4, 5, 29, 30, 31}}

\* The segment alone, after another one, and after a header that is skipped.
MCFiles ==
    MCHeaders \cup {MCHeader(<<ph>>) : ph \in MCSegments}
              \cup {MCHeader(<<Ph("NOTE", {"r"}, 1, 9, 1, 1), Text, ph>>) :
                        ph \in {p \in MCSegments : p.offset = 3 /\ p.memsz <= 5}}

MCFrameCounts == {1, 3, 4, 5, 6, 7, 8, 9, 12}
MCLengths == {0, 1, 2, 3, 31}
MCBuffers == 0 .. 31
MCIdentity == {0, 1}
MCStack == {6, 7}
============================================================================
