----------------------------- MODULE BootProofs -----------------------------
(***************************************************************************)
(* Boot, for every machine, every number of changes of the firmware's map  *)
(* and every number of attempts to leave it: the kernel accepts only the   *)
(* structure the bridge built for this machine, hands out only frames the  *)
(* firmware has given up, and keeps its metadata in such frames.           *)
(*                                                                         *)
(* The map is rewritten by loops over its descriptors (FlattenSeq), so the *)
(* proofs need induction over the natural numbers.  It is had from the     *)
(* least element of a set of counterexamples.                              *)
(***************************************************************************)
EXTENDS Boot, SequenceTheorems, FiniteSetTheorems, WellFoundedInduction, TLAPS

----------------------------------------------------------------------------
(* Natural numbers and sequences.                                          *)

\* A set of natural numbers that is not empty has a least element: the lowest
\* free frame that alloc_table takes exists.
LEMMA LeastNatural ==
    ASSUME NEW T, T \subseteq Nat, T # {}
    PROVE  \E x \in T : \A y \in T : x <= y
<1> DEFINE R == OpToRel(<, Nat)
<1>1. IsWellFoundedOn(R, Nat)
    BY NatLessThanWellFounded
<1>2. \E x \in T : \A y \in T : ~(<<y, x>> \in R)
    BY ONLY <1>1, T \subseteq Nat, T # {}, WFMin
<1>3. \A x, y \in Nat : <<y, x>> \in R <=> y < x
    BY DEF OpToRel
<1> HIDE DEF R
<1>4. PICK x \in T : \A y \in T : ~(<<y, x>> \in R)
    BY <1>2
<1>5. \A y \in T : x <= y
    <2> TAKE y \in T
    <2>1. x \in Nat /\ y \in Nat /\ ~(y < x)
        BY <1>3, <1>4
    <2> QED BY <2>1
<1> QED BY <1>5

\* Induction: a set of natural numbers with 0 and every successor is Nat.
LEMMA InductionOnNat ==
    ASSUME NEW S, 0 \in S, \A n \in Nat : n \in S => n + 1 \in S
    PROVE  \A n \in Nat : n \in S
<1> SUFFICES ASSUME ~(\A n \in Nat : n \in S) PROVE FALSE
    OBVIOUS
<1> DEFINE T == Nat \ S
<1>1. T \subseteq Nat /\ T # {}
    OBVIOUS
<1> HIDE DEF T
<1>2. PICK n \in T : \A m \in T : n <= m
    BY <1>1, LeastNatural
<1>3. n \in Nat /\ n \notin S /\ \A m \in Nat : m \notin S => n <= m
    BY <1>2 DEF T
<1>4. n # 0 /\ n - 1 \in Nat
    BY <1>3
<1>5. n - 1 \in S
    BY <1>3, <1>4
<1> QED BY <1>3, <1>4, <1>5

\* The function FlattenSeq computes with exists: its loop is defined for every
\* number of sequences.
LEMMA FlattenExists ==
    ASSUME NEW seqs, NEW n \in Nat
    PROVE  \E g : g = [i \in 1 .. n |-> IF i = 1 THEN seqs[i] ELSE g[i - 1] \o seqs[i]]
<1> DEFINE S == {k \in Nat : \E g : g = [i \in 1 .. k |-> IF i = 1 THEN seqs[i] ELSE g[i - 1] \o seqs[i]]}
<1>1. 0 \in S
    <2>1. <<>> = [i \in 1 .. 0 |-> IF i = 1 THEN seqs[i] ELSE <<>>[i - 1] \o seqs[i]]
        OBVIOUS
    <2> QED BY <2>1
<1>2. \A k \in Nat : k \in S => k + 1 \in S
    <2> SUFFICES ASSUME NEW k \in Nat, k \in S PROVE k + 1 \in S
        OBVIOUS
    <2>1. PICK g : g = [i \in 1 .. k |-> IF i = 1 THEN seqs[i] ELSE g[i - 1] \o seqs[i]]
        OBVIOUS
    <2>2. PICK h : h = [i \in 1 .. k + 1 |-> IF i <= k THEN g[i]
                                             ELSE IF i = 1 THEN seqs[i] ELSE g[i - 1] \o seqs[i]]
        OBVIOUS
    <2>3. \A i \in 1 .. k : h[i] = g[i]
        BY <2>2
    <2>4. \A i \in 1 .. k + 1 : h[i] = IF i = 1 THEN seqs[i] ELSE h[i - 1] \o seqs[i]
        <3> TAKE i \in 1 .. k + 1
        <3>1. CASE i = 1
            BY <3>1, <2>1, <2>2
        <3>2. CASE i # 1 /\ i <= k
            <4>1. i \in 1 .. k /\ i - 1 \in 1 .. k
                BY <3>2
            <4>2. g[i] = g[i - 1] \o seqs[i]
                BY <4>1, <3>2, <2>1
            <4> QED BY <4>1, <4>2, <3>2, <2>3
        <3>3. CASE i # 1 /\ i = k + 1
            <4>1. h[i] = g[i - 1] \o seqs[i] /\ i - 1 \in 1 .. k
                <5>1. i - 1 \in 1 .. k /\ ~(i <= k)
                    BY <3>3
                <5> QED BY <5>1, <3>3, <2>2
            <4> QED BY <4>1, <3>3, <2>3
        <3> QED BY <3>1, <3>2, <3>3
    <2>5. h = [i \in 1 .. k + 1 |-> IF i = 1 THEN seqs[i] ELSE h[i - 1] \o seqs[i]]
        BY <2>2, <2>4
    <2>6. \E f : f = [i \in 1 .. k + 1 |-> IF i = 1 THEN seqs[i] ELSE f[i - 1] \o seqs[i]]
        BY <2>5
    <2>7. k + 1 \in Nat
        OBVIOUS
    <2> QED BY ONLY <2>6, <2>7
<1> HIDE DEF S
<1>3. n \in S
    BY <1>1, <1>2, InductionOnNat
<1> QED BY <1>3 DEF S

\* What FlattenSeq returns: a sequence of elements of its parts, and of no other.
LEMMA FlattenElements ==
    ASSUME NEW S, NEW seqs \in Seq(Seq(S))
    PROVE  FlattenSeq(seqs) \in Seq(S)
<1> DEFINE n == Len(seqs)
           Flat == CHOOSE g : g = [i \in 1 .. n |-> IF i = 1 THEN seqs[i] ELSE g[i - 1] \o seqs[i]]
<1>1. n \in Nat
    OBVIOUS
<1>2. Flat = [i \in 1 .. n |-> IF i = 1 THEN seqs[i] ELSE Flat[i - 1] \o seqs[i]]
    BY <1>1, FlattenExists
<1>3. FlattenSeq(seqs) = IF n = 0 THEN seqs ELSE Flat[n]
    BY DEF FlattenSeq
<1> HIDE DEF Flat
<1> DEFINE T == {k \in Nat : k \in 1 .. n => Flat[k] \in Seq(S)}
<1>4. 0 \in T
    OBVIOUS
<1>5. \A k \in Nat : k \in T => k + 1 \in T
    <2> SUFFICES ASSUME NEW k \in Nat, k \in 1 .. n => Flat[k] \in Seq(S), k + 1 \in 1 .. n
                 PROVE  Flat[k + 1] \in Seq(S)
        <3>1. \A k \in Nat : k + 1 \in Nat
            OBVIOUS
        <3> QED BY <3>1, Zenon
    <2>1. seqs[k + 1] \in Seq(S)
        BY <1>1
    <2>2. CASE k = 0
        BY <2>1, <2>2, <1>2
    <2>3. CASE k # 0
        <3>1. k \in 1 .. n /\ Flat[k] \in Seq(S)
            BY <2>3, <1>1
        <3>2. Flat[k + 1] = Flat[k] \o seqs[k + 1]
            <4>1. Flat[k + 1] = IF k + 1 = 1 THEN seqs[k + 1] ELSE Flat[(k + 1) - 1] \o seqs[k + 1]
                BY ONLY <1>2, k + 1 \in 1 .. n
            <4>2. (k + 1) - 1 = k /\ k + 1 # 1
                BY <2>3
            <4> QED BY ONLY <4>1, <4>2
        <3> QED BY <3>1, <3>2, <2>1
    <2> QED BY <2>2, <2>3
<1> HIDE DEF T
<1>6. n \in T
    BY <1>1, <1>4, <1>5, InductionOnNat
<1>7. CASE n = 0
    <2>1. FlattenSeq(seqs) = <<>>
        BY <1>3, <1>7
    <2> QED BY <2>1
<1>8. CASE n # 0
    BY <1>1, <1>3, <1>6, <1>8 DEF T
<1> QED BY <1>7, <1>8
\* A finite set of natural numbers that is not empty has a greatest element.
LEMMA GreatestNatural ==
    ASSUME NEW T, IsFiniteSet(T), T \subseteq Nat, T # {}
    PROVE  \E x \in T : \A y \in T : y <= x
<1>0. \A n \in Nat : n + 1 \in Nat
    OBVIOUS
<1> DEFINE P(U) == U # {} => \E x \in U : \A y \in U : y <= x
           S == {n \in Nat : \A U : IsFiniteSet(U) /\ U \subseteq Nat /\ Cardinality(U) = n => P(U)}
<1>1. 0 \in S
    <2> SUFFICES ASSUME NEW U, IsFiniteSet(U), Cardinality(U) = 0 PROVE P(U)
        OBVIOUS
    <2> QED BY FS_EmptySet
<1>2. \A n \in Nat : n \in S => n + 1 \in S
    <2> SUFFICES ASSUME NEW n \in Nat, n \in S,
                        NEW U, IsFiniteSet(U), U \subseteq Nat, Cardinality(U) = n + 1, U # {}
                 PROVE  \E x \in U : \A y \in U : y <= x
        BY <1>0, Zenon
    <2>1. PICK u \in U : TRUE
        OBVIOUS
    <2> DEFINE V == U \ {u}
    <2>2. IsFiniteSet(V) /\ Cardinality(V) = n /\ V \subseteq Nat
        <3>1. IsFiniteSet(V) /\ Cardinality(V) = Cardinality(U) - 1
            BY <2>1, FS_RemoveElement
        <3> QED BY <3>1
    <2>3. P(V)
        BY <2>2
    <2>4. CASE V = {}
        BY <2>1, <2>4
    <2>5. CASE V # {}
        <3>1. PICK x \in V : \A y \in V : y <= x
            BY <2>3, <2>5
        <3>2. x \in Nat /\ u \in Nat /\ x \in U
            BY <2>1, <3>1
        <3>3. CASE u <= x
            BY <3>1, <3>2, <3>3
        <3>4. CASE ~(u <= x)
            <4>1. \A y \in U : y <= u
                BY <3>1, <3>2, <3>4
            <4> QED BY <4>1, <2>1
        <3> QED BY <3>3, <3>4
    <2> QED BY <2>4, <2>5
<1>3. Cardinality(T) \in Nat
    BY FS_CardinalityType
<1>4. Cardinality(T) \in S
    <2> HIDE DEF S
    <2> QED BY <1>1, <1>2, <1>3, InductionOnNat
<1> QED BY <1>4

----------------------------------------------------------------------------
(* The map and the regions.                                                *)

RegionType == {"USABLE", "BOOTLOADER", "RUNTIME", "RESERVED", "FRAMEBUFFER"}
RegionRecord == [base : Nat, length : Nat, type : RegionType]

\* Every region of the structure is a descriptor of the map, its type
\* translated.
LEMMA NormalisedElements ==
    ASSUME NEW map \in Seq(Descriptor)
    PROVE  /\ Normalised(map) \in Seq(RegionRecord)
           /\ \A i \in 1 .. Len(Normalised(map)) :
                 \E k \in 1 .. Len(map) : Normalised(map)[i] = Region(map[k])
<1> DEFINE T == {Region(map[k]) : k \in 1 .. Len(map)}
           parts == [i \in 1 .. Len(map) |-> IF map[i].pages = 0 THEN <<>> ELSE <<Region(map[i])>>]
<1>1. parts \in Seq(Seq(T))
    <2>1. \A i \in 1 .. Len(map) : parts[i] \in Seq(T)
        <3> TAKE i \in 1 .. Len(map)
        <3>1. Region(map[i]) \in T
            OBVIOUS
        <3> HIDE DEF T
        <3> QED BY <3>1
    <2> HIDE DEF T
    <2> QED BY <2>1
<1>2. Normalised(map) \in Seq(T)
    <2> HIDE DEF T
    <2>1. FlattenSeq(parts) \in Seq(T)
        BY <1>1, FlattenElements
    <2> QED BY <2>1 DEF Normalised
<1>3. T \subseteq RegionRecord
    <2> SUFFICES ASSUME NEW k \in 1 .. Len(map) PROVE Region(map[k]) \in RegionRecord
        OBVIOUS
    <2>1. map[k] \in Descriptor
        OBVIOUS
    <2>2. MemoryType(map[k].type) \in RegionType
        BY DEF MemoryType, RegionType
    <2> QED BY <2>1, <2>2 DEF Region, Descriptor, RegionRecord
<1>4. \A i \in 1 .. Len(Normalised(map)) : Normalised(map)[i] \in T
    <2> HIDE DEF T
    <2> QED BY <1>2
<1>5. Normalised(map) \in Seq(RegionRecord)
    <2> HIDE DEF T
    <2> QED BY <1>2, <1>3
<1> QED BY <1>4, <1>5

\* Free memory that the copy lies in has no room for the metadata, or begins at
\* the null page: what a machine says of low memory.
Modest ==
    {d \in Descriptor :
        d.type = "Conventional" /\ BackupFrame \in Range2(d.base, d.pages) =>
            d.pages < MetaFrames + MetaSpare \/ d.base = 0}

\* A machine, whatever has become of its map.
Machine == [map : Seq(Modest), gop : Seq(Mode), loads : BOOLEAN, file : 1 .. KernelPages]

\* Its map is one of descriptors.
LEMMA MachineMap ==
    ASSUME fw \in Machine
    PROVE  fw.map \in Seq(Modest) /\ fw.map \in Seq(Descriptor)
<1>1. fw.map \in Seq(Modest)
    BY DEF Machine
<1>2. Modest \subseteq Descriptor
    BY DEF Modest
<1> QED BY <1>1, <1>2

\* Split and Claimed keep the map one of such descriptors.
LEMMA SplitType ==
    ASSUME NEW i \in 1 .. Len(fw.map), NEW type \in EfiMemoryType, type # "Conventional",
           fw.map \in Seq(Modest), fw.map[i].pages > 0
    PROVE  Split(i, type) \in Seq(Modest)
<1> DEFINE d == fw.map[i]
           a == [d EXCEPT !.pages = @ - 1]
           b == [base |-> d.base + d.pages - 1, pages |-> 1, type |-> type]
<1>1. d \in Modest /\ d \in Descriptor
    BY DEF Modest
<1>2. a \in Modest /\ b \in Modest
    <2>1. d.base \in Nat /\ d.pages \in Nat /\ d.pages > 0
        BY <1>1 DEF Descriptor
    <2> HIDE DEF d
    <2>2. d.pages - 1 \in Nat /\ d.base + d.pages - 1 \in Nat
        BY ONLY <2>1
    <2>3. a \in Descriptor /\ a.base = d.base /\ a.type = d.type /\ a.pages = d.pages - 1
        BY <1>1, <2>2 DEF Descriptor
    <2>4. b \in Descriptor /\ b.type # "Conventional"
        BY <2>2 DEF Descriptor
    <2> HIDE DEF a, b
    <2>5. BackupFrame \in Nat /\ MetaFrames + MetaSpare \in Nat
        BY BootAssumption
    <2>6. BackupFrame \in Range2(a.base, a.pages) => BackupFrame \in Range2(d.base, d.pages)
        BY ONLY <2>1, <2>3, <2>5 DEF Range2
    <2>7. d.pages < MetaFrames + MetaSpare => a.pages < MetaFrames + MetaSpare
        BY ONLY <2>1, <2>3, <2>5
    <2> QED BY <1>1, <2>3, <2>4, <2>6, <2>7 DEF Modest
<1>3. SubSeq(fw.map, 1, i - 1) \in Seq(Modest) /\ SubSeq(fw.map, i + 1, Len(fw.map)) \in Seq(Modest)
    OBVIOUS
<1>4. <<a, b>> \in Seq(Modest)
    <2> HIDE DEF a, b
    <2> QED BY <1>2
<1>5. Split(i, type) = SubSeq(fw.map, 1, i - 1) \o <<a, b>> \o SubSeq(fw.map, i + 1, Len(fw.map))
    BY DEF Split
<1> HIDE DEF a, b
<1> QED BY <1>3, <1>4, <1>5

\* A part of a descriptor is one too, or nothing, unless free memory of it now
\* begins elsewhere and the copy is in it.
LEMMA PieceType ==
    ASSUME NEW base \in Nat, NEW pages \in Int, NEW type \in EfiMemoryType,
           type = "Conventional" /\ BackupFrame \in Range2(base, pages) =>
               pages < MetaFrames + MetaSpare \/ base = 0
    PROVE  Piece(base, pages, type) \in Seq(Modest)
<1>1. CASE pages > 0
    <2>1. [base |-> base, pages |-> pages, type |-> type] \in Modest
        BY <1>1 DEF Descriptor, Modest
    <2> QED BY <1>1, <2>1 DEF Piece
<1>2. CASE ~(pages > 0)
    BY <1>2 DEF Piece
<1> QED BY <1>1, <1>2

\* So are the parts that AllocatePages cuts one into for frames above the copy.
LEMMA CutType ==
    ASSUME NEW d \in Modest, NEW frames, frames \subseteq {f \in Nat : BackupFrame < f}
    PROVE  Cut(d, frames) \in Seq(Modest)
<1> DEFINE in == frames \cap Range2(d.base, d.pages)
           low  == CHOOSE f \in in : \A g \in in : f <= g
           high == low + Cardinality(in)
<1>1. CASE d.type # "Conventional" \/ in = {}
    <2>1. Cut(d, frames) = <<d>>
        BY <1>1 DEF Cut
    <2> QED BY <2>1
<1>2. CASE ~(d.type # "Conventional" \/ in = {})
    <2>1. d.base \in Nat /\ d.pages \in Nat /\ d.type \in EfiMemoryType
        BY DEF Modest, Descriptor
    <2>2. in \subseteq Nat /\ in # {}
        BY <1>2
    <2>3. low \in in
        <3> HIDE DEF in
        <3>1. \E f \in in : \A g \in in : f <= g
            BY <2>2, LeastNatural
        <3> QED BY <3>1
    <2>4. Cardinality(in) \in Nat
        <3>1. IsFiniteSet(Range2(d.base, d.pages))
            <4>1. d.base \in Int /\ d.base + d.pages - 1 \in Int
                BY <2>1
            <4>2. IsFiniteSet(d.base .. d.base + d.pages - 1)
                BY ONLY <4>1, FS_Interval
            <4> QED BY <4>2 DEF Range2
        <3>2. IsFiniteSet(in)
            BY <3>1, FS_Subset
        <3> HIDE DEF in
        <3> QED BY <3>2, FS_CardinalityType
    <2>5. low \in Nat /\ high \in Nat
        BY <2>2, <2>3, <2>4
    <2>8. low \in Range2(d.base, d.pages) /\ BackupFrame < low /\ low <= high
        BY <2>3, <2>4, <2>5
    <2>6. Cut(d, frames) = Piece(d.base, low - d.base, d.type)
                              \o Piece(low, Cardinality(in), "LoaderData")
                              \o Piece(high, d.base + d.pages - high, d.type)
        BY <1>2 DEF Cut
    <2> HIDE DEF low, high, in
    <2>7. /\ Piece(d.base, low - d.base, d.type) \in Seq(Modest)
          /\ Piece(low, Cardinality(in), "LoaderData") \in Seq(Modest)
          /\ Piece(high, d.base + d.pages - high, d.type) \in Seq(Modest)
        <3>1. low - d.base \in Int /\ Cardinality(in) \in Int /\ d.base + d.pages - high \in Int
            BY <2>1, <2>4, <2>5
        <3>2. Piece(d.base, low - d.base, d.type) \in Seq(Modest)
            <4>1. BackupFrame \in Nat /\ MetaFrames + MetaSpare \in Nat
                BY BootAssumption
            <4>2. /\ BackupFrame \in Range2(d.base, low - d.base) => BackupFrame \in Range2(d.base, d.pages)
                  /\ d.pages < MetaFrames + MetaSpare => low - d.base < MetaFrames + MetaSpare
                BY ONLY <2>1, <2>5, <2>8, <4>1 DEF Range2
            <4>3. d.type = "Conventional" /\ BackupFrame \in Range2(d.base, d.pages) =>
                      d.pages < MetaFrames + MetaSpare \/ d.base = 0
                BY DEF Modest
            <4> QED BY <2>1, <3>1, <4>2, <4>3, PieceType
        <3>3. Piece(low, Cardinality(in), "LoaderData") \in Seq(Modest)
            BY <2>5, <3>1, PieceType DEF EfiMemoryType
        <3>4. Piece(high, d.base + d.pages - high, d.type) \in Seq(Modest)
            <4>1. BackupFrame \in Nat
                BY BootAssumption
            <4>2. BackupFrame \notin Range2(high, d.base + d.pages - high)
                BY ONLY <2>1, <2>5, <2>8, <3>1, <4>1 DEF Range2
            <4> QED BY <2>1, <2>5, <3>1, <4>2, PieceType
        <3> QED BY <3>2, <3>3, <3>4
    <2> QED BY <2>6, <2>7
<1> QED BY <1>1, <1>2

\* The map after AllocatePages is a map.
LEMMA ClaimedType ==
    ASSUME NEW map \in Seq(Modest), fw \in Machine
    PROVE  Claimed(map, File) \in Seq(Modest)
<1> DEFINE parts == [i \in 1 .. Len(map) |-> Cut(map[i], File)]
<1>1. File \subseteq {f \in Nat : BackupFrame < f}
    <2>1. KernelBase \in Nat /\ fw.file \in Nat /\ BackupFrame \in Nat /\ BackupFrame < KernelBase
        BY BootAssumption DEF Machine
    <2> QED BY ONLY <2>1 DEF File, Range2
<1>2. \A i \in 1 .. Len(map) : Cut(map[i], File) \in Seq(Modest)
    <2> TAKE i \in 1 .. Len(map)
    <2>1. map[i] \in Modest
        OBVIOUS
    <2> QED BY <1>1, <2>1, CutType
<1>3. parts \in Seq(Seq(Modest))
    BY <1>2
<1>4. FlattenSeq(parts) \in Seq(Modest)
    BY <1>3, FlattenElements
<1> QED BY <1>4 DEF Claimed
----------------------------------------------------------------------------
(* The inductive invariant.                                                *)

Info == [magic : BOOLEAN, regions : Seq(RegionRecord), fb : Seq(Mode), flag : BOOLEAN, size : Nat]

BeforeKernel == {"start", "gop", "load", "probe", "read", "mark", "exit", "retry", "publish", "jump",
                 "halted_kernel", "halted_map", "halted_exit"}
EarlyKernel  == {"validate", "pmm", "failed", "overwritten"}
PagingOn     == {"root", "identity", "tables", "fb", "running", "panic"}

BootTypes ==
    /\ pc \in BeforeKernel \cup EarlyKernel \cup PagingOn
    /\ fw \in Machine
    /\ key \in Nat /\ map_key \in Nat /\ attempt \in Nat
    /\ info \in Info /\ backup \in Info

\* Every attempt so far was spent on a change of the map: one that came after
\* the map was read.
AttemptsSpent ==
    /\ map_key <= key
    /\ pc \in {"start", "gop", "load", "probe", "read"} => attempt <= key
    /\ pc \in {"mark", "exit"} => attempt <= map_key
    /\ pc = "retry" => attempt <= map_key /\ map_key < key
    /\ pc = "halted_exit" => MaxAttempts <= key

\* The regions in a structure are those of the map, marked with its own screen.
Describes(bi, map) == bi.regions = Marked([bi EXCEPT !.regions = Normalised(map)])

\* As long as the key is that of the map read, the regions are those of the map;
\* and after the firmware is left, the structure and its copy stay so.
RegionsCurrent ==
    /\ pc = "mark" /\ map_key = key => info.regions = Normalised(fw.map)
    /\ pc = "exit" /\ map_key = key => Describes(info, fw.map)
    /\ pc = "publish" => Describes(info, fw.map)
    /\ pc \in {"jump"} \cup EarlyKernel \cup PagingOn => Describes(backup, fw.map)

\* The register leads to the structure, to its copy or to nothing, and until
\* frames are taken the structure is the copy, or it was cleared with .bss.
CopyExact ==
    /\ pc = "jump" => backup = info
    /\ pc = "validate" => info \in {backup, NoInfo} /\ arg \in {"info", "lost"}
    /\ pc = "pmm" => Given(arg) = backup /\ af_boot_info_validate(backup)
    /\ pc = "failed" => \/ ~af_boot_info_validate(backup)
                        \/ MaxUsable(backup) < MinFrames \/ ~MetadataFits(backup)

\* What the allocator may give out was derived from the copy.
FramesDerived ==
    /\ pc \in BeforeKernel \cup EarlyKernel => pmm = [count |-> 0, used |-> {}] /\ taken = {}
    /\ pc \in PagingOn =>
          /\ pmm.used = (0 .. pmm.count - 1) \ (Freed(backup) \ Survivors(backup))
          /\ taken \subseteq (0 .. pmm.count - 1) \ pmm.used

BootInv == BootTypes /\ AttemptsSpent /\ RegionsCurrent /\ CopyExact /\ FramesDerived
----------------------------------------------------------------------------
(* Each step keeps it.                                                     *)

\* The regions stay regions when those under the screen are marked.
LEMMA MarkedType ==
    ASSUME NEW bi \in Info
    PROVE  Marked(bi) \in Seq(RegionRecord)
<1>1. bi.regions \in Seq(RegionRecord)
    BY DEF Info
<1>2. \A i \in 1 .. Len(bi.regions) :
         /\ bi.regions[i] \in RegionRecord
         /\ [bi.regions[i] EXCEPT !.type = "FRAMEBUFFER"] \in RegionRecord
    <2> TAKE i \in 1 .. Len(bi.regions)
    <2>1. bi.regions[i] \in RegionRecord
        BY <1>1
    <2> QED BY <2>1 DEF RegionRecord, RegionType
<1>3. \A i \in 1 .. Len(bi.regions) :
         (LET r == bi.regions[i]
          IN  IF bi.flag /\ r.type = "USABLE" /\ Overlaps(r, Screen(bi))
              THEN [r EXCEPT !.type = "FRAMEBUFFER"] ELSE r) \in RegionRecord
    BY <1>2
<1> QED BY <1>1, <1>3 DEF Marked

\* A structure that was accepted says where usable memory ends.
LEMMA MaxUsableType ==
    ASSUME NEW bi \in Info, af_boot_info_validate(bi)
    PROVE  MaxUsable(bi) \in Nat
<1> DEFINE rs == {x \in ToSet(bi.regions) : Reclaimable(x)}
           ends == {r.base + r.length : r \in rs}
<1>1. bi.regions \in Seq(RegionRecord)
    BY DEF Info
<1>2. ToSet(bi.regions) \subseteq RegionRecord
    BY <1>1 DEF ToSet
<1>3. ends \subseteq Nat
    BY <1>2 DEF RegionRecord
<1>4. ends # {}
    <2>1. PICK r \in ToSet(bi.regions) : r.type = "USABLE"
        BY DEF af_boot_info_validate
    <2>2. r \in rs
        BY <2>1 DEF Reclaimable
    <2> QED BY <2>2
<1>5. IsFiniteSet(ends)
    <2> DEFINE I == {i \in 1 .. Len(bi.regions) : Reclaimable(bi.regions[i])}
               f == [i \in I |-> bi.regions[i].base + bi.regions[i].length]
    <2>1. IsFiniteSet(I)
        <3>1. 1 \in Int /\ Len(bi.regions) \in Int
            BY <1>1
        <3>2. IsFiniteSet(1 .. Len(bi.regions))
            BY ONLY <3>1, FS_Interval
        <3>3. I \subseteq 1 .. Len(bi.regions)
            OBVIOUS
        <3> HIDE DEF I
        <3> QED BY ONLY <3>2, <3>3, FS_Subset
    <2>2. ToSet(bi.regions) = {bi.regions[i] : i \in 1 .. Len(bi.regions)}
        BY <1>1 DEF ToSet
    <2>3. \A t \in ends : \E i \in I : f[i] = t
        <3> TAKE t \in ends
        <3>1. PICK r \in rs : t = r.base + r.length
            OBVIOUS
        <3>2. PICK i \in 1 .. Len(bi.regions) : r = bi.regions[i]
            BY <2>2
        <3>3. i \in I /\ f[i] = t
            BY <3>1, <3>2
        <3> QED BY <3>3
    <2>4. f \in [I -> ends]
        <3> SUFFICES ASSUME NEW i \in I PROVE bi.regions[i].base + bi.regions[i].length \in ends
            OBVIOUS
        <3>1. bi.regions[i] \in rs
            BY <2>2
        <3> QED BY <3>1
    <2> HIDE DEF I, f, ends, rs
    <2>5. f \in Surjection(I, ends)
        BY <2>3, <2>4 DEF Surjection
    <2> QED BY <2>1, <2>5, FS_Surjection
<1> HIDE DEF rs, ends
<1>6. \E e \in ends : \A x \in ends : x <= e
    BY <1>3, <1>4, <1>5, GreatestNatural
<1>7. MaxUsable(bi) = CHOOSE e \in ends : \A x \in ends : x <= e
    BY DEF MaxUsable, ends, rs
<1>8. MaxUsable(bi) \in ends
    BY <1>6, <1>7
<1> QED BY <1>3, <1>8

\* A structure whose regions are replaced is otherwise the same.
LEMMA WithRegions ==
    ASSUME NEW bi \in Info, NEW rs \in Seq(RegionRecord)
    PROVE  /\ [bi EXCEPT !.regions = rs] \in Info
           /\ [bi EXCEPT !.regions = rs].regions = rs
           /\ \A qs : [[bi EXCEPT !.regions = rs] EXCEPT !.regions = qs] = [bi EXCEPT !.regions = qs]
    BY DEF Info

\* Power-on satisfies the invariant.
LEMMA InitBoot == Init => BootInv
<1> SUFFICES ASSUME Init PROVE BootInv
    OBVIOUS
<1>1. fw \in Machine
    <2>1. fw \in Firmwares
        BY DEF Init
    <2>2. fw \in [map : Seq(Descriptor), gop : Seq(Mode), loads : BOOLEAN, file : 1 .. KernelPages]
        BY <2>1, MachineAssumption
    <2>3. \A i \in 1 .. Len(fw.map) : fw.map[i] \in Modest
        <3> TAKE i \in 1 .. Len(fw.map)
        <3>1. fw.map[i] \in ToSet(fw.map) /\ fw.map[i] \in Descriptor
            BY <2>2 DEF ToSet
        <3>2. fw.map[i].type = "Conventional"
                 /\ BackupFrame \in fw.map[i].base .. fw.map[i].base + fw.map[i].pages - 1 =>
                     fw.map[i].pages < MetaFrames + MetaSpare \/ fw.map[i].base = 0
            BY <2>1, <3>1, MachineAssumption
        <3> QED BY <3>1, <3>2 DEF Modest, Range2
    <2>4. fw.map \in Seq(Modest)
        BY <2>2, <2>3
    <2> QED BY <2>2, <2>4 DEF Machine
<1>2. NoInfo \in Info
    BY DEF NoInfo, Info
<1>3. BootTypes
    BY <1>1, <1>2 DEF Init, BootTypes, BeforeKernel
<1>4. AttemptsSpent /\ RegionsCurrent /\ CopyExact
    BY DEF Init, AttemptsSpent, RegionsCurrent, CopyExact, EarlyKernel, PagingOn
<1>5. FramesDerived
    BY DEF Init, FramesDerived, PagingOn
<1> QED BY <1>3, <1>4, <1>5 DEF BootInv

\* The bridge before it has read the map, and the firmware changing it.
LEMMA FirmwareKeeps ==
    ASSUME BootInv, NEW i \in 1 .. Len(fw.map),
           NEW type \in {"BootServicesData", "RuntimeServicesData"}, firmware_allocates(i, type)
    PROVE  BootInv'
<1> USE DEF BootInv
<1>1. Split(i, type) \in Seq(Modest)
    <2>1. fw.map \in Seq(Modest)
        BY MachineMap DEF BootTypes
    <2>2. type \in EfiMemoryType /\ type # "Conventional"
        BY DEF EfiMemoryType
    <2>3. fw.map[i].pages > 0
        BY DEF firmware_allocates
    <2> QED BY <2>1, <2>2, <2>3, SplitType
<1>2. BootTypes'
    <2>1. /\ fw \in Machine
          /\ fw' = [fw EXCEPT !.map = Split(i, type)]
        BY DEF BootTypes, firmware_allocates
    <2>2. fw' \in Machine
        BY ONLY <1>1, <2>1 DEF Machine
    <2>3. key \in Nat /\ key' = key + 1
        BY DEF BootTypes, firmware_allocates
    <2> QED BY <2>2, <2>3 DEF BootTypes, firmware_allocates
<1>3. /\ key \in Nat /\ map_key \in Nat /\ attempt \in Nat
      /\ key' = key + 1 /\ map_key' = map_key /\ attempt' = attempt /\ pc' = pc /\ InFirmware
    BY DEF BootTypes, firmware_allocates
<1>8. AttemptsSpent'
    BY ONLY <1>3, AttemptsSpent DEF AttemptsSpent, InFirmware
<1>4. pc' = pc /\ pc \in BeforeKernel \ {"publish", "jump"} /\ map_key' # key'
    <2>1. map_key <= key
        BY DEF AttemptsSpent
    <2>2. map_key' # key'
        BY ONLY <2>1, <1>3
    <2> QED BY ONLY <1>3, <2>2 DEF InFirmware, BeforeKernel
<1>5. RegionsCurrent'
    BY <1>4 DEF RegionsCurrent, BeforeKernel, EarlyKernel, PagingOn
<1>6. CopyExact'
    BY <1>4 DEF CopyExact, BeforeKernel
<1>7. FramesDerived'
    BY <1>4 DEF FramesDerived, BeforeKernel, PagingOn, firmware_allocates, kernel
<1> QED BY <1>2, <1>8, <1>5, <1>6, <1>7

\* The steps of the bridge up to the exit keep the invariant.
LEMMA BridgeKeeps ==
    ASSUME BootInv,
           \/ efi_main_begin \/ gop_init \/ load_kernel \/ read_memory_map_probe
           \/ ExitBootServices \/ refetch
    PROVE  BootInv'
<1> USE DEF BootInv
<1>1. backup' = backup /\ arg' = arg /\ pmm' = pmm /\ taken' = taken
    BY DEF efi_main_begin, gop_init, load_kernel, read_memory_map_probe, ExitBootServices, refetch, kernel
<1>2. CASE efi_main_begin
    <2>1. info' \in Info
        BY <1>2 DEF efi_main_begin, Info
    <2>2. BootTypes'
        BY <1>2, <2>1 DEF efi_main_begin, BootTypes, bridge, BeforeKernel
    <2>3. AttemptsSpent' /\ RegionsCurrent' /\ CopyExact'
        BY <1>2 DEF efi_main_begin, bridge, BootTypes, AttemptsSpent, RegionsCurrent, CopyExact, EarlyKernel, PagingOn
    <2>4. FramesDerived'
        BY <1>1, <1>2 DEF efi_main_begin, FramesDerived, BeforeKernel, EarlyKernel, PagingOn
    <2> QED BY <2>2, <2>3, <2>4
<1>3. CASE gop_init
    <2>1. info' \in Info
        <3>1. info \in Info /\ fw.gop \in Seq(Mode)
            BY DEF BootTypes, Machine
        <3>2. (IF fw.gop # <<>> /\ fw.gop[1].base # 0 THEN fw.gop ELSE <<>>) \in Seq(Mode)
            BY <3>1
        <3>3. Linear(fw.gop) \in BOOLEAN
            BY DEF Linear
        <3> QED BY <1>3, <3>1, <3>2, <3>3 DEF gop_init, Info
    <2>2. BootTypes'
        BY <1>3, <2>1 DEF gop_init, BootTypes, bridge, BeforeKernel
    <2>3. AttemptsSpent' /\ RegionsCurrent' /\ CopyExact'
        BY <1>3 DEF gop_init, bridge, BootTypes, AttemptsSpent, RegionsCurrent, CopyExact, EarlyKernel, PagingOn
    <2>4. FramesDerived'
        BY <1>1, <1>3 DEF gop_init, FramesDerived, BeforeKernel, EarlyKernel, PagingOn
    <2> QED BY <2>2, <2>3, <2>4
<1>4. CASE load_kernel
    <2>1. /\ key' = key /\ map_key' = map_key /\ attempt' = attempt
          /\ pc = "load" /\ pc' \in {"probe", "halted_kernel"}
        BY <1>4 DEF load_kernel, Halted
    <2>2. fw.file \in Nat
        BY BootAssumption DEF BootTypes, Machine
    <2>3. fw' \in Machine
        <3>1. fw \in Machine
            BY DEF BootTypes
        <3>2. Claimed(fw.map, File) \in Seq(Modest)
            BY <3>1, ClaimedType DEF Machine
        <3> QED BY <1>4, <3>1, <3>2 DEF load_kernel, Machine
    <2>4. info' \in Info
        <3>1. info \in Info /\ (info' = info \/ info' = [info EXCEPT !.size = fw.file])
            BY <1>4 DEF load_kernel, BootTypes, Halted
        <3> QED BY ONLY <3>1, <2>2 DEF Info
    <2>5. BootTypes'
        BY <1>1, <2>1, <2>3, <2>4 DEF BootTypes, BeforeKernel
    <2>6. AttemptsSpent' /\ RegionsCurrent' /\ CopyExact'
        BY <2>1 DEF BootTypes, AttemptsSpent, RegionsCurrent, CopyExact, EarlyKernel, PagingOn
    <2>7. FramesDerived'
        BY <1>1, <2>1 DEF FramesDerived, BeforeKernel, EarlyKernel, PagingOn
    <2> QED BY <2>5, <2>6, <2>7
<1>5. CASE read_memory_map_probe
    <2>1. /\ key' = key /\ map_key' = map_key /\ attempt' = attempt /\ fw' = fw /\ info' = info
          /\ pc = "probe" /\ pc' \in {"read", "halted_map"}
        BY <1>5 DEF read_memory_map_probe, Halted
    <2>2. BootTypes'
        BY <1>1, <2>1 DEF BootTypes, BeforeKernel
    <2>3. AttemptsSpent' /\ RegionsCurrent' /\ CopyExact'
        BY <2>1 DEF BootTypes, AttemptsSpent, RegionsCurrent, CopyExact, EarlyKernel, PagingOn
    <2>4. FramesDerived'
        BY <1>1, <2>1 DEF FramesDerived, BeforeKernel, EarlyKernel, PagingOn
    <2> QED BY <2>2, <2>3, <2>4
<1>6. CASE ExitBootServices
    <2>1. /\ key' = key /\ map_key' = map_key /\ attempt' = attempt /\ fw' = fw /\ info' = info
          /\ pc = "exit" /\ pc' = IF map_key = key THEN "publish" ELSE "retry"
        BY <1>6 DEF ExitBootServices, KeyAccepted, bridge
    <2>2. BootTypes'
        BY <1>1, <2>1 DEF BootTypes, BeforeKernel
    <2>3. AttemptsSpent' /\ CopyExact'
        BY <2>1 DEF BootTypes, AttemptsSpent, CopyExact
    <2>4. RegionsCurrent'
        BY <2>1 DEF RegionsCurrent, Describes, EarlyKernel, PagingOn
    <2>5. FramesDerived'
        BY <1>1, <2>1 DEF FramesDerived, BeforeKernel, EarlyKernel, PagingOn
    <2> QED BY <2>2, <2>3, <2>4, <2>5
<1>7. CASE refetch
    <2>1. /\ key' = key /\ map_key' = map_key /\ attempt' = attempt + 1 /\ fw' = fw /\ info' = info
          /\ pc = "retry" /\ pc' = IF attempt + 1 < MaxAttempts THEN "probe" ELSE "halted_exit"
        BY <1>7 DEF refetch, NextAttempt
    <2>5. /\ key \in Nat /\ map_key \in Nat /\ attempt \in Nat /\ attempt + 1 \in Nat
          /\ MaxAttempts \in Nat /\ pc' \in {"probe", "halted_exit"}
        <3>1. key \in Nat /\ map_key \in Nat /\ attempt \in Nat /\ MaxAttempts \in Nat
            BY BootAssumption DEF BootTypes
        <3> QED BY ONLY <2>1, <3>1
    <2>2. BootTypes'
        BY <1>1, <2>1, <2>5 DEF BootTypes, BeforeKernel
    <2>6. AttemptsSpent'
        BY ONLY <2>1, <2>5, AttemptsSpent DEF AttemptsSpent
    <2>3. RegionsCurrent' /\ CopyExact'
        BY <2>5 DEF RegionsCurrent, CopyExact, EarlyKernel, PagingOn
    <2>4. FramesDerived'
        BY <1>1, <2>1 DEF FramesDerived, BeforeKernel, EarlyKernel, PagingOn
    <2> QED BY <2>2, <2>3, <2>4, <2>6
<1> QED BY <1>2, <1>3, <1>4, <1>5, <1>6, <1>7
\* The map is read and marked, and the structure copied: each keeps the regions
\* those of the map, while the key stands.
LEMMA HandoffKeeps ==
    ASSUME BootInv,
           \/ read_memory_map \/ mark_framebuffer \/ publish
           \/ \E survives \in BOOLEAN : jump_to_kernel(survives)
    PROVE  BootInv'
<1> USE DEF BootInv
<1>1. pmm' = pmm /\ taken' = taken
    BY DEF read_memory_map, mark_framebuffer, publish, jump_to_kernel, kernel
<1>2. Normalised(fw.map) \in Seq(RegionRecord)
    BY NormalisedElements, MachineMap DEF BootTypes
<1>3. CASE read_memory_map
    <2>1. /\ key' = key /\ attempt' = attempt /\ fw' = fw /\ backup' = backup /\ pc = "read"
          /\ \/ pc' = "halted_map" /\ map_key' = map_key /\ info' = info
             \/ pc' = "mark" /\ map_key' = key /\ info' = [info EXCEPT !.regions = Normalised(fw.map)]
        BY <1>3 DEF read_memory_map, Halted
    <2>2. info \in Info
        BY DEF BootTypes
    <2>3. info' \in Info /\ (pc' = "mark" => info'.regions = Normalised(fw.map))
        BY <1>2, <2>1, <2>2, WithRegions
    <2>4. BootTypes'
        BY <2>1, <2>3 DEF BootTypes, BeforeKernel
    <2>5. AttemptsSpent' /\ CopyExact'
        <3>1. key \in Nat /\ map_key \in Nat /\ attempt \in Nat
            BY DEF BootTypes
        <3>2. AttemptsSpent'
            BY ONLY <2>1, <3>1, AttemptsSpent DEF AttemptsSpent
        <3>3. CopyExact'
            BY ONLY <2>1 DEF CopyExact
        <3> QED BY <3>2, <3>3
    <2>6. RegionsCurrent'
        BY <2>1, <2>3 DEF RegionsCurrent, EarlyKernel, PagingOn
    <2>7. FramesDerived'
        BY <1>1, <2>1 DEF FramesDerived, BeforeKernel, EarlyKernel, PagingOn
    <2> QED BY <2>4, <2>5, <2>6, <2>7
<1>4. CASE mark_framebuffer
    <2>1. /\ key' = key /\ map_key' = map_key /\ attempt' = attempt /\ fw' = fw /\ backup' = backup
          /\ pc = "mark" /\ pc' = "exit" /\ info' = [info EXCEPT !.regions = Marked(info)]
        BY <1>4 DEF mark_framebuffer, bridge
    <2>2. info \in Info /\ Marked(info) \in Seq(RegionRecord)
        BY MarkedType DEF BootTypes
    <2>3. info' \in Info /\ info'.regions = Marked(info)
          /\ [info' EXCEPT !.regions = Normalised(fw.map)] = [info EXCEPT !.regions = Normalised(fw.map)]
        BY <2>1, <2>2, WithRegions
    <2>4. map_key = key => [info EXCEPT !.regions = Normalised(fw.map)] = info
        <3>1. map_key = key => info.regions = Normalised(fw.map)
            BY <2>1 DEF RegionsCurrent
        <3> QED BY <3>1, <2>2 DEF Info
    <2>5. map_key = key => info'.regions = Marked([info' EXCEPT !.regions = Normalised(fw.map)])
        BY ONLY <2>3, <2>4
    <2>6. BootTypes'
        BY <2>1, <2>3 DEF BootTypes, BeforeKernel
    <2>7. AttemptsSpent' /\ CopyExact'
        BY <2>1 DEF BootTypes, AttemptsSpent, CopyExact
    <2>8. RegionsCurrent'
        BY <2>1, <2>5 DEF RegionsCurrent, Describes, EarlyKernel, PagingOn
    <2>9. FramesDerived'
        BY <1>1, <2>1 DEF FramesDerived, BeforeKernel, EarlyKernel, PagingOn
    <2> QED BY <2>6, <2>7, <2>8, <2>9
<1>5. CASE publish
    <2>1. /\ key' = key /\ map_key' = map_key /\ attempt' = attempt /\ fw' = fw /\ info' = info
          /\ pc = "publish" /\ pc' = "jump" /\ backup' = info
        BY <1>5 DEF publish, bridge
    <2>2. BootTypes' /\ AttemptsSpent' /\ CopyExact'
        BY <2>1 DEF BootTypes, BeforeKernel, AttemptsSpent, CopyExact
    <2>3. RegionsCurrent'
        BY <2>1 DEF RegionsCurrent, Describes, EarlyKernel, PagingOn
    <2>4. FramesDerived'
        BY <1>1, <2>1 DEF FramesDerived, BeforeKernel, EarlyKernel, PagingOn
    <2> QED BY <2>2, <2>3, <2>4
<1>6. CASE \E survives \in BOOLEAN : jump_to_kernel(survives)
    <2>1. /\ key' = key /\ map_key' = map_key /\ attempt' = attempt /\ fw' = fw
          /\ info' \in {info, NoInfo}
          /\ pc = "jump" /\ pc' = "validate" /\ backup' = backup /\ arg' \in {"info", "lost"}
        BY <1>6 DEF jump_to_kernel, bridge
    <2>5. NoInfo \in Info
        BY DEF NoInfo, Info
    <2>2. BootTypes' /\ AttemptsSpent' /\ CopyExact'
        BY <2>1, <2>5 DEF BootTypes, BeforeKernel, EarlyKernel, AttemptsSpent, CopyExact
    <2>3. RegionsCurrent'
        BY <2>1 DEF RegionsCurrent, Describes, EarlyKernel, PagingOn
    <2>4. FramesDerived'
        BY <1>1, <2>1 DEF FramesDerived, BeforeKernel, EarlyKernel, PagingOn
    <2> QED BY <2>2, <2>3, <2>4
<1> QED BY <1>3, <1>4, <1>5, <1>6

\* kmain up to pmm_init: the structure looked at is the copy, so the boot fails
\* only for what is in it.
LEMMA KmainKeeps ==
    ASSUME BootInv, kmain_validate \/ pmm_init
    PROVE  BootInv'
<1> USE DEF BootInv
<1>1. /\ key' = key /\ map_key' = map_key /\ attempt' = attempt /\ fw' = fw /\ info' = info
      /\ backup' = backup /\ taken' = taken
    BY DEF kmain_validate, pmm_init, bridge, kernel
<1>2. ~af_boot_info_validate(NoInfo)
    BY DEF af_boot_info_validate, NoInfo
<1>3. CASE kmain_validate
    <2>1. /\ pc = "validate" /\ info \in {backup, NoInfo} /\ arg \in {"info", "lost"} /\ arg' = Recovered(arg)
          /\ pc' = IF af_boot_info_validate(Given(arg')) THEN "pmm" ELSE "failed"
          /\ pmm' = pmm
        BY <1>3 DEF kmain_validate, CopyExact, kernel
    <2>2. IF af_boot_info_validate(backup)
          THEN pc' = "pmm" /\ Given(arg') = backup
          ELSE pc' = "failed"
        <3>1. CASE arg = "info" /\ info = backup
            <4>1. Given(arg) = backup /\ arg' = "info"
                BY <2>1, <3>1 DEF Given, Recovered
            <4>2. Given(arg') = backup
                BY <3>1, <4>1 DEF Given
            <4> QED BY <2>1, <4>1, <4>2
        <3>2. CASE arg = "lost" \/ info = NoInfo
            <4>1. Given(arg) = NoInfo
                BY <2>1, <3>2 DEF Given
            <4>2. arg' = IF af_boot_info_validate(backup) THEN "backup" ELSE arg
                BY <1>2, <2>1, <4>1 DEF Recovered
            <4>3. Given(arg') = IF af_boot_info_validate(backup) THEN backup ELSE NoInfo
                BY <4>1, <4>2 DEF Given
            <4> QED BY <1>2, <2>1, <4>2, <4>3
        <3> QED BY <2>1, <3>1, <3>2
    <2>9. pc' = "pmm" => Given(arg)' = backup'
        BY <1>1, <2>1, <2>2 DEF Given
    <2>3. pc' = "pmm" => Given(arg)' = backup' /\ af_boot_info_validate(backup)'
        BY <1>1, <2>1, <2>2, <2>9 DEF af_boot_info_validate
    <2>4. BootTypes' /\ AttemptsSpent'
        BY <1>1, <2>1 DEF BootTypes, AttemptsSpent, EarlyKernel
    <2>5. RegionsCurrent'
        BY <1>1, <2>1 DEF RegionsCurrent, Describes, EarlyKernel
    <2>6. pc' = "failed" => ~af_boot_info_validate(backup)'
        BY <1>1, <2>1, <2>2 DEF af_boot_info_validate
    <2>7. CopyExact'
        BY <2>1, <2>3, <2>6 DEF CopyExact
    <2>8. FramesDerived'
        BY <1>1, <2>1 DEF FramesDerived, BeforeKernel, EarlyKernel, PagingOn
    <2> QED BY <2>4, <2>5, <2>7, <2>8
<1>4. CASE pmm_init
    <2>1. pc = "pmm" /\ Given(arg) = backup
        BY <1>4 DEF pmm_init, CopyExact
    <2>2. \/ /\ pc' = "root"
             /\ pmm' = [count |-> MaxUsable(backup),
                        used  |-> (0 .. MaxUsable(backup) - 1) \ (Freed(backup) \ Survivors(backup))]
          \/ pc' = "overwritten" /\ pmm' = pmm
          \/ /\ pc' = "failed" /\ pmm' = pmm
             /\ ~(MaxUsable(backup) >= MinFrames /\ MetadataFits(backup))
        BY <1>4, <2>1 DEF pmm_init
    <2>3. BootTypes' /\ AttemptsSpent'
        BY <1>1, <2>1, <2>2 DEF BootTypes, AttemptsSpent, EarlyKernel, PagingOn
    <2>4. RegionsCurrent'
        BY <1>1, <2>1, <2>2 DEF RegionsCurrent, Describes, EarlyKernel, PagingOn
    <2>5. pmm = [count |-> 0, used |-> {}] /\ taken = {}
        BY <2>1 DEF FramesDerived, EarlyKernel
    <2>6. CASE pc' = "root"
        <3>1. /\ pmm'.count = MaxUsable(backup)
              /\ pmm'.used = (0 .. MaxUsable(backup) - 1) \ (Freed(backup) \ Survivors(backup))
            BY <2>2, <2>6
        <3>2. FramesDerived'
            BY <1>1, <2>5, <2>6, <3>1 DEF FramesDerived, BeforeKernel, EarlyKernel
        <3>3. CopyExact'
            BY <2>6 DEF CopyExact
        <3> QED BY <2>3, <2>4, <3>2, <3>3
    <2>7. CASE pc' = "failed"
        <3>1. pmm' = pmm /\ ~(MaxUsable(backup) >= MinFrames /\ MetadataFits(backup))
            BY <2>2, <2>7
        <3>2. FramesDerived'
            BY <1>1, <2>5, <2>7, <3>1 DEF FramesDerived, PagingOn
        <3>3. MaxUsable(backup) < MinFrames \/ ~MetadataFits(backup)
            <4>1. MaxUsable(backup) \in Nat
                BY <2>1, MaxUsableType DEF BootTypes, CopyExact
            <4> QED BY <3>1, <4>1, BootAssumption
        <3>4. CopyExact'
            BY <1>1, <2>7, <3>3 DEF CopyExact
        <3> QED BY <2>3, <2>4, <3>2, <3>4
    <2>8. CASE pc' = "overwritten"
        <3>1. pmm' = pmm
            BY <2>2, <2>8
        <3>2. FramesDerived'
            BY <1>1, <2>5, <2>8, <3>1 DEF FramesDerived, PagingOn
        <3>3. CopyExact'
            BY <2>8 DEF CopyExact
        <3> QED BY <2>3, <2>4, <3>2, <3>3
    <2> QED BY <2>2, <2>6, <2>7, <2>8
<1> QED BY <1>3, <1>4
\* The page tables: alloc_table takes a frame that may be handed out, and the
\* structure may be lost with it; the copy stays.
LEMMA AllocKeeps ==
    ASSUME BootInv, NEW next \in PagingOn, pc \in PagingOn, alloc_table(next),
           UNCHANGED <<bridge, backup, arg, pmm>>
    PROVE  BootInv'
<1> USE DEF BootInv
<1>1. /\ key' = key /\ map_key' = map_key /\ attempt' = attempt /\ fw' = fw
      /\ backup' = backup /\ pmm' = pmm
    BY DEF bridge
<1>2. NoInfo \in Info
    BY DEF NoInfo, Info
<1>3. /\ pc' \in PagingOn /\ info' \in {info, NoInfo}
      /\ taken' \subseteq taken \cup FreeFrames
    <2>1. CASE FreeFrames = {}
        BY <2>1 DEF alloc_table, PagingOn
    <2>2. CASE FreeFrames # {}
        <3> DEFINE f == CHOOSE x \in FreeFrames : \A y \in FreeFrames : x <= y
        <3>1. FreeFrames \subseteq Nat
            BY DEF FreeFrames
        <3>2. \E x \in FreeFrames : \A y \in FreeFrames : x <= y
            BY <2>2, <3>1, LeastNatural
        <3>3. f \in FreeFrames
            BY <3>2
        <3>4. taken' = taken \cup {f} /\ info' = (IF f = InfoFrame THEN NoInfo ELSE info) /\ pc' = next
            BY <2>2 DEF alloc_table
        <3> HIDE DEF f
        <3> QED BY <3>3, <3>4
    <2> QED BY <2>1, <2>2
<1>4. pc' \notin BeforeKernel \cup EarlyKernel
    BY <1>3 DEF PagingOn, BeforeKernel, EarlyKernel
<1>5. BootTypes'
    BY <1>1, <1>2, <1>3 DEF BootTypes
<1>6. AttemptsSpent' /\ CopyExact'
    BY <1>1, <1>4 DEF AttemptsSpent, CopyExact, BeforeKernel, EarlyKernel
<1>7. RegionsCurrent'
    BY <1>1, <1>4 DEF RegionsCurrent, Describes, BeforeKernel
<1>8. FramesDerived'
    <2>1. /\ pmm.used = (0 .. pmm.count - 1) \ (Freed(backup) \ Survivors(backup))
          /\ taken \subseteq (0 .. pmm.count - 1) \ pmm.used
        BY DEF FramesDerived
    <2>2. FreeFrames \subseteq (0 .. pmm.count - 1) \ pmm.used
        BY DEF FreeFrames
    <2>3. taken' \subseteq (0 .. pmm.count - 1) \ pmm.used
        BY <1>3, <2>1, <2>2
    <2> QED BY <1>1, <1>4, <2>1, <2>3 DEF FramesDerived
<1> QED BY <1>5, <1>6, <1>7, <1>8

\* Building the page tables keeps it.
LEMMA PagingKeeps ==
    ASSUME BootInv, paging_root \/ paging_identity \/ paging_tables \/ af_fb_init
    PROVE  BootInv'
<1>1. CASE paging_root
    <2>1. pc \in PagingOn /\ "identity" \in PagingOn /\ alloc_table("identity")
          /\ UNCHANGED <<bridge, backup, arg, pmm>>
        BY <1>1 DEF paging_root, PagingOn
    <2> QED BY <2>1, AllocKeeps
<1>2. CASE paging_tables
    <2>1. pc \in PagingOn /\ "fb" \in PagingOn /\ alloc_table("fb")
          /\ UNCHANGED <<bridge, backup, arg, pmm>>
        BY <1>2 DEF paging_tables, PagingOn
    <2> QED BY <2>1, AllocKeeps
<1>3. CASE paging_identity \/ af_fb_init
    <2>1. /\ pc \in PagingOn /\ pc' \in PagingOn
          /\ key' = key /\ map_key' = map_key /\ attempt' = attempt /\ fw' = fw
          /\ info' = info /\ backup' = backup /\ arg' = arg /\ pmm' = pmm /\ taken' = taken
        BY <1>3 DEF paging_identity, af_fb_init, PagingOn, bridge
    <2>2. pc' \notin BeforeKernel \cup EarlyKernel
        BY <2>1 DEF PagingOn, BeforeKernel, EarlyKernel
    <2>3. BootTypes' /\ AttemptsSpent'
        BY <2>1, <2>2 DEF BootInv, BootTypes, AttemptsSpent, BeforeKernel
    <2>4. RegionsCurrent' /\ CopyExact'
        BY <2>1, <2>2 DEF BootInv, RegionsCurrent, Describes, CopyExact, BeforeKernel, EarlyKernel
    <2>5. FramesDerived'
        BY <2>1, <2>2 DEF BootInv, FramesDerived
    <2> QED BY <2>3, <2>4, <2>5 DEF BootInv
<1> QED BY <1>1, <1>2, <1>3

\* Every step of the boot keeps it.
LEMMA NextBoot == BootInv /\ [Next]_vars => BootInv'
<1> SUFFICES ASSUME BootInv, [Next]_vars PROVE BootInv'
    OBVIOUS
<1>1. CASE UNCHANGED vars
    BY <1>1 DEF vars, BootInv, BootTypes, AttemptsSpent, RegionsCurrent, Describes, CopyExact,
                FramesDerived, Given
<1>2. CASE Step
    BY <1>2, BridgeKeeps, HandoffKeeps, KmainKeeps, PagingKeeps DEF Step
<1>3. CASE \E i \in 1 .. Len(fw.map), type \in {"BootServicesData", "RuntimeServicesData"} :
               firmware_allocates(i, type)
    BY <1>3, FirmwareKeeps
<1> QED BY <1>1, <1>2, <1>3 DEF Next

----------------------------------------------------------------------------
(* The theorems.                                                           *)

\* In every reachable state of every boot the inductive invariant holds.
THEOREM BootInductive == Spec => []BootInv
<1> QED BY InitBoot, NextBoot, PTL DEF Spec

\* What kmain accepts, with the register or without it, is the structure the
\* bridge built from the map as it was when the firmware was left; the boot
\* fails only for what is in it; and the bridge gives up only after as many
\* changes of the map as it has attempts (efi_main.c, kmain.c).
THEOREM BootHandoffSound == Spec => []HandoffSound
<1>1. BootInv => HandoffSound
    <2> SUFFICES ASSUME BootInv PROVE HandoffSound
        OBVIOUS
    <2> USE DEF BootInv
    <2>1. InKernel => backup.regions = Marked([backup EXCEPT !.regions = Normalised(fw.map)])
        BY DEF InKernel, RegionsCurrent, Describes, EarlyKernel, PagingOn
    <2>2. HandoffExact
        BY <2>1 DEF HandoffExact, CopyExact
    <2>3. key \in Nat /\ MaxAttempts \in Nat
        BY BootAssumption DEF BootTypes
    <2>4. RetriesSuffice
        BY <2>3 DEF RetriesSuffice, AttemptsSpent
    <2> QED BY <2>2, <2>4 DEF HandoffSound
<1> QED BY <1>1, BootInductive, PTL

\* A region of the structure that is still usable is free memory of the map, and
\* the screen is not in it.
LEMMA UsableIsConventional ==
    ASSUME NEW bi \in Info, NEW map \in Seq(Descriptor), Describes(bi, map),
           NEW i \in 1 .. Len(bi.regions), bi.regions[i].type = "USABLE"
    PROVE  /\ \E k \in 1 .. Len(map) :
                 /\ map[k].type = "Conventional"
                 /\ map[k].base = bi.regions[i].base /\ map[k].pages = bi.regions[i].length
           /\ bi.flag => ~Overlaps(bi.regions[i], Screen(bi))
<1> DEFINE rs == Normalised(map)
           bj == [bi EXCEPT !.regions = rs]
           r  == bi.regions[i]
<1>1. rs \in Seq(RegionRecord)
    BY NormalisedElements
<1>2. bj.regions = rs /\ bi.regions = Marked(bj)
    BY <1>1, WithRegions DEF Describes
<1>3. bj.flag = bi.flag /\ Screen(bj) = Screen(bi)
    BY DEF Info, Screen
<1> HIDE DEF bj, rs
<1>4. i \in 1 .. Len(rs) /\ rs[i] \in RegionRecord
    BY <1>1, <1>2 DEF Marked
<1>5. r = IF bj.flag /\ rs[i].type = "USABLE" /\ Overlaps(rs[i], Screen(bj))
          THEN [rs[i] EXCEPT !.type = "FRAMEBUFFER"] ELSE rs[i]
    BY <1>2, <1>4 DEF Marked
<1>6. r = rs[i] /\ ~(bj.flag /\ Overlaps(rs[i], Screen(bj)))
    <2>1. [rs[i] EXCEPT !.type = "FRAMEBUFFER"].type = "FRAMEBUFFER"
        BY <1>4 DEF RegionRecord
    <2> QED BY <1>5, <2>1
<1>7. PICK k \in 1 .. Len(map) : rs[i] = Region(map[k])
    BY <1>4, NormalisedElements DEF rs
<1>8. r.base = map[k].base /\ r.length = map[k].pages /\ r.type = MemoryType(map[k].type)
    BY <1>6, <1>7 DEF Region
<1>9. map[k].type = "Conventional"
    BY <1>8 DEF MemoryType
<1> QED BY <1>3, <1>6, <1>8, <1>9

\* The frames the regions of the structure offer are ones the firmware has given
\* up by its own map: what read_memory_map and the marking of the screen do to
\* the types never makes memory usable.
LEMMA FreedIsReclaimed ==
    ASSUME NEW bi \in Info, NEW map \in Seq(Descriptor), Describes(bi, map)
    PROVE  Freed(bi) \subseteq Reclaimed(map)
<1> DEFINE rs == Normalised(map)
           bj == [bi EXCEPT !.regions = rs]
<1>1. rs \in Seq(RegionRecord)
    BY NormalisedElements
<1>2. bj.regions = rs /\ bi.regions = Marked(bj)
    BY <1>1, WithRegions DEF Describes
<1> SUFFICES ASSUME NEW f \in Freed(bi) PROVE f \in Reclaimed(map)
    OBVIOUS
<1>3. PICK r \in ToSet(bi.regions) : Reclaimable(r) /\ f \in Range2(r.base, r.length)
    BY DEF Freed
<1> HIDE DEF bj
<1>4. PICK i \in 1 .. Len(rs) : r = Marked(bj)[i]
    BY <1>1, <1>2, <1>3 DEF ToSet, Marked
<1>5. rs[i] \in RegionRecord
    BY <1>1, <1>4
<1>6. r = rs[i]
    <2>1. r = rs[i] \/ r = [rs[i] EXCEPT !.type = "FRAMEBUFFER"]
        BY <1>2, <1>4 DEF Marked
    <2>2. r.type # "FRAMEBUFFER"
        BY <1>3 DEF Reclaimable
    <2> QED BY <1>5, <2>1, <2>2 DEF RegionRecord
<1>7. PICK k \in 1 .. Len(map) : rs[i] = Region(map[k])
    BY <1>4, NormalisedElements
<1>8. r.base = map[k].base /\ r.length = map[k].pages /\ r.type = MemoryType(map[k].type)
    BY <1>6, <1>7 DEF Region
<1>9. map[k].type \in {"Conventional", "LoaderData", "BootServicesData"}
    BY <1>3, <1>8 DEF Reclaimable, MemoryType
<1>10. map[k] \in ToSet(map)
    BY DEF ToSet
<1> QED BY <1>3, <1>8, <1>9, <1>10 DEF Reclaimed

\* A frame the kernel may hand out, or has taken for a page table, is one the
\* firmware gave up by the map as it was when it was left, and none of the null
\* page, the kernel image, the copy of the structure and the screen it was told
\* of (pmm.c: pmm_init; efi_main.c: read_memory_map and the loop around it).
LEMMA FramesAreGivenUp == Spec => []FramesGivenUp
<1>1. BootInv => FramesGivenUp
    <2> SUFFICES ASSUME BootInv, pmm.count > 0
                 PROVE  /\ FreeFrames \cup taken \subseteq Reclaimed(fw.map)
                        /\ (FreeFrames \cup taken) \cap Spared = {}
        BY DEF FramesGivenUp
    <2>1. pc \in PagingOn
        <3>1. pmm # [count |-> 0, used |-> {}]
            OBVIOUS
        <3> QED BY <3>1 DEF BootInv, BootTypes, FramesDerived
    <2>2. /\ pmm.used = (0 .. pmm.count - 1) \ (Freed(backup) \ Survivors(backup))
          /\ taken \subseteq (0 .. pmm.count - 1) \ pmm.used
        BY <2>1 DEF BootInv, FramesDerived
    <2>3. FreeFrames \cup taken \subseteq Freed(backup) \ Survivors(backup)
        BY <2>2 DEF FreeFrames
    <2>4. Freed(backup) \subseteq Reclaimed(fw.map)
        <3>1. backup \in Info /\ fw.map \in Seq(Descriptor) /\ Describes(backup, fw.map)
            BY <2>1, MachineMap DEF BootInv, BootTypes, RegionsCurrent
        <3> QED BY <3>1, FreedIsReclaimed
    <2>5. Spared \subseteq Survivors(backup)
        BY DEF Spared, Survivors
    <2> QED BY <2>3, <2>4, <2>5
<1> QED BY <1>1, BootInductive, PTL

----------------------------------------------------------------------------
(* The allocator's metadata.                                               *)

\* The size reported is that of kernel.bin; where memory is managed the metadata
\* fits and is apart from the kernel; and it is over the kernel only when
\* kernel.bin is not all of it.
Placed ==
    /\ pc \in {"probe", "read", "mark", "exit", "retry", "publish", "jump"} => info.size = fw.file
    /\ pc \in {"jump"} \cup EarlyKernel \cup PagingOn => backup.size = fw.file
    /\ pc \in PagingOn => MetadataFits(backup) /\ Metadata(backup) \cap Kernel = {}
    /\ pc = "overwritten" => fw.file # KernelPages

\* The region chosen is one of those it is chosen from: there is a first of the
\* largest.  So the metadata lies in usable memory the bridge's image is not in.
LEMMA MetadataInside ==
    ASSUME NEW bi \in Info, MetadataFits(bi)
    PROVE  \E i \in 1 .. Len(bi.regions) :
              /\ bi.regions[i] \in RegionRecord
              /\ bi.regions[i].type = "USABLE"
              /\ bi.regions[i].base # 0
              /\ bi.regions[i].length >= MetaFrames + MetaSpare
              /\ ~Overlaps(bi.regions[i], Reported(bi))
              /\ Metadata(bi) = Range2(bi.regions[i].base, MetaFrames)
              /\ Metadata(bi) \subseteq Range2(bi.regions[i].base, bi.regions[i].length)
<1> DEFINE M == MetadataRegions(bi)
           size == [i \in M |-> bi.regions[i].length]
           L == {size[i] : i \in M}
           m == MetadataRegion(bi)
<1>1. bi.regions \in Seq(RegionRecord)
    BY DEF Info
<1>2. M \subseteq 1 .. Len(bi.regions) /\ M # {} /\ Len(bi.regions) \in Nat
    BY <1>1 DEF MetadataRegions, MetadataFits
<1> HIDE DEF M
<1>3. \A i \in M : size[i] = bi.regions[i].length /\ size[i] \in Nat
    <2> TAKE i \in M
    <2>1. bi.regions[i] \in RegionRecord
        BY <1>1, <1>2
    <2> QED BY <2>1 DEF RegionRecord
<1>4. IsFiniteSet(M)
    <2>1. 1 \in Int /\ Len(bi.regions) \in Int
        BY <1>2
    <2>2. IsFiniteSet(1 .. Len(bi.regions))
        BY ONLY <2>1, FS_Interval
    <2> QED BY ONLY <1>2, <2>2, FS_Subset
<1>5. IsFiniteSet(L)
    <2>1. size \in Surjection(M, L)
        BY DEF Surjection
    <2> HIDE DEF L, size
    <2> QED BY <1>4, <2>1, FS_Surjection
<1> HIDE DEF size, m
<1>6. PICK s \in L : \A t \in L : t <= s
    <2>1. L \subseteq Nat /\ L # {}
        BY <1>2, <1>3
    <2> HIDE DEF L
    <2> QED BY <1>5, <2>1, GreatestNatural
<1>7. PICK i \in {k \in M : size[k] = s} : \A j \in {k \in M : size[k] = s} : i <= j
    <2> DEFINE T == {k \in M : size[k] = s}
    <2>3. PICK k \in M : s = size[k]
        BY <1>6
    <2>1. T \subseteq Nat
        <3>1. T \subseteq M
            OBVIOUS
        <3>2. \A n \in Nat : 1 .. n \subseteq Nat
            OBVIOUS
        <3> HIDE DEF T, L
        <3> QED BY ONLY <1>2, <3>1, <3>2
    <2>4. k \in T
        BY <2>3
    <2> HIDE DEF T
    <2>2. \E i \in T : \A j \in T : i <= j
        BY <2>1, <2>4, LeastNatural
    <2> QED BY <2>2 DEF T
<1>8. \E k \in M : \A j \in M :
          \/ bi.regions[j].length < bi.regions[k].length
          \/ bi.regions[j].length = bi.regions[k].length /\ k <= j
    <2>1. i \in M /\ size[i] = s
        BY <1>7
    <2>2. ASSUME NEW j \in M
          PROVE  size[j] < size[i] \/ (size[j] = size[i] /\ i <= j)
        <3>1. size[j] \in Nat /\ s \in Nat /\ size[j] <= s
            BY <1>3, <1>6, <2>1
        <3>2. size[j] = s => i <= j
            BY <1>7
        <3>3. size[j] < s \/ size[j] = s
            BY ONLY <3>1
        <3> QED BY ONLY <2>1, <3>2, <3>3, Zenon
    <2> QED BY <1>3, <2>1, <2>2
<1>9. m \in M
    BY <1>8 DEF m, M, MetadataRegion
<1>10. /\ m \in 1 .. Len(bi.regions)
       /\ bi.regions[m].type = "USABLE"
       /\ ~Overlaps(bi.regions[m], Reported(bi))
       /\ bi.regions[m].base # 0
       /\ bi.regions[m].length >= MetaFrames + MetaSpare
    BY <1>9 DEF m, M, MetadataRegions, MetadataFits
<1>11. bi.regions[m] \in RegionRecord
    BY <1>1, <1>10
<1>12. Metadata(bi) = Range2(bi.regions[m].base, MetaFrames)
    BY DEF Metadata, m
<1>13. Metadata(bi) \subseteq Range2(bi.regions[m].base, bi.regions[m].length)
    <2>1. /\ MetaFrames \in Nat /\ MetaSpare \in Nat
          /\ bi.regions[m].base \in Nat /\ bi.regions[m].length \in Nat
        BY <1>11, BootAssumption DEF RegionRecord
    <2>2. \A b, k, l \in Nat : k <= l => Range2(b, k) \subseteq Range2(b, l)
        BY DEF Range2
    <2>3. MetaFrames <= bi.regions[m].length
        BY ONLY <1>10, <2>1
    <2> QED BY ONLY <1>12, <2>1, <2>2, <2>3
<1> QED BY <1>10, <1>11, <1>12, <1>13

\* Placed holds at power-on, and every step keeps it.
LEMMA InitPlaced == Init => Placed
    BY DEF Init, Placed, EarlyKernel, PagingOn

LEMMA PmmPlaced ==
    ASSUME BootInv, Placed, pmm_init
    PROVE  Placed'
<1>1. pc = "pmm" /\ fw' = fw /\ backup' = backup /\ Given(arg) = backup /\ backup.size = fw.file
    BY DEF pmm_init, bridge, BootInv, CopyExact, Placed, EarlyKernel
<1>2. \/ pc' = "root" /\ MetadataFits(backup) /\ Metadata(backup) \cap Kernel = {}
      \/ pc' = "overwritten" /\ MetadataFits(backup) /\ Metadata(backup) \cap Kernel # {}
      \/ pc' = "failed"
    BY <1>1 DEF pmm_init
<1>3. pc' = "overwritten" => fw.file # KernelPages
    <2> SUFFICES ASSUME pc' = "overwritten", fw.file = KernelPages PROVE FALSE
        OBVIOUS
    <2>1. backup \in Info /\ MetadataFits(backup) /\ Metadata(backup) \cap Kernel # {}
        BY <1>2 DEF BootInv, BootTypes
    <2>2. Reported(backup) = Kernel
        BY <1>1 DEF Reported, Kernel
    <2> QED BY <2>1, <2>2, MetadataInside DEF Overlaps
<1>4. (MetadataFits(backup) /\ Metadata(backup) \cap Kernel = {}) =>
          (MetadataFits(backup) /\ Metadata(backup) \cap Kernel = {})'
    BY <1>1
<1> QED BY <1>1, <1>2, <1>3, <1>4 DEF Placed, EarlyKernel, PagingOn

LEMMA NextPlaced == BootInv /\ Placed /\ [Next]_vars => Placed'
<1> SUFFICES ASSUME BootInv, Placed, [Next]_vars PROVE Placed'
    OBVIOUS
<1>1. backup' = backup =>
          ((MetadataFits(backup) /\ Metadata(backup) \cap Kernel = {}) =>
               (MetadataFits(backup) /\ Metadata(backup) \cap Kernel = {})')
    OBVIOUS
<1>2. CASE UNCHANGED vars
    BY <1>1, <1>2 DEF vars, Placed
<1>3. CASE \E i \in 1 .. Len(fw.map), type \in {"BootServicesData", "RuntimeServicesData"} :
               firmware_allocates(i, type)
    <2>1. pc' = pc /\ info' = info /\ backup' = backup /\ InFirmware
          /\ fw \in Machine /\ \E map : fw' = [fw EXCEPT !.map = map]
        BY <1>3 DEF firmware_allocates, BootInv, BootTypes
    <2>2. fw'.file = fw.file
        BY <2>1 DEF Machine
    <2> QED BY <2>1, <2>2 DEF Placed, InFirmware, EarlyKernel, PagingOn
<1>4. CASE efi_main_begin \/ gop_init
    BY <1>4 DEF efi_main_begin, gop_init, Placed, EarlyKernel, PagingOn
<1>5. CASE load_kernel
    <2>1. fw \in Machine /\ info \in Info
        BY DEF BootInv, BootTypes
    <2>2. \/ /\ pc' = "probe" /\ info' = [info EXCEPT !.size = fw.file]
             /\ fw' = [fw EXCEPT !.map = Claimed(@, File)]
          \/ pc' = "halted_kernel"
        BY <1>5 DEF load_kernel, Halted
    <2>3. pc' = "probe" => info'.size = fw'.file
        BY <2>1, <2>2 DEF Machine, Info
    <2> QED BY <2>2, <2>3 DEF Placed, EarlyKernel, PagingOn
<1>6. CASE read_memory_map_probe \/ read_memory_map \/ mark_framebuffer \/ ExitBootServices \/ refetch
    <2>1. /\ pc \in {"probe", "read", "mark", "exit", "retry"} /\ fw' = fw
          /\ pc' \in {"halted_map", "read", "mark", "exit", "publish", "retry", "probe", "halted_exit"}
          /\ info' = info \/ \E rs : info' = [info EXCEPT !.regions = rs]
        BY <1>6 DEF read_memory_map_probe, read_memory_map, mark_framebuffer, ExitBootServices,
                    refetch, NextAttempt, Halted, bridge
    <2>2. info'.size = info.size
        BY <2>1 DEF BootInv, BootTypes, Info
    <2> QED BY <2>1, <2>2 DEF Placed, EarlyKernel, PagingOn
<1>7. CASE publish \/ (\E survives \in BOOLEAN : jump_to_kernel(survives)) \/ kmain_validate
    <2>1. /\ \/ pc = "publish" /\ pc' = "jump" /\ info' = info /\ backup' = info
             \/ pc = "jump" /\ pc' = "validate" /\ backup' = backup
             \/ pc = "validate" /\ pc' \in {"pmm", "failed"} /\ backup' = backup
          /\ fw' = fw
        BY <1>7 DEF publish, jump_to_kernel, kmain_validate, bridge
    <2> QED BY <2>1 DEF Placed, EarlyKernel, PagingOn
<1>8. CASE pmm_init
    BY <1>8, PmmPlaced
<1>9. CASE paging_root \/ paging_identity \/ paging_tables \/ af_fb_init
    <2>1. pc \in PagingOn /\ pc' \in PagingOn /\ fw' = fw /\ backup' = backup
        BY <1>9 DEF paging_root, paging_identity, paging_tables, af_fb_init, alloc_table, bridge,
                    PagingOn
    <2> QED BY <1>1, <2>1 DEF Placed, EarlyKernel, PagingOn
<1> QED BY <1>2, <1>3, <1>4, <1>5, <1>6, <1>7, <1>8, <1>9 DEF Next, Step

\* The bitmap and the counts lie in memory the firmware has given up, apart from
\* the null page, the kernel with its .bss, the copy, the screen and every frame
\* the kernel may hand out; and a kernel.bin that is all of the kernel is never
\* written over (pmm.c: pmm_init; efi_main.c: load_kernel).
LEMMA MetadataIsSound == Spec => []MetadataSound
<1>1. BootInv /\ Placed => MetadataSound
    <2> SUFFICES ASSUME BootInv, Placed PROVE MetadataSound
        OBVIOUS
    <2>1. fw.file = KernelPages => pc # "overwritten"
        BY DEF Placed
    <2> SUFFICES ASSUME pmm.count > 0
                 PROVE  /\ Metadata(backup) \subseteq Reclaimed(fw.map)
                        /\ Metadata(backup) \cap (Spared \cup FreeFrames \cup taken) = {}
        BY <2>1 DEF MetadataSound
    <2>2. pc \in PagingOn
        <3>1. pmm # [count |-> 0, used |-> {}]
            OBVIOUS
        <3> QED BY <3>1 DEF BootInv, BootTypes, FramesDerived
    <2>3. /\ backup \in Info /\ fw.map \in Seq(Modest) /\ fw.map \in Seq(Descriptor)
          /\ Describes(backup, fw.map) /\ MetadataFits(backup) /\ Metadata(backup) \cap Kernel = {}
        BY <2>2, MachineMap DEF BootInv, BootTypes, RegionsCurrent, Placed
    <2>4. PICK i \in 1 .. Len(backup.regions) :
              /\ backup.regions[i] \in RegionRecord
              /\ backup.regions[i].type = "USABLE"
              /\ backup.regions[i].base # 0
              /\ backup.regions[i].length >= MetaFrames + MetaSpare
              /\ Metadata(backup) \subseteq Range2(backup.regions[i].base, backup.regions[i].length)
        BY <2>3, MetadataInside
    <2> DEFINE r == backup.regions[i]
    <2>5. \E k \in 1 .. Len(fw.map) :
              /\ fw.map[k].type = "Conventional"
              /\ fw.map[k].base = r.base /\ fw.map[k].pages = r.length
        BY <2>3, <2>4, UsableIsConventional
    <2>6. Metadata(backup) \subseteq Reclaimed(fw.map)
        <3>1. PICK k \in 1 .. Len(fw.map) :
                  /\ fw.map[k].type = "Conventional"
                  /\ fw.map[k].base = r.base /\ fw.map[k].pages = r.length
            BY <2>5
        <3>2. fw.map[k] \in ToSet(fw.map)
            BY DEF ToSet
        <3>3. Range2(fw.map[k].base, fw.map[k].pages) \subseteq Reclaimed(fw.map)
            BY <3>1, <3>2 DEF Reclaimed
        <3> QED BY <2>4, <3>1, <3>3
    <2>7. BackupFrame \notin Metadata(backup)
        <3>1. PICK k \in 1 .. Len(fw.map) :
                  /\ fw.map[k].type = "Conventional"
                  /\ fw.map[k].base = r.base /\ fw.map[k].pages = r.length
            BY <2>5
        <3>2. fw.map[k] \in Modest
            BY <2>3
        <3>3. MetaFrames + MetaSpare \in Nat /\ r.length \in Nat
            BY <2>4, BootAssumption DEF RegionRecord
        <3>4. ~(fw.map[k].pages < MetaFrames + MetaSpare \/ fw.map[k].base = 0)
            BY <2>4, <3>1, <3>3
        <3>5. BackupFrame \notin Range2(r.base, r.length)
            BY <3>1, <3>2, <3>4 DEF Modest
        <3> QED BY <2>4, <3>5
    <2>8. 0 \notin Metadata(backup)
        <3>1. r.base \in Nat /\ r.length \in Nat /\ r.base # 0
            BY <2>4 DEF RegionRecord
        <3>2. 0 \notin Range2(r.base, r.length)
            BY ONLY <3>1 DEF Range2
        <3> QED BY <2>4, <3>2
    <2>9. backup.flag => Metadata(backup) \cap Screen(backup) = {}
        <3>1. backup.flag => ~Overlaps(r, Screen(backup))
            BY <2>3, <2>4, UsableIsConventional
        <3> QED BY <2>4, <3>1 DEF Overlaps
    <2>10. Metadata(backup) \cap (FreeFrames \cup taken) = {}
        <3>1. /\ pmm.used = (0 .. pmm.count - 1) \ (Freed(backup) \ Survivors(backup))
              /\ taken \subseteq (0 .. pmm.count - 1) \ pmm.used
            BY <2>2 DEF BootInv, FramesDerived
        <3>2. Metadata(backup) \subseteq Survivors(backup)
            BY DEF Survivors
        <3> QED BY <3>1, <3>2 DEF FreeFrames
    <2> QED BY <2>3, <2>6, <2>7, <2>8, <2>9, <2>10 DEF Spared
<1>2. Spec => []Placed
    BY InitPlaced, NextPlaced, BootInductive, PTL DEF Spec
<1> QED BY <1>1, <1>2, BootInductive, PTL

\* Every frame handed out, and the account of them, lies in memory the firmware
\* gave up and apart from all that must survive, on every machine.  (pmm_init)
THEOREM BootHandsOutSound == Spec => []HandsOutSound
<1>1. FramesGivenUp /\ MetadataSound => HandsOutSound
    BY DEF HandsOutSound
<1> QED BY <1>1, FramesAreGivenUp, MetadataIsSound, PTL
=============================================================================
