----------------------------- MODULE MCPackage -----------------------------
(***************************************************************************)
(* Package for TLC: bytes of 4 bits, an encoder of DEFLATE streams, and    *)
(* packages packed with it: whole, altered, cut, or strange.               *)
(***************************************************************************)
EXTENDS Package

MCFixedLiteral == [k \in 1 .. 16 |-> 5] \o <<2, 3, 4, 4>>
MCFixedDistance == <<2, 2, 2, 2>>
MCLenBase   == <<2, 3>>
MCLenExtra  == <<0, 1>>
MCDistBase  == <<1, 2, 3>>
MCDistExtra == <<0, 0, 1>>
MCClcOrder  == <<6, 7, 8, 0, 3, 4, 2, 1, 5>>
MCRepeats   == <<[base |-> 2, extra |-> 1, copies |-> TRUE], [base |-> 2, extra |-> 1, copies |-> FALSE],
                 [base |-> 4, extra |-> 2, copies |-> FALSE]>>

\* What a cell is as a tar header, and as a line.
Header(path, type, size) == [path |-> path, type |-> type, size |-> size]
MCHeaders == (1 :> Header("info", "file", 3)) @@ (2 :> Header("x", "file", 1))
             @@ (3 :> Header("d", "dir", 0)) @@ (4 :> Header("script", "file", 1))
             @@ (5 :> Header("dot", "file", 1)) @@ (6 :> Header("x", "other", 1))
             @@ (7 :> Header("x", "file", 20)) @@ (8 :> Header("d", "dir", 1))
             @@ (9 :> Header("control", "file", 3)) @@ (10 :> Header("info", "file", 5))
             @@ [v \in {0, 11, 12, 13, 14, 15, 99} |-> Header("y", "other", 0)]
MCFields == (11 :> "name") @@ (12 :> "version") @@ (13 :> "depend") @@ (14 :> "blank")
            @@ (15 :> "name-type") @@ [v \in 0 .. 10 \cup {99} |-> "other"]

----------------------------------------------------------------------------
(* The encoder.                                                            *)

LowFirst(v, n)  == [k \in 1 .. n |-> (v \div 2^(k - 1)) % 2]
CodeBits(lengths, s) ==
    [k \in 1 .. lengths[s + 1] |-> (CodeOf(lengths, s) \div 2^(lengths[s + 1] - k)) % 2]
Padded(bits) == bits \o [k \in 1 .. (-Len(bits)) % ByteBits |-> 0]
Cells(data)  == [k \in DOMAIN data |-> [t |-> "byte", v |-> data[k]]]
Packed(bits) ==
    [k \in 1 .. Len(Padded(bits)) \div ByteBits |->
        [t |-> "byte", v |-> MapThenSumSet(LAMBDA j : 2^j * Padded(bits)[(k - 1) * ByteBits + j + 1],
                                           0 .. ByteBits - 1)]]
EachOf(f(_), items) == Loop(LAMBDA acc, x : acc \o f(x), <<>>, items)

Stored(bits, last, data) ==
    Padded(bits \o <<last, 0, 0>>) \o LowFirst(Len(data), 4) \o LowFirst(15 - Len(data), 4)
    \o EachOf(LAMBDA v : LowFirst(v, 4), data)

Literals(lengths, data) == EachOf(LAMBDA v : CodeBits(lengths, v), data)
\* Length code lc with its extra bits, distance code dc with its own.
Copy(lit, dist, lc, lx, dc, dx) ==
    CodeBits(lit, 17 + lc) \o LowFirst(lx, MCLenExtra[lc + 1])
    \o CodeBits(dist, dc) \o LowFirst(dx, MCDistExtra[dc + 1])
Fixed(bits, last, symbols) == bits \o <<last, 1, 0>> \o symbols \o CodeBits(MCFixedLiteral, 16)

\* A code for 1, 2, 3, 11, 12, 13, the end and one length, and its description.
DynLiteral  == <<0, 3, 3, 3, 0, 0, 0, 0, 0, 0, 0, 3, 4, 4, 0, 0, 2, 3>>
DynDistance == <<1, 1>>
DynClc      == <<3, 3, 3, 3, 3, 0, 3, 3, 3>>
DynTokens   == <<<<0, 0, 0>>, <<3, 0, 0>>, <<6, 0, 1>>, <<8, 3, 2>>, <<3, 0, 0>>, <<4, 0, 0>>, <<4, 0, 0>>,
                 <<7, 0, 1>>, <<2, 0, 0>>, <<3, 0, 0>>, <<1, 0, 0>>, <<1, 0, 0>>>>
DynamicOf(bits, last, literal, tokens, symbols) ==
    bits \o <<last, 0, 1>> \o LowFirst(1, 2) \o LowFirst(1, 2) \o LowFirst(6, 3)
    \o EachOf(LAMBDA k : LowFirst(DynClc[MCClcOrder[k] + 1], 2), UpTo(8))
    \o EachOf(LAMBDA t : CodeBits(DynClc, t[1]) \o LowFirst(t[2], t[3]), tokens)
    \o symbols \o CodeBits(literal, 16)
Dynamic(bits, last, symbols) == DynamicOf(bits, last, DynLiteral, DynTokens, symbols)

\* The same with a longer code for the length, so that one code stands for nothing.
PartLiteral == [DynLiteral EXCEPT ![18] = 4]
PartTokens  == [DynTokens EXCEPT ![10] = <<4, 0, 0>>]

----------------------------------------------------------------------------
(* gzip members and packages.                                              *)

Plus(n) == IF n > 0 THEN n + 1 ELSE 0
GzFields(extra, name, comment, hcrc) ==
    <<[t |-> "gz", method |-> 8, reserved |-> FALSE, extra |-> extra, name |-> name, comment |-> comment,
       hcrc |-> hcrc]>>
    \o Cells([k \in 1 .. extra + Plus(name) + Plus(comment) + (IF hcrc THEN 1 ELSE 0) |-> 7])
GzHeader == GzFields(0, 0, 0, FALSE)
End(data) == <<[t |-> "end", crc |-> data]>>
GzWith(head, bits, data) == head \o Packed(bits) \o End(data)
Gz(bits, data) == GzWith(GzHeader, bits, data)
GzOf(kind, data) ==
    CASE kind = "stored" -> Gz(Stored(<<>>, 1, data), data)
      [] kind = "fixed"  -> Gz(Fixed(<<>>, 1, Literals(MCFixedLiteral, data)), data)
      [] kind = "mixed"  -> GzWith(GzFields(1, 2, 1, TRUE),
             Stored(Fixed(<<>>, 0, Literals(MCFixedLiteral, SubSeq(data, 1, 1))), 1, SubSeq(data, 2, Len(data))),
             data)

\* What a package holds.
Holds(state, room, scripts, list) ==
    [state |-> state, room |-> room, name |-> 11, version |-> 12, depends |-> <<13>>,
     scripts |-> scripts, list |-> list]
File(cells, p) == [cells |-> cells, packed |-> p]

\* A signature, .PKGINFO, a script, a zero block, a file, an extension, a directory, a file.
ApkTar  == <<5, 1, 1, 11, 12, 13, 4, 6, 0, 2, 9, 6, 2, 3, 2, 0>>
ApkHolds(state) == Holds(state, Len(ApkTar), <<<<6>>>>, <<2, 3, 2>>)
Split(k, a, b) == GzOf(a, SubSeq(ApkTar, 1, k)) \o GzOf(b, SubSeq(ApkTar, k + 1, 16))

WholeApks == {File(Split(k, "stored", "fixed"), ApkHolds("whole")) : k \in 1 .. 15}
             \cup {File(Split(k, "mixed", "stored"), ApkHolds("whole")) : k \in {2, 4, 9, 11}}

\* With a member that holds nothing, which at the end needs a cell of the buffer all
\* the same; with a literal code that is not complete; with a code of its own and copies in it; with
\* a copy that runs into itself; with blocks of all three kinds in one member.
InfoTar == <<1, 11, 12, 13>>
RunTar  == InfoTar \o <<2, 2, 2, 2, 2, 2>>
DynTar  == InfoTar \o <<3, 2, 3, 2, 3, 3, 3>>
DynBits(bits, last) ==
    Dynamic(bits, last, Literals(DynLiteral, InfoTar \o <<3, 2>>) \o Copy(DynLiteral, DynDistance, 0, 0, 1, 0)
                        \o Literals(DynLiteral, <<3>>) \o Copy(DynLiteral, DynDistance, 0, 0, 0, 0))
PartBits == DynamicOf(<<>>, 1, PartLiteral, PartTokens, Literals(PartLiteral, DynTar))
RunBits == Fixed(<<>>, 1, Literals(MCFixedLiteral, InfoTar \o <<2>>)
                          \o Copy(MCFixedLiteral, MCFixedDistance, 1, 1, 0, 0)
                          \o Literals(MCFixedLiteral, <<2>>))
AllTar  == DynTar \o <<2, 9, 3>> \o <<3>>
AllBits == Fixed(Stored(DynBits(<<>>, 0), 0, <<2, 9, 3>>), 1, Literals(MCFixedLiteral, <<3>>))
OddApks ==
    {File(GzOf("fixed", <<>>) \o Split(6, "stored", "stored"), ApkHolds("whole")),
     File(Split(6, "stored", "stored") \o GzOf("fixed", <<>>), [ApkHolds("whole") EXCEPT !.room = @ + 1]),
     File(Gz(PartBits, DynTar), Holds("odd", 0, <<>>, <<>>)),
     File(Gz(RunBits, RunTar), Holds("whole", Len(RunTar), <<>>, <<2, 2, 2>>)),
     File(Gz(DynBits(<<>>, 1), DynTar), Holds("whole", Len(DynTar), <<>>, <<3, 2, 2, 3, 3>>)),
     File(Gz(AllBits, AllTar), Holds("whole", Len(AllTar), <<>>, <<3, 2, 2, 3, 3, 2, 3, 3>>))}

\* Altered and cut.
Altered == {File([cells EXCEPT ![k].v = 15 - @], ApkHolds("altered")) :
               <<cells, k>> \in {<<c, j>> \in {Split(6, "mixed", "fixed")} \X (1 .. 80) :
                                    j \in DOMAIN c /\ c[j].t = "byte"}}
AlteredDyn == {File([cells EXCEPT ![k].v = 15 - @], Holds("altered", Len(AllTar), <<>>, <<3, 2, 2, 3, 3, 2, 3, 3>>)) :
                  <<cells, k>> \in {<<c, j>> \in {Gz(AllBits, AllTar)} \X (1 .. 80) :
                                       j \in DOMAIN c /\ c[j].t = "byte"}}
Cut == {File(SubSeq(cells, 1, k), ApkHolds(IF k = Len(GzOf("stored", SubSeq(ApkTar, 1, 6))) THEN "odd" ELSE "cut")) :
           <<cells, k>> \in {<<c, j>> \in {Split(6, "stored", "fixed")} \X (1 .. 80) : j < Len(c)}}

\* Tar archives that are not right: no .PKGINFO, no version, too long a .PKGINFO,
\* too many scripts, a size past the end, a directory with a size; and other heads.
StrangeTars == {<<2, 9>>, <<1, 11, 14, 13>>, <<10, 11, 12, 13, 14, 14>>, InfoTar \o <<4, 6, 4, 6, 4, 6>>,
                InfoTar \o <<2, 9, 7>>, InfoTar \o <<8, 8, 3>>, <<0, 0>>}
Strange == {File(GzOf("stored", tar), Holds("odd", 0, <<>>, <<>>)) : tar \in StrangeTars}
           \cup {File(<<h>> \o Tail(GzOf("stored", InfoTar)), Holds("odd", 0, <<>>, <<>>)) :
                   h \in {[GzHeader[1] EXCEPT !.method = 7], [GzHeader[1] EXCEPT !.reserved = TRUE],
                          [GzHeader[1] EXCEPT !.extra = 50], [GzHeader[1] EXCEPT !.name = 50],
                          [GzHeader[1] EXCEPT !.comment = 50], [GzHeader[1] EXCEPT !.name = 50, !.comment = 1]}}
           \cup {File(SubSeq(GzFields(0, 0, 0, TRUE) \o Cells(<<1>>), 1, n), Holds("odd", 0, <<>>, <<>>)) : n \in 1 .. 3}
           \cup {File(<<>>, Holds("odd", 0, <<>>, <<>>))}

\* Whatever two bytes of input decode to.
Noise == {File(GzHeader \o Cells(<<a, b, 9>>) \o End(<<>>), Holds("odd", 0, <<>>, <<>>)) :
             a \in 0 .. 15, b \in 0 .. 15}

----------------------------------------------------------------------------
\* ar archives.
Member(name, cells) ==
    <<[t |-> "ar", name |-> name, size |-> Len(cells)]>> \o cells
    \o (IF Len(cells) % 2 = 1 THEN Cells(<<10>>) ELSE <<>>)
Archive(members) == <<[t |-> "arch"]>> \o EachOf(LAMBDA m : Member(m[1], m[2]), members)
Version == <<"debian-binary", <<[t |-> "2.0"]>>>>
Stream(kind, rc, data) == <<[t |-> kind, rc |-> rc, out |-> data]>>
As(kind, data) ==
    CASE kind = "" -> Cells(data)
      [] kind = ".gz" -> GzOf("fixed", data)
      [] kind = ".zst" -> Stream("zst", "OK", data)
      [] kind = ".xz" -> Stream("xz", "OK", data)
ControlTar == <<3, 2, 5, 9, 11, 12, 13>>
ControlName(kind) == CASE kind = "" -> "control.tar" [] kind = ".gz" -> "control.tar.gz"
                       [] kind = ".zst" -> "control.tar.zst" [] kind = ".xz" -> "control.tar.xz"
DataTar == <<3, 2, 9, 0, 2, 1, 5, 3>>
DataName(kind) == CASE kind = "" -> "data.tar" [] kind = ".gz" -> "data.tar.gz"
                    [] kind = ".zst" -> "data.tar.zst" [] kind = ".xz" -> "data.tar.xz"
Room(kind, data) == IF kind = "" THEN 0 ELSE Len(data)
DebOf(c, d) ==
    File(Archive(<<Version, <<ControlName(c), As(c, ControlTar)>>, <<"_gpg", Cells(<<1, 2, 3>>)>>,
                   <<DataName(d), As(d, DataTar)>>>>),
         Holds("whole", Max({Room(c, ControlTar), Room(d, DataTar)}), <<>>, <<3, 2, 2, 5>>))
\* The name of the control member need not say how it is packed.
DebNamed(name, c) ==
    File(Archive(<<Version, <<name, As(c, ControlTar)>>, <<"data.tar", Cells(DataTar)>>>>),
         Holds("whole", Room(c, ControlTar), <<>>, <<3, 2, 2, 5>>))
Debs == {DebNamed(n, c) : n \in {"control.tar.gz", "control.tar.lzma", "control.tar.bz2"}, c \in {"", ".gz"}} \cup
        {DebOf(c, d) : c \in {"", ".gz", ".zst", ".xz"}, d \in {"", ".gz", ".zst", ".xz"}}
OddDebs ==
    {File(a, Holds("odd", 0, <<>>, <<>>)) :
       a \in {Archive(<<<<"control.tar", Cells(ControlTar)>>>>),
              Archive(<<<<"debian-binary", Cells(<<3>>)>>>>),
              Archive(<<Version>>), Archive(<<Version>>) \o Cells(<<1>>),
              Archive(<<Version, <<"control.tar", Cells(<<2, 1>>)>>>>),
              Archive(<<Version, <<"control.tar", Cells(<<9, 11, 14, 12>>)>>>>),
              Archive(<<Version, <<"control.tar", Cells(<<9, 11, 12, 15>>)>>, <<"data.tar", Cells(<<2, 1>>)>>>>),
              Archive(<<Version, <<"control.tar", Cells(ControlTar)>>>>),
              Archive(<<Version, <<"control.tar.bz2", <<[t |-> "bz2"]>>>>>>),
              Archive(<<Version, <<"control.tar.gz", <<[t |-> "bz2"]>>>>>>),
              Archive(<<Version, <<"control", Cells(ControlTar)>>, <<"Control.tar", Cells(ControlTar)>>>>),
              Archive(<<Version, <<"control.tar.xz", Stream("xz", "FS_CORRUPT", <<>>)>>>>),
              Front(Archive(<<Version, <<"control.tar", Cells(<<9, 11, 12, 13>>)>>>>))}}

Pacman == {File(Stream("zst", "OK", InfoTar \o <<5, 1, 2, 9>>), Holds("whole", 8, <<>>, <<2>>)),
           File(Stream("zst", "OK", <<1, 14, 12, 13>>), Holds("odd", 0, <<>>, <<>>)),
           File(Stream("zst", "OK", <<2, 9>>), Holds("odd", 0, <<>>, <<>>)),
           File(Stream("zst", "FS_CORRUPT", <<>>), Holds("odd", 0, <<>>, <<>>))}

MCPackages == WholeApks \cup OddApks \cup Altered \cup AlteredDyn \cup Cut \cup Strange \cup Noise
              \cup Debs \cup OddDebs \cup Pacman

----------------------------------------------------------------------------
\* Files for the detector.
Plain == [sig |-> "none", len |-> 5000, package |-> FALSE, ustar |-> FALSE, class |-> 2, data |-> 1, type |-> 2,
          lfanew |-> 100, pe |-> TRUE, magic |-> 523, nfat |-> 2, name |-> "x", name_len |-> 10,
          koly |-> FALSE, ai |-> {}, eocd |-> {}, tail |-> 70000]
Of(sig) == [Plain EXCEPT !.sig = sig]
MCSamples ==
    {[Of(sig) EXCEPT !.package = TRUE, !.len = 21] : sig \in {"gzip", "zstd", "debian", "arch", "none"}}
    \cup {Of(sig) : sig \in {"none", "fat", "fat64", "macho", "macho64", "dex", "rpm", "hsqs", "sqsh", "ustar", "asm", "xz", "ole", "#!"}}
    \cup {[Of(sig) EXCEPT !.ustar = TRUE] : sig \in {"none", "#!", "gzip", "PK"}}
    \cup {[Of("ELF") EXCEPT !.class = c, !.type = t] : c \in 1 .. 3, t \in 1 .. 3}
    \cup {[Of("MZ") EXCEPT !.lfanew = a, !.pe = p, !.magic = g] :
             a \in {100, 4070, 4080}, p \in BOOLEAN, g \in {0, 267, 523}}
    \cup {[Of("fat") EXCEPT !.nfat = n] : n \in {0, 64, 65}}
    \cup {[Of("PK") EXCEPT !.name = n, !.name_len = l] :
             n \in {"base/manifest", "AndroidManifest", "classes.dex", "META-INF", "metadata", "x"}, l \in {10, 128}}
    \cup {[Plain EXCEPT !.tail = t, !.koly = k, !.ai = a, !.eocd = e] :
             t \in {100, 1124, 65536}, k \in BOOLEAN, a \in {{}, {10}, {90}}, e \in {{}, {20}}}
MCLengths == {1, 2, 4, 5, 8, 20, 21, 30, 40, 64, 124, 125, 126, 261, 262, 4096, 5000}
============================================================================
