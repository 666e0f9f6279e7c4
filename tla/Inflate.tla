------------------------------ MODULE Inflate ------------------------------
(***************************************************************************)
(* DEFLATE (libs/libafpkg/inflate.c): afpkg_inflate decodes a stream of    *)
(* blocks, stored, with the fixed code or with a code of their own, into   *)
(* the buffer the caller gives it, and says how much input it took.        *)
(*                                                                         *)
(* The input is part of a file, a sequence of cells: bytes of ByteBits     *)
(* bits, taken from the low end, and marks, which stand for a header or a  *)
(* trailer and read as zero.  The alphabets are small, and the tables that *)
(* go with them are constants.  One step is a block's header, its tables,  *)
(* a stored block, or one symbol.                                          *)
(***************************************************************************)
EXTENDS Integers, Sequences, FiniteSets, SequencesExt

CONSTANTS ByteBits,                \* bits of a byte
          HuffMaxBits,             \* HUFF_MAX_BITS
          EndSymbol,               \* 256, above the literals
          FixedLiteral, FixedDistance,   \* the lengths of the fixed codes
          LenBase, LenExtra,       \* s_len_base, s_len_extra
          DistBase, DistExtra,     \* s_dist_base, s_dist_extra
          MaxHlit, MaxHdist,       \* 286 and 30
          HlitBits, HdistBits, HclenBits, HclenMin,   \* the header of a dynamic block
          ClcOrder, ClcBits,       \* s_clc_order, the width of its lengths
          Repeats,                 \* the symbols 16, 17, 18: [base, extra, copies]
          MaxBlocks

ASSUME InflateAssumption ==
    /\ ByteBits \in Nat \ {0} /\ HuffMaxBits \in Nat \ {0}
    /\ Len(LenBase) = Len(LenExtra) /\ Len(DistBase) = Len(DistExtra)
    /\ Len(FixedLiteral) > EndSymbol + Len(LenBase) /\ MaxHlit <= EndSymbol + 1 + Len(LenBase)

VARIABLES file,   \* the cells of the file
          inf     \* the call of afpkg_inflate under way, or the last one

\* A loop: acc goes through the items of a sequence.
Loop(step(_, _), base, items) ==
    LET acc[k \in 0 .. Len(items)] ==
            IF k = 0 THEN base ELSE LET before == acc[k - 1] IN step(before, items[k])
    IN acc[Len(items)]

UpTo(n) == [k \in 1 .. n |-> k]

----------------------------------------------------------------------------
(* The bit reader.  byte is the next byte to load, from inf.base; pos is   *)
(* kept for the properties: the bits taken so far.                         *)

br_init == [byte |-> 0, buffer |-> 0, count |-> 0, overrun |-> FALSE, pos |-> 0]

Byte(base, k) == IF file[base + k].t = "byte" THEN file[base + k].v ELSE 0

\* The loads of br_bits: as many bytes as the bits asked for need, or all.
Loads(br, n) ==
    IF br.count >= n THEN 0 ELSE (n - br.count + ByteBits - 1) \div ByteBits

br_load(br, base, loads) ==
    Loop(LAMBDA b, k : [b EXCEPT !.buffer = @ + Byte(base, b.byte + 1) * 2^b.count,
                                 !.byte = @ + 1, !.count = @ + ByteBits],
         br, UpTo(loads))

\* The bits and the reader after them; at the end of the input 0, and overrun.
br_bits(z, br, n) ==
    LET loads == Loads(br, n)
        short == br.byte + loads > z.len
        b     == br_load(br, z.base, IF short THEN z.len - br.byte ELSE loads)
    IN  IF n = 0 THEN [v |-> 0, br |-> br]
        ELSE IF short THEN [v |-> 0, br |-> [b EXCEPT !.overrun = TRUE]]
        ELSE [v |-> b.buffer % 2^n,
              br |-> [b EXCEPT !.buffer = @ \div 2^n, !.count = @ - n, !.pos = @ + n]]

br_align_unread(br) ==
    [br EXCEPT !.byte = @ - br.count \div ByteBits, !.buffer = 0, !.count = 0,
               !.pos = @ + (br.count % ByteBits)]

----------------------------------------------------------------------------
(* Huffman tables.  A sequence of lengths has that of symbol s at s + 1.   *)

Count(lengths, l) == Cardinality({k \in DOMAIN lengths : lengths[k] = l})

\* left: codes not used, -1 when there are more symbols than codes.
huff_left(counts) ==
    Loop(LAMBDA left, l : IF left < 0 \/ 2 * left < counts[l] THEN -1 ELSE 2 * left - counts[l],
         1, UpTo(HuffMaxBits))

SymbolsOf(lengths, l) == SelectSeq([k \in DOMAIN lengths |-> k - 1], LAMBDA s : lengths[s + 1] = l)

huff_symbols_Unsorted(lengths) ==
    SelectSeq([k \in DOMAIN lengths |-> k - 1], LAMBDA s : lengths[s + 1] # 0)

\* The symbols in the order of their lengths and, of one length, their own.
huff_symbols(lengths) ==
    Loop(LAMBDA acc, l : acc \o SymbolsOf(lengths, l), <<>>, UpTo(HuffMaxBits))

huff_build(lengths) ==
    LET counts == [l \in 1 .. HuffMaxBits |-> Count(lengths, l)]
    IN  [left |-> huff_left(counts), counts |-> counts,
         symbols |-> huff_symbols(lengths), lengths |-> lengths]

\* One more bit of the code.
huff_step(z, h, d, l) ==
    IF d.sym # -2 THEN d
    ELSE LET bit  == br_bits(z, d.br, 1)
             code == 2 * d.code + bit.v
         IN  IF bit.br.overrun THEN [d EXCEPT !.br = bit.br, !.sym = -1]
             ELSE IF code - d.first < h.counts[l]
             THEN [d EXCEPT !.br = bit.br, !.sym = h.symbols[d.index + (code - d.first) + 1]]
             ELSE [d EXCEPT !.br = bit.br, !.code = code, !.index = @ + h.counts[l],
                            !.first = 2 * (@ + h.counts[l])]

\* The symbol, or -1.
huff_decode(z, br, h) ==
    LET d == Loop(LAMBDA acc, l : huff_step(z, h, acc, l),
                  [br |-> br, code |-> 0, first |-> 0, index |-> 0, sym |-> -2],
                  UpTo(HuffMaxBits))
    IN  [br |-> d.br, sym |-> IF d.sym < 0 THEN -1 ELSE d.sym]

----------------------------------------------------------------------------
(* afpkg_inflate.                                                          *)

NoTable == huff_build(<<>>)

inflate_begin(base, len, size) ==
    [pc |-> "header", base |-> base, len |-> len, size |-> size, br |-> br_init,
     out |-> <<>>, last |-> FALSE, blocks |-> 0, lit |-> NoTable, dist |-> NoTable,
     rc |-> "OK", consumed |-> 0]

Failed(z, rc) == [z EXCEPT !.pc = "done", !.rc = rc]

Consumed(z) == Min({(z.br.byte * ByteBits - z.br.count + ByteBits - 1) \div ByteBits, z.len})

\* After a block: the result after the last one, and the next header if not.
BlockDone(z) ==
    IF z.last THEN [z EXCEPT !.pc = "done", !.consumed = Consumed(z)]
    ELSE IF z.blocks + 1 > MaxBlocks THEN Failed(z, "FS_CORRUPT")
    ELSE IF z.br.byte >= z.len /\ z.br.count = 0 THEN Failed(z, "FS_CORRUPT")
    ELSE [z EXCEPT !.pc = "header", !.blocks = @ + 1]

BlockOf(z, type) ==
    CASE type = 0 -> [z EXCEPT !.pc = "stored"]
      [] type = 1 -> [z EXCEPT !.pc = "symbols", !.lit = huff_build(FixedLiteral),
                               !.dist = huff_build(FixedDistance)]
      [] type = 2 -> [z EXCEPT !.pc = "tables"]
      [] OTHER    -> Failed(z, "FS_CORRUPT")

inflate_header(z) ==
    LET last == br_bits(z, z.br, 1)
        type == br_bits(z, last.br, 2)
        next == [z EXCEPT !.br = type.br, !.last = last.v = 1]
    IN  IF type.br.overrun THEN Failed(next, "FS_CORRUPT") ELSE BlockOf(next, type.v)

\* LEN and NLEN are a byte each.
inflate_stored(z) ==
    LET b    == br_align_unread(z.br)
        blen == Byte(z.base, b.byte + 1)
        from == b.byte + 2
    IN  IF b.byte + 2 > z.len THEN Failed(z, "FS_CORRUPT")
        ELSE IF blen + Byte(z.base, b.byte + 2) # 2^ByteBits - 1 THEN Failed(z, "FS_CORRUPT")
        ELSE IF from + blen > z.len THEN Failed(z, "FS_CORRUPT")
        ELSE IF Len(z.out) + blen > z.size THEN Failed(z, "TOOMANY")
        ELSE BlockDone([z EXCEPT !.out = @ \o [k \in 1 .. blen |-> Byte(z.base, from + k)],
                                 !.br = [b EXCEPT !.byte = from + blen,
                                                  !.pos = @ + (2 + blen) * ByteBits]])

\* One code length of a dynamic block, or a run of them.
LengthStep(z, clc, total, acc) ==
    IF acc.rc # "OK" \/ Len(acc.lengths) >= total THEN acc
    ELSE LET d == huff_decode(z, acc.br, clc)
             r == Repeats[d.sym - HuffMaxBits]
             n == br_bits(z, d.br, r.extra)
             i == Len(acc.lengths)
         IN  IF d.sym < 0 THEN [acc EXCEPT !.rc = "FS_CORRUPT"]
             ELSE IF d.sym <= HuffMaxBits
             THEN [acc EXCEPT !.br = d.br, !.lengths = Append(@, d.sym)]
             ELSE IF (r.copies /\ i = 0) \/ i + r.base + n.v > total
             THEN [acc EXCEPT !.rc = "FS_CORRUPT"]
             ELSE [acc EXCEPT !.br = n.br,
                     !.lengths = @ \o [k \in 1 .. r.base + n.v |->
                                          IF r.copies THEN acc.lengths[i] ELSE 0]]

ClcLengths(z, br, hclen) ==
    Loop(LAMBDA acc, k : LET b == br_bits(z, acc.br, ClcBits)
                         IN  [br |-> b.br, lengths |-> [acc.lengths EXCEPT ![ClcOrder[k] + 1] = b.v]],
         [br |-> br, lengths |-> [k \in DOMAIN ClcOrder |-> 0]], UpTo(hclen))

TablesFrom(z, hlit, acc) ==
    LET lit  == huff_build(SubSeq(acc.lengths, 1, hlit))
        dist == huff_build(SubSeq(acc.lengths, hlit + 1, Len(acc.lengths)))
    IN  IF acc.rc # "OK" \/ acc.br.overrun \/ lit.left < 0 \/ dist.left < 0
        THEN Failed([z EXCEPT !.br = acc.br], "FS_CORRUPT")
        ELSE [z EXCEPT !.br = acc.br, !.pc = "symbols", !.lit = lit, !.dist = dist]

LengthsFrom(z, c, clc, hlit, total) ==
    IF clc.left < 0 THEN Failed([z EXCEPT !.br = c.br], "FS_CORRUPT")
    ELSE TablesFrom(z, hlit,
             Loop(LAMBDA acc, k : LengthStep(z, clc, total, acc),
                  [rc |-> "OK", br |-> c.br, lengths |-> <<>>], UpTo(total)))

read_dynamic_tables(z) ==
    LET b1 == br_bits(z, z.br, HlitBits)
        b2 == br_bits(z, b1.br, HdistBits)
        b3 == br_bits(z, b2.br, HclenBits)
        hlit  == b1.v + EndSymbol + 1
        hdist == b2.v + 1
    IN  IF b3.br.overrun \/ hlit > MaxHlit \/ hdist > MaxHdist
        THEN Failed([z EXCEPT !.br = b3.br], "FS_CORRUPT")
        ELSE LET c == ClcLengths(z, b3.br, b3.v + HclenMin)
             IN  LengthsFrom(z, c, huff_build(c.lengths), hlit, hlit + hdist)

sink_byte(z, v) == IF Len(z.out) >= z.size THEN Failed(z, "TOOMANY") ELSE [z EXCEPT !.out = Append(@, v)]

sink_copy_Whole(z, distance, length) ==
    IF Len(z.out) < distance \/ Len(z.out) + length > z.size THEN Failed(z, "TOOMANY")
    ELSE [z EXCEPT !.out = @ \o [k \in 1 .. length |->
              IF k <= distance THEN z.out[Len(z.out) - distance + k] ELSE 0]]

\* A byte at a time: the copy may run into what it writes.
sink_copy(z, distance, length) ==
    Loop(LAMBDA acc, k : IF acc.pc = "done" THEN acc
                         ELSE IF Len(acc.out) < distance THEN Failed(acc, "TOOMANY")
                         ELSE sink_byte(acc, acc.out[Len(acc.out) - distance + 1]),
         z, UpTo(length))

\* A length code and the distance after it.
inflate_copy(z, code) ==
    LET l == br_bits(z, z.br, LenExtra[code + 1])
        d == huff_decode(z, l.br, z.dist)
        e == br_bits(z, d.br, DistExtra[d.sym + 1])
    IN  IF d.sym < 0 \/ d.sym >= Len(DistBase) THEN Failed([z EXCEPT !.br = d.br], "FS_CORRUPT")
        ELSE IF e.br.overrun THEN Failed([z EXCEPT !.br = e.br], "FS_CORRUPT")
        ELSE sink_copy([z EXCEPT !.br = e.br], DistBase[d.sym + 1] + e.v, LenBase[code + 1] + l.v)

inflate_symbol(z) ==
    LET d == huff_decode(z, z.br, z.lit)
        s == [z EXCEPT !.br = d.br]
    IN  IF d.sym < 0 THEN Failed(s, "FS_CORRUPT")
        ELSE IF d.sym < EndSymbol THEN sink_byte(s, d.sym)
        ELSE IF d.sym = EndSymbol THEN BlockDone(s)
        ELSE IF d.sym - EndSymbol > Len(LenBase) THEN Failed(s, "FS_CORRUPT")
        ELSE inflate_copy(s, d.sym - EndSymbol - 1)

inflate_step(z) ==
    CASE z.pc = "header"  -> inflate_header(z)
      [] z.pc = "stored"  -> inflate_stored(z)
      [] z.pc = "tables"  -> read_dynamic_tables(z)
      [] z.pc = "symbols" -> inflate_symbol(z)

afpkg_inflate ==
    /\ inf.pc # "done"
    /\ inf' = inflate_step(inf)
    /\ UNCHANGED file

----------------------------------------------------------------------------
\* The bits of the input, from the first.
BitAt(p) == (Byte(inf.base, p \div ByteBits + 1) \div 2^(p % ByteBits)) % 2

\* The canonical code of a symbol: as a number, most significant bit first, it is
\* the number of codes of its length that shorter and earlier symbols use up.
Below(lengths, s) ==
    {k \in DOMAIN lengths : /\ lengths[k] # 0
                            /\ \/ lengths[k] < lengths[s + 1]
                               \/ lengths[k] = lengths[s + 1] /\ k < s + 1}

CodeOf(lengths, s) ==
    MapThenSumSet(LAMBDA k : 2^(lengths[s + 1] - lengths[k]), Below(lengths, s))

\* The symbol whose code the walk of huff_decode ends at, given the code.
Walked(h, code, width) ==
    LET first(l) == MapThenSumSet(LAMBDA j : h.counts[j] * 2^(l - j), 1 .. l - 1)
        index(l) == MapThenSumSet(LAMBDA j : h.counts[j], 1 .. l - 1)
        prefix(l) == code \div 2^(width - l)
        hits == {l \in 1 .. width : prefix(l) - first(l) < h.counts[l]}
    IN  IF hits = {} THEN -1
        ELSE h.symbols[index(Min(hits)) + (prefix(Min(hits)) - first(Min(hits))) + 1]

\* No more symbols than codes, and every symbol at its own.  That every code has a
\* symbol is not claimed: see LiteralComplete.
TableSound(h) ==
    /\ h.left >= 0
    /\ \A s \in 0 .. Len(h.lengths) - 1 :
          h.lengths[s + 1] # 0 => Walked(h, CodeOf(h.lengths, s), h.lengths[s + 1]) = s

\* The reader never loses or repeats a bit, in any mixture of blocks: what it
\* holds are the bits between those taken and the next byte to load, and the
\* input it reports as consumed ends in the byte of the last bit taken.  The
\* tables give every symbol its canonical code.  Nothing is written outside the
\* buffer or read outside the input.
InflateSound ==
    /\ inf.br.byte <= inf.len /\ Len(inf.out) <= inf.size
    /\ ~inf.br.overrun =>
          /\ inf.br.byte * ByteBits - inf.br.count = inf.br.pos
          /\ inf.br.buffer = MapThenSumSet(LAMBDA k : 2^k * BitAt(inf.br.pos + k), 0 .. inf.br.count - 1)
    /\ (inf.pc = "done" /\ inf.rc = "OK" /\ inf.len > 0) =>
          inf.consumed = (inf.br.pos + ByteBits - 1) \div ByteBits
    /\ inf.pc = "symbols" => TableSound(inf.lit) /\ TableSound(inf.dist)

\* inflate.c: "huff_build returns >0 for incomplete, and an incomplete literal table
\* is an error while an empty distance table is not".  Both are only tested for
\* being negative, and a block with codes that stand for nothing is decoded.
LiteralComplete == inf.pc = "symbols" => inf.lit.left = 0
============================================================================
