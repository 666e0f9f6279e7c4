------------------------------- MODULE Afpkg -------------------------------
(***************************************************************************)
(* The package library (libs/libafpkg/afpkg.c): afpkg_open reads a Debian, *)
(* Alpine or pacman package out of a file in memory, with a scratch buffer *)
(* to decompress into, and afpkg_iter_next lists what it would install.    *)
(*                                                                         *)
(* A cell of the file is a block of a tar archive, a line of a text, a     *)
(* byte of a compressed stream, or a mark: the magic or a member header of *)
(* an ar archive, the header or the trailer of a gzip member, or a whole   *)
(* zstd or xz stream.  gzip members are decoded by Inflate; the two other  *)
(* decoders are not modelled, and a stream of theirs says what it gives.   *)
(* The trailer's checksum is the content it was made from.                 *)
(***************************************************************************)
EXTENDS Inflate

CONSTANTS Packages,    \* bound: the files, each with what was packed into it
          Scratches,   \* bound: sizes of the scratch buffer, 0 when there is none
          Headers,     \* what a cell means as the header of a tar entry
          Fields,      \* what a cell means as a line of a text
          MaxScripts, MaxDepends, PkginfoMax

VARIABLES packed,      \* history: what was packed, and what befell the file
          scratch,     \* the scratch buffer
          pkg,         \* af_pkg_t, and how far afpkg_open has come
          it           \* afpkg_iter_t, and the entries it has given

pkgVars == <<file, inf, packed, scratch, pkg, it>>

Where(in, at, len) == [in |-> in, at |-> at, len |-> len]
Nowhere == Where("file", 0, 0)
NoInfo  == [name |-> 0, version |-> 0, depends |-> <<>>, scripts |-> <<>>]
NoInflate == [inflate_begin(0, 0, 0) EXCEPT !.pc = "done"]

PkgInit ==
    /\ \E p \in Packages : file = p.cells /\ packed = p.packed
    /\ \E n \in Scratches : scratch = [k \in 1 .. n |-> 0]
    /\ inf = NoInflate
    /\ pkg = [pc |-> "closed", rc |-> "OK", valid |-> FALSE, format |-> "none", info |-> NoInfo,
              at |-> 0, total |-> 0, use |-> "none", tar |-> Nowhere]
    /\ it = [cursor |-> 0, list |-> <<>>, ended |-> FALSE]

Mark(k, t) == k \in DOMAIN file /\ file[k].t = t

----------------------------------------------------------------------------
(* ar archives.  A member is [at, len] of its payload.                     *)

ArHeaderPadding(size) == size % 2

\* The walk over the members, to the first one with one of the names.
ArStep(names, acc, k) ==
    LET h == file[acc.at + 1]
    IN  IF acc.rc # "LOOK" THEN acc
        ELSE IF acc.at + 1 > Len(file) THEN [acc EXCEPT !.rc = "NOENT"]
        ELSE IF h.t # "ar" THEN [acc EXCEPT !.rc = "FS_CORRUPT"]
        ELSE IF acc.at + 1 + h.size > Len(file) THEN [acc EXCEPT !.rc = "FS_CORRUPT"]
        ELSE IF h.name \in names THEN [rc |-> "OK", at |-> acc.at + 1, len |-> h.size]
        ELSE [acc EXCEPT !.at = @ + 1 + h.size + ArHeaderPadding(h.size)]

afpkg_ar_find(names) ==
    IF ~Mark(1, "arch") THEN [rc |-> "INVAL"]
    ELSE Loop(LAMBDA acc, k : ArStep(names, acc, k), [rc |-> "LOOK", at |-> 1, len |-> 0],
              UpTo(Len(file)))

\* The control member is known by the beginning of its name, whatever follows: how
\* it is to be read is told from its bytes.
StartsWith(name, prefix) ==
    Len(name) >= Len(prefix) /\ SubSeq(name, 1, Len(prefix)) = prefix

afpkg_ar_find_control ==
    afpkg_ar_find({n \in {c.name : c \in {x \in ToSet(file) : x.t = "ar"}} :
                      StartsWith(n, "control.tar")})

DataNames == <<"data.tar.gz", "data.tar.zst", "data.tar.xz", "data.tar">>

\* The first of the names, in this order, that the archive has.
FindData ==
    Loop(LAMBDA acc, name : IF acc.rc = "OK" THEN acc ELSE afpkg_ar_find({name}),
         [rc |-> "NOENT"], DataNames)

----------------------------------------------------------------------------
(* gzip members.                                                           *)

\* Past a text of n cells and the zero after it, which is looked for up to len; 0
\* when the header has none.
PastText(at, n, len) == IF n = 0 THEN at ELSE Max({at, Min({at + n, len})}) + 1

\* Where the deflate data of a member at `at` begins, len cells being left.
gunzip_header(at, len) ==
    LET h     == file[at + 1]
        extra == 1 + h.extra
        texts == PastText(PastText(extra, h.name, len), h.comment, len)
        skip  == texts + (IF h.hcrc THEN 1 ELSE 0)
    IN  IF len < 2 \/ h.t # "gz" THEN [rc |-> "INVAL"]
        ELSE IF h.method # 8 THEN [rc |-> "NOTSUP"]
        ELSE IF h.reserved \/ extra > len THEN [rc |-> "FS_CORRUPT"]
        ELSE IF Len(scratch) = 0 THEN [rc |-> "INVAL"]
        ELSE IF skip + 1 > len THEN [rc |-> "FS_CORRUPT"]
        ELSE [rc |-> "OK", skip |-> skip]

\* A member whose trailer agrees with what was inflated.
gunzip_trailer(z) ==
    LET t == file[z.base + z.consumed + 1]
    IN  IF z.rc # "OK" THEN z.rc
        ELSE IF z.consumed + 1 > z.len THEN "FS_CORRUPT"
        ELSE IF t.t # "end" THEN "FS_CORRUPT"
        ELSE IF Len(t.crc) # Len(z.out) \/ t.crc # z.out THEN "FS_CORRUPT"
        ELSE "OK"

\* out written into the scratch buffer from cell `from` on.
Written(from, out) ==
    [k \in DOMAIN scratch |-> IF k - from \in 1 .. Len(out) THEN out[k - from] ELSE scratch[k]]

----------------------------------------------------------------------------
(* tar archives.                                                           *)

Junk == 99
TarCell(w, k) ==
    IF w.in = "scratch" THEN scratch[w.at + k + 1]
    ELSE IF file[w.at + k + 1].t = "byte" THEN file[w.at + k + 1].v ELSE Junk

\* The entry after the cursor: zero blocks are passed over, and entries that are
\* neither files nor directories answer AGAIN.
TarEntry(w, at) ==
    LET h == Headers[TarCell(w, at)]
    IN  IF at >= w.len THEN [rc |-> "NOENT"]
        ELSE IF at + 1 + h.size > w.len THEN [rc |-> "FS_CORRUPT"]
        ELSE [rc |-> IF h.type \in {"file", "dir"} THEN "OK" ELSE "AGAIN",
              cursor |-> at + 1 + h.size, cell |-> TarCell(w, at), path |-> h.path,
              at |-> w.at + at + 1, len |-> IF h.type = "dir" THEN 0 ELSE h.size]

afpkg_tar_next(w, cursor) ==
    TarEntry(w, Min({k \in cursor .. w.len - 1 : TarCell(w, k) # 0} \cup {w.len}))

\* A walk over an archive: take(acc, entry) until the archive or the walk ends.
TarWalk(w, take(_, _), base) ==
    Loop(LAMBDA acc, k :
            IF acc.stop THEN acc
            ELSE LET e == afpkg_tar_next(w, acc.cursor)
                 IN  IF e.rc = "AGAIN" THEN [acc EXCEPT !.cursor = e.cursor]
                     ELSE IF e.rc # "OK" THEN [acc EXCEPT !.stop = TRUE]
                     ELSE take([acc EXCEPT !.cursor = e.cursor], e),
         base, UpTo(w.len + 1))

----------------------------------------------------------------------------
(* What a package says of itself.                                          *)

Text(w, at, len) == [k \in 1 .. len |-> TarCell([w EXCEPT !.at = at], k - 1)]

WithField(info, field, v) ==
    CASE field = "name"    -> [info EXCEPT !.name = v]
      [] field = "version" -> [info EXCEPT !.version = v]
      [] field = "depend" /\ Len(info.depends) < MaxDepends -> [info EXCEPT !.depends = Append(@, v)]
      [] OTHER -> info

\* A blank line ends the first paragraph, which is the only one read.  A field is
\* known by the beginning of its name.
afpkg_parse_control(text) ==
    Loop(LAMBDA acc, v :
            IF acc.stop \/ Fields[v] = "blank" THEN [acc EXCEPT !.stop = TRUE]
            ELSE [acc EXCEPT !.info = WithField(@, IF Fields[v] = "name-type" THEN "name"
                                                   ELSE Fields[v], v)],
         [stop |-> FALSE, info |-> NoInfo], text).info

afpkg_parse_pkginfo(info, text) ==
    Loop(LAMBDA acc, v : WithField(acc, Fields[v], v), info, text)

\* A name that begins with a dot, at the root.
apk_metadata_entry(path) == path \in {"info", "script", "dot"}

\* An entry in the one walk of read_apk.
ApkEntry(w, acc, e) ==
    IF e.path = "info"
    THEN IF e.len > PkginfoMax THEN [acc EXCEPT !.stop = TRUE, !.rc = "FS_CORRUPT"]
         ELSE [acc EXCEPT !.found = TRUE, !.info = afpkg_parse_pkginfo(@, Text(w, e.at, e.len))]
    ELSE IF e.path # "script" THEN acc
    ELSE IF Len(acc.info.scripts) >= MaxScripts THEN [acc EXCEPT !.stop = TRUE, !.rc = "TOOMANY"]
    ELSE [acc EXCEPT !.info.scripts = Append(@, [at |-> e.at, len |-> e.len])]

\* Up to the entry of a name.
FindEntry(w, path) ==
    TarWalk(w, LAMBDA acc, e : IF e.path = path THEN [acc EXCEPT !.stop = TRUE, !.entry = <<e>>]
                               ELSE acc,
            [stop |-> FALSE, cursor |-> 0, entry |-> <<>>])

----------------------------------------------------------------------------
(* afpkg_open.                                                             *)

Refuse(rc) == pkg' = [pkg EXCEPT !.pc = "open", !.rc = rc, !.valid = FALSE]
Accept(p)  == pkg' = [p EXCEPT !.pc = "open", !.valid = TRUE]

Same == UNCHANGED <<file, packed, it>>

\* The container decides the reader.
afpkg_open ==
    /\ pkg.pc = "closed"
    /\ IF Len(file) = 0 THEN Refuse("INVAL")
       ELSE IF Mark(1, "gz")
       THEN IF Len(scratch) = 0 THEN Refuse("INVAL") ELSE pkg' = [pkg EXCEPT !.pc = "apk"]
       ELSE IF Mark(1, "zst")
       THEN IF Len(scratch) = 0 THEN Refuse("INVAL") ELSE pkg' = [pkg EXCEPT !.pc = "pacman"]
       ELSE pkg' = [pkg EXCEPT !.pc = "deb"]
    /\ UNCHANGED <<inf, scratch>> /\ Same

\* Begin to inflate the member of len cells at `at`, for `use`, into the scratch
\* buffer from `total` on.
gunzip_begin(at, len, total, use) ==
    \E h \in {gunzip_header(at, len)} :
       IF h.rc # "OK" THEN Refuse(h.rc) /\ inf' = inf
       ELSE /\ inf' = inflate_begin(at + h.skip, len - h.skip, Len(scratch) - total)
            /\ pkg' = [pkg EXCEPT !.pc = "inflating", !.use = use]

read_apk_member ==
    /\ pkg.pc = "apk" /\ pkg.at < Len(file)
    /\ IF pkg.total >= Len(scratch) THEN Refuse("TOOMANY") /\ inf' = inf
       ELSE gunzip_begin(pkg.at, Len(file) - pkg.at, pkg.total, "apk")
    /\ UNCHANGED scratch /\ Same

inflating ==
    /\ pkg.pc = "inflating"
    /\ afpkg_inflate
    /\ UNCHANGED <<packed, scratch, pkg, it>>

\* Members of a package follow one another in the scratch buffer; a member of an
\* ar archive has it for itself.
NextMember_StaysThere(z) ==
    IF pkg.use = "apk"
    THEN [pkg EXCEPT !.pc = "apk", !.total = @ + Len(z.out)]
    ELSE [pkg EXCEPT !.pc = pkg.use, !.tar = Where("scratch", 0, Len(z.out))]

NextMember(z) ==
    IF pkg.use = "apk"
    THEN [pkg EXCEPT !.pc = "apk", !.at = z.base + z.consumed + 1, !.total = @ + Len(z.out)]
    ELSE [pkg EXCEPT !.pc = pkg.use, !.tar = Where("scratch", 0, Len(z.out))]

gunzip_end ==
    /\ pkg.pc = "inflating" /\ inf.pc = "done"
    /\ scratch' = Written(IF pkg.use = "apk" THEN pkg.total ELSE 0, inf.out)
    /\ IF gunzip_trailer(inf) # "OK" THEN Refuse(gunzip_trailer(inf)) ELSE pkg' = NextMember(inf)
    /\ UNCHANGED inf /\ Same

\* The members are one tar, walked once.
read_apk ==
    /\ pkg.pc = "apk" /\ pkg.at >= Len(file)
    /\ \E w \in {Where("scratch", 0, pkg.total)} :
       \E r \in {TarWalk(w, LAMBDA acc, e : ApkEntry(w, acc, e),
                         [stop |-> FALSE, cursor |-> 0, rc |-> "OK", found |-> FALSE, info |-> NoInfo])} :
          IF pkg.total = 0 THEN Refuse("FS_CORRUPT")
          ELSE IF r.rc # "OK" THEN Refuse(r.rc)
          ELSE IF ~r.found THEN Refuse("INVAL")
          ELSE IF r.info.name = 0 \/ r.info.version = 0 THEN Refuse("FS_CORRUPT")
          ELSE Accept([pkg EXCEPT !.info = r.info, !.tar = w, !.format = "apk"])
    /\ UNCHANGED <<inf, scratch>> /\ Same

\* afpkg_zstd and afpkg_xz: what the stream gives, if it fits.
Decoded(cell) == IF cell.rc = "OK" /\ Len(cell.out) > Len(scratch) THEN "TOOMANY" ELSE cell.rc

\* A member according to what it is, for `use`.
afpkg_member_decompress(m, use) ==
    LET c == file[m.at + 1]
    IN  IF m.len > 0 /\ c.t = "bz2" THEN Refuse("NOTSUP") /\ UNCHANGED <<inf, scratch>>
        ELSE IF m.len = 0 \/ c.t \notin {"gz", "zst", "xz"}
        THEN /\ pkg' = [pkg EXCEPT !.pc = use, !.tar = Where("file", m.at, m.len)]
             /\ UNCHANGED <<inf, scratch>>
        ELSE IF c.t = "gz" THEN gunzip_begin(m.at, m.len, 0, use) /\ UNCHANGED scratch
        ELSE IF Len(scratch) = 0 THEN Refuse("INVAL") /\ UNCHANGED <<inf, scratch>>
        ELSE IF Decoded(c) # "OK" THEN Refuse(Decoded(c)) /\ UNCHANGED <<inf, scratch>>
        ELSE /\ scratch' = Written(0, c.out)
             /\ pkg' = [pkg EXCEPT !.pc = use, !.tar = Where("scratch", 0, Len(c.out))]
             /\ UNCHANGED inf

read_deb ==
    /\ pkg.pc = "deb"
    /\ \E v \in {afpkg_ar_find({"debian-binary"})}, c \in {afpkg_ar_find_control} :
          IF v.rc # "OK" THEN Refuse("INVAL") /\ UNCHANGED <<inf, scratch>>
          ELSE IF v.len = 0 \/ ~Mark(v.at + 1, "2.0") THEN Refuse("NOTSUP") /\ UNCHANGED <<inf, scratch>>
          ELSE IF c.rc # "OK" THEN Refuse(c.rc) /\ UNCHANGED <<inf, scratch>>
          ELSE afpkg_member_decompress(c, "control")
    /\ Same

\* The control file is parsed before the buffer it may lie in is used again.
read_deb_control ==
    /\ pkg.pc = "control"
    /\ \E f \in {FindEntry(pkg.tar, "control")} :
          IF f.entry = <<>> THEN Refuse("FS_CORRUPT") /\ UNCHANGED <<inf, scratch>>
          ELSE \E info \in {afpkg_parse_control(Text(pkg.tar, f.entry[1].at, f.entry[1].len))} :
                  /\ IF info.name = 0 \/ info.version = 0 THEN Refuse("FS_CORRUPT")
                     ELSE pkg' = [pkg EXCEPT !.pc = "deb_data", !.info = info]
                  /\ UNCHANGED <<inf, scratch>>
    /\ Same

read_deb_data ==
    /\ pkg.pc = "deb_data"
    /\ \E d \in {FindData} :
          IF d.rc # "OK" THEN Refuse(d.rc) /\ UNCHANGED <<inf, scratch>>
          ELSE afpkg_member_decompress(d, "data")
    /\ Same

read_deb_done ==
    /\ pkg.pc = "data"
    /\ Accept([pkg EXCEPT !.format = "deb"])
    /\ UNCHANGED <<inf, scratch>> /\ Same

read_pacman ==
    /\ pkg.pc = "pacman"
    /\ IF Decoded(file[1]) # "OK"
       THEN Refuse(Decoded(file[1])) /\ scratch' = scratch
       ELSE /\ scratch' = Written(0, file[1].out)
            /\ pkg' = [pkg EXCEPT !.pc = "pacman_info", !.tar = Where("scratch", 0, Len(file[1].out))]
    /\ UNCHANGED inf /\ Same

\* .PKGINFO need not give a version here.
read_pacman_info ==
    /\ pkg.pc = "pacman_info"
    /\ \E f \in {FindEntry(pkg.tar, "info")} :
          IF f.entry = <<>> THEN Refuse("NOENT")
          ELSE \E info \in {afpkg_parse_pkginfo(NoInfo, Text(pkg.tar, f.entry[1].at, f.entry[1].len))} :
                  IF info.name = 0 THEN Refuse("FS_CORRUPT")
                  ELSE Accept([pkg EXCEPT !.info = info, !.format = "pacman"])
    /\ UNCHANGED <<inf, scratch>> /\ Same

\* afpkg_iter_next: on to the next entry that is no metadata of the format.
NextListed ==
    TarWalk(pkg.tar, LAMBDA acc, e :
                IF pkg.format \in {"apk", "pacman"} /\ apk_metadata_entry(e.path) THEN acc
                ELSE [acc EXCEPT !.stop = TRUE, !.entry = <<e.cell>>],
            [stop |-> FALSE, cursor |-> it.cursor, entry |-> <<>>])

afpkg_iter_next ==
    /\ pkg.pc = "open" /\ ~it.ended
    /\ \E r \in {IF pkg.valid THEN NextListed ELSE [cursor |-> it.cursor, entry |-> <<>>]} :
          it' = [cursor |-> r.cursor, list |-> it.list \o r.entry, ended |-> r.entry = <<>>]
    /\ UNCHANGED <<file, inf, packed, scratch, pkg>>

PkgNext == \/ afpkg_open \/ read_apk_member \/ inflating \/ gunzip_end \/ read_apk
           \/ read_deb \/ read_deb_control \/ read_deb_data \/ read_deb_done
           \/ read_pacman \/ read_pacman_info \/ afpkg_iter_next

----------------------------------------------------------------------------
\* packed.state is "whole" for a package as the packers write it, "altered" when a
\* byte under a checksum was changed, "cut" when it ends inside a member, and "odd"
\* for anything else.

ScriptTexts == [k \in DOMAIN pkg.info.scripts |->
                   Text(Where("scratch", 0, 0), pkg.info.scripts[k].at, pkg.info.scripts[k].len)]

\* A package that is whole is opened, whatever its container, its compression and
\* the boundaries of its members, provided its contents fit the buffer; it has
\* the name, the version, the dependencies and the scripts packed into it, the
\* scripts still to be found in the buffer.  One that is cut is not opened, and one
\* that was altered only if it still decodes to what was packed.
OpenExact ==
    pkg.pc = "open" =>
        /\ (packed.state = "whole" /\ packed.room <= Len(scratch)) => pkg.valid
        /\ (packed.state \in {"whole", "altered"} /\ pkg.valid) =>
              /\ pkg.info.name = packed.name /\ pkg.info.version = packed.version
              /\ pkg.info.depends = packed.depends
              /\ ScriptTexts = packed.scripts
        /\ packed.state = "cut" => ~pkg.valid

\* The entries afpkg_iter_next gives are the files and directories packed, in
\* their order and without the metadata, and all of them when it ends.
ListExact ==
    (pkg.pc = "open" /\ pkg.valid /\ packed.state \in {"whole", "altered"}) =>
        /\ IsPrefix(it.list, packed.list)
        /\ it.ended => it.list = packed.list

\* What a package says of itself and what it lists are what was packed.
PackageExact == OpenExact /\ ListExact

\* Reading a file comes to an end, however it is packed and whatever is wrong with
\* it: every step of the decoder that is not its last takes a bit of the input, a
\* member that is done leaves less of the file, and an entry less of the archive.
ReadingAdvances ==
    [][/\ (inf.pc # "done" /\ inf' # inf /\ inf'.pc # "done") => inf'.br.pos > inf.br.pos
       /\ (pkg.pc = "inflating" /\ pkg'.pc = "apk") => pkg'.at > pkg.at
       /\ (it' # it /\ ~it'.ended) => it'.cursor > it.cursor]_pkgVars

\* afpkg.h: "Returns false at the end of the archive, or when the archive is
\* malformed - afpkg_error on the package says which".  The error of the package
\* is never touched again after afpkg_open.
EndIsExplained ==
    (pkg.pc = "open" /\ pkg.valid /\ it.ended) =>
        afpkg_tar_next(pkg.tar, it.cursor).rc = "NOENT" \/ pkg.rc # "OK"
============================================================================
