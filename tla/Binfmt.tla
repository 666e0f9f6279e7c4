------------------------------- MODULE Binfmt -------------------------------
(***************************************************************************)
(* Binary format detection (kernel/core/binfmt.c): what a file is, told    *)
(* from the bytes at its beginning, of which the caller may have read any  *)
(* number, or from those at its end.                                       *)
(*                                                                         *)
(* A sample is a file as the detector sees it: which signature it begins   *)
(* with, whether it has the mark of a tar archive at byte 257, the fields  *)
(* the classifiers look at, and where in its tail the trailers are.        *)
(* Offsets and lengths are those of the code.  What only words the answer  *)
(* (reason, decided_at) is left out.                                       *)
(***************************************************************************)
EXTENDS Integers, FiniteSets, FiniteSetsExt

CONSTANTS Samples,      \* bound: the files
          Lengths,      \* bound: how much of one may have been read
          Magics,       \* bound: what may be read where the file was not
          MaxFatSlices  \* 64

VARIABLES sample, probe

binfmtVars == <<sample, probe>>

Info(format, who, flags) == [format |-> format, who |-> who, flags |-> flags]
Unknown == Info("UNKNOWN", "none", {})

BinfmtInit(s) ==
    /\ sample = s
    /\ probe = [upto |-> 0, info |-> Unknown, looked |-> FALSE, tail |-> Unknown]

\* Of how many bytes a signature is.
SigLen(sig) ==
    CASE sig \in {"MZ", "gzip", "#!"} -> 2
      [] sig \in {"ELF", "fat", "fat64", "macho", "macho64", "dex", "zstd", "rpm", "hsqs", "sqsh", "asm", "PK"} -> 4
      [] sig \in {"xz", "ustar"} -> 5
      [] sig \in {"arch", "ole"} -> 8
      [] sig = "debian" -> 21
      [] OTHER -> 5000

match(s, n, sig) == s.sig = sig /\ n >= SigLen(sig)

----------------------------------------------------------------------------
classify_elf(s, n) ==
    IF n < 20 THEN Info("UNKNOWN", "none", {"TRUNCATED"})
    ELSE IF s.class \notin {1, 2} \/ s.data \notin {1, 2} THEN Unknown
    ELSE Info("ELF", "none", {"AMBIGUOUS"} \cup (IF s.class = 2 THEN {"64BIT"} ELSE {})
                                          \cup (IF s.type = 1 THEN {"NOEXEC"} ELSE {}))

\* e_lfanew names the place of the PE header.
PastPrefix_NotFlagged(s, n) == Info("PE", "windows", {"AMBIGUOUS"})

PastPrefix(s, n) == Info("PE", "windows", {"TRUNCATED", "AMBIGUOUS"})

classify_pe(s, n) ==
    IF n < 64 THEN Info("UNKNOWN", "none", {"TRUNCATED"})
    ELSE IF n < s.lfanew + 24 THEN PastPrefix(s, n)
    ELSE IF ~s.pe THEN Unknown
    ELSE IF s.magic = 523 THEN Info("PE", "windows", {"64BIT"})
    ELSE IF s.magic # 267 THEN Unknown
    ELSE Info("PE", "windows", {})

classify_macho(s, n) ==
    LET wide == IF s.sig \in {"fat64", "macho64"} THEN {"64BIT"} ELSE {}
        odd  == IF s.nfat = 0 \/ s.nfat > MaxFatSlices THEN {"TRUNCATED"} ELSE {}
    IN  IF n < 8 THEN Info("UNKNOWN", "none", {"TRUNCATED"})
        ELSE IF s.sig \in {"fat", "fat64"} THEN Info("MACHO", "darwin", {"AMBIGUOUS"} \cup wide \cup odd)
        ELSE Info("MACHO", "darwin", wide)

\* The name of the first entry, from byte 30 on.
zip_first_name(s, n) == n >= 30 /\ n >= 30 + s.name_len /\ s.name_len < 128

classify_zip(s, n) ==
    IF ~zip_first_name(s, n) THEN Info("ZIP", "none", {"NOEXEC"})
    ELSE CASE s.name = "base/manifest" -> Info("AAB", "android", {"CONTAINER", "NOEXEC"})
           [] s.name \in {"AndroidManifest", "classes.dex"} -> Info("APK_ANDROID", "android", {"CONTAINER"})
           [] s.name = "META-INF" -> Info("JAR", "none", {"CONTAINER", "NOEXEC"})
           [] s.name \in {"metadata", "export"} -> Info("FLATPAK", "package", {"CONTAINER", "NOEXEC"})
           [] OTHER -> Info("ZIP", "none", {"NOEXEC"})

Machos == {"fat", "fat64", "macho", "macho64"}

\* An ar archive is a package if its first member says so.
IsAr(s, n) == s.sig \in {"arch", "debian"} /\ n >= SigLen("arch")

\* af_binfmt_detect on the first n bytes.
af_binfmt_detect(s, n) ==
    CASE match(s, n, "ELF") -> classify_elf(s, n)
      [] match(s, n, "MZ")  -> classify_pe(s, n)
      [] s.sig \in Machos /\ n >= 4 -> classify_macho(s, n)
      [] match(s, n, "dex")  -> Info("DEX", "android", {})
      [] match(s, n, "zstd") -> Info("ZSTD", "none", {"NOEXEC"})
      [] match(s, n, "rpm")  -> Info("RPM", "package", {})
      [] IsAr(s, n) -> IF match(s, n, "debian") THEN Info("DEB", "package", {}) ELSE Unknown
      [] match(s, n, "hsqs") \/ match(s, n, "sqsh") -> Info("SQUASHFS", "package", {"NOEXEC"})
      [] match(s, n, "gzip") -> Info("GZIP", "none", {"NOEXEC"})
      [] match(s, n, "xz")   -> Info("XZ", "none", {"NOEXEC"})
      [] match(s, n, "ustar") \/ (s.ustar /\ n >= 262) -> Info("TAR", "none", {"NOEXEC"})
      [] match(s, n, "#!")   -> Info("SCRIPT", "script", {})
      [] match(s, n, "asm")  -> Info("WASM", "wasm", {})
      [] match(s, n, "PK")   -> classify_zip(s, n)
      [] match(s, n, "ole")  -> Info("MSI", "package", {"NOEXEC"})
      [] OTHER -> Unknown

\* The scan for the trailer of an AppImage goes down to a multiple of 1 KiB.
ScanEnd(len) == IF len >= 65536 THEN 64512 ELSE len - (len % 1024)

\* af_binfmt_detect_tail on a tail of n bytes: s.ai and s.eocd are the offsets in
\* it at which the two records lie.
af_binfmt_detect_tail(s, n) ==
    IF n >= 512 /\ s.koly THEN Info("DMG", "darwin", {"CONTAINER", "NOEXEC"})
    ELSE IF \E at \in s.ai : at + 8 \in ScanEnd(n) .. n THEN Info("APPIMAGE", "linux", {"CONTAINER"})
    ELSE IF \E at \in s.eocd : at + 22 <= n /\ n - (at + 22) <= 65536 THEN Info("ZIP", "none", {"NOEXEC"})
    ELSE Unknown

af_binfmt_is_executable(format) == format \in {"ELF", "PE", "MACHO", "DEX", "WASM", "SCRIPT"}

af_binfmt_can_run(info) ==
    af_binfmt_is_executable(info.format) /\ info.flags \cap {"NOEXEC", "TRUNCATED"} = {}

----------------------------------------------------------------------------
\* The magic of the optional header is read two bytes past those asked for: with
\* just these in the buffer it is whatever lies behind them.
PastMagic(s, n) == s.sig = "MZ" /\ n \in s.lfanew + 24 .. s.lfanew + 25

\* The caller reads more of the file and asks again.
detect_more ==
    /\ \E n \in {k \in Lengths : k > probe.upto /\ k <= sample.len} :
       \E magic \in IF PastMagic(sample, n) THEN Magics ELSE {sample.magic} :
          probe' = [probe EXCEPT !.upto = n,
                                 !.info = af_binfmt_detect([sample EXCEPT !.magic = magic], n)]
    /\ UNCHANGED sample

detect_tail ==
    /\ ~probe.looked
    /\ probe' = [probe EXCEPT !.looked = TRUE, !.tail = af_binfmt_detect_tail(sample, sample.tail)]
    /\ UNCHANGED sample

----------------------------------------------------------------------------
\* What the detector has decided from part of a file it does not take back when
\* it sees more of it: neither the format nor, where it said that the file can be
\* run, that.  A ZIP archive is told apart only once its first name is read, and a
\* tar archive only at byte 262; and the magic must have been read.
PrefixStable ==
    LET part  == probe.info
        whole == af_binfmt_detect(sample, sample.len)
    IN  /\ part.format \notin {"UNKNOWN", "ZIP"} /\ "TRUNCATED" \notin part.flags
        /\ ~PastMagic(sample, probe.upto) /\ (sample.ustar => probe.upto >= 262)
        =>  /\ part.format = whole.format
            /\ af_binfmt_can_run(part) => af_binfmt_can_run(whole)

\* binfmt.c: "The magic is within the last 64 KiB; not finding it by then means it
\* is not there."  The scan ends at the first multiple of 1 KiB.
AppImageFound ==
    probe.looked /\ sample.tail <= 65536 /\ ~sample.koly /\ sample.ai # {}
    => probe.tail.format = "APPIMAGE"
============================================================================
