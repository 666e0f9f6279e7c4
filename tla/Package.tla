------------------------------ MODULE Package ------------------------------
(***************************************************************************)
(* A file as the system takes it in: what it is is found from a growing    *)
(* prefix (Binfmt), and a file that may be a package is opened and listed  *)
(* (Afpkg, with the decoder of Inflate).                                   *)
(***************************************************************************)
EXTENDS Afpkg, Binfmt

\* A package is a file whose first bytes are those of its container.
HeadOf(cells) ==
    IF cells = <<>> THEN "none"
    ELSE CASE cells[1].t = "gz" -> "gzip"
           [] cells[1].t = "zst" -> "zstd"
           [] cells[1].t = "arch" /\ Len(cells) > 1 /\ cells[2].t = "ar" /\ cells[2].name = "debian-binary" -> "debian"
           [] cells[1].t = "arch" -> "arch"
           [] OTHER -> "none"

Opened == probe.upto = sample.len /\ sample.package

Init ==
    /\ PkgInit
    /\ \E s \in Samples :
          /\ s.package => s.sig = HeadOf(file)
          /\ ~s.package => file = <<>> /\ Len(scratch) = 0
          /\ BinfmtInit(s)

Next == \/ PkgNext /\ Opened /\ UNCHANGED binfmtVars
        \/ detect_more /\ UNCHANGED pkgVars
        \/ detect_tail /\ pkg.pc = "closed" /\ UNCHANGED pkgVars

vars == <<pkgVars, binfmtVars>>

Spec == Init /\ [][Next]_vars
============================================================================
