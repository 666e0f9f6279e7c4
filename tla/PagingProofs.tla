---------------------------- MODULE PagingProofs ----------------------------
(***************************************************************************)
(* Paging, for any memory, pages, spaces and shares: until a process is    *)
(* given a page outside its own slot, which nothing in the loader forbids, *)
(* no frame is lost or counted twice, every space translates its pages to  *)
(* what was mapped for it, the kernel stays mapped everywhere, and the     *)
(* processor's cached translations stay true.                              *)
(*                                                                         *)
(* The tables are a tree whose nodes carry two labels: lev[f] is the level *)
(* at which the frame f is a table, 0 if it is none, and own[f] the root   *)
(* of the space whose table it is, the kernel's root for those all share.  *)
(***************************************************************************)
EXTENDS Paging, FiniteSetTheorems, FunctionTheorems, WellFoundedInduction, TLAPS

----------------------------------------------------------------------------
(* The inductive invariant.                                                *)

Present(mm, t, i) == <<t, i>> \in DOMAIN mm.entry
At(mm, t, i)      == mm.entry[<<t, i>>]

Entries == [to : Frames \cup {0}, user : BOOLEAN, huge : BOOLEAN]

MemOK(mm) ==
    /\ mm = [entry |-> mm.entry, ref |-> mm.ref]
    /\ mm.entry = [x \in DOMAIN mm.entry |-> mm.entry[x]]
    /\ DOMAIN mm.entry \subseteq Frames \X Nat
    /\ \A t \in Frames, i \in Nat : Present(mm, t, i) => At(mm, t, i) \in Entries
    /\ mm.ref \in [Frames -> Nat]

\* The roots are the tables of level 1, each its own.
LabelsOK(R, lev, own) ==
    /\ R \subseteq Frames /\ KernelRoot \in R
    /\ lev \in [Frames -> 0 .. 4] /\ own \in [Frames -> R]
    /\ \A f \in Frames : lev[f] = 1 <=> f \in R
    /\ \A r \in R : own[r] = r

\* The space below entry i of table t.
Owner(lev, own, t, i) == IF lev[t] = 1 /\ i # UserSlot THEN KernelRoot ELSE own[t]

\* An entry stands in a table and leads one level down in the same space: USER
\* is set in tables of processes only, a large page is the identity map's, and
\* what the last level leads to is no table.
EntryOK(mm, lev, own, t, i) ==
    LET e == At(mm, t, i)
    IN  /\ lev[t] \in 1 .. 4
        /\ e.user <=> Owner(lev, own, t, i) # KernelRoot
        /\ lev[t] = 1 /\ i = UserSlot => t # KernelRoot
        /\ e.huge => t = 3 /\ i = IdentityPage[3] /\ e.to = 0 /\ lev[t] = 3
        /\ ~e.huge => /\ e.to \in Frames
                      /\ lev[e.to] = IF lev[t] = 4 THEN 0 ELSE lev[t] + 1
        /\ ~e.huge /\ lev[t] < 4 => own[e.to] = Owner(lev, own, t, i)

EntriesOK(mm, lev, own) ==
    \A t \in Frames, i \in Nat : Present(mm, t, i) => EntryOK(mm, lev, own, t, i)

\* A table is entered from one place, or from the same slot of several roots.
Single(mm, lev) ==
    \A t, u \in Frames, i, j \in Nat :
        /\ Present(mm, t, i) /\ ~At(mm, t, i).huge /\ lev[t] < 4
        /\ Present(mm, u, j) /\ ~At(mm, u, j).huge
        /\ At(mm, t, i).to = At(mm, u, j).to
        => i = j /\ (t = u \/ lev[t] = 1)

\* Every table below a root is entered from somewhere.
Reached(mm, lev) ==
    \A f \in Frames : lev[f] > 1 =>
        \E t \in Frames, i \in Nat : Present(mm, t, i) /\ ~At(mm, t, i).huge /\ At(mm, t, i).to = f

\* Outside the slot of the processes every root says what the kernel's says.
Shared(mm, R) ==
    \A r \in R, i \in Nat : i # UserSlot =>
        /\ Present(mm, r, i) <=> Present(mm, KernelRoot, i)
        /\ Present(mm, r, i) => At(mm, r, i).to = At(mm, KernelRoot, i).to

\* The tables of the identity map are where the bootstrap put them.
BootKept(mm, lev) ==
    /\ lev[2] = 2 /\ lev[3] = 3
    /\ Present(mm, 1, IdentityPage[1]) /\ At(mm, 1, IdentityPage[1]).to = 2
    /\ Present(mm, 2, IdentityPage[2]) /\ At(mm, 2, IdentityPage[2]).to = 3
    /\ Present(mm, 3, IdentityPage[3]) /\ At(mm, 3, IdentityPage[3]).huge

\* The references to a frame are those of the table it is, or cnt[f] others.
Counted(mm, lev, cnt) ==
    /\ cnt \in [Frames -> Nat]
    /\ \A f \in Frames : mm.ref[f] = IF lev[f] > 0 THEN 1 ELSE cnt[f]
    /\ \A f \in Frames : lev[f] > 0 => cnt[f] = 0
    /\ \A t \in Frames, i \in Nat : Present(mm, t, i) /\ lev[t] = 4 => cnt[At(mm, t, i).to] > 0

\* The tables in memory, with roots R and cnt[f] references to a frame f that
\* is no table.
Shape(mm, R, lev, own, cnt) ==
    /\ MemOK(mm)
    /\ LabelsOK(R, lev, own)
    /\ EntriesOK(mm, lev, own)
    /\ Single(mm, lev)
    /\ Reached(mm, lev)
    /\ Shared(mm, R)
    /\ BootKept(mm, lev)
    /\ Counted(mm, lev, cnt)

\* What may be mapped where.
OwnPages == {va \in UserPages : va[1] = UserSlot}
Keys(R)  == ((R \ {KernelRoot}) \X OwnPages) \cup ({KernelRoot} \X KernelPages)

\* The entries of the last level are the pages mapped.
Leaves(mm, lev, mp) ==
    /\ \A m \in DOMAIN mp :
          LET t == TableFor(mm, m[1], m[2])
          IN  /\ t \in Frames /\ lev[t] = 4
              /\ Present(mm, t, m[2][4]) /\ At(mm, t, m[2][4]).to = mp[m]
    /\ \A t \in Frames, i \in Nat : Present(mm, t, i) /\ lev[t] = 4 =>
          \E m \in DOMAIN mp : TableFor(mm, m[1], m[2]) = t /\ m[2][4] = i

\* How often a frame is mapped.
Mappings(mp, f) == {m \in DOMAIN mp : mp[m] = f}
Count(mp)  == [f \in Frames |-> Cardinality(Mappings(mp, f))]

\* What a page translates to under a root.
Expected(mp, root, va) ==
    LET m == <<IF va[1] = UserSlot THEN root ELSE KernelRoot, va>>
    IN  IF m \in DOMAIN mp THEN mp[m] ELSE IF InIdentityMap(va) THEN 0 ELSE -1

MappedOK(R, mp) ==
    /\ IsFiniteSet(DOMAIN mp)
    /\ \A m \in DOMAIN mp : m \in Keys(R) /\ mp[m] \in Frames

\* A frame mapped for the kernel is mapped once.
KernelAlone(mp) == \A k, l \in DOMAIN mp : k[1] = KernelRoot /\ mp[k] = mp[l] => k = l

TlbOK(tl, mp, root) ==
    \A va \in DOMAIN tl : va \in UserPages \cup KernelPages /\ tl[va] = Expected(mp, root, va)

\* The tables in memory are those of the pages mapped.
Tabled(mm, R, mp) ==
    \E lev, own : Shape(mm, R, lev, own, Count(mp)) /\ Leaves(mm, lev, mp)

PagingInv ==
    /\ spaces \subseteq Frames \ {KernelRoot} /\ cr3 \in Roots
    /\ MappedOK(Roots, mapped)
    /\ KernelAlone(mapped)
    /\ \A f \in Frames : Count(mapped)[f] <= Shares + 1
    /\ Tabled(mem, Roots, mapped)
    /\ TlbOK(tlb, mapped, cr3)

\* It holds until a process is given a page outside its slot.
CalmInv == Calm => PagingInv

----------------------------------------------------------------------------
(* Frames and entries.                                                     *)

\* A set of natural numbers that is not empty has a least element.
LEMMA LeastNatural ==
    ASSUME NEW T, T \subseteq Nat, T # {}
    PROVE  \E x \in T : \A y \in T : x <= y
<1> DEFINE R == OpToRel(<, Nat)
<1>1. IsWellFoundedOn(R, Nat)
  BY NatLessThanWellFounded
<1>2. \E x \in T : \A y \in T : ~(<<y, x>> \in R)
  BY ONLY <1>1, T \subseteq Nat, T # {}, WFMin
<1>3. \A x, y \in Nat : <<y, x>> \in R <=> y < x
  BY DEF OpToRel
<1> HIDE DEF R
<1>4. PICK x \in T : \A y \in T : ~(<<y, x>> \in R)
  BY <1>2
<1>5. \A y \in T : x <= y
  <2> TAKE y \in T
  <2>1. x \in Nat /\ y \in Nat /\ ~(y < x)
    BY <1>3, <1>4
  <2> QED BY <2>1
<1> QED BY <1>5

\* The frame that pmm_alloc_frame_z returns is free.
LEMMA LowestFree ==
    ASSUME NEW mm, FreeFrames(mm) # {}
    PROVE  Min(FreeFrames(mm)) \in Frames /\ mm.ref[Min(FreeFrames(mm))] = 0
<1> DEFINE S == FreeFrames(mm)
<1>1. S \subseteq Nat /\ S # {} /\ \A f \in S : f \in Frames /\ mm.ref[f] = 0
  BY PagingAssumption DEF FreeFrames, Frames
<1> HIDE DEF S
<1>2. \E x \in S : \A y \in S : x <= y
  BY <1>1, LeastNatural
<1>3. Min(S) \in S
  BY <1>2 DEF Min
<1> QED BY <1>1, <1>3 DEF S

\* The constants the proofs need.
LEMMA Constants ==
    /\ FrameCount \in Nat /\ 1 \in Frames /\ 2 \in Frames /\ 3 \in Frames
    /\ 0 \notin Frames /\ -1 \notin Frames /\ Frames \subseteq Nat
    /\ KernelRoot = 1 /\ KernelRoot \in Frames
    /\ \A va \in UserPages \cup KernelPages \cup {IdentityPage} :
          va[1] \in Nat /\ va[2] \in Nat /\ va[3] \in Nat /\ va[4] \in Nat
    /\ \A va \in KernelPages \cup {IdentityPage} : va[1] # UserSlot
    /\ Shares \in Nat
BY PagingAssumption DEF Frames, KernelRoot

\* What WithEntry makes of a memory.
LEMMA WithEntryOK ==
    ASSUME NEW mm, MemOK(mm), NEW t \in Frames, NEW i \in Nat, NEW e \in Entries,
           NEW m, m = WithEntry(mm, t, i, e)
    PROVE  /\ MemOK(m) /\ m.ref = mm.ref
           /\ \A u \in Frames, j \in Nat :
                 /\ Present(m, u, j) <=> Present(mm, u, j) \/ (u = t /\ j = i)
                 /\ Present(m, u, j) =>
                       At(m, u, j) = IF u = t /\ j = i THEN e ELSE At(mm, u, j)
<1> DEFINE D == DOMAIN mm.entry \cup {<<t, i>>}
           g == [x \in D |-> IF x = <<t, i>> THEN e ELSE mm.entry[x]]
<1>1. m = [mm EXCEPT !.entry = g]
  BY DEF WithEntry
<1>2. mm = [entry |-> mm.entry, ref |-> mm.ref]
  BY DEF MemOK
<1>3. m = [entry |-> g, ref |-> mm.ref]
  BY ONLY <1>1, <1>2
<1>4. m.entry = g /\ m.ref = mm.ref
  BY ONLY <1>3
<1>5. D \subseteq Frames \X Nat /\ DOMAIN m.entry = D
  BY <1>4 DEF MemOK
<1>6. \A u \in Frames, j \in Nat : <<u, j>> = <<t, i>> <=> u = t /\ j = i
  OBVIOUS
<1>7. \A u \in Frames, j \in Nat :
         /\ Present(m, u, j) <=> Present(mm, u, j) \/ (u = t /\ j = i)
         /\ Present(m, u, j) =>
               At(m, u, j) = IF u = t /\ j = i THEN e ELSE At(mm, u, j)
  BY <1>4, <1>5, <1>6 DEF Present, At
<1>8. \A u \in Frames, j \in Nat : Present(m, u, j) => At(m, u, j) \in Entries
  BY <1>7 DEF MemOK
<1>9. /\ m = [entry |-> m.entry, ref |-> m.ref]
      /\ m.entry = [x \in DOMAIN m.entry |-> m.entry[x]]
  BY <1>3, <1>4, <1>5
<1>10. MemOK(m)
  BY <1>4, <1>5, <1>8, <1>9 DEF MemOK
<1> QED BY <1>4, <1>7, <1>10

\* A count set in a memory.
WithRef(mm, f, n) == [entry |-> mm.entry, ref |-> [mm.ref EXCEPT ![f] = n]]

\* pmm sets one count and leaves the entries alone.
LEMMA RefChanges ==
    ASSUME NEW mm, MemOK(mm), NEW f
    PROVE  /\ Allocated(mm, f) = WithRef(mm, f, 1)
           /\ pmm_free_frame(mm, f) = WithRef(mm, f, 0)
           /\ [mm EXCEPT !.ref[f] = @ + 1] = WithRef(mm, f, mm.ref[f] + 1)
<1>1. mm = [entry |-> mm.entry, ref |-> mm.ref]
  BY DEF MemOK
<1>2. Allocated(mm, f) = WithRef(mm, f, 1)
  BY ONLY <1>1 DEF Allocated, WithRef
<1>3. pmm_free_frame(mm, f) = WithRef(mm, f, 0)
  BY ONLY <1>1 DEF pmm_free_frame, WithRef
<1>4. [mm EXCEPT !.ref[f] = @ + 1] = WithRef(mm, f, mm.ref[f] + 1)
  BY ONLY <1>1 DEF WithRef
<1> QED BY <1>2, <1>3, <1>4

\* What setting a count makes of a memory.
LEMMA WithRefOK ==
    ASSUME NEW mm, MemOK(mm), NEW f \in Frames, NEW n \in Nat,
           NEW m, m = WithRef(mm, f, n)
    PROVE  /\ MemOK(m) /\ m.entry = mm.entry /\ m.ref = [mm.ref EXCEPT ![f] = n]
           /\ \A u \in Frames, j \in Nat :
                 Present(m, u, j) = Present(mm, u, j) /\ At(m, u, j) = At(mm, u, j)
<1>1. mm = [entry |-> mm.entry, ref |-> mm.ref] /\ mm.ref \in [Frames -> Nat]
  BY DEF MemOK
<1>2. m = [entry |-> mm.entry, ref |-> [mm.ref EXCEPT ![f] = n]]
  BY DEF WithRef
<1>3. m.entry = mm.entry /\ m.ref = [mm.ref EXCEPT ![f] = n]
  BY ONLY <1>2
<1>4. m.ref \in [Frames -> Nat]
  BY <1>1, <1>3
<1>5. \A u \in Frames, j \in Nat :
         Present(m, u, j) = Present(mm, u, j) /\ At(m, u, j) = At(mm, u, j)
  BY <1>3 DEF Present, At
<1>6. m = [entry |-> m.entry, ref |-> m.ref]
  BY ONLY <1>2
<1> QED BY <1>3, <1>4, <1>5, <1>6 DEF MemOK

----------------------------------------------------------------------------
(* Tables made on a walk.                                                  *)

\* Entries and labels are added, none changes, and no page is mapped.
Grown(mm, m, lev, lev2, own, own2) ==
    /\ \A t \in Frames, i \in Nat : Present(mm, t, i) =>
          Present(m, t, i) /\ At(m, t, i) = At(mm, t, i)
    /\ \A f \in Frames : lev[f] > 0 => lev2[f] = lev[f] /\ own2[f] = own[f]
    /\ \A t \in Frames, i \in Nat : Present(m, t, i) /\ lev2[t] = 4 =>
          Present(mm, t, i) /\ lev[t] = 4

\* A free frame is no table, and no entry leads to it.
LEMMA FreeIsApart ==
    ASSUME NEW mm, NEW R, NEW lev, NEW own, NEW cnt, Shape(mm, R, lev, own, cnt),
           NEW f \in Frames, mm.ref[f] = 0
    PROVE  /\ lev[f] = 0 /\ cnt[f] = 0 /\ f \notin R
           /\ \A i \in Nat : ~Present(mm, f, i)
           /\ \A t \in Frames, i \in Nat : Present(mm, t, i) => At(mm, t, i).to # f
<1>1. lev \in [Frames -> 0 .. 4] /\ cnt \in [Frames -> Nat]
  BY DEF Shape, LabelsOK, Counted
<1>2. lev[f] = 0 /\ cnt[f] = 0
  BY <1>1 DEF Shape, Counted
<1>3. f \notin R
  BY <1>2 DEF Shape, LabelsOK
<1>4. \A i \in Nat : ~Present(mm, f, i)
  BY <1>2 DEF Shape, EntriesOK, EntryOK
<1>5. ASSUME NEW t \in Frames, NEW i \in Nat, Present(mm, t, i)
      PROVE  At(mm, t, i).to # f
  <2>1. EntryOK(mm, lev, own, t, i)
    BY <1>5 DEF Shape, EntriesOK
  <2>2. CASE At(mm, t, i).huge
    BY <2>1, <2>2, Constants DEF EntryOK
  <2>3. CASE ~At(mm, t, i).huge /\ lev[t] = 4
    BY <1>2, <1>5, <2>3 DEF Shape, Counted
  <2>4. CASE ~At(mm, t, i).huge /\ lev[t] # 4
    BY <1>1, <1>2, <2>1, <2>4 DEF EntryOK
  <2> QED BY <2>2, <2>3, <2>4
<1> QED BY <1>2, <1>3, <1>4, <1>5

\* An entry that is not there is made to lead to a new table.
LEMMA NewTableKeeps ==
    ASSUME NEW mm, NEW R, NEW lev, NEW own, NEW cnt, Shape(mm, R, lev, own, cnt),
           NEW t \in Frames, lev[t] \in 1 .. 3, NEW i \in Nat, ~Present(mm, t, i),
           NEW user \in BOOLEAN, user <=> Owner(lev, own, t, i) # KernelRoot,
           lev[t] = 1 => IF i = UserSlot THEN t # KernelRoot ELSE R = {KernelRoot},
           NEW f \in Frames, mm.ref[f] = 0,
           NEW m, m = WithEntry(Allocated(mm, f), t, i, Entry(f, user, FALSE)),
           NEW lev2, lev2 = [lev EXCEPT ![f] = lev[t] + 1],
           NEW own2, own2 = [own EXCEPT ![f] = Owner(lev, own, t, i)]
    PROVE  Shape(m, R, lev2, own2, cnt) /\ Grown(mm, m, lev, lev2, own, own2)
<1> DEFINE e == Entry(f, user, FALSE)
<1>1. /\ MemOK(mm) /\ R \subseteq Frames /\ KernelRoot \in R
      /\ lev \in [Frames -> 0 .. 4] /\ own \in [Frames -> R] /\ cnt \in [Frames -> Nat]
      /\ \A g \in Frames : lev[g] = 1 <=> g \in R
      /\ \A r \in R : own[r] = r
  BY DEF Shape, LabelsOK, Counted
<1>2. /\ lev[f] = 0 /\ cnt[f] = 0 /\ f \notin R
      /\ \A j \in Nat : ~Present(mm, f, j)
      /\ \A u \in Frames, j \in Nat : Present(mm, u, j) => At(mm, u, j).to # f
  BY FreeIsApart
<1>3. e \in Entries /\ e.to = f /\ e.user = user /\ e.huge = FALSE
  BY DEF Entry, Entries
<1> HIDE DEF e
<1>4. /\ MemOK(m) /\ m.ref = [mm.ref EXCEPT ![f] = 1]
      /\ \A u \in Frames, j \in Nat :
            /\ Present(m, u, j) <=> Present(mm, u, j) \/ (u = t /\ j = i)
            /\ Present(m, u, j) => At(m, u, j) = IF u = t /\ j = i THEN e ELSE At(mm, u, j)
  <2> DEFINE ma == Allocated(mm, f)
  <2>0. ma = WithRef(mm, f, 1) /\ 1 \in Nat
    BY <1>1, RefChanges
  <2>2. m = WithEntry(ma, t, i, e)
    BY DEF e
  <2> HIDE DEF ma
  <2>1. /\ MemOK(ma) /\ ma.ref = [mm.ref EXCEPT ![f] = 1]
        /\ \A u \in Frames, j \in Nat :
              Present(ma, u, j) = Present(mm, u, j) /\ At(ma, u, j) = At(mm, u, j)
    BY ONLY <1>1, <2>0, f \in Frames, WithRefOK
  <2>3. /\ MemOK(m) /\ m.ref = ma.ref
        /\ \A u \in Frames, j \in Nat :
              /\ Present(m, u, j) <=> Present(ma, u, j) \/ (u = t /\ j = i)
              /\ Present(m, u, j) => At(m, u, j) = IF u = t /\ j = i THEN e ELSE At(ma, u, j)
    BY ONLY <1>3, <2>1, <2>2, t \in Frames, i \in Nat, WithEntryOK
  <2> QED BY ONLY <2>1, <2>3
<1>5. /\ lev2 \in [Frames -> 0 .. 4] /\ own2 \in [Frames -> R]
      /\ lev2[f] = lev[t] + 1 /\ own2[f] = Owner(lev, own, t, i)
      /\ \A g \in Frames \ {f} : lev2[g] = lev[g] /\ own2[g] = own[g]
      /\ f # t
  BY <1>1, <1>2 DEF Owner
<1>6. LabelsOK(R, lev2, own2)
  BY <1>1, <1>2, <1>5 DEF LabelsOK
<1>7. ASSUME NEW u \in Frames, NEW j \in Nat, Present(m, u, j)
      PROVE  EntryOK(m, lev2, own2, u, j)
  <2>1. CASE u = t /\ j = i
    <3>1. At(m, u, j) = e /\ lev2[u] = lev[t] /\ own2[u] = own[t]
      BY <1>4, <1>5, <1>7, <2>1
    <3>2. Owner(lev2, own2, u, j) = Owner(lev, own, t, i)
      BY <2>1, <3>1 DEF Owner
    <3>3. lev[t] \in 1 .. 3 /\ (lev[t] = 1 /\ i = UserSlot => t # KernelRoot)
      OBVIOUS
    <3>4. user <=> Owner(lev, own, t, i) # KernelRoot
      OBVIOUS
    <3> QED BY ONLY f \in Frames, <1>3, <1>5, <2>1, <3>1, <3>2, <3>3, <3>4 DEF EntryOK
  <2>2. CASE ~(u = t /\ j = i)
    <3>1. Present(mm, u, j) /\ At(m, u, j) = At(mm, u, j)
      BY <1>4, <1>7, <2>2
    <3>2. EntryOK(mm, lev, own, u, j)
      BY <3>1 DEF Shape, EntriesOK
    <3>3. u # f /\ At(mm, u, j).to # f
      BY <1>2, <3>1
    <3>4. Owner(lev2, own2, u, j) = Owner(lev, own, u, j) /\ lev2[u] = lev[u]
      BY <1>5, <3>3 DEF Owner
    <3>5. ~At(mm, u, j).huge =>
             /\ At(mm, u, j).to \in Frames /\ At(mm, u, j).to # f
             /\ lev2[At(mm, u, j).to] = lev[At(mm, u, j).to]
             /\ own2[At(mm, u, j).to] = own[At(mm, u, j).to]
      <4>1. ~At(mm, u, j).huge => At(mm, u, j).to \in Frames
        BY ONLY <3>2 DEF EntryOK
      <4> QED BY ONLY <1>5, <3>3, <4>1
    <3> QED BY ONLY <3>1, <3>2, <3>4, <3>5 DEF EntryOK
  <2> QED BY <2>1, <2>2
<1>8. Single(m, lev2)
  <2> SUFFICES ASSUME NEW u \in Frames, NEW v \in Frames, NEW j \in Nat, NEW k \in Nat,
                      Present(m, u, j), ~At(m, u, j).huge, lev2[u] < 4,
                      Present(m, v, k), ~At(m, v, k).huge, At(m, u, j).to = At(m, v, k).to
               PROVE  j = k /\ (u = v \/ lev2[u] = 1)
    BY DEF Single
  <2>0. \A w \in Frames, n \in Nat : Present(m, w, n) =>
           (At(m, w, n).to = f <=> w = t /\ n = i)
    BY ONLY <1>2, <1>3, <1>4, f \in Frames
  <2>1. CASE u = t /\ j = i
    <3>1. At(m, u, j).to = f
      BY ONLY <2>0, <2>1, u \in Frames, j \in Nat, Present(m, u, j)
    <3>2. v = t /\ k = i
      BY ONLY <2>0, <3>1, v \in Frames, k \in Nat, Present(m, v, k), At(m, u, j).to = At(m, v, k).to
    <3> QED BY ONLY <2>1, <3>2
  <2>2. CASE v = t /\ k = i
    <3>1. At(m, v, k).to = f
      BY ONLY <2>0, <2>2, v \in Frames, k \in Nat, Present(m, v, k)
    <3>2. u = t /\ j = i
      BY ONLY <2>0, <3>1, u \in Frames, j \in Nat, Present(m, u, j), At(m, u, j).to = At(m, v, k).to
    <3> QED BY ONLY <2>2, <3>2
  <2>3. CASE ~(u = t /\ j = i) /\ ~(v = t /\ k = i)
    <3>1. /\ Present(mm, u, j) /\ At(m, u, j) = At(mm, u, j)
          /\ Present(mm, v, k) /\ At(m, v, k) = At(mm, v, k)
      BY <1>4, <2>3
    <3>2. lev2[u] = lev[u]
      BY <1>2, <1>5, <3>1
    <3> QED BY <3>1, <3>2 DEF Shape, Single
  <2> QED BY <2>1, <2>2, <2>3
<1>9. Reached(m, lev2)
  <2> SUFFICES ASSUME NEW g \in Frames, lev2[g] > 1
               PROVE  \E u \in Frames, j \in Nat :
                         Present(m, u, j) /\ ~At(m, u, j).huge /\ At(m, u, j).to = g
    BY DEF Reached
  <2>1. CASE g = f
    <3>1. Present(m, t, i) /\ At(m, t, i) = e
      BY ONLY <1>4, t \in Frames, i \in Nat
    <3> QED BY <1>3, <2>1, <3>1
  <2>2. CASE g # f
    <3>1. lev[g] > 1
      BY <1>5, <2>2
    <3>2. PICK u \in Frames, j \in Nat :
             Present(mm, u, j) /\ ~At(mm, u, j).huge /\ At(mm, u, j).to = g
      BY <3>1 DEF Shape, Reached
    <3>3. u # t \/ j # i
      BY <3>2
    <3>4. Present(m, u, j) /\ At(m, u, j) = At(mm, u, j)
      BY ONLY <1>4, <3>2, <3>3, u \in Frames, j \in Nat
    <3> QED BY ONLY <3>2, <3>4
  <2> QED BY <2>1, <2>2
<1>10. Shared(m, R)
  <2> SUFFICES ASSUME NEW r \in R, NEW j \in Nat, j # UserSlot
               PROVE  /\ Present(m, r, j) <=> Present(m, KernelRoot, j)
                      /\ Present(m, r, j) => At(m, r, j).to = At(m, KernelRoot, j).to
    BY DEF Shared
  <2>1. CASE R = {KernelRoot}
    BY <2>1
  <2>2. CASE R # {KernelRoot}
    <3>1. ~(r = t /\ j = i) /\ ~(KernelRoot = t /\ j = i)
      BY <1>1, <2>2
    <3>2. /\ Present(mm, r, j) <=> Present(mm, KernelRoot, j)
          /\ Present(mm, r, j) => At(mm, r, j).to = At(mm, KernelRoot, j).to
      BY DEF Shape, Shared
    <3>3. r \in Frames /\ KernelRoot \in Frames
      BY <1>1
    <3> QED BY ONLY <1>4, <3>1, <3>2, <3>3, j \in Nat
  <2> QED BY <2>1, <2>2
<1>11. BootKept(m, lev2)
  <2>1. BootKept(mm, lev)
    BY DEF Shape
  <2>2. IdentityPage[1] \in Nat /\ IdentityPage[2] \in Nat /\ IdentityPage[3] \in Nat
        /\ 1 \in Frames /\ 2 \in Frames /\ 3 \in Frames
    BY Constants
  <2>3. \A u \in Frames, j \in Nat : Present(mm, u, j) =>
           Present(m, u, j) /\ At(m, u, j) = At(mm, u, j)
    BY ONLY <1>4, ~Present(mm, t, i)
  <2>4. lev2[2] = 2 /\ lev2[3] = 3
    BY <1>2, <1>5, <2>1, <2>2 DEF BootKept
  <2> QED BY ONLY <2>1, <2>2, <2>3, <2>4 DEF BootKept
<1>12. Counted(m, lev2, cnt)
  <2>1. \A g \in Frames : m.ref[g] = IF lev2[g] > 0 THEN 1 ELSE cnt[g]
    <3>1. mm.ref \in [Frames -> Nat] /\ \A g \in Frames : mm.ref[g] = IF lev[g] > 0 THEN 1 ELSE cnt[g]
      BY DEF Shape, MemOK, Counted
    <3>2. m.ref[f] = 1 /\ \A g \in Frames \ {f} : m.ref[g] = mm.ref[g]
      BY <1>4, <3>1
    <3>3. lev2[f] > 0
      BY <1>5
    <3> QED BY ONLY <1>5, <3>1, <3>2, <3>3
  <2>2. \A g \in Frames : lev2[g] > 0 => cnt[g] = 0
    BY <1>2, <1>5 DEF Shape, Counted
  <2>3. ASSUME NEW u \in Frames, NEW j \in Nat, Present(m, u, j), lev2[u] = 4
        PROVE  cnt[At(m, u, j).to] > 0
    <3>1. ~(u = t /\ j = i)
      BY <1>5, <2>3
    <3>2. Present(mm, u, j) /\ At(m, u, j) = At(mm, u, j)
      BY <1>4, <2>3, <3>1
    <3>3. lev[u] = 4
      BY <1>2, <1>5, <2>3, <3>2
    <3> QED BY <3>2, <3>3 DEF Shape, Counted
  <2> QED BY <1>1, <2>1, <2>2, <2>3 DEF Counted
<1>13. Grown(mm, m, lev, lev2, own, own2)
  <2>1. \A u \in Frames, j \in Nat : Present(mm, u, j) =>
           Present(m, u, j) /\ At(m, u, j) = At(mm, u, j)
    BY <1>4
  <2>2. \A g \in Frames : lev[g] > 0 => lev2[g] = lev[g] /\ own2[g] = own[g]
    BY <1>2, <1>5
  <2>3. ASSUME NEW u \in Frames, NEW j \in Nat, Present(m, u, j), lev2[u] = 4
        PROVE  Present(mm, u, j) /\ lev[u] = 4
    <3>1. ~(u = t /\ j = i)
      BY <1>5, <2>3
    <3>2. Present(mm, u, j)
      BY <1>4, <2>3, <3>1
    <3> QED BY <1>2, <1>5, <2>3, <3>2
  <2> QED BY <2>1, <2>2, <2>3 DEF Grown
<1> QED BY <1>4, <1>6, <1>7, <1>8, <1>9, <1>10, <1>11, <1>12, <1>13 DEF Shape, EntriesOK

\* The entry i of t leads to pa, and the others are as they were.
PutAt(mm, m, t, i, pa) ==
    /\ Present(m, t, i) /\ At(m, t, i).to = pa
    /\ \A u \in Frames, j \in Nat : ~(u = t /\ j = i) =>
          /\ Present(m, u, j) <=> Present(mm, u, j)
          /\ Present(m, u, j) => At(m, u, j) = At(mm, u, j)

\* An entry of the last level that is not there is made to lead to a frame.
LEMMA NewLeafKeeps ==
    ASSUME NEW mm, NEW R, NEW lev, NEW own, NEW cnt, Shape(mm, R, lev, own, cnt),
           NEW t \in Frames, lev[t] = 4, NEW i \in Nat, ~Present(mm, t, i),
           NEW pa \in Frames, lev[pa] = 0, cnt[pa] > 0,
           NEW e \in Entries, e.user <=> own[t] # KernelRoot, ~e.huge, e.to = pa,
           NEW m, m = WithEntry(mm, t, i, e)
    PROVE  Shape(m, R, lev, own, cnt) /\ PutAt(mm, m, t, i, pa)
<1>1. /\ MemOK(mm) /\ R \subseteq Frames /\ KernelRoot \in R
      /\ lev \in [Frames -> 0 .. 4] /\ own \in [Frames -> R] /\ LabelsOK(R, lev, own)
      /\ \A g \in Frames : lev[g] = 1 <=> g \in R
  BY DEF Shape, LabelsOK
<1>2. e \in Entries /\ e.to = pa /\ (e.user <=> own[t] # KernelRoot) /\ ~e.huge
  OBVIOUS
<1>3. m = WithEntry(mm, t, i, e)
  OBVIOUS
<1>4. /\ MemOK(m) /\ m.ref = mm.ref
      /\ \A u \in Frames, j \in Nat :
            /\ Present(m, u, j) <=> Present(mm, u, j) \/ (u = t /\ j = i)
            /\ Present(m, u, j) => At(m, u, j) = IF u = t /\ j = i THEN e ELSE At(mm, u, j)
  <2>1. MemOK(mm) /\ e \in Entries
    BY <1>1, <1>2
  <2> QED BY ONLY <2>1, <1>3, t \in Frames, i \in Nat, WithEntryOK
<1>5. Present(m, t, i) /\ At(m, t, i) = e
  BY ONLY <1>4, t \in Frames, i \in Nat
<1>6. \A u \in Frames, j \in Nat : ~(u = t /\ j = i) =>
         /\ Present(m, u, j) <=> Present(mm, u, j)
         /\ Present(m, u, j) => At(m, u, j) = At(mm, u, j)
  BY ONLY <1>4
<1>7. \A u \in Frames, j \in Nat : lev[u] # 4 =>
         /\ Present(m, u, j) <=> Present(mm, u, j)
         /\ Present(m, u, j) => At(m, u, j) = At(mm, u, j)
  BY ONLY <1>6, lev[t] = 4
<1>8. ASSUME NEW u \in Frames, NEW j \in Nat, Present(m, u, j)
      PROVE  EntryOK(m, lev, own, u, j)
  <2>1. CASE u = t /\ j = i
    <3>1. Owner(lev, own, t, i) = own[t]
      BY DEF Owner
    <3>2. lev[t] = 4 /\ lev[pa] = 0 /\ pa \in Frames
      OBVIOUS
    <3>3. At(m, u, j) = e /\ u = t /\ j = i
      BY <1>5, <2>1
    <3> QED BY ONLY <1>2, <3>1, <3>2, <3>3 DEF EntryOK
  <2>2. CASE ~(u = t /\ j = i)
    <3>1. Present(mm, u, j) /\ At(m, u, j) = At(mm, u, j)
      BY <1>6, <1>8, <2>2
    <3>2. EntryOK(mm, lev, own, u, j)
      BY <3>1 DEF Shape, EntriesOK
    <3> QED BY ONLY <3>1, <3>2 DEF EntryOK
  <2> QED BY <2>1, <2>2
<1>9. Single(m, lev)
  <2> SUFFICES ASSUME NEW u \in Frames, NEW v \in Frames, NEW j \in Nat, NEW k \in Nat,
                      Present(m, u, j), ~At(m, u, j).huge, lev[u] < 4,
                      Present(m, v, k), ~At(m, v, k).huge, At(m, u, j).to = At(m, v, k).to
               PROVE  j = k /\ (u = v \/ lev[u] = 1)
    BY DEF Single
  <2>1. lev[u] # 4 /\ lev[u] \in 0 .. 4
    BY <1>1
  <2>2. Present(mm, u, j) /\ At(m, u, j) = At(mm, u, j)
    BY <1>7, <2>1
  <2>3. lev[At(m, u, j).to] = lev[u] + 1 /\ lev[u] \in 1 .. 4
    <3>1. EntryOK(m, lev, own, u, j)
      BY <1>8
    <3> QED BY ONLY <2>1, <3>1, ~At(m, u, j).huge DEF EntryOK
  <2>4. lev[v] # 4
    <3>1. EntryOK(m, lev, own, v, k)
      BY <1>8
    <3> QED BY ONLY <2>3, <3>1, ~At(m, v, k).huge, At(m, u, j).to = At(m, v, k).to DEF EntryOK
  <2>5. Present(mm, v, k) /\ At(m, v, k) = At(mm, v, k)
    BY <1>7, <2>4
  <2> QED BY <2>2, <2>5 DEF Shape, Single
<1>10. Reached(m, lev)
  <2> SUFFICES ASSUME NEW g \in Frames, lev[g] > 1
               PROVE  \E u \in Frames, j \in Nat :
                         Present(m, u, j) /\ ~At(m, u, j).huge /\ At(m, u, j).to = g
    BY DEF Reached
  <2>1. PICK u \in Frames, j \in Nat :
           Present(mm, u, j) /\ ~At(mm, u, j).huge /\ At(mm, u, j).to = g
    BY DEF Shape, Reached
  <2>2. ~(u = t /\ j = i)
    BY <2>1
  <2> QED BY <1>6, <2>1, <2>2
<1>11. Shared(m, R)
  <2>1. \A r \in R : r \in Frames /\ lev[r] # 4
    BY <1>1
  <2>2. KernelRoot \in R
    BY <1>1
  <2> QED BY ONLY <1>7, <2>1, <2>2, Shape(mm, R, lev, own, cnt) DEF Shape, Shared
<1>12. BootKept(m, lev)
  <2>1. BootKept(mm, lev)
    BY DEF Shape
  <2>2. IdentityPage[1] \in Nat /\ IdentityPage[2] \in Nat /\ IdentityPage[3] \in Nat
        /\ 1 \in Frames /\ 2 \in Frames /\ 3 \in Frames /\ lev[1] = 1
    BY <1>1, Constants
  <2> QED BY ONLY <1>7, <2>1, <2>2 DEF BootKept
<1>13. Counted(m, lev, cnt)
  <2>1. Counted(mm, lev, cnt)
    BY DEF Shape
  <2>2. ASSUME NEW u \in Frames, NEW j \in Nat, Present(m, u, j), lev[u] = 4
        PROVE  cnt[At(m, u, j).to] > 0
    BY <1>2, <1>5, <1>6, <2>1, <2>2 DEF Counted
  <2> QED BY <1>4, <2>1, <2>2 DEF Counted
<1>14. PutAt(mm, m, t, i, pa)
  BY ONLY <1>2, <1>5, <1>6 DEF PutAt
<1> QED BY <1>1, <1>4, <1>8, <1>9, <1>10, <1>11, <1>12, <1>13, <1>14 DEF Shape, EntriesOK

\* Growing twice is growing.
LEMMA GrownTwice ==
    ASSUME NEW mm, NEW m, NEW m2, NEW lev, NEW lev2, NEW lev3, NEW own, NEW own2, NEW own3,
           Grown(mm, m, lev, lev2, own, own2), Grown(m, m2, lev2, lev3, own2, own3)
    PROVE  Grown(mm, m2, lev, lev3, own, own3)
BY DEF Grown

\* Where a level of a walk has led: nowhere, or to the table that the entry it
\* looked at names.
Arrives(w, t, i, n, lev, own, o) ==
    w.next # 0 =>
        /\ w.next \in Frames /\ lev[w.next] = n /\ own[w.next] = o
        /\ Present(w.mem, t, i) /\ ~At(w.mem, t, i).huge /\ At(w.mem, t, i).to = w.next

\* walk_to_next_level keeps the tables in shape whether or not it gets there.
LEMMA WalkStep ==
    ASSUME NEW mm, NEW R, NEW lev, NEW own, NEW cnt, Shape(mm, R, lev, own, cnt),
           NEW t \in Frames, lev[t] \in 1 .. 3, NEW i \in Nat,
           NEW user \in BOOLEAN, user <=> Owner(lev, own, t, i) # KernelRoot,
           lev[t] = 1 => IF i = UserSlot THEN t # KernelRoot ELSE R = {KernelRoot},
           NEW w, w = walk_to_next_level([mem |-> mm, next |-> t], i, user)
    PROVE  /\ w = [mem |-> w.mem, next |-> w.next]
           /\ \E lev2, own2 :
                 /\ Shape(w.mem, R, lev2, own2, cnt) /\ Grown(mm, w.mem, lev, lev2, own, own2)
                 /\ Arrives(w, t, i, lev[t] + 1, lev2, own2, Owner(lev, own, t, i))
<1> DEFINE e == At(mm, t, i)
<1>0. 0 \notin Frames /\ MemOK(mm) /\ lev \in [Frames -> 0 .. 4]
  BY Constants DEF Shape, LabelsOK
<1>1. w = IF Present(mm, t, i)
          THEN IF e.huge THEN [mem |-> mm, next |-> 0]
               ELSE [mem |-> WithEntry(mm, t, i, [e EXCEPT !.user = @ \/ user]), next |-> e.to]
          ELSE IF FreeFrames(mm) = {} THEN [mem |-> mm, next |-> 0]
          ELSE NewTable(mm, t, i, user)
  BY <1>0 DEF walk_to_next_level, Present, At
<1>2. Grown(mm, mm, lev, lev, own, own)
  BY DEF Grown
<1>3. CASE Present(mm, t, i) /\ ~e.huge
  <2>1. EntryOK(mm, lev, own, t, i) /\ e \in Entries
    BY <1>3 DEF Shape, EntriesOK, MemOK
  <2>2. e.user = user /\ user \in BOOLEAN
    BY <2>1 DEF EntryOK, Entries
  <2>3. [e EXCEPT !.user = @ \/ user] = e
    <3> HIDE DEF e
    <3> QED BY ONLY <2>1, <2>2 DEF Entries
  <2>4. WithEntry(mm, t, i, e) = mm
    <3>1. mm = [entry |-> mm.entry, ref |-> mm.ref]
          /\ mm.entry = [x \in DOMAIN mm.entry |-> mm.entry[x]] /\ <<t, i>> \in DOMAIN mm.entry
      BY <1>3 DEF Shape, MemOK, Present
    <3>2. [x \in DOMAIN mm.entry \cup {<<t, i>>} |-> IF x = <<t, i>> THEN e ELSE mm.entry[x]]
            = mm.entry
      BY ONLY <3>1 DEF At
    <3>3. [mm EXCEPT !.entry = mm.entry] = mm
      BY ONLY <3>1
    <3> QED BY ONLY <3>2, <3>3 DEF WithEntry
  <2>5. w = [mem |-> mm, next |-> e.to]
    BY <1>1, <1>3, <2>3, <2>4
  <2>6. w.mem = mm /\ w.next = e.to
    BY <2>5
  <2>7. e.to \in Frames /\ lev[e.to] = lev[t] + 1 /\ own[e.to] = Owner(lev, own, t, i)
    BY <1>3, <2>1 DEF EntryOK
  <2>8. Arrives(w, t, i, lev[t] + 1, lev, own, Owner(lev, own, t, i))
    BY <1>3, <2>6, <2>7 DEF Arrives
  <2> QED BY <1>2, <2>5, <2>6, <2>8
<1>4. CASE w = [mem |-> mm, next |-> 0]
  <2>2. w.mem = mm /\ w.next = 0
    BY <1>4
  <2> QED BY <1>2, <1>4, <2>2 DEF Arrives
<1>5. CASE ~Present(mm, t, i) /\ FreeFrames(mm) # {}
  <2> DEFINE f == Min(FreeFrames(mm))
             m == WithEntry(Allocated(mm, f), t, i, Entry(f, user, FALSE))
             lev2 == [lev EXCEPT ![f] = lev[t] + 1]
             own2 == [own EXCEPT ![f] = Owner(lev, own, t, i)]
  <2>1. f \in Frames /\ mm.ref[f] = 0
    BY <1>5, LowestFree
  <2>2. w = [mem |-> m, next |-> f]
    BY <1>1, <1>5 DEF NewTable
  <2>3. w.mem = m /\ w.next = f
    BY ONLY <2>2
  <2> HIDE DEF f
  <2>4. Shape(m, R, lev2, own2, cnt) /\ Grown(mm, m, lev, lev2, own, own2)
    <3>1. /\ m = WithEntry(Allocated(mm, f), t, i, Entry(f, user, FALSE))
          /\ lev2 = [lev EXCEPT ![f] = lev[t] + 1]
          /\ own2 = [own EXCEPT ![f] = Owner(lev, own, t, i)]
      OBVIOUS
    <3> HIDE DEF m, lev2, own2
    <3> QED BY <1>5, <2>1, <3>1, NewTableKeeps
  <2>5. /\ Present(m, t, i) /\ At(m, t, i) = Entry(f, user, FALSE)
    <3> DEFINE ma == Allocated(mm, f)
               en == Entry(f, user, FALSE)
    <3>1. ma = WithRef(mm, f, 1) /\ 1 \in Nat
      BY <1>0, RefChanges
    <3>2. en \in Entries
      BY <2>1 DEF Entry, Entries
    <3> HIDE DEF ma, en
    <3>3. MemOK(ma)
      BY ONLY <1>0, <2>1, <3>1, WithRefOK
    <3>4. Present(WithEntry(ma, t, i, en), t, i) /\ At(WithEntry(ma, t, i, en), t, i) = en
      BY ONLY <3>2, <3>3, t \in Frames, i \in Nat, WithEntryOK
    <3> QED BY <3>4 DEF ma, en
  <2>6. Entry(f, user, FALSE).huge = FALSE /\ Entry(f, user, FALSE).to = f
    BY DEF Entry
  <2>7. lev2[f] = lev[t] + 1 /\ own2[f] = Owner(lev, own, t, i)
    <3>1. own \in [Frames -> R]
      BY DEF Shape, LabelsOK
    <3> QED BY <1>0, <2>1, <3>1
  <2> HIDE DEF m, lev2, own2
  <2>8. Arrives(w, t, i, lev[t] + 1, lev2, own2, Owner(lev, own, t, i))
    BY ONLY <2>1, <2>3, <2>5, <2>6, <2>7 DEF Arrives
  <2> QED BY ONLY <2>2, <2>3, <2>4, <2>8
<1>6. CASE Present(mm, t, i)
  <2>1. CASE e.huge
    BY ONLY <1>1, <1>4, <1>6, <2>1
  <2>2. CASE ~e.huge
    BY ONLY <1>3, <1>6, <2>2
  <2> QED BY ONLY <2>1, <2>2
<1>7. CASE ~Present(mm, t, i)
  <2>1. CASE FreeFrames(mm) = {}
    BY ONLY <1>1, <1>4, <1>7, <2>1
  <2>2. CASE FreeFrames(mm) # {}
    BY ONLY <1>5, <1>7, <2>2
  <2> QED BY ONLY <2>1, <2>2
<1> QED BY ONLY <1>6, <1>7

----------------------------------------------------------------------------
(* Walks that only read.                                                   *)

\* The entries on the way from a root to a table of the last level.
Path(mm, root, va, t2, t3, t4) ==
    /\ t2 \in Frames /\ t3 \in Frames /\ t4 \in Frames
    /\ Present(mm, root, va[1]) /\ ~At(mm, root, va[1]).huge /\ At(mm, root, va[1]).to = t2
    /\ Present(mm, t2, va[2]) /\ ~At(mm, t2, va[2]).huge /\ At(mm, t2, va[2]).to = t3
    /\ Present(mm, t3, va[3]) /\ ~At(mm, t3, va[3]).huge /\ At(mm, t3, va[3]).to = t4

IsPage(va) == va[1] \in Nat /\ va[2] \in Nat /\ va[3] \in Nat /\ va[4] \in Nat

\* What a walk finds at an entry.
LEMMA BelowIs ==
    ASSUME NEW mm, NEW t, NEW i
    PROVE  /\ t \in Frames /\ Present(mm, t, i) => Below(mm, t, i) = At(mm, t, i)
           /\ t \in {0, -1} \/ ~Present(mm, t, i) => Below(mm, t, i) = Entry(-1, FALSE, FALSE)
<1>1. \A f \in Frames : f > 0
  BY PagingAssumption DEF Frames
<1>2. ASSUME t \in Frames, Present(mm, t, i) PROVE Below(mm, t, i) = At(mm, t, i)
  BY <1>1, <1>2 DEF Below, Present, At
<1>3. ASSUME ~Present(mm, t, i) PROVE Below(mm, t, i) = Entry(-1, FALSE, FALSE)
  BY <1>3 DEF Below, Present
<1>4. ASSUME t \in {0, -1} PROVE Below(mm, t, i) = Entry(-1, FALSE, FALSE)
  <2>1. ~(t > 0)
    BY <1>4
  <2> QED BY <2>1 DEF Below
<1> QED BY <1>2, <1>3, <1>4

\* An entry that is not there leads nowhere.
LEMMA NoEntry ==
    /\ Entry(-1, FALSE, FALSE).to = -1
    /\ Entry(-1, FALSE, FALSE).user = FALSE
    /\ Entry(-1, FALSE, FALSE).huge = FALSE
BY DEF Entry

\* What the walk finds on a path.
LEMMA PathBelow ==
    ASSUME NEW mm, NEW root \in Frames, NEW va, NEW t2, NEW t3, NEW t4,
           Path(mm, root, va, t2, t3, t4)
    PROVE  /\ Below(mm, root, va[1]) = At(mm, root, va[1])
           /\ Below(mm, t2, va[2]) = At(mm, t2, va[2])
           /\ Below(mm, t3, va[3]) = At(mm, t3, va[3])
           /\ Below(mm, root, va[1]).to = t2 /\ Below(mm, t2, va[2]).to = t3
           /\ Below(mm, t3, va[3]).to = t4 /\ ~Below(mm, t3, va[3]).huge
           /\ TableFor(mm, root, va) = t4
           /\ hal_translate(mm, root, va) = Below(mm, t4, va[4]).to
<1>1. /\ Below(mm, root, va[1]) = At(mm, root, va[1])
      /\ Below(mm, t2, va[2]) = At(mm, t2, va[2])
      /\ Below(mm, t3, va[3]) = At(mm, t3, va[3])
  BY BelowIs DEF Path
<1>2. /\ Below(mm, root, va[1]).to = t2 /\ Below(mm, t2, va[2]).to = t3
      /\ Below(mm, t3, va[3]).to = t4 /\ ~Below(mm, t3, va[3]).huge
  BY <1>1 DEF Path
<1>3. TableFor(mm, root, va) = t4
  BY ONLY <1>2 DEF TableFor
<1>4. hal_translate(mm, root, va) = Below(mm, t4, va[4]).to
  BY ONLY <1>2 DEF hal_translate
<1> QED BY ONLY <1>1, <1>2, <1>3, <1>4

\* The tables on a path are those of one space.
LEMMA PathLabels ==
    ASSUME NEW mm, NEW R, NEW lev, NEW own, NEW cnt, Shape(mm, R, lev, own, cnt),
           NEW root \in R, NEW va, IsPage(va), NEW t2, NEW t3, NEW t4,
           Path(mm, root, va, t2, t3, t4),
           NEW o, o = IF va[1] = UserSlot THEN root ELSE KernelRoot
    PROVE  /\ root \in Frames
           /\ lev[root] = 1 /\ lev[t2] = 2 /\ lev[t3] = 3 /\ lev[t4] = 4
           /\ own[t2] = o /\ own[t3] = o /\ own[t4] = o
           /\ At(mm, root, va[1]).user <=> o # KernelRoot
           /\ At(mm, t2, va[2]).user <=> o # KernelRoot
           /\ At(mm, t3, va[3]).user <=> o # KernelRoot
<1>1. root \in Frames /\ lev[root] = 1 /\ own[root] = root
  BY DEF Shape, LabelsOK
<1>2. Owner(lev, own, root, va[1]) = o
  BY <1>1 DEF Owner
<1>3. EntryOK(mm, lev, own, root, va[1])
  BY <1>1 DEF Shape, EntriesOK, Path, IsPage
<1>4. lev[t2] = 2 /\ own[t2] = o /\ (At(mm, root, va[1]).user <=> o # KernelRoot)
  BY <1>1, <1>2, <1>3 DEF EntryOK, Path
<1>5. Owner(lev, own, t2, va[2]) = o
  BY <1>4 DEF Owner
<1>6. EntryOK(mm, lev, own, t2, va[2])
  BY DEF Shape, EntriesOK, Path, IsPage
<1>7. lev[t3] = 3 /\ own[t3] = o /\ (At(mm, t2, va[2]).user <=> o # KernelRoot)
  BY <1>4, <1>5, <1>6 DEF EntryOK, Path
<1>8. Owner(lev, own, t3, va[3]) = o
  BY <1>7 DEF Owner
<1>9. EntryOK(mm, lev, own, t3, va[3])
  BY DEF Shape, EntriesOK, Path, IsPage
<1>10. lev[t4] = 4 /\ own[t4] = o /\ (At(mm, t3, va[3]).user <=> o # KernelRoot)
  BY <1>7, <1>8, <1>9 DEF EntryOK, Path
<1> QED BY ONLY <1>1, <1>4, <1>7, <1>10

\* The tables of the identity map are the kernel's, and only the page of the
\* identity map is reached through the entry of the large page.
LEMMA BootOwned ==
    ASSUME NEW mm, NEW R, NEW lev, NEW own, NEW cnt, Shape(mm, R, lev, own, cnt)
    PROVE  /\ lev[1] = 1 /\ lev[2] = 2 /\ lev[3] = 3
           /\ own[1] = KernelRoot /\ own[2] = KernelRoot /\ own[3] = KernelRoot
           /\ ~At(mm, 1, IdentityPage[1]).huge /\ ~At(mm, 2, IdentityPage[2]).huge
           /\ At(mm, 3, IdentityPage[3]).to = 0
<1>1. /\ IdentityPage[1] \in Nat /\ IdentityPage[2] \in Nat /\ IdentityPage[3] \in Nat
      /\ 1 \in Frames /\ 2 \in Frames /\ 3 \in Frames /\ IdentityPage[1] # UserSlot
      /\ KernelRoot = 1
  BY Constants
<1>2. BootKept(mm, lev)
  BY DEF Shape
<1>3. lev[1] = 1 /\ lev[2] = 2 /\ lev[3] = 3 /\ own[1] = KernelRoot
  BY <1>1, <1>2 DEF Shape, LabelsOK, BootKept
<1>4. /\ EntryOK(mm, lev, own, 1, IdentityPage[1]) /\ EntryOK(mm, lev, own, 2, IdentityPage[2])
      /\ EntryOK(mm, lev, own, 3, IdentityPage[3])
  BY <1>1, <1>2 DEF Shape, EntriesOK, BootKept
<1>5. ~At(mm, 1, IdentityPage[1]).huge /\ ~At(mm, 2, IdentityPage[2]).huge
  BY ONLY <1>4 DEF EntryOK
<1>6. At(mm, 3, IdentityPage[3]).to = 0
  BY ONLY <1>2, <1>4 DEF EntryOK, BootKept
<1>7. own[2] = KernelRoot
  BY ONLY <1>1, <1>2, <1>3, <1>4, <1>5 DEF EntryOK, Owner, BootKept
<1>8. own[3] = KernelRoot
  BY ONLY <1>2, <1>3, <1>4, <1>5, <1>7 DEF EntryOK, Owner, BootKept
<1> QED BY ONLY <1>3, <1>5, <1>6, <1>7, <1>8

\* The entries a walk finds.
Pml4e(mm, root, va) == Below(mm, root, va[1])
Pdpte(mm, root, va) == Below(mm, Pml4e(mm, root, va).to, va[2])
Pde(mm, root, va)   == Below(mm, Pdpte(mm, root, va).to, va[3])

\* A walk from a root finds a path to a table of the last level, or the large
\* page of the identity map, or no entry.
LEMMA Chain ==
    ASSUME NEW mm, NEW R, NEW lev, NEW own, NEW cnt, Shape(mm, R, lev, own, cnt),
           NEW root \in R, NEW va, IsPage(va)
    PROVE  \/ Path(mm, root, va, Pml4e(mm, root, va).to, Pdpte(mm, root, va).to,
                   Pde(mm, root, va).to)
           \/ /\ Pde(mm, root, va).huge /\ Pde(mm, root, va).to = 0 /\ ~Pde(mm, root, va).user
              /\ InIdentityMap(va)
           \/ Pde(mm, root, va) = Entry(-1, FALSE, FALSE)
<1> DEFINE pml4e == Pml4e(mm, root, va)
           pdpte == Pdpte(mm, root, va)
           pde   == Pde(mm, root, va)
<1>d. /\ pml4e = Below(mm, root, va[1]) /\ pdpte = Below(mm, pml4e.to, va[2])
      /\ pde = Below(mm, pdpte.to, va[3])
  BY DEF Pml4e, Pdpte, Pde
<1> USE <1>d
<1> HIDE DEF pml4e, pdpte, pde
<1> SUFFICES \/ Path(mm, root, va, pml4e.to, pdpte.to, pde.to)
             \/ pde.huge /\ pde.to = 0 /\ ~pde.user /\ InIdentityMap(va)
             \/ pde = Entry(-1, FALSE, FALSE)
  BY DEF pml4e, pdpte, pde
<1>0. root \in Frames /\ lev[root] = 1 /\ lev \in [Frames -> 0 .. 4]
  BY DEF Shape, LabelsOK
<1>1. ASSUME NEW t \in Frames, NEW i \in Nat, Present(mm, t, i)
      PROVE  EntryOK(mm, lev, own, t, i)
  BY <1>1 DEF Shape, EntriesOK
<1>n. Entry(-1, FALSE, FALSE).to = -1
  BY NoEntry
<1>2. CASE ~Present(mm, root, va[1])
  <2>1. pml4e.to = -1
    BY <1>2, <1>n, BelowIs
  <2>2. pdpte.to = -1
    BY <1>n, <2>1, BelowIs
  <2> QED BY <2>2, BelowIs
<1>3. CASE Present(mm, root, va[1])
  <2>1. pml4e = At(mm, root, va[1])
    BY <1>0, <1>3, BelowIs
  <2>2. EntryOK(mm, lev, own, root, va[1])
    BY <1>0, <1>1, <1>3 DEF IsPage
  <2>3. ~pml4e.huge /\ pml4e.to \in Frames /\ lev[pml4e.to] = 2
    BY ONLY <1>0, <2>1, <2>2 DEF EntryOK
  <2>4. CASE ~Present(mm, pml4e.to, va[2])
    <3>1. pdpte.to = -1
      BY <1>n, <2>4, BelowIs
    <3> QED BY <3>1, BelowIs
  <2>5. CASE Present(mm, pml4e.to, va[2])
    <3>1. pdpte = At(mm, pml4e.to, va[2])
      BY <2>3, <2>5, BelowIs
    <3>2. EntryOK(mm, lev, own, pml4e.to, va[2])
      BY <1>1, <2>3, <2>5 DEF IsPage
    <3>3. ~pdpte.huge /\ pdpte.to \in Frames /\ lev[pdpte.to] = 3
      BY ONLY <2>3, <3>1, <3>2 DEF EntryOK
    <3>4. CASE ~Present(mm, pdpte.to, va[3])
      BY <3>4, BelowIs
    <3>5. CASE Present(mm, pdpte.to, va[3])
      <4>1. pde = At(mm, pdpte.to, va[3])
        BY <3>3, <3>5, BelowIs
      <4>2. EntryOK(mm, lev, own, pdpte.to, va[3])
        BY <1>1, <3>3, <3>5 DEF IsPage
      <4>3. CASE ~pde.huge
        <5>1. pde.to \in Frames
          BY ONLY <4>1, <4>2, <4>3 DEF EntryOK
        <5> QED BY ONLY <1>3, <2>1, <2>3, <2>5, <3>1, <3>3, <3>5, <4>1, <4>3, <5>1 DEF Path
      <4>4. CASE pde.huge
        <5>1. pdpte.to = 3 /\ va[3] = IdentityPage[3] /\ pde.to = 0
          BY ONLY <4>1, <4>2, <4>4 DEF EntryOK
        <5>2. Owner(lev, own, pdpte.to, va[3]) = KernelRoot
          BY ONLY <5>1, BootOwned, Shape(mm, R, lev, own, cnt) DEF Owner
        <5>3. ~pde.user
          BY ONLY <4>1, <4>2, <5>2 DEF EntryOK
        <5>4. /\ IdentityPage[1] \in Nat /\ IdentityPage[2] \in Nat /\ 1 \in Frames /\ 2 \in Frames
              /\ BootKept(mm, lev) /\ Single(mm, lev)
          BY Constants DEF Shape
        <5>5. /\ ~At(mm, 1, IdentityPage[1]).huge /\ ~At(mm, 2, IdentityPage[2]).huge
          BY BootOwned
        <5>6. va[1] \in Nat /\ va[2] \in Nat
          BY DEF IsPage
        <5>7. va[2] = IdentityPage[2] /\ pml4e.to = 2
          BY ONLY <2>3, <2>5, <3>1, <3>3, <5>1, <5>4, <5>5, <5>6 DEF BootKept, Single
        <5>8. va[1] = IdentityPage[1]
          BY ONLY <1>0, <1>3, <2>1, <2>3, <5>4, <5>5, <5>6, <5>7 DEF BootKept, Single
        <5>9. InIdentityMap(va)
          BY ONLY <5>1, <5>7, <5>8 DEF InIdentityMap
        <5> QED BY ONLY <4>4, <5>1, <5>3, <5>9
      <4> QED BY ONLY <4>3, <4>4
    <3> QED BY ONLY <3>4, <3>5
  <2> QED BY ONLY <2>4, <2>5
<1> QED BY ONLY <1>2, <1>3

\* A table that TableFor finds is at the end of a path.
LEMMA TableForPath ==
    ASSUME NEW mm, NEW R, NEW lev, NEW own, NEW cnt, Shape(mm, R, lev, own, cnt),
           NEW root \in R, NEW va, IsPage(va), TableFor(mm, root, va) \in Frames
    PROVE  \E t2, t3 : Path(mm, root, va, t2, t3, TableFor(mm, root, va))
<1>1. TableFor(mm, root, va) = Pde(mm, root, va).to
  BY DEF TableFor, Pml4e, Pdpte, Pde
<1>2. Pde(mm, root, va).to # 0 /\ Pde(mm, root, va) # Entry(-1, FALSE, FALSE)
  BY <1>1, NoEntry, Constants
<1> QED BY <1>1, <1>2, Chain

\* A path stays when entries are only added.
LEMMA PathStays ==
    ASSUME NEW mm, NEW m, NEW root \in Frames, NEW va, IsPage(va), NEW t2, NEW t3, NEW t4,
           Path(mm, root, va, t2, t3, t4),
           \A t \in Frames, i \in Nat : Present(mm, t, i) =>
               Present(m, t, i) /\ At(m, t, i) = At(mm, t, i)
    PROVE  Path(m, root, va, t2, t3, t4)
BY DEF Path, IsPage

\* A table of the last level is at the end of one path only.
LEMMA PathUnique ==
    ASSUME NEW mm, NEW R, NEW lev, NEW own, NEW cnt, Shape(mm, R, lev, own, cnt),
           NEW r \in R, NEW va, IsPage(va), NEW s \in R, NEW vb, IsPage(vb),
           NEW t2, NEW t3, NEW u2, NEW u3, NEW t4,
           Path(mm, r, va, t2, t3, t4), Path(mm, s, vb, u2, u3, t4)
    PROVE  /\ va[1] = vb[1] /\ va[2] = vb[2] /\ va[3] = vb[3]
           /\ va[1] = UserSlot => r = s
<1>1. /\ lev[r] = 1 /\ lev[t2] = 2 /\ lev[t3] = 3 /\ r \in Frames
      /\ own[t2] = IF va[1] = UserSlot THEN r ELSE KernelRoot
  BY PathLabels
<1>2. /\ s \in Frames
      /\ own[u2] = IF vb[1] = UserSlot THEN s ELSE KernelRoot
  BY PathLabels
<1>3. Single(mm, lev)
  BY DEF Shape
<1>4. va[3] = vb[3] /\ t3 = u3
  BY ONLY <1>1, <1>2, <1>3, Path(mm, r, va, t2, t3, t4), Path(mm, s, vb, u2, u3, t4),
          IsPage(va), IsPage(vb) DEF Single, Path, IsPage
<1>5. va[2] = vb[2] /\ t2 = u2
  BY ONLY <1>1, <1>2, <1>3, <1>4, Path(mm, r, va, t2, t3, t4), Path(mm, s, vb, u2, u3, t4),
          IsPage(va), IsPage(vb) DEF Single, Path, IsPage
<1>6. va[1] = vb[1]
  BY ONLY <1>1, <1>2, <1>3, <1>5, Path(mm, r, va, t2, t3, t4), Path(mm, s, vb, u2, u3, t4),
          IsPage(va), IsPage(vb) DEF Single, Path, IsPage
<1> QED BY ONLY <1>1, <1>2, <1>4, <1>5, <1>6

----------------------------------------------------------------------------
(* Mapping a page.                                                         *)

\* A walk that failed goes no further.
LEMMA WalkStops ==
    ASSUME NEW w, w.next = 0, NEW i, NEW user
    PROVE  walk_to_next_level(w, i, user) = w
BY DEF walk_to_next_level

\* What holds of a walk of the tables mm below root, and of where it got to.
WalkOK(mm, R, lev, own, cnt, root, va, w) ==
    \E lev2, own2 :
        /\ Shape(w.mem, R, lev2, own2, cnt) /\ Grown(mm, w.mem, lev, lev2, own, own2)
        /\ w.next # 0 => \E t2, t3 : Path(w.mem, root, va, t2, t3, w.next)

\* Walk keeps the tables in shape, and a walk that succeeds made its path.
LEMMA WalkKeeps ==
    ASSUME NEW mm, NEW R, NEW lev, NEW own, NEW cnt, Shape(mm, R, lev, own, cnt),
           NEW root \in R, NEW va, IsPage(va),
           NEW o, o = IF va[1] = UserSlot THEN root ELSE KernelRoot,
           NEW user \in BOOLEAN, user <=> o # KernelRoot,
           IF va[1] = UserSlot THEN root # KernelRoot ELSE R = {KernelRoot}
    PROVE  WalkOK(mm, R, lev, own, cnt, root, va, Walk(mm, root, va, user))
<1> DEFINE w0 == [mem |-> mm, next |-> root]
           w1 == walk_to_next_level(w0, va[1], user)
           w2 == walk_to_next_level(w1, va[2], user)
           w3 == walk_to_next_level(w2, va[3], user)
<1>1. Walk(mm, root, va, user) = w3
  BY DEF Walk
<1>2. root \in Frames /\ lev[root] = 1 /\ own[root] = root
  BY DEF Shape, LabelsOK
<1>3. Owner(lev, own, root, va[1]) = o
  BY <1>2 DEF Owner
<1>4. /\ w1 = [mem |-> w1.mem, next |-> w1.next]
      /\ \E l, p : /\ Shape(w1.mem, R, l, p, cnt) /\ Grown(mm, w1.mem, lev, l, own, p)
                   /\ Arrives(w1, root, va[1], 2, l, p, o)
  <2>1. w1 = walk_to_next_level([mem |-> mm, next |-> root], va[1], user)
    OBVIOUS
  <2>2. va[1] \in Nat /\ lev[root] \in 1 .. 3 /\ lev[root] + 1 = 2
    BY <1>2 DEF IsPage
  <2>3. lev[root] = 1 => IF va[1] = UserSlot THEN root # KernelRoot ELSE R = {KernelRoot}
    OBVIOUS
  <2>4. user \in BOOLEAN /\ (user <=> o # KernelRoot)
    OBVIOUS
  <2> HIDE DEF w1
  <2>5. /\ w1 = [mem |-> w1.mem, next |-> w1.next]
        /\ \E l, p :
              /\ Shape(w1.mem, R, l, p, cnt) /\ Grown(mm, w1.mem, lev, l, own, p)
              /\ Arrives(w1, root, va[1], lev[root] + 1, l, p, Owner(lev, own, root, va[1]))
    BY ONLY Shape(mm, R, lev, own, cnt), <1>2, <1>3, <2>1, <2>2, <2>3, <2>4, WalkStep
  <2> QED BY ONLY <1>3, <2>2, <2>5
<1>5. PICK l, p : /\ Shape(w1.mem, R, l, p, cnt) /\ Grown(mm, w1.mem, lev, l, own, p)
                  /\ Arrives(w1, root, va[1], 2, l, p, o)
  BY ONLY <1>4
<1>6. CASE w1.next = 0
  <2>1. w2 = w1 /\ w3 = w1
    <3>1. w2 = w1
      BY <1>6, WalkStops
    <3> QED BY <1>6, <3>1, WalkStops
  <2> HIDE DEF w1, w2, w3
  <2> QED BY ONLY <1>1, <1>5, <1>6, <2>1 DEF WalkOK
<1>7. CASE w1.next # 0
  <2> DEFINE t2 == w1.next
  <2>1. /\ t2 \in Frames /\ l[t2] = 2 /\ p[t2] = o
        /\ Present(w1.mem, root, va[1]) /\ ~At(w1.mem, root, va[1]).huge
        /\ At(w1.mem, root, va[1]).to = t2
    BY ONLY <1>5, <1>7 DEF Arrives
  <2>2. Owner(l, p, t2, va[2]) = o
    BY ONLY <2>1 DEF Owner
  <2>3. w2 = walk_to_next_level([mem |-> w1.mem, next |-> t2], va[2], user)
    BY ONLY <1>4
  <2>4. va[2] \in Nat /\ l[t2] \in 1 .. 3 /\ l[t2] + 1 = 3 /\ l[t2] # 1
    BY <2>1 DEF IsPage
  <2>5. user \in BOOLEAN /\ (user <=> Owner(l, p, t2, va[2]) # KernelRoot)
    BY <2>2
  <2> HIDE DEF w1, w2, t2
  <2>6. /\ w2 = [mem |-> w2.mem, next |-> w2.next]
        /\ \E l2, p2 :
              /\ Shape(w2.mem, R, l2, p2, cnt) /\ Grown(w1.mem, w2.mem, l, l2, p, p2)
              /\ Arrives(w2, t2, va[2], l[t2] + 1, l2, p2, Owner(l, p, t2, va[2]))
    BY ONLY <1>5, <2>1, <2>3, <2>4, <2>5, WalkStep
  <2>7. PICK l2, p2 : /\ Shape(w2.mem, R, l2, p2, cnt) /\ Grown(w1.mem, w2.mem, l, l2, p, p2)
                      /\ Arrives(w2, t2, va[2], 3, l2, p2, o)
    BY ONLY <2>2, <2>4, <2>6
  <2>8. Grown(mm, w2.mem, lev, l2, own, p2)
    BY ONLY <1>5, <2>7, GrownTwice
  <2>9. CASE w2.next = 0
    <3>1. w3 = w2
      BY ONLY <2>9, WalkStops
    <3> HIDE DEF w3
    <3> QED BY ONLY <1>1, <2>7, <2>8, <2>9, <3>1 DEF WalkOK
  <2>10. CASE w2.next # 0
    <3> DEFINE t3 == w2.next
    <3>1. /\ t3 \in Frames /\ l2[t3] = 3 /\ p2[t3] = o
          /\ Present(w2.mem, t2, va[2]) /\ ~At(w2.mem, t2, va[2]).huge
          /\ At(w2.mem, t2, va[2]).to = t3
      BY ONLY <2>7, <2>10 DEF Arrives
    <3>2. Owner(l2, p2, t3, va[3]) = o
      BY ONLY <3>1 DEF Owner
    <3>3. w3 = walk_to_next_level([mem |-> w2.mem, next |-> t3], va[3], user)
      BY ONLY <2>6
    <3>4. va[3] \in Nat /\ l2[t3] \in 1 .. 3 /\ l2[t3] + 1 = 4 /\ l2[t3] # 1
      BY <3>1 DEF IsPage
    <3>5. user \in BOOLEAN /\ (user <=> Owner(l2, p2, t3, va[3]) # KernelRoot)
      BY <3>2
    <3> HIDE DEF w3, t3
    <3>6. \E l3, p3 :
             /\ Shape(w3.mem, R, l3, p3, cnt) /\ Grown(w2.mem, w3.mem, l2, l3, p2, p3)
             /\ Arrives(w3, t3, va[3], l2[t3] + 1, l3, p3, Owner(l2, p2, t3, va[3]))
      BY ONLY <2>7, <3>1, <3>3, <3>4, <3>5, WalkStep
    <3>7. PICK l3, p3 : /\ Shape(w3.mem, R, l3, p3, cnt) /\ Grown(w2.mem, w3.mem, l2, l3, p2, p3)
                        /\ Arrives(w3, t3, va[3], 4, l3, p3, o)
      BY ONLY <3>2, <3>4, <3>6
    <3>8. Grown(mm, w3.mem, lev, l3, own, p3)
      BY ONLY <2>8, <3>7, GrownTwice
    <3>9. ASSUME w3.next # 0 PROVE Path(w3.mem, root, va, t2, t3, w3.next)
      <4>1. /\ w3.next \in Frames
            /\ Present(w3.mem, t3, va[3]) /\ ~At(w3.mem, t3, va[3]).huge
            /\ At(w3.mem, t3, va[3]).to = w3.next
        BY ONLY <3>7, <3>9 DEF Arrives
      <4>2. Present(w3.mem, t2, va[2]) /\ At(w3.mem, t2, va[2]) = At(w2.mem, t2, va[2])
        BY ONLY <2>1, <2>4, <3>1, <3>7 DEF Grown
      <4>3. Present(w2.mem, root, va[1]) /\ At(w2.mem, root, va[1]) = At(w1.mem, root, va[1])
        BY ONLY <1>2, <2>1, <2>7, IsPage(va) DEF Grown, IsPage
      <4>4. Present(w3.mem, root, va[1]) /\ At(w3.mem, root, va[1]) = At(w1.mem, root, va[1])
        BY ONLY <1>2, <4>3, <3>7, IsPage(va) DEF Grown, IsPage
      <4> QED BY ONLY <2>1, <3>1, <4>1, <4>2, <4>4 DEF Path
    <3> QED BY ONLY <1>1, <3>7, <3>8, <3>9 DEF WalkOK
  <2> QED BY ONLY <2>9, <2>10
<1> QED BY ONLY <1>6, <1>7

\* What hal_map_page returned: tables grown on the way, and the page put into
\* an entry that was empty or said the same.
MapOK(mm, R, lev, own, cnt, root, va, pa, user, m) ==
    \E mw, lev2, own2 :
        /\ Shape(mw, R, lev2, own2, cnt) /\ Grown(mm, mw, lev, lev2, own, own2)
        /\ ~m.ok => m.mem = mw
        /\ m.ok => \E t2, t3, t4 :
              /\ Path(mw, root, va, t2, t3, t4)
              /\ Present(mw, t4, va[4]) => At(mw, t4, va[4]).to = pa
              /\ m.mem = WithEntry(mw, t4, va[4], Entry(pa, user, FALSE))

\* hal_map_page keeps the tables in shape up to the entry it writes.
LEMMA MapKeeps ==
    ASSUME NEW mm, NEW R, NEW lev, NEW own, NEW cnt, Shape(mm, R, lev, own, cnt),
           NEW root \in R, NEW va, IsPage(va), NEW pa,
           NEW user \in BOOLEAN, user <=> va[1] = UserSlot,
           IF va[1] = UserSlot THEN root # KernelRoot ELSE root = KernelRoot /\ R = {KernelRoot}
    PROVE  MapOK(mm, R, lev, own, cnt, root, va, pa, user, hal_map_page(mm, root, va, pa, user))
<1> DEFINE w == Walk(mm, root, va, user)
           m == hal_map_page(mm, root, va, pa, user)
           o == IF va[1] = UserSlot THEN root ELSE KernelRoot
<1>1. WalkOK(mm, R, lev, own, cnt, root, va, w)
  <2>1. user <=> o # KernelRoot
    OBVIOUS
  <2>2. IF va[1] = UserSlot THEN root # KernelRoot ELSE R = {KernelRoot}
    OBVIOUS
  <2>3. o = IF va[1] = UserSlot THEN root ELSE KernelRoot
    OBVIOUS
  <2> HIDE DEF o
  <2> QED BY ONLY Shape(mm, R, lev, own, cnt), root \in R, IsPage(va), user \in BOOLEAN,
                  <2>1, <2>2, <2>3, WalkKeeps
<1>2. m = IF w.next # 0 /\ Writable(w, va, pa)
          THEN [mem |-> WithEntry(w.mem, w.next, va[4], Entry(pa, user, FALSE)), ok |-> TRUE]
          ELSE [mem |-> w.mem, ok |-> FALSE]
  BY DEF hal_map_page
<1> HIDE DEF w, m
<1>3. PICK lev2, own2 :
        /\ Shape(w.mem, R, lev2, own2, cnt) /\ Grown(mm, w.mem, lev, lev2, own, own2)
        /\ w.next # 0 => \E t2, t3 : Path(w.mem, root, va, t2, t3, w.next)
  BY ONLY <1>1 DEF WalkOK
<1>4. CASE w.next # 0 /\ Writable(w, va, pa)
  <2>1. /\ m.ok = TRUE
        /\ m.mem = WithEntry(w.mem, w.next, va[4], Entry(pa, user, FALSE))
    BY ONLY <1>2, <1>4
  <2>2. Present(w.mem, w.next, va[4]) => At(w.mem, w.next, va[4]).to = pa
    BY ONLY <1>4 DEF Writable, Present, At
  <2>3. PICK t2, t3 : Path(w.mem, root, va, t2, t3, w.next)
    BY ONLY <1>3, <1>4
  <2>4. MapOK(mm, R, lev, own, cnt, root, va, pa, user, m)
    BY ONLY <1>3, <2>1, <2>2, <2>3 DEF MapOK
  <2> QED BY <2>4 DEF m
<1>5. CASE ~(w.next # 0 /\ Writable(w, va, pa))
  <2>1. m.ok = FALSE /\ m.mem = w.mem
    BY ONLY <1>2, <1>5
  <2>2. MapOK(mm, R, lev, own, cnt, root, va, pa, user, m)
    BY ONLY <1>3, <2>1 DEF MapOK
  <2> QED BY <2>2 DEF m
<1> QED BY ONLY <1>4, <1>5

\* The count of a frame that is no table can be set, to 0 when no page leads
\* to it.
LEMMA CountSet ==
    ASSUME NEW mm, NEW R, NEW lev, NEW own, NEW cnt, Shape(mm, R, lev, own, cnt),
           NEW f \in Frames, lev[f] = 0, NEW n \in Nat,
           n > 0 \/ \A t \in Frames, i \in Nat : Present(mm, t, i) /\ lev[t] = 4 =>
                       At(mm, t, i).to # f,
           NEW m, m = WithRef(mm, f, n)
    PROVE  /\ Shape(m, R, lev, own, [cnt EXCEPT ![f] = n])
           /\ \A t \in Frames, i \in Nat :
                 Present(m, t, i) = Present(mm, t, i) /\ At(m, t, i) = At(mm, t, i)
<1> DEFINE cnt2 == [cnt EXCEPT ![f] = n]
<1>1. MemOK(mm) /\ cnt \in [Frames -> Nat] /\ mm.ref \in [Frames -> Nat]
  BY DEF Shape, MemOK, Counted
<1>2. /\ MemOK(m) /\ m.ref = [mm.ref EXCEPT ![f] = n]
      /\ \A t \in Frames, i \in Nat :
            Present(m, t, i) = Present(mm, t, i) /\ At(m, t, i) = At(mm, t, i)
  <2>1. MemOK(m)
    BY ONLY <1>1, f \in Frames, n \in Nat, m = WithRef(mm, f, n), WithRefOK
  <2>2. m.ref = [mm.ref EXCEPT ![f] = n]
    BY ONLY <1>1, f \in Frames, n \in Nat, m = WithRef(mm, f, n), WithRefOK
  <2>3. \A t \in Frames, i \in Nat :
           Present(m, t, i) = Present(mm, t, i) /\ At(m, t, i) = At(mm, t, i)
    <3>1. m.entry = mm.entry
      BY ONLY m = WithRef(mm, f, n) DEF WithRef
    <3> QED BY ONLY <3>1 DEF Present, At
  <2> QED BY ONLY <2>1, <2>2, <2>3
<1>3. cnt2 \in [Frames -> Nat] /\ cnt2[f] = n /\ \A g \in Frames \ {f} : cnt2[g] = cnt[g]
  BY <1>1
<1>4. m.ref[f] = n /\ \A g \in Frames \ {f} : m.ref[g] = mm.ref[g]
  BY <1>1, <1>2
<1> HIDE DEF cnt2
<1>5. Counted(m, lev, cnt2)
  <2>1. Counted(mm, lev, cnt)
    BY DEF Shape
  <2>2. \A g \in Frames : m.ref[g] = IF lev[g] > 0 THEN 1 ELSE cnt2[g]
    BY <1>3, <1>4, <2>1 DEF Counted
  <2>3. \A g \in Frames : lev[g] > 0 => cnt2[g] = 0
    BY <1>3, <2>1 DEF Counted
  <2>4. ASSUME NEW t \in Frames, NEW i \in Nat, Present(m, t, i), lev[t] = 4
        PROVE  cnt2[At(m, t, i).to] > 0
    <3>1. Present(mm, t, i) /\ At(m, t, i) = At(mm, t, i)
      BY ONLY <1>2, <2>4
    <3>2. cnt[At(mm, t, i).to] > 0 /\ EntryOK(mm, lev, own, t, i)
      BY <2>1, <2>4, <3>1 DEF Counted, Shape, EntriesOK
    <3>3. At(mm, t, i).to \in Frames
      BY <2>4, <3>2 DEF EntryOK
    <3>4. CASE At(mm, t, i).to = f
      BY <1>3, <2>4, <3>1, <3>4
    <3>5. CASE At(mm, t, i).to # f
      BY <1>3, <3>1, <3>2, <3>3, <3>5
    <3> QED BY <3>4, <3>5
  <2> QED BY <1>3, <2>2, <2>3, <2>4 DEF Counted
<1>6. EntriesOK(m, lev, own)
  <2>1. EntriesOK(mm, lev, own)
    BY DEF Shape
  <2> QED BY ONLY <1>2, <2>1 DEF EntriesOK, EntryOK
<1>7. Single(m, lev)
  <2>1. Single(mm, lev)
    BY DEF Shape
  <2> QED BY ONLY <1>2, <2>1 DEF Single
<1>8. Reached(m, lev)
  <2>1. Reached(mm, lev)
    BY DEF Shape
  <2> QED BY ONLY <1>2, <2>1 DEF Reached
<1>9. Shared(m, R)
  <2>1. Shared(mm, R) /\ R \subseteq Frames /\ KernelRoot \in Frames
    BY Constants DEF Shape, LabelsOK
  <2> QED BY ONLY <1>2, <2>1 DEF Shared
<1>10. BootKept(m, lev)
  <2>1. BootKept(mm, lev)
    BY DEF Shape
  <2>2. IdentityPage[1] \in Nat /\ IdentityPage[2] \in Nat /\ IdentityPage[3] \in Nat
        /\ 1 \in Frames /\ 2 \in Frames /\ 3 \in Frames
    BY Constants
  <2> QED BY ONLY <1>2, <2>1, <2>2 DEF BootKept
<1>11. LabelsOK(R, lev, own)
  BY DEF Shape
<1>12. Shape(m, R, lev, own, cnt2)
  BY ONLY <1>2, <1>5, <1>6, <1>7, <1>8, <1>9, <1>10, <1>11 DEF Shape
<1> QED BY <1>2, <1>12 DEF cnt2

----------------------------------------------------------------------------
(* What is mapped, and what it translates to.                              *)

\* A page mapped for a process lies in the slot of the processes, in a space;
\* one mapped for the kernel outside it, in the kernel's tables.
LEMMA KeyIs ==
    ASSUME NEW R, KernelRoot \in R, NEW k \in Keys(R)
    PROVE  /\ k = <<k[1], k[2]>> /\ k[1] \in R /\ IsPage(k[2])
           /\ k[2] = <<k[2][1], k[2][2], k[2][3], k[2][4]>>
           /\ k[2] \in UserPages \cup KernelPages
           /\ k[1] = KernelRoot => k[2] \in KernelPages /\ k[2][1] # UserSlot
           /\ k[1] # KernelRoot => k[2] \in UserPages /\ k[2][1] = UserSlot
<1>1. /\ UserPages \cup KernelPages \subseteq Nat \X Nat \X Nat \X Nat
      /\ \A va \in KernelPages : va[1] # UserSlot
  BY PagingAssumption
<1>2. k \in (R \ {KernelRoot}) \X OwnPages \/ k \in {KernelRoot} \X KernelPages
  BY DEF Keys
<1>3. CASE k \in (R \ {KernelRoot}) \X OwnPages
  <2>1. /\ k = <<k[1], k[2]>> /\ k[1] \in R \ {KernelRoot}
        /\ k[2] \in UserPages /\ k[2][1] = UserSlot
    BY ONLY <1>3 DEF OwnPages
  <2>2. k[2] \in Nat \X Nat \X Nat \X Nat
    BY <1>1, <2>1
  <2>3. IsPage(k[2]) /\ k[2] = <<k[2][1], k[2][2], k[2][3], k[2][4]>>
    BY ONLY <2>2 DEF IsPage
  <2> QED BY <2>1, <2>3
<1>4. CASE k \in {KernelRoot} \X KernelPages
  <2>1. k = <<k[1], k[2]>> /\ k[1] = KernelRoot /\ k[2] \in KernelPages
    BY ONLY <1>4
  <2>2. k[2] \in Nat \X Nat \X Nat \X Nat
    BY <1>1, <2>1
  <2>3. IsPage(k[2]) /\ k[2] = <<k[2][1], k[2][2], k[2][3], k[2][4]>>
    BY ONLY <2>2 DEF IsPage
  <2> QED BY <1>1, <2>1, <2>3
<1> QED BY ONLY <1>2, <1>3, <1>4

\* The same of a page alone.
LEMMA PageIs ==
    ASSUME NEW va \in UserPages \cup KernelPages \cup {IdentityPage}
    PROVE  IsPage(va) /\ va = <<va[1], va[2], va[3], va[4]>>
<1>1. va \in Nat \X Nat \X Nat \X Nat
  BY PagingAssumption
<1> QED BY ONLY <1>1 DEF IsPage

\* The path of a page that is mapped.
LEMMA MappedPath ==
    ASSUME NEW mm, NEW R, NEW lev, NEW own, NEW cnt, NEW mp,
           Shape(mm, R, lev, own, cnt), MappedOK(R, mp), Leaves(mm, lev, mp),
           NEW k \in DOMAIN mp
    PROVE  \E t2, t3, t4 :
              /\ Path(mm, k[1], k[2], t2, t3, t4)
              /\ Present(mm, t4, k[2][4]) /\ At(mm, t4, k[2][4]).to = mp[k]
<1> DEFINE t4 == TableFor(mm, k[1], k[2])
<1>1. k[1] \in R /\ IsPage(k[2])
  BY KeyIs DEF MappedOK, Shape, LabelsOK
<1>2. t4 \in Frames /\ Present(mm, t4, k[2][4]) /\ At(mm, t4, k[2][4]).to = mp[k]
  BY DEF Leaves
<1>3. \E t2, t3 : Path(mm, k[1], k[2], t2, t3, t4)
  BY <1>1, <1>2, TableForPath
<1> HIDE DEF t4
<1> QED BY <1>2, <1>3

\* An entry of the last level is that of a page mapped.
LEMMA LeafPath ==
    ASSUME NEW mm, NEW R, NEW lev, NEW own, NEW cnt, NEW mp,
           Shape(mm, R, lev, own, cnt), MappedOK(R, mp), Leaves(mm, lev, mp),
           NEW t \in Frames, NEW i \in Nat, Present(mm, t, i), lev[t] = 4
    PROVE  \E k \in DOMAIN mp : \E t2, t3 :
              /\ Path(mm, k[1], k[2], t2, t3, t) /\ k[2][4] = i /\ mp[k] = At(mm, t, i).to
              /\ k[1] \in R /\ IsPage(k[2])
<1>1. PICK k \in DOMAIN mp : TableFor(mm, k[1], k[2]) = t /\ k[2][4] = i
  BY DEF Leaves
<1>2. k[1] \in R /\ IsPage(k[2])
  BY KeyIs DEF MappedOK, Shape, LabelsOK
<1>3. \E t2, t3 : Path(mm, k[1], k[2], t2, t3, t)
  BY <1>1, <1>2, TableForPath
<1>4. mp[k] = At(mm, t, i).to
  BY <1>1 DEF Leaves
<1> QED BY <1>1, <1>2, <1>3, <1>4

\* The page whose entry of the last level is at the end of a path.
LEMMA LeafIs ==
    ASSUME NEW mm, NEW R, NEW lev, NEW own, NEW cnt, NEW mp,
           Shape(mm, R, lev, own, cnt), MappedOK(R, mp), Leaves(mm, lev, mp),
           NEW root \in R, NEW va \in UserPages \cup KernelPages \cup {IdentityPage},
           NEW t2, NEW t3, NEW t4,
           Path(mm, root, va, t2, t3, t4), Present(mm, t4, va[4]),
           NEW o, o = IF va[1] = UserSlot THEN root ELSE KernelRoot
    PROVE  <<o, va>> \in DOMAIN mp /\ mp[<<o, va>>] = At(mm, t4, va[4]).to
<1>1. IsPage(va) /\ va = <<va[1], va[2], va[3], va[4]>>
  BY PageIs
<1>2. t4 \in Frames /\ lev[t4] = 4
  BY <1>1, PathLabels DEF Path
<1>3. PICK k \in DOMAIN mp : \E u2, u3 :
         /\ Path(mm, k[1], k[2], u2, u3, t4) /\ k[2][4] = va[4] /\ mp[k] = At(mm, t4, va[4]).to
         /\ k[1] \in R /\ IsPage(k[2])
  <2>1. va[4] \in Nat
    BY <1>1 DEF IsPage
  <2> QED BY <1>2, <2>1, LeafPath
<1>4. PICK u2, u3 : Path(mm, k[1], k[2], u2, u3, t4)
  BY <1>3
<1>5. /\ va[1] = k[2][1] /\ va[2] = k[2][2] /\ va[3] = k[2][3]
      /\ va[1] = UserSlot => root = k[1]
  BY <1>1, <1>3, <1>4, PathUnique
<1>6. /\ k = <<k[1], k[2]>> /\ k[2] = <<k[2][1], k[2][2], k[2][3], k[2][4]>>
      /\ k[1] = KernelRoot => k[2][1] # UserSlot
      /\ k[1] # KernelRoot => k[2][1] = UserSlot
  BY KeyIs DEF MappedOK, Shape, LabelsOK
<1>7. k[2] = va
  BY ONLY <1>1, <1>3, <1>5, <1>6
<1>8. k[1] = o
  BY <1>5, <1>6
<1>9. k = <<o, va>>
  BY ONLY <1>6, <1>7, <1>8
<1> QED BY <1>3, <1>9

\* Outside the slot of the processes a root is walked like the kernel's.
LEMMA SharedWalk ==
    ASSUME NEW mm, NEW R, NEW lev, NEW own, NEW cnt, Shape(mm, R, lev, own, cnt),
           NEW root \in R, NEW va, IsPage(va), va[1] # UserSlot
    PROVE  hal_translate(mm, root, va) = hal_translate(mm, KernelRoot, va)
<1>1. /\ Present(mm, root, va[1]) <=> Present(mm, KernelRoot, va[1])
      /\ Present(mm, root, va[1]) => At(mm, root, va[1]).to = At(mm, KernelRoot, va[1]).to
  BY DEF Shape, Shared, IsPage
<1>2. root \in Frames /\ KernelRoot \in Frames
  BY Constants DEF Shape, LabelsOK
<1>3. Below(mm, root, va[1]).to = Below(mm, KernelRoot, va[1]).to
  <2>1. CASE Present(mm, root, va[1])
    <3>1. /\ Below(mm, root, va[1]) = At(mm, root, va[1])
          /\ Below(mm, KernelRoot, va[1]) = At(mm, KernelRoot, va[1])
      BY <1>1, <1>2, <2>1, BelowIs
    <3> QED BY ONLY <1>1, <2>1, <3>1
  <2>2. CASE ~Present(mm, root, va[1])
    <3>1. /\ Below(mm, root, va[1]) = Entry(-1, FALSE, FALSE)
          /\ Below(mm, KernelRoot, va[1]) = Entry(-1, FALSE, FALSE)
      BY <1>1, <2>2, BelowIs
    <3> QED BY ONLY <3>1
  <2> QED BY ONLY <2>1, <2>2
<1> QED BY ONLY <1>3 DEF hal_translate

\* A page inside the identity map translates to the memory behind it.
LEMMA IdentityWalk ==
    ASSUME NEW mm, NEW R, NEW lev, NEW own, NEW cnt, Shape(mm, R, lev, own, cnt),
           NEW root \in R, NEW va, IsPage(va), InIdentityMap(va)
    PROVE  hal_translate(mm, root, va) = 0
<1>1. /\ 1 \in Frames /\ 2 \in Frames /\ 3 \in Frames /\ KernelRoot = 1
      /\ IdentityPage[1] # UserSlot
  BY Constants
<1>2. va[1] = IdentityPage[1] /\ va[2] = IdentityPage[2] /\ va[3] = IdentityPage[3]
  BY DEF InIdentityMap
<1>3. BootKept(mm, lev)
  BY DEF Shape
<1>b. /\ Present(mm, 1, va[1]) /\ At(mm, 1, va[1]).to = 2
      /\ Present(mm, 2, va[2]) /\ At(mm, 2, va[2]).to = 3 /\ Present(mm, 3, va[3])
  BY ONLY <1>2, <1>3 DEF BootKept
<1>4. Below(mm, 1, va[1]).to = 2
  BY ONLY <1>1, <1>b, BelowIs
<1>5. Below(mm, 2, va[2]).to = 3
  BY ONLY <1>1, <1>b, BelowIs
<1>6. Below(mm, 3, va[3]) = At(mm, 3, IdentityPage[3])
  BY ONLY <1>1, <1>2, <1>b, BelowIs
<1>7. Below(mm, 3, va[3]).huge /\ Below(mm, 3, va[3]).to = 0
  BY <1>3, <1>6, BootOwned DEF BootKept
<1>8. hal_translate(mm, 1, va) = 0
  BY ONLY <1>4, <1>5, <1>7 DEF hal_translate
<1> QED BY <1>1, <1>2, <1>8, SharedWalk

\* hal_translate gives what is mapped.
LEMMA Translates ==
    ASSUME NEW mm, NEW R, NEW lev, NEW own, NEW cnt, NEW mp,
           Shape(mm, R, lev, own, cnt), MappedOK(R, mp), Leaves(mm, lev, mp),
           NEW root \in R, NEW va \in UserPages \cup KernelPages
    PROVE  hal_translate(mm, root, va) = Expected(mp, root, va)
<1> DEFINE o == IF va[1] = UserSlot THEN root ELSE KernelRoot
<1>1. IsPage(va) /\ KernelRoot \in R /\ R \subseteq Frames
  BY PageIs DEF Shape, LabelsOK
<1>2. o \in R /\ o \in Frames
  BY <1>1
<1>3. hal_translate(mm, root, va) = hal_translate(mm, o, va)
  BY <1>1, SharedWalk
<1>4. Expected(mp, root, va) = IF <<o, va>> \in DOMAIN mp THEN mp[<<o, va>>]
                               ELSE IF InIdentityMap(va) THEN 0 ELSE -1
  BY DEF Expected
<1>o. o = IF va[1] = UserSlot THEN o ELSE KernelRoot
  OBVIOUS
<1> HIDE DEF o
<1>5. CASE <<o, va>> \in DOMAIN mp
  <2>1. <<o, va>>[1] = o /\ <<o, va>>[2] = va
    OBVIOUS
  <2>2. PICK t2, t3, t4 : /\ Path(mm, o, va, t2, t3, t4)
                          /\ Present(mm, t4, va[4]) /\ At(mm, t4, va[4]).to = mp[<<o, va>>]
    BY <1>5, <2>1, MappedPath
  <2>3. hal_translate(mm, o, va) = Below(mm, t4, va[4]).to
    BY <1>2, <2>2, PathBelow
  <2>4. Below(mm, t4, va[4]) = At(mm, t4, va[4])
    BY <2>2, BelowIs DEF Path
  <2> QED BY <1>3, <1>4, <1>5, <2>2, <2>3, <2>4
<1>6. CASE <<o, va>> \notin DOMAIN mp /\ InIdentityMap(va)
  BY <1>1, <1>2, <1>3, <1>4, <1>6, IdentityWalk
<1>7. CASE <<o, va>> \notin DOMAIN mp /\ ~InIdentityMap(va)
  <2>1. \/ Path(mm, o, va, Pml4e(mm, o, va).to, Pdpte(mm, o, va).to, Pde(mm, o, va).to)
        \/ Pde(mm, o, va) = Entry(-1, FALSE, FALSE)
    BY <1>1, <1>2, <1>7, Chain
  <2>2. CASE Pde(mm, o, va) = Entry(-1, FALSE, FALSE)
    <3>1. hal_translate(mm, o, va) = IF Pde(mm, o, va).huge THEN Pde(mm, o, va).to
                                     ELSE Below(mm, Pde(mm, o, va).to, va[4]).to
      BY DEF hal_translate, Pde, Pdpte, Pml4e
    <3>2. Below(mm, -1, va[4]).to = -1
      BY BelowIs, NoEntry
    <3>3. hal_translate(mm, o, va) = -1
      BY ONLY <2>2, <3>1, <3>2, NoEntry
    <3> QED BY <1>3, <1>4, <1>7, <3>3
  <2>3. CASE Path(mm, o, va, Pml4e(mm, o, va).to, Pdpte(mm, o, va).to, Pde(mm, o, va).to)
    <3> DEFINE t2 == Pml4e(mm, o, va).to
               t3 == Pdpte(mm, o, va).to
               t4 == Pde(mm, o, va).to
    <3>1. Path(mm, o, va, t2, t3, t4)
      BY <2>3
    <3> HIDE DEF t2, t3, t4
    <3>2. hal_translate(mm, o, va) = Below(mm, t4, va[4]).to
      BY <1>2, <3>1, PathBelow
    <3>3. ~Present(mm, t4, va[4])
      BY <1>2, <1>7, <1>o, <3>1, LeafIs
    <3>4. Below(mm, t4, va[4]) = Entry(-1, FALSE, FALSE)
      BY <3>3, BelowIs
    <3>5. hal_translate(mm, o, va) = -1
      BY ONLY <3>2, <3>4, NoEntry
    <3> QED BY <1>3, <1>4, <1>7, <3>5
  <2> QED BY ONLY <2>1, <2>2, <2>3
<1> QED BY ONLY <1>5, <1>6, <1>7

\* A user-mode access gets through the tables exactly where a page is mapped
\* for the space.
LEMMA UserReaches ==
    ASSUME NEW mm, NEW R, NEW lev, NEW own, NEW cnt, NEW mp,
           Shape(mm, R, lev, own, cnt), MappedOK(R, mp), Leaves(mm, lev, mp),
           NEW root \in R, NEW va \in UserPages \cup KernelPages \cup {IdentityPage},
           NEW reach, reach <=> /\ Pml4e(mm, root, va).user /\ Pdpte(mm, root, va).user
                                /\ Pde(mm, root, va).user
                                /\ \/ Pde(mm, root, va).huge
                                   \/ Below(mm, Pde(mm, root, va).to, va[4]).user
    PROVE  reach <=> root # KernelRoot /\ <<root, va>> \in DOMAIN mp
<1> DEFINE o == IF va[1] = UserSlot THEN root ELSE KernelRoot
<1>1. IsPage(va) /\ KernelRoot \in R /\ R \subseteq Frames
  BY PageIs DEF Shape, LabelsOK
<1>o. o = IF va[1] = UserSlot THEN root ELSE KernelRoot
  OBVIOUS
<1> HIDE DEF o
<1>2. ASSUME NEW t2, NEW t3, NEW t4, Path(mm, root, va, t2, t3, t4)
      PROVE  /\ Pml4e(mm, root, va).user <=> o # KernelRoot
             /\ Pdpte(mm, root, va).user <=> o # KernelRoot
             /\ Pde(mm, root, va).user <=> o # KernelRoot
             /\ ~Pde(mm, root, va).huge /\ Pde(mm, root, va).to = t4
             /\ lev[t4] = 4 /\ own[t4] = o /\ t4 \in Frames
  <2>1. /\ Below(mm, root, va[1]) = At(mm, root, va[1])
        /\ Below(mm, t2, va[2]) = At(mm, t2, va[2])
        /\ Below(mm, t3, va[3]) = At(mm, t3, va[3])
        /\ Below(mm, root, va[1]).to = t2 /\ Below(mm, t2, va[2]).to = t3
        /\ Below(mm, t3, va[3]).to = t4 /\ ~Below(mm, t3, va[3]).huge
    BY <1>1, <1>2, PathBelow
  <2>2. /\ Pml4e(mm, root, va) = At(mm, root, va[1]) /\ Pdpte(mm, root, va) = At(mm, t2, va[2])
        /\ Pde(mm, root, va) = At(mm, t3, va[3])
    BY ONLY <2>1 DEF Pml4e, Pdpte, Pde
  <2>3. /\ lev[t4] = 4 /\ own[t4] = o
        /\ At(mm, root, va[1]).user <=> o # KernelRoot
        /\ At(mm, t2, va[2]).user <=> o # KernelRoot
        /\ At(mm, t3, va[3]).user <=> o # KernelRoot
    BY ONLY <1>1, <1>2, <1>o, Shape(mm, R, lev, own, cnt), root \in R, PathLabels
  <2>4. t4 \in Frames
    BY <1>2 DEF Path
  <2> QED BY ONLY <2>1, <2>2, <2>3, <2>4
<1>3. ASSUME NEW t4 \in Frames, lev[t4] = 4, own[t4] = o, Present(mm, t4, va[4])
      PROVE  At(mm, t4, va[4]).user <=> o # KernelRoot
  <2>1. EntryOK(mm, lev, own, t4, va[4])
    BY <1>1, <1>3 DEF Shape, EntriesOK, IsPage
  <2>2. Owner(lev, own, t4, va[4]) = o
    BY ONLY <1>3 DEF Owner
  <2> QED BY ONLY <2>1, <2>2 DEF EntryOK
<1>4. ASSUME root # KernelRoot, <<root, va>> \in DOMAIN mp
      PROVE  reach
  <2>1. <<root, va>>[1] = root /\ <<root, va>>[2] = va
    OBVIOUS
  <2>2. va[1] = UserSlot
    <3>1. <<root, va>> \in Keys(R)
      BY <1>4 DEF MappedOK
    <3> QED BY ONLY <1>1, <1>4, <2>1, <3>1, KeyIs
  <2>3. o # KernelRoot
    BY <1>4, <1>o, <2>2
  <2>4. PICK t2, t3, t4 : Path(mm, root, va, t2, t3, t4) /\ Present(mm, t4, va[4])
    BY <1>4, <2>1, MappedPath
  <2>5. /\ Pml4e(mm, root, va).user /\ Pdpte(mm, root, va).user /\ Pde(mm, root, va).user
        /\ Pde(mm, root, va).to = t4 /\ lev[t4] = 4 /\ own[t4] = o /\ t4 \in Frames
    BY ONLY <1>2, <2>3, <2>4
  <2>6. At(mm, t4, va[4]).user
    BY ONLY <1>3, <2>3, <2>4, <2>5
  <2>7. Below(mm, t4, va[4]) = At(mm, t4, va[4])
    BY <2>4, <2>5, BelowIs
  <2>8. Below(mm, Pde(mm, root, va).to, va[4]).user
    BY ONLY <2>5, <2>6, <2>7
  <2> QED BY <2>5, <2>8
<1>5. ASSUME reach
      PROVE  root # KernelRoot /\ <<root, va>> \in DOMAIN mp
  <2>1. /\ Pml4e(mm, root, va).user /\ Pdpte(mm, root, va).user /\ Pde(mm, root, va).user
        /\ Pde(mm, root, va).huge \/ Below(mm, Pde(mm, root, va).to, va[4]).user
    BY <1>5
  <2>2. Pde(mm, root, va) # Entry(-1, FALSE, FALSE)
    BY ONLY <2>1, NoEntry
  <2>3. Path(mm, root, va, Pml4e(mm, root, va).to, Pdpte(mm, root, va).to, Pde(mm, root, va).to)
    BY <1>1, <2>1, <2>2, Chain
  <2> DEFINE t2 == Pml4e(mm, root, va).to
             t3 == Pdpte(mm, root, va).to
             t4 == Pde(mm, root, va).to
  <2>4. Path(mm, root, va, t2, t3, t4) /\ t4 = Pde(mm, root, va).to
    BY <2>3
  <2> HIDE DEF t2, t3, t4
  <2>5. o # KernelRoot /\ Below(mm, t4, va[4]).user
    BY ONLY <1>2, <2>1, <2>4
  <2>6. root = o /\ root # KernelRoot
    BY <1>o, <2>5
  <2>7. Present(mm, t4, va[4])
    <3>1. Below(mm, t4, va[4]) # Entry(-1, FALSE, FALSE)
      BY ONLY <2>5, NoEntry
    <3> QED BY <3>1, BelowIs
  <2>8. <<o, va>> \in DOMAIN mp
    BY <1>o, <2>4, <2>7, LeafIs
  <2> QED BY ONLY <2>6, <2>8
<1> QED BY ONLY <1>4, <1>5

\* The pages mapped stay where they are when tables grow.
LEMMA LeavesGrown ==
    ASSUME NEW mm, NEW R, NEW lev, NEW own, NEW cnt, NEW mp,
           Shape(mm, R, lev, own, cnt), MappedOK(R, mp), Leaves(mm, lev, mp),
           NEW m, NEW lev2, NEW own2, Grown(mm, m, lev, lev2, own, own2)
    PROVE  Leaves(m, lev2, mp)
<1>0. KernelRoot \in R /\ R \subseteq Frames
  BY DEF Shape, LabelsOK
<1>1. ASSUME NEW k \in DOMAIN mp
      PROVE  /\ TableFor(m, k[1], k[2]) = TableFor(mm, k[1], k[2])
             /\ TableFor(mm, k[1], k[2]) \in Frames /\ lev[TableFor(mm, k[1], k[2])] = 4
             /\ IsPage(k[2])
  <2>1. k[1] \in R /\ IsPage(k[2])
    BY <1>0, KeyIs DEF MappedOK
  <2>2. TableFor(mm, k[1], k[2]) \in Frames /\ lev[TableFor(mm, k[1], k[2])] = 4
    BY DEF Leaves
  <2>3. PICK t2, t3 : Path(mm, k[1], k[2], t2, t3, TableFor(mm, k[1], k[2]))
    BY <2>1, <2>2, TableForPath
  <2>4. Path(m, k[1], k[2], t2, t3, TableFor(mm, k[1], k[2]))
    BY <1>0, <2>1, <2>3, PathStays DEF Grown
  <2>5. TableFor(m, k[1], k[2]) = TableFor(mm, k[1], k[2])
    BY <1>0, <2>1, <2>4, PathBelow
  <2> QED BY <2>1, <2>2, <2>5
<1>2. ASSUME NEW k \in DOMAIN mp, NEW t, t = TableFor(m, k[1], k[2])
      PROVE  /\ t \in Frames /\ lev2[t] = 4
             /\ Present(m, t, k[2][4]) /\ At(m, t, k[2][4]).to = mp[k]
  <2>1. t = TableFor(mm, k[1], k[2]) /\ t \in Frames /\ lev[t] = 4 /\ k[2][4] \in Nat
    BY <1>1, <1>2 DEF IsPage
  <2>2. Present(mm, t, k[2][4]) /\ At(mm, t, k[2][4]).to = mp[k]
    BY <2>1 DEF Leaves
  <2>3. lev2[t] = 4
    BY <2>1 DEF Grown
  <2>4. Present(m, t, k[2][4]) /\ At(m, t, k[2][4]) = At(mm, t, k[2][4])
    BY <2>1, <2>2 DEF Grown
  <2> QED BY <2>1, <2>2, <2>3, <2>4
<1>3. ASSUME NEW t \in Frames, NEW i \in Nat, Present(m, t, i), lev2[t] = 4
      PROVE  \E k \in DOMAIN mp : TableFor(m, k[1], k[2]) = t /\ k[2][4] = i
  <2>1. Present(mm, t, i) /\ lev[t] = 4
    BY <1>3 DEF Grown
  <2>2. PICK k \in DOMAIN mp : TableFor(mm, k[1], k[2]) = t /\ k[2][4] = i
    BY <2>1 DEF Leaves
  <2> QED BY <1>1, <2>2
<1> QED BY ONLY <1>2, <1>3 DEF Leaves

\* One more page mapped.
With(mp, k, f) == [x \in DOMAIN mp \cup {k} |-> IF x = k THEN f ELSE mp[x]]

\* An entry written at the end of a path maps its page.
LEMMA LeafAdded ==
    ASSUME NEW mm, NEW R, NEW lev, NEW own, NEW cnt, NEW mp,
           Shape(mm, R, lev, own, cnt), MappedOK(R, mp), Leaves(mm, lev, mp),
           NEW root \in R, NEW va, IsPage(va), NEW t2, NEW t3, NEW t4,
           Path(mm, root, va, t2, t3, t4), ~Present(mm, t4, va[4]),
           NEW m, NEW pa, PutAt(mm, m, t4, va[4], pa)
    PROVE  <<root, va>> \notin DOMAIN mp /\ Leaves(m, lev, With(mp, <<root, va>>, pa))
<1> DEFINE n  == <<root, va>>
           mp2 == With(mp, n, pa)
<1>p. /\ Present(m, t4, va[4]) /\ At(m, t4, va[4]).to = pa
      /\ \A u \in Frames, j \in Nat : ~(u = t4 /\ j = va[4]) =>
            /\ Present(m, u, j) <=> Present(mm, u, j)
            /\ Present(m, u, j) => At(m, u, j) = At(mm, u, j)
  BY DEF PutAt
<1>0. KernelRoot \in R /\ R \subseteq Frames /\ n[1] = root /\ n[2] = va
  BY DEF Shape, LabelsOK
<1>1. t4 \in Frames /\ lev[t4] = 4 /\ va[4] \in Nat
  BY PathLabels DEF Path, IsPage
<1>2. \A u \in Frames, j \in Nat : Present(mm, u, j) =>
         Present(m, u, j) /\ At(m, u, j) = At(mm, u, j)
  BY <1>p
<1>3. n \notin DOMAIN mp
  <2> SUFFICES ASSUME n \in DOMAIN mp PROVE FALSE
    OBVIOUS
  <2>1. TableFor(mm, root, va) = t4
    BY <1>0, PathBelow
  <2>2. Present(mm, TableFor(mm, n[1], n[2]), n[2][4])
    BY DEF Leaves
  <2> QED BY <1>0, <2>1, <2>2
<1>4. TableFor(m, root, va) = t4
  <2>1. Path(m, root, va, t2, t3, t4)
    BY <1>0, <1>2, PathStays
  <2> QED BY <1>0, <2>1, PathBelow
<1>5. /\ DOMAIN mp2 = DOMAIN mp \cup {n} /\ mp2[n] = pa
      /\ \A k \in DOMAIN mp : mp2[k] = mp[k]
  BY <1>3 DEF With
<1>6. ASSUME NEW k \in DOMAIN mp
      PROVE  /\ TableFor(m, k[1], k[2]) = TableFor(mm, k[1], k[2])
             /\ TableFor(mm, k[1], k[2]) \in Frames /\ lev[TableFor(mm, k[1], k[2])] = 4
             /\ IsPage(k[2])
  <2>1. k[1] \in R /\ IsPage(k[2])
    BY <1>0, KeyIs DEF MappedOK
  <2>2. TableFor(mm, k[1], k[2]) \in Frames /\ lev[TableFor(mm, k[1], k[2])] = 4
    BY DEF Leaves
  <2>3. PICK u2, u3 : Path(mm, k[1], k[2], u2, u3, TableFor(mm, k[1], k[2]))
    BY <2>1, <2>2, TableForPath
  <2>4. Path(m, k[1], k[2], u2, u3, TableFor(mm, k[1], k[2]))
    BY <1>0, <1>2, <2>1, <2>3, PathStays
  <2>5. TableFor(m, k[1], k[2]) = TableFor(mm, k[1], k[2])
    BY <1>0, <2>1, <2>4, PathBelow
  <2> QED BY <2>1, <2>2, <2>5
<1> HIDE DEF mp2, n
<1>7. ASSUME NEW k \in DOMAIN mp2, NEW t, t = TableFor(m, k[1], k[2])
      PROVE  /\ t \in Frames /\ lev[t] = 4
             /\ Present(m, t, k[2][4]) /\ At(m, t, k[2][4]).to = mp2[k]
  <2>1. CASE k = n
    BY <1>0, <1>1, <1>4, <1>5, <1>7, <1>p, <2>1
  <2>2. CASE k \in DOMAIN mp
    <3>1. t = TableFor(mm, k[1], k[2]) /\ t \in Frames /\ lev[t] = 4 /\ k[2][4] \in Nat
      BY <1>6, <1>7, <2>2 DEF IsPage
    <3>2. Present(mm, t, k[2][4]) /\ At(mm, t, k[2][4]).to = mp[k]
      BY <2>2, <3>1 DEF Leaves
    <3>3. Present(m, t, k[2][4]) /\ At(m, t, k[2][4]) = At(mm, t, k[2][4])
      BY ONLY <1>2, <3>1, <3>2
    <3> QED BY ONLY <1>5, <2>2, <3>1, <3>2, <3>3
  <2> QED BY <1>5, <2>1, <2>2
<1>8. ASSUME NEW t \in Frames, NEW i \in Nat, Present(m, t, i), lev[t] = 4
      PROVE  \E k \in DOMAIN mp2 : TableFor(m, k[1], k[2]) = t /\ k[2][4] = i
  <2>1. CASE t = t4 /\ i = va[4]
    BY <1>0, <1>4, <1>5, <2>1
  <2>2. CASE ~(t = t4 /\ i = va[4])
    <3>1. Present(mm, t, i)
      BY <1>8, <1>p, <2>2
    <3>2. PICK k \in DOMAIN mp : TableFor(mm, k[1], k[2]) = t /\ k[2][4] = i
      BY <1>8, <3>1 DEF Leaves
    <3> QED BY <1>5, <1>6, <3>2
  <2> QED BY <2>1, <2>2
<1>9. Leaves(m, lev, mp2)
  BY ONLY <1>7, <1>8 DEF Leaves
<1> QED BY <1>3, <1>9 DEF n, mp2

----------------------------------------------------------------------------
(* How often a frame is mapped.                                            *)

\* The counts are natural numbers, 0 where a frame is not mapped.
LEMMA CountIs ==
    ASSUME NEW mp, IsFiniteSet(DOMAIN mp)
    PROVE  /\ Count(mp) \in [Frames -> Nat]
           /\ \A f \in Frames : /\ IsFiniteSet(Mappings(mp, f))
                                /\ Count(mp)[f] = Cardinality(Mappings(mp, f))
                                /\ Count(mp)[f] = 0 <=> \A k \in DOMAIN mp : mp[k] # f
<1>1. ASSUME NEW f \in Frames
      PROVE  /\ IsFiniteSet(Mappings(mp, f)) /\ Cardinality(Mappings(mp, f)) \in Nat
             /\ Cardinality(Mappings(mp, f)) = 0 <=> \A k \in DOMAIN mp : mp[k] # f
  <2>1. Mappings(mp, f) \in SUBSET DOMAIN mp
    BY DEF Mappings
  <2>2. IsFiniteSet(Mappings(mp, f))
    BY <2>1, FS_Subset
  <2>3. Cardinality(Mappings(mp, f)) \in Nat
    BY <2>2, FS_CardinalityType
  <2>4. Cardinality(Mappings(mp, f)) = 0 <=> Mappings(mp, f) = {}
    BY <2>2, FS_EmptySet
  <2>5. Mappings(mp, f) = {} <=> \A k \in DOMAIN mp : mp[k] # f
    BY DEF Mappings
  <2> QED BY <2>2, <2>3, <2>4, <2>5
<1>2. Count(mp) = [f \in Frames |-> Cardinality(Mappings(mp, f))]
  BY DEF Count
<1> QED BY ONLY <1>1, <1>2

\* One more mapping of a frame.
LEMMA CountAdded ==
    ASSUME NEW mp, IsFiniteSet(DOMAIN mp), NEW k, k \notin DOMAIN mp, NEW f \in Frames
    PROVE  /\ IsFiniteSet(DOMAIN With(mp, k, f))
           /\ Count(With(mp, k, f)) = [Count(mp) EXCEPT ![f] = Count(mp)[f] + 1]
<1> DEFINE mp2 == With(mp, k, f)
<1>1. /\ DOMAIN mp2 = DOMAIN mp \cup {k} /\ mp2[k] = f
      /\ \A x \in DOMAIN mp : mp2[x] = mp[x]
  BY DEF With
<1> HIDE DEF mp2
<1>2. IsFiniteSet(DOMAIN mp2)
  BY <1>1, FS_AddElement
<1>3. Mappings(mp2, f) = Mappings(mp, f) \cup {k} /\ k \notin Mappings(mp, f)
  BY <1>1 DEF Mappings
<1>4. \A g \in Frames \ {f} : Mappings(mp2, g) = Mappings(mp, g)
  BY <1>1 DEF Mappings
<1>5. /\ Count(mp) \in [Frames -> Nat] /\ IsFiniteSet(Mappings(mp, f))
      /\ \A g \in Frames : Count(mp)[g] = Cardinality(Mappings(mp, g))
  BY CountIs
<1>6. /\ Count(mp2) \in [Frames -> Nat]
      /\ \A g \in Frames : Count(mp2)[g] = Cardinality(Mappings(mp2, g))
  BY <1>2, CountIs
<1>7. Count(mp2)[f] = Count(mp)[f] + 1
  BY <1>3, <1>5, <1>6, FS_AddElement
<1>8. \A g \in Frames \ {f} : Count(mp2)[g] = Count(mp)[g]
  BY <1>4, <1>5, <1>6
<1>9. Count(mp2) = [Count(mp) EXCEPT ![f] = Count(mp)[f] + 1]
  BY ONLY <1>5, <1>6, <1>7, <1>8
<1> QED BY <1>2, <1>9 DEF mp2

\* What is mapped depends on the entries alone.
LEMMA LeavesSame ==
    ASSUME NEW mm, NEW m, m.entry = mm.entry, NEW lev, NEW mp, Leaves(mm, lev, mp)
    PROVE  Leaves(m, lev, mp)
<1>1. \A t, i : Below(m, t, i) = Below(mm, t, i)
  BY DEF Below
<1>2. \A r, va : TableFor(m, r, va) = TableFor(mm, r, va)
  BY ONLY <1>1 DEF TableFor
<1>3. \A t, i : (Present(m, t, i) <=> Present(mm, t, i)) /\ At(m, t, i) = At(mm, t, i)
  BY DEF Present, At
<1> QED BY ONLY Leaves(mm, lev, mp), <1>2, <1>3 DEF Leaves

----------------------------------------------------------------------------
(* The actions that map.                                                   *)

\* A page was mapped to f, of whose references one was meant for it: either no
\* page led to f yet, or nothing was mapped at the page.
LEMMA MapAdds ==
    ASSUME NEW mm, NEW R, NEW lev, NEW own, NEW mp, NEW f \in Frames, NEW cnt,
           MappedOK(R, mp), Leaves(mm, lev, mp), Shape(mm, R, lev, own, cnt),
           cnt = [Count(mp) EXCEPT ![f] = Count(mp)[f] + 1],
           NEW root, NEW va, <<root, va>> \in Keys(R),
           root = KernelRoot => R = {KernelRoot},
           NEW user \in BOOLEAN, user <=> root # KernelRoot,
           NEW m, m = hal_map_page(mm, root, va, f, user), m.ok,
           Count(mp)[f] = 0 \/ <<root, va>> \notin DOMAIN mp
    PROVE  /\ <<root, va>> \notin DOMAIN mp
           /\ MappedOK(R, With(mp, <<root, va>>, f))
           /\ \E lev2, own2 : /\ Shape(m.mem, R, lev2, own2, Count(With(mp, <<root, va>>, f)))
                              /\ Leaves(m.mem, lev2, With(mp, <<root, va>>, f))
<1> DEFINE k == <<root, va>>
<1>1. KernelRoot \in R /\ R \subseteq Frames /\ k[1] = root /\ k[2] = va
  BY DEF Shape, LabelsOK
<1>2. /\ root \in R /\ IsPage(va) /\ va \in UserPages \cup KernelPages
      /\ va[1] = UserSlot <=> root # KernelRoot
  <2>1. k \in Keys(R)
    OBVIOUS
  <2> QED BY <1>1, <2>1, KeyIs
<1>3. MapOK(mm, R, lev, own, cnt, root, va, f, user, m)
  BY <1>2, MapKeeps
<1>4. PICK mw, lev2, own2 :
         /\ Shape(mw, R, lev2, own2, cnt) /\ Grown(mm, mw, lev, lev2, own, own2)
         /\ \E t2, t3, t4 :
               /\ Path(mw, root, va, t2, t3, t4)
               /\ Present(mw, t4, va[4]) => At(mw, t4, va[4]).to = f
               /\ m.mem = WithEntry(mw, t4, va[4], Entry(f, user, FALSE))
  BY ONLY <1>3, m.ok DEF MapOK
<1>5. PICK t2, t3, t4 :
         /\ Path(mw, root, va, t2, t3, t4)
         /\ Present(mw, t4, va[4]) => At(mw, t4, va[4]).to = f
         /\ m.mem = WithEntry(mw, t4, va[4], Entry(f, user, FALSE))
  BY ONLY <1>4
<1>6. Leaves(mw, lev2, mp)
  BY <1>4, LeavesGrown
<1>7. /\ IsFiniteSet(DOMAIN mp) /\ Count(mp) \in [Frames -> Nat]
      /\ Count(mp)[f] = 0 => \A x \in DOMAIN mp : mp[x] # f
  BY CountIs DEF MappedOK
<1>8. t4 \in Frames /\ lev2[t4] = 4 /\ va[4] \in Nat /\ own2[t4] = root
  <2>1. root = IF va[1] = UserSlot THEN root ELSE KernelRoot
    BY <1>2
  <2>2. t4 \in Frames /\ va[4] \in Nat
    BY <1>2, <1>5 DEF Path, IsPage
  <2>3. lev2[t4] = 4 /\ own2[t4] = root
    BY ONLY <1>2, <1>4, <1>5, <2>1, PathLabels
  <2> QED BY <2>2, <2>3
<1>9. ~Present(mw, t4, va[4])
  <2> SUFFICES ASSUME Present(mw, t4, va[4]) PROVE FALSE
    OBVIOUS
  <2>1. root = IF va[1] = UserSlot THEN root ELSE KernelRoot
    BY <1>2
  <2>2. k \in DOMAIN mp /\ mp[k] = At(mw, t4, va[4]).to
    BY ONLY MappedOK(R, mp), Present(mw, t4, va[4]),
            <1>2, <1>4, <1>5, <1>6, <2>1, LeafIs
  <2>3. mp[k] = f
    BY <1>5, <2>2
  <2> QED BY <1>7, <2>2, <2>3
<1>10. lev2[f] = 0 /\ cnt[f] > 0
  <2>1. cnt[f] > 0
    BY <1>7
  <2>2. lev2 \in [Frames -> 0 .. 4] /\ (lev2[f] > 0 => cnt[f] = 0)
    BY <1>4 DEF Shape, LabelsOK, Counted
  <2> QED BY <2>1, <2>2
<1> DEFINE mz == m.mem
<1>m. mz = WithEntry(mw, t4, va[4], Entry(f, user, FALSE)) /\ Path(mw, root, va, t2, t3, t4)
  BY <1>5
<1>s. Shape(mw, R, lev2, own2, cnt)
  BY <1>4
<1> HIDE DEF mz
<1>11. Shape(mz, R, lev2, own2, cnt) /\ PutAt(mw, mz, t4, va[4], f)
  <2>1. user <=> own2[t4] # KernelRoot
    BY <1>8
  <2> DEFINE e == Entry(f, user, FALSE)
  <2>2. e \in Entries /\ e.to = f /\ e.user = user /\ e.huge = FALSE
    BY DEF Entry, Entries
  <2>3. (e.user <=> own2[t4] # KernelRoot) /\ ~e.huge
    BY <2>1, <2>2
  <2>4. mz = WithEntry(mw, t4, va[4], e)
    BY <1>m
  <2> HIDE DEF e
  <2> QED BY ONLY <1>s, <1>8, <1>9, <1>10, <2>2, <2>3, <2>4, f \in Frames, NewLeafKeeps
<1>12. k \notin DOMAIN mp /\ Leaves(mz, lev2, With(mp, k, f))
  <2>1. root \in R /\ IsPage(va)
    BY <1>2
  <2> QED BY ONLY MappedOK(R, mp), <1>m, <1>s, <2>1, <1>6, <1>9, <1>11, LeafAdded
<1>13. IsFiniteSet(DOMAIN With(mp, k, f)) /\ Count(With(mp, k, f)) = cnt
  BY <1>7, <1>12, CountAdded
<1>14. MappedOK(R, With(mp, k, f))
  <2>1. /\ DOMAIN With(mp, k, f) = DOMAIN mp \cup {k} /\ With(mp, k, f)[k] = f
        /\ \A x \in DOMAIN mp : With(mp, k, f)[x] = mp[x]
    BY <1>12 DEF With
  <2> QED BY <1>13, <2>1 DEF MappedOK
<1> QED BY <1>11, <1>12, <1>13, <1>14 DEF mz

\* A reference taken to a frame that is no table.
LEMMA RefTaken ==
    ASSUME NEW mm, NEW R, NEW lev, NEW own, NEW mp, Shape(mm, R, lev, own, Count(mp)),
           Leaves(mm, lev, mp), MappedOK(R, mp), NEW f \in Frames, lev[f] = 0,
           NEW m, m = WithRef(mm, f, mm.ref[f] + 1)
    PROVE  /\ mm.ref[f] = Count(mp)[f] /\ Count(mp)[f] \in Nat /\ m.entry = mm.entry
           /\ Shape(m, R, lev, own, [Count(mp) EXCEPT ![f] = Count(mp)[f] + 1])
           /\ Leaves(m, lev, mp)
<1>1. Count(mp) \in [Frames -> Nat]
  BY CountIs DEF MappedOK
<1>2. mm.ref[f] = Count(mp)[f] /\ MemOK(mm)
  BY DEF Shape, Counted
<1> DEFINE n == mm.ref[f] + 1
<1>3. n \in Nat /\ n > 0 /\ n = Count(mp)[f] + 1 /\ m = WithRef(mm, f, n)
  BY <1>1, <1>2
<1> HIDE DEF n
<1>4. Shape(m, R, lev, own, [Count(mp) EXCEPT ![f] = n])
  BY ONLY Shape(mm, R, lev, own, Count(mp)), f \in Frames, lev[f] = 0, <1>3, CountSet
<1>5. m.entry = mm.entry
  BY <1>3 DEF WithRef
<1>6. Leaves(m, lev, mp)
  BY <1>5, LeavesSame
<1> QED BY <1>1, <1>2, <1>3, <1>4, <1>5, <1>6

\* A fresh frame is given back when it could not be mapped.
LEMMA MapFails ==
    ASSUME NEW mm, NEW R, NEW lev, NEW own, NEW mp,
           Shape(mm, R, lev, own, Count(mp)), MappedOK(R, mp), Leaves(mm, lev, mp),
           NEW f \in Frames, mm.ref[f] = 0, NEW ma, ma = WithRef(mm, f, mm.ref[f] + 1),
           NEW root, NEW va, <<root, va>> \in Keys(R),
           root = KernelRoot => R = {KernelRoot},
           NEW user \in BOOLEAN, user <=> root # KernelRoot,
           NEW m, m = hal_map_page(ma, root, va, f, user), ~m.ok
    PROVE  /\ MemOK(m.mem)
           /\ \E lev2, own2 : /\ Shape(WithRef(m.mem, f, 0), R, lev2, own2, Count(mp))
                              /\ Leaves(WithRef(m.mem, f, 0), lev2, mp)
<1> DEFINE cnt == [Count(mp) EXCEPT ![f] = Count(mp)[f] + 1]
           k   == <<root, va>>
<1>1. /\ lev[f] = 0 /\ Count(mp)[f] = 0
      /\ \A t \in Frames, i \in Nat : Present(mm, t, i) => At(mm, t, i).to # f
  BY FreeIsApart
<1>2. /\ Shape(ma, R, lev, own, cnt) /\ Leaves(ma, lev, mp) /\ ma.entry = mm.entry
  BY <1>1, RefTaken
<1>3. /\ root \in R /\ IsPage(va) /\ (va[1] = UserSlot <=> root # KernelRoot)
  <2>1. k \in Keys(R) /\ KernelRoot \in R /\ k[1] = root /\ k[2] = va
    BY DEF Shape, LabelsOK
  <2> QED BY <2>1, KeyIs
<1>c. Count(mp) \in [Frames -> Nat]
  BY CountIs DEF MappedOK
<1>4. cnt[f] = 1 /\ [cnt EXCEPT ![f] = 0] = Count(mp)
  <2> DEFINE c == Count(mp)
  <2>1. c \in [Frames -> Nat] /\ c[f] = 0 /\ cnt = [c EXCEPT ![f] = 0 + 1]
    BY <1>1, <1>c
  <2> HIDE DEF c, cnt
  <2>2. cnt[f] = 1 /\ [cnt EXCEPT ![f] = 0] = c
    <3>1. cnt \in [Frames -> Nat] /\ cnt[f] = 1 /\ \A g \in Frames \ {f} : cnt[g] = c[g]
      BY ONLY <2>1, f \in Frames
    <3>2. [cnt EXCEPT ![f] = 0] \in [Frames -> Nat]
      BY ONLY <3>1
    <3>3. \A g \in Frames : [cnt EXCEPT ![f] = 0][g] = c[g]
      BY ONLY <2>1, <3>1
    <3> QED BY ONLY <2>1, <3>1, <3>2, <3>3
  <2> QED BY <2>2 DEF c
<1> HIDE DEF cnt
<1>5. MapOK(ma, R, lev, own, cnt, root, va, f, user, m)
  BY <1>2, <1>3, MapKeeps
<1>6. PICK mw, lev2, own2 :
         /\ Shape(mw, R, lev2, own2, cnt) /\ Grown(ma, mw, lev, lev2, own, own2)
         /\ m.mem = mw
  BY ONLY <1>5, ~m.ok DEF MapOK
<1>7. Leaves(mw, lev2, mp) /\ MemOK(mw)
  BY <1>2, <1>6, LeavesGrown DEF Shape
<1>8. lev2[f] = 0
  <2>1. lev2 \in [Frames -> 0 .. 4] /\ (lev2[f] > 0 => cnt[f] = 0)
    BY <1>6 DEF Shape, LabelsOK, Counted
  <2> QED BY <1>4, <2>1
<1>9. ASSUME NEW t \in Frames, NEW i \in Nat, Present(mw, t, i), lev2[t] = 4
      PROVE  At(mw, t, i).to # f
  <2>1. Present(ma, t, i) /\ At(mw, t, i) = At(ma, t, i)
    BY <1>6, <1>9 DEF Grown
  <2>2. Present(mm, t, i) /\ At(ma, t, i) = At(mm, t, i)
    BY <1>2, <2>1 DEF Present, At
  <2> QED BY <1>1, <2>1, <2>2
<1> DEFINE mz == WithRef(mw, f, 0)
<1>10. mz = WithRef(mw, f, 0) /\ 0 \in Nat
  OBVIOUS
<1> HIDE DEF mz
<1>11. Shape(mz, R, lev2, own2, [cnt EXCEPT ![f] = 0])
  BY ONLY <1>6, <1>8, <1>9, <1>10, f \in Frames, CountSet
<1>12. mz.entry = mw.entry
  BY <1>10 DEF WithRef
<1>13. Leaves(mz, lev2, mp)
  BY <1>7, <1>12, LeavesSame
<1> QED BY <1>4, <1>6, <1>7, <1>10, <1>11, <1>13

\* Cached translations stay true when one page is mapped or unmapped and its
\* translation is dropped.
LEMMA TlbKept ==
    ASSUME NEW R, KernelRoot \in R, NEW mp, TlbOK(tlb, mp, cr3),
           NEW root, NEW va, <<root, va>> \in Keys(R), root = KernelRoot => cr3 = KernelRoot,
           NEW mp2, \A x : x # <<root, va>> =>
                       /\ x \in DOMAIN mp2 <=> x \in DOMAIN mp
                       /\ x \in DOMAIN mp => mp2[x] = mp[x]
    PROVE  TlbOK(Flushed(root, va), mp2, cr3)
<1> DEFINE k  == <<root, va>>
           tl == Flushed(root, va)
<1>1. va[1] = UserSlot <=> root # KernelRoot
  <2>1. k \in Keys(R) /\ k[1] = root /\ k[2] = va
    OBVIOUS
  <2> QED BY <2>1, KeyIs
<1>2. \A vb \in DOMAIN tl : vb \in DOMAIN tlb /\ tl[vb] = tlb[vb] /\ (root = cr3 => vb # va)
  BY DEF Flushed, Restrict
<1> HIDE DEF tl
<1>3. ASSUME NEW vb \in DOMAIN tl
      PROVE  vb \in UserPages \cup KernelPages /\ tl[vb] = Expected(mp2, cr3, vb)
  <2> DEFINE n == <<IF vb[1] = UserSlot THEN cr3 ELSE KernelRoot, vb>>
  <2>1. n # k
    <3> SUFFICES ASSUME n = k PROVE FALSE
      OBVIOUS
    <3>1. vb = va /\ root = IF vb[1] = UserSlot THEN cr3 ELSE KernelRoot
      OBVIOUS
    <3>2. root # cr3
      BY <1>2, <3>1
    <3> QED BY <1>1, <3>1, <3>2
  <2>2. (n \in DOMAIN mp2 <=> n \in DOMAIN mp) /\ (n \in DOMAIN mp => mp2[n] = mp[n])
    BY <2>1
  <2>3. Expected(mp2, cr3, vb) = Expected(mp, cr3, vb)
    BY <2>2 DEF Expected
  <2> QED BY <1>2, <2>3 DEF TlbOK
<1>4. TlbOK(tl, mp2, cr3)
  BY ONLY <1>3 DEF TlbOK
<1> QED BY <1>4 DEF tl

\* The invariant after a page was mapped.
LEMMA AddedKeeps ==
    ASSUME PagingInv, NEW root, NEW va, <<root, va>> \in Keys(Roots),
           <<root, va>> \notin DOMAIN mapped, root = KernelRoot => cr3 = KernelRoot,
           NEW f \in Frames, Count(mapped)[f] <= Shares,
           \A x \in DOMAIN mapped : mapped[x] = f => x[1] # KernelRoot /\ root # KernelRoot,
           MappedOK(Roots, With(mapped, <<root, va>>, f)),
           Tabled(mem', Roots, With(mapped, <<root, va>>, f)),
           mapped' = Noted(root, va, f), tlb' = Flushed(root, va), UNCHANGED <<spaces, cr3>>
    PROVE  PagingInv'
<1> DEFINE k   == <<root, va>>
           mp2 == With(mapped, k, f)
<1>1. mapped' = mp2 /\ Roots' = Roots /\ spaces' = spaces /\ cr3' = cr3
  BY DEF Noted, With, Roots
<1>2. /\ DOMAIN mp2 = DOMAIN mapped \cup {k} /\ mp2[k] = f
      /\ \A x \in DOMAIN mapped : mp2[x] = mapped[x]
  BY DEF With
<1>3. MappedOK(Roots, mp2) /\ Tabled(mem', Roots, mp2)
  OBVIOUS
<1>4. Count(mp2) = [Count(mapped) EXCEPT ![f] = Count(mapped)[f] + 1]
      /\ Count(mapped) \in [Frames -> Nat]
  BY CountAdded, CountIs DEF PagingInv, MappedOK
<1>5. KernelRoot \in Roots /\ k[1] = root
  BY DEF Roots
<1> HIDE DEF mp2
<1>6. \A g \in Frames : Count(mp2)[g] <= Shares + 1
  <2>1. Shares \in Nat /\ \A g \in Frames : Count(mapped)[g] <= Shares + 1
    BY Constants DEF PagingInv
  <2>2. Count(mp2)[f] = Count(mapped)[f] + 1
    BY <1>4
  <2>3. \A g \in Frames \ {f} : Count(mp2)[g] = Count(mapped)[g]
    BY <1>4
  <2>4. Count(mapped)[f] \in Nat /\ Count(mapped)[f] <= Shares
    BY <1>4
  <2> QED BY ONLY <2>1, <2>2, <2>3, <2>4
<1>7. KernelAlone(mp2)
  <2>1. KernelAlone(mapped)
    BY DEF PagingInv
  <2> QED BY <1>2, <1>5, <2>1 DEF KernelAlone
<1>8. TlbOK(tlb', mp2, cr3)
  <2>1. \A x : x # k => (x \in DOMAIN mp2 <=> x \in DOMAIN mapped)
                        /\ (x \in DOMAIN mapped => mp2[x] = mapped[x])
    BY <1>2
  <2>2. TlbOK(tlb, mapped, cr3)
    BY DEF PagingInv
  <2> QED BY <1>5, <2>1, <2>2, TlbKept
<1>9. spaces \subseteq Frames \ {KernelRoot} /\ cr3 \in Roots
  BY DEF PagingInv
<1> QED BY <1>1, <1>3, <1>6, <1>7, <1>8, <1>9 DEF PagingInv

\* Mapping a fresh frame keeps the invariant.
LEMMA MapNewKeeps ==
    ASSUME PagingInv, NEW root, NEW va, <<root, va>> \in Keys(Roots),
           root = KernelRoot => Roots = {KernelRoot} /\ cr3 = KernelRoot,
           NEW user \in BOOLEAN, user <=> root # KernelRoot, map_new(root, va, user)
    PROVE  PagingInv'
<1> DEFINE f  == Min(FreeFrames(mem))
           ma == Allocated(mem, f)
           m  == hal_map_page(ma, root, va, f, user)
<1>1. f \in Frames /\ mem.ref[f] = 0
  BY LowestFree DEF map_new
<1>2. MappedOK(Roots, mapped) /\ Tabled(mem, Roots, mapped)
  BY DEF PagingInv
<1>3. PICK lev, own : Shape(mem, Roots, lev, own, Count(mapped)) /\ Leaves(mem, lev, mapped)
  BY <1>2 DEF Tabled
<1>4. /\ \/ /\ m.ok /\ mem' = m.mem
            /\ mapped' = Noted(root, va, f) /\ tlb' = Flushed(root, va)
         \/ /\ ~m.ok /\ mem' = pmm_free_frame(m.mem, f)
            /\ mapped' = mapped /\ tlb' = tlb
      /\ UNCHANGED <<spaces, cr3>>
  BY DEF map_new
<1>5. ma = WithRef(mem, f, 1) /\ MemOK(mem)
  BY <1>3, RefChanges DEF Shape
<1>6. ma = WithRef(mem, f, mem.ref[f] + 1)
  BY <1>1, <1>5
<1>7. /\ lev[f] = 0 /\ Count(mapped)[f] = 0
  BY <1>1, <1>3, FreeIsApart
<1>8. /\ Shape(ma, Roots, lev, own, [Count(mapped) EXCEPT ![f] = Count(mapped)[f] + 1])
      /\ Leaves(ma, lev, mapped)
  BY ONLY <1>1, <1>2, <1>3, <1>6, <1>7, RefTaken
<1>9. m = hal_map_page(ma, root, va, f, user)
  OBVIOUS
<1>10. \A x \in DOMAIN mapped : mapped[x] # f
  BY <1>1, <1>2, <1>7, CountIs DEF MappedOK
<1> HIDE DEF f, ma, m
<1>11. CASE m.ok
  <2>1. /\ mem' = m.mem /\ mapped' = Noted(root, va, f) /\ tlb' = Flushed(root, va)
        /\ UNCHANGED <<spaces, cr3>>
    BY ONLY <1>4, <1>11
  <2>2. /\ <<root, va>> \notin DOMAIN mapped
        /\ MappedOK(Roots, With(mapped, <<root, va>>, f))
        /\ \E lev2, own2 :
              /\ Shape(m.mem, Roots, lev2, own2, Count(With(mapped, <<root, va>>, f)))
              /\ Leaves(m.mem, lev2, With(mapped, <<root, va>>, f))
    <3> DEFINE cnt == [Count(mapped) EXCEPT ![f] = Count(mapped)[f] + 1]
    <3>1. cnt = [Count(mapped) EXCEPT ![f] = Count(mapped)[f] + 1] /\ Shape(ma, Roots, lev, own, cnt)
      BY <1>8
    <3> HIDE DEF cnt
    <3>2. /\ <<root, va>> \in Keys(Roots)
          /\ root = KernelRoot => Roots = {KernelRoot}
          /\ user \in BOOLEAN /\ (user <=> root # KernelRoot)
      OBVIOUS
    <3> QED BY ONLY <1>1, <1>2, <1>7, <1>8, <1>9, <1>11, <3>1, <3>2, MapAdds
  <2>3. Tabled(mem', Roots, With(mapped, <<root, va>>, f))
    BY <2>1, <2>2 DEF Tabled
  <2>4. Count(mapped)[f] <= Shares
    BY <1>7, Constants
  <2> QED BY <1>1, <1>10, <2>1, <2>2, <2>3, <2>4, AddedKeeps
<1>12. CASE ~m.ok
  <2>1. /\ mem' = pmm_free_frame(m.mem, f) /\ mapped' = mapped /\ tlb' = tlb
        /\ spaces' = spaces /\ cr3' = cr3
    BY ONLY <1>4, <1>12
  <2>2. /\ MemOK(m.mem)
        /\ \E lev2, own2 : /\ Shape(WithRef(m.mem, f, 0), Roots, lev2, own2, Count(mapped))
                           /\ Leaves(WithRef(m.mem, f, 0), lev2, mapped)
    BY <1>1, <1>2, <1>3, <1>6, <1>9, <1>12, MapFails
  <2>3. mem' = WithRef(m.mem, f, 0)
    BY <2>1, <2>2, RefChanges
  <2>4. Tabled(mem', Roots, mapped)
    BY <2>2, <2>3 DEF Tabled
  <2>5. Roots' = Roots
    BY <2>1 DEF Roots
  <2> QED BY <2>1, <2>4, <2>5 DEF PagingInv
<1> QED BY ONLY <1>11, <1>12

\* Mapping a frame a second time keeps the invariant.
LEMMA MapSharedKeeps ==
    ASSUME PagingInv, NEW x \in DOMAIN mapped, NEW root \in spaces,
           NEW va \in OwnPages, map_shared(x, root, va)
    PROVE  PagingInv'
<1> DEFINE f  == mapped[x]
           ma == [mem EXCEPT !.ref[f] = @ + 1]
           m  == hal_map_page(ma, root, va, f, TRUE)
           k  == <<root, va>>
<1>1. MappedOK(Roots, mapped) /\ Tabled(mem, Roots, mapped) /\ KernelAlone(mapped)
      /\ spaces \subseteq Frames \ {KernelRoot}
  BY DEF PagingInv
<1>2. f \in Frames /\ x[1] \in spaces
  BY <1>1 DEF MappedOK, map_shared
<1>3. PICK lev, own : Shape(mem, Roots, lev, own, Count(mapped)) /\ Leaves(mem, lev, mapped)
  BY <1>1 DEF Tabled
<1>4. /\ mem.ref[f] <= Shares /\ m.ok /\ k \notin DOMAIN mapped
      /\ mem' = m.mem /\ mapped' = Noted(root, va, f) /\ tlb' = Flushed(root, va)
      /\ UNCHANGED <<spaces, cr3>>
  BY DEF map_shared
<1>5. MemOK(mem)
  BY <1>3 DEF Shape
<1>6. ma = WithRef(mem, f, mem.ref[f] + 1)
  BY <1>5, RefChanges
<1>7. lev[f] = 0
  <2>1. Count(mapped)[f] # 0
    BY <1>1, <1>2, CountIs DEF MappedOK
  <2>2. lev \in [Frames -> 0 .. 4] /\ (lev[f] > 0 => Count(mapped)[f] = 0)
    BY <1>2, <1>3 DEF Shape, LabelsOK, Counted
  <2> QED BY <1>2, <2>1, <2>2
<1>8. m = hal_map_page(ma, root, va, f, TRUE)
  OBVIOUS
<1>9. k \in Keys(Roots) /\ root # KernelRoot
  BY <1>1 DEF Keys, Roots
<1>f. f = mapped[x]
  OBVIOUS
<1> HIDE DEF f, ma, m, k
<1>10. /\ mem.ref[f] = Count(mapped)[f]
       /\ Shape(ma, Roots, lev, own, [Count(mapped) EXCEPT ![f] = Count(mapped)[f] + 1])
       /\ Leaves(ma, lev, mapped)
  BY ONLY <1>1, <1>2, <1>3, <1>6, <1>7, RefTaken
<1>11. /\ MappedOK(Roots, With(mapped, k, f))
       /\ \E lev2, own2 : /\ Shape(m.mem, Roots, lev2, own2, Count(With(mapped, k, f)))
                          /\ Leaves(m.mem, lev2, With(mapped, k, f))
  BY <1>1, <1>2, <1>4, <1>8, <1>9, <1>10, MapAdds DEF k
<1>12. Tabled(mem', Roots, With(mapped, k, f))
  BY <1>4, <1>11 DEF Tabled
<1>13. \A y \in DOMAIN mapped : mapped[y] = f => y[1] # KernelRoot /\ root # KernelRoot
  BY <1>1, <1>2, <1>9, <1>f DEF KernelAlone
<1> QED BY <1>2, <1>4, <1>9, <1>10, <1>11, <1>12, <1>13, AddedKeeps DEF k

----------------------------------------------------------------------------
(* Address spaces.                                                         *)

\* What hal_pt_create_user makes of the memory mm: a root f with the entries of
\* the root c outside the slot of the processes.
RootAdded(mm, m, c, f) ==
    /\ MemOK(m) /\ m.ref = [mm.ref EXCEPT ![f] = 1]
    /\ \A t \in Frames, i \in Nat :
          /\ Present(m, t, i) <=> \/ Present(mm, t, i)
                                  \/ t = f /\ i # UserSlot /\ Present(mm, c, i)
          /\ Present(m, t, i) => At(m, t, i) = IF t = f THEN At(mm, c, i) ELSE At(mm, t, i)

\* A new root keeps the tables in shape.
LEMMA RootAddedKeeps ==
    ASSUME NEW mm, NEW R, NEW lev, NEW own, NEW cnt, Shape(mm, R, lev, own, cnt),
           NEW c \in R, NEW f \in Frames, mm.ref[f] = 0, NEW m, RootAdded(mm, m, c, f),
           NEW lev2, lev2 = [lev EXCEPT ![f] = 1], NEW own2, own2 = [own EXCEPT ![f] = f]
    PROVE  Shape(m, R \cup {f}, lev2, own2, cnt) /\ Grown(mm, m, lev, lev2, own, own2)
<1>1. /\ MemOK(mm) /\ R \subseteq Frames /\ KernelRoot \in R
      /\ lev \in [Frames -> 0 .. 4] /\ own \in [Frames -> R] /\ cnt \in [Frames -> Nat]
      /\ \A g \in Frames : lev[g] = 1 <=> g \in R
      /\ \A r \in R : own[r] = r
  BY DEF Shape, LabelsOK, Counted
<1>2. /\ lev[f] = 0 /\ cnt[f] = 0 /\ f \notin R
      /\ \A j \in Nat : ~Present(mm, f, j)
      /\ \A u \in Frames, j \in Nat : Present(mm, u, j) => At(mm, u, j).to # f
  BY FreeIsApart
<1>3. c \in Frames /\ c # f /\ lev[c] = 1 /\ own[c] = c /\ KernelRoot # f
  BY <1>1, <1>2
<1>4. /\ lev2 \in [Frames -> 0 .. 4] /\ own2 \in [Frames -> R \cup {f}]
      /\ lev2[f] = 1 /\ own2[f] = f
      /\ \A g \in Frames \ {f} : lev2[g] = lev[g] /\ own2[g] = own[g]
  BY <1>1
<1>5. LabelsOK(R \cup {f}, lev2, own2)
  BY <1>1, <1>2, <1>4 DEF LabelsOK
<1>6. ASSUME NEW u \in Frames, NEW j \in Nat, u # f
      PROVE  /\ Present(m, u, j) <=> Present(mm, u, j)
             /\ Present(m, u, j) => At(m, u, j) = At(mm, u, j)
  BY <1>6 DEF RootAdded
<1>7. ASSUME NEW j \in Nat
      PROVE  /\ Present(m, f, j) <=> j # UserSlot /\ Present(mm, c, j)
             /\ Present(m, f, j) => At(m, f, j) = At(mm, c, j)
  BY <1>2 DEF RootAdded
<1>8. ASSUME NEW u \in Frames, NEW j \in Nat, Present(mm, u, j)
      PROVE  EntryOK(mm, lev, own, u, j)
  BY <1>8 DEF Shape, EntriesOK
<1>9. ASSUME NEW u \in Frames, NEW j \in Nat, Present(m, u, j)
      PROVE  EntryOK(m, lev2, own2, u, j)
  <2>1. CASE u # f
    <3>1. Present(mm, u, j) /\ At(m, u, j) = At(mm, u, j)
      BY <1>6, <1>9, <2>1
    <3>2. EntryOK(mm, lev, own, u, j) /\ At(mm, u, j).to # f
      BY <1>2, <1>8, <3>1
    <3>3. Owner(lev2, own2, u, j) = Owner(lev, own, u, j) /\ lev2[u] = lev[u]
      BY <1>4, <2>1 DEF Owner
    <3>4. \A g \in Frames : g # f => lev2[g] = lev[g] /\ own2[g] = own[g]
      BY <1>4
    <3> QED BY ONLY <3>1, <3>2, <3>3, <3>4 DEF EntryOK
  <2>2. CASE u = f
    <3>1. j # UserSlot /\ Present(mm, c, j) /\ At(m, u, j) = At(mm, c, j)
      BY <1>7, <1>9, <2>2
    <3>2. EntryOK(mm, lev, own, c, j) /\ At(mm, c, j).to # f
      BY <1>2, <1>3, <1>8, <3>1
    <3>3. /\ Owner(lev2, own2, u, j) = KernelRoot /\ Owner(lev, own, c, j) = KernelRoot
          /\ lev2[u] = 1
      BY <1>3, <1>4, <2>2, <3>1 DEF Owner
    <3>4. \A g \in Frames : g # f => lev2[g] = lev[g] /\ own2[g] = own[g]
      BY <1>4
    <3>5. /\ lev[c] = 1 /\ (c = 3 => lev[c] = 3)
      BY <1>3, BootOwned
    <3> QED BY ONLY <3>1, <3>2, <3>3, <3>4, <3>5 DEF EntryOK
  <2> QED BY <2>1, <2>2
<1>10. \A u \in Frames, j \in Nat : Present(m, u, j) =>
          \E v \in Frames : /\ Present(mm, v, j) /\ At(m, u, j) = At(mm, v, j)
                            /\ (v = u /\ u # f) \/ (v = c /\ u = f)
  BY <1>3, <1>6, <1>7
<1>11. Single(m, lev2)
  <2> SUFFICES ASSUME NEW t \in Frames, NEW u \in Frames, NEW i \in Nat, NEW j \in Nat,
                      Present(m, t, i), ~At(m, t, i).huge, lev2[t] < 4,
                      Present(m, u, j), ~At(m, u, j).huge, At(m, t, i).to = At(m, u, j).to
               PROVE  i = j /\ (t = u \/ lev2[t] = 1)
    BY DEF Single
  <2>1. PICK v \in Frames : /\ Present(mm, v, i) /\ At(m, t, i) = At(mm, v, i)
                            /\ (v = t /\ t # f) \/ (v = c /\ t = f)
    BY <1>10
  <2>2. PICK w \in Frames : /\ Present(mm, w, j) /\ At(m, u, j) = At(mm, w, j)
                            /\ (w = u /\ u # f) \/ (w = c /\ u = f)
    BY <1>10
  <2>3. lev[v] = lev2[t]
    BY <1>3, <1>4, <2>1
  <2>4. i = j /\ (v = w \/ lev[v] = 1)
    BY <2>1, <2>2, <2>3 DEF Shape, Single
  <2> QED BY <1>3, <1>4, <2>1, <2>2, <2>3, <2>4
<1>12. Reached(m, lev2)
  <2> SUFFICES ASSUME NEW g \in Frames, lev2[g] > 1
               PROVE  \E u \in Frames, j \in Nat :
                         Present(m, u, j) /\ ~At(m, u, j).huge /\ At(m, u, j).to = g
    BY DEF Reached
  <2>1. lev[g] > 1
    BY <1>4
  <2>2. PICK u \in Frames, j \in Nat :
           Present(mm, u, j) /\ ~At(mm, u, j).huge /\ At(mm, u, j).to = g
    BY <2>1 DEF Shape, Reached
  <2>3. u # f
    BY <1>2, <2>2
  <2> QED BY <1>6, <2>2, <2>3
<1>13. Shared(m, R \cup {f})
  <2>1. ASSUME NEW r \in R, NEW i \in Nat, i # UserSlot
        PROVE  /\ Present(mm, r, i) <=> Present(mm, KernelRoot, i)
               /\ Present(mm, r, i) => At(mm, r, i).to = At(mm, KernelRoot, i).to
    BY <2>1 DEF Shape, Shared
  <2>2. ASSUME NEW r \in R \cup {f}, NEW i \in Nat, i # UserSlot
        PROVE  /\ Present(m, r, i) <=> Present(m, KernelRoot, i)
               /\ Present(m, r, i) => At(m, r, i).to = At(m, KernelRoot, i).to
    <3>1. /\ Present(m, KernelRoot, i) <=> Present(mm, KernelRoot, i)
          /\ Present(m, KernelRoot, i) => At(m, KernelRoot, i) = At(mm, KernelRoot, i)
      BY <1>1, <1>3, <1>6
    <3>2. CASE r = f
      BY <1>7, <2>1, <2>2, <3>1, <3>2
    <3>3. CASE r # f
      <4>1. r \in R /\ r \in Frames
        BY <1>1, <3>3
      <4>2. /\ Present(m, r, i) <=> Present(mm, r, i)
            /\ Present(m, r, i) => At(m, r, i) = At(mm, r, i)
        BY <1>6, <3>3, <4>1
      <4> QED BY ONLY <2>1, <2>2, <3>1, <4>1, <4>2
    <3> QED BY <3>2, <3>3
  <2> QED BY ONLY <2>2 DEF Shared
<1>14. BootKept(m, lev2)
  <2>1. BootKept(mm, lev)
    BY DEF Shape
  <2>2. /\ IdentityPage[1] \in Nat /\ IdentityPage[2] \in Nat /\ IdentityPage[3] \in Nat
        /\ 1 \in Frames /\ 2 \in Frames /\ 3 \in Frames
    BY Constants
  <2>3. 1 # f /\ 2 # f /\ 3 # f
    BY <1>2, BootOwned
  <2>4. lev2[2] = 2 /\ lev2[3] = 3
    BY <1>4, <2>1, <2>2, <2>3 DEF BootKept
  <2> QED BY ONLY <1>6, <2>1, <2>2, <2>3, <2>4 DEF BootKept
<1>15. Counted(m, lev2, cnt)
  <2>1. Counted(mm, lev, cnt) /\ mm.ref \in [Frames -> Nat]
    BY <1>1 DEF Shape, MemOK
  <2>2. m.ref[f] = 1 /\ \A g \in Frames \ {f} : m.ref[g] = mm.ref[g]
    BY <2>1 DEF RootAdded
  <2>3. \A g \in Frames : m.ref[g] = IF lev2[g] > 0 THEN 1 ELSE cnt[g]
    BY <1>4, <2>1, <2>2 DEF Counted
  <2>4. \A g \in Frames : lev2[g] > 0 => cnt[g] = 0
    BY <1>2, <1>4, <2>1 DEF Counted
  <2>5. ASSUME NEW u \in Frames, NEW j \in Nat, Present(m, u, j), lev2[u] = 4
        PROVE  cnt[At(m, u, j).to] > 0
    <3>1. u # f
      BY <1>4, <2>5
    <3>2. Present(mm, u, j) /\ At(m, u, j) = At(mm, u, j) /\ lev[u] = 4
      BY <1>4, <1>6, <2>5, <3>1
    <3> QED BY <2>1, <3>2 DEF Counted
  <2> QED BY <1>1, <2>3, <2>4, <2>5 DEF Counted
<1>16. MemOK(m)
  BY DEF RootAdded
<1>17. Shape(m, R \cup {f}, lev2, own2, cnt)
  BY ONLY <1>5, <1>9, <1>11, <1>12, <1>13, <1>14, <1>15, <1>16 DEF Shape, EntriesOK
<1>18. Grown(mm, m, lev, lev2, own, own2)
  <2>1. \A t \in Frames, i \in Nat : Present(mm, t, i) =>
           Present(m, t, i) /\ At(m, t, i) = At(mm, t, i)
    BY <1>2, <1>6
  <2>2. \A g \in Frames : lev[g] > 0 => lev2[g] = lev[g] /\ own2[g] = own[g]
    BY <1>2, <1>4
  <2>3. \A t \in Frames, i \in Nat : Present(m, t, i) /\ lev2[t] = 4 =>
           Present(mm, t, i) /\ lev[t] = 4
    BY <1>4, <1>6
  <2> QED BY ONLY <2>1, <2>2, <2>3 DEF Grown
<1> QED BY ONLY <1>17, <1>18

\* hal_pt_create_user adds a root.
LEMMA CreateAdds ==
    ASSUME MemOK(mem), cr3 \in Frames, hal_pt_create_user,
           NEW f, f = Min(FreeFrames(mem)), f \in Frames, f # cr3,
           \A i \in Nat : ~Present(mem, f, i)
    PROVE  RootAdded(mem, mem', cr3, f)
<1> DEFINE ma    == Allocated(mem, f)
           slots == {x[2] : x \in {y \in DOMAIN ma.entry : y[1] = cr3 /\ Inherits(y[2])}}
           D     == DOMAIN ma.entry \cup ({f} \X slots)
           g     == [x \in D |-> IF x[1] = f THEN ma.entry[<<cr3, x[2]>>] ELSE ma.entry[x]]
<1>1. mem' = [ma EXCEPT !.entry = g]
  BY DEF hal_pt_create_user
<1>2. ma = [entry |-> mem.entry, ref |-> [mem.ref EXCEPT ![f] = 1]]
  BY RefChanges DEF WithRef
<1>3. ma.entry = mem.entry /\ ma.ref = [mem.ref EXCEPT ![f] = 1]
  BY ONLY <1>2
<1>4. mem' = [entry |-> g, ref |-> ma.ref]
  <2> HIDE DEF g
  <2> QED BY ONLY <1>1, <1>2
<1>5. mem'.entry = g /\ mem'.ref = [mem.ref EXCEPT ![f] = 1]
  BY ONLY <1>3, <1>4
<1>6. DOMAIN mem.entry \subseteq Frames \X Nat /\ mem.ref \in [Frames -> Nat]
  BY DEF MemOK
<1>7. \A i \in Nat : i \in slots <=> i # UserSlot /\ Present(mem, cr3, i)
  <2>1. ASSUME NEW i \in slots PROVE i \in Nat /\ i # UserSlot /\ Present(mem, cr3, i)
    <3>1. PICK y \in DOMAIN mem.entry : y[1] = cr3 /\ Inherits(y[2]) /\ y[2] = i
      BY <1>3, <2>1
    <3>2. y = <<y[1], y[2]>> /\ y[2] \in Nat
      BY <1>6, <3>1
    <3> QED BY <3>1, <3>2 DEF Inherits, Present
  <2>2. ASSUME NEW i \in Nat, i # UserSlot, Present(mem, cr3, i) PROVE i \in slots
    <3>1. <<cr3, i>> \in DOMAIN mem.entry /\ <<cr3, i>>[1] = cr3 /\ <<cr3, i>>[2] = i
      BY <2>2 DEF Present
    <3>2. <<cr3, i>> \in {y \in DOMAIN ma.entry : y[1] = cr3 /\ Inherits(y[2])}
      BY <1>3, <2>2, <3>1 DEF Inherits
    <3> QED BY <3>1, <3>2
  <2> QED BY <2>1, <2>2
<1>8. slots \subseteq Nat
  BY <1>3, <1>6
<1>9. D \subseteq Frames \X Nat /\ DOMAIN mem'.entry = D
  <2>1. DOMAIN g = D
    OBVIOUS
  <2> HIDE DEF g, slots
  <2> QED BY <1>3, <1>5, <1>6, <1>8, <2>1
<1> HIDE DEF slots
<1>10. ASSUME NEW t \in Frames, NEW i \in Nat
       PROVE  <<t, i>> \in D <=> \/ Present(mem, t, i)
                                 \/ t = f /\ i # UserSlot /\ Present(mem, cr3, i)
  BY <1>3, <1>7 DEF Present
<1>11. ASSUME NEW t \in Frames, NEW i \in Nat, Present(mem', t, i)
       PROVE  At(mem', t, i) = IF t = f THEN At(mem, cr3, i) ELSE At(mem, t, i)
  <2>1. <<t, i>> \in D /\ <<t, i>>[1] = t /\ <<t, i>>[2] = i
    BY <1>9, <1>11 DEF Present
  <2>2. mem'.entry[<<t, i>>] = IF t = f THEN ma.entry[<<cr3, i>>] ELSE ma.entry[<<t, i>>]
    BY <1>5, <2>1
  <2> QED BY <1>3, <2>2 DEF At
<1>12. ASSUME NEW t \in Frames, NEW i \in Nat, Present(mem', t, i)
       PROVE  At(mem', t, i) \in Entries
  <2>1. IF t = f THEN Present(mem, cr3, i) ELSE Present(mem, t, i)
    BY <1>9, <1>10, <1>12 DEF Present
  <2> QED BY <1>11, <1>12, <2>1 DEF MemOK
<1>13. MemOK(mem')
  <2>1. mem' = [entry |-> mem'.entry, ref |-> mem'.ref]
    <3> HIDE DEF g
    <3> QED BY ONLY <1>4
  <2>2. mem'.entry = [x \in DOMAIN mem'.entry |-> mem'.entry[x]]
    BY <1>5, <1>9
  <2>3. mem'.ref \in [Frames -> Nat]
    BY <1>5, <1>6
  <2> QED BY ONLY <1>9, <1>12, <2>1, <2>2, <2>3 DEF MemOK
<1>14. \A t \in Frames, i \in Nat :
          Present(mem', t, i) <=> \/ Present(mem, t, i)
                                  \/ t = f /\ i # UserSlot /\ Present(mem, cr3, i)
  <2> HIDE DEF D
  <2> QED BY ONLY <1>9, <1>10 DEF Present
<1> QED BY ONLY <1>5, <1>11, <1>13, <1>14 DEF RootAdded

\* Creating an address space keeps the invariant.
LEMMA CreateKeeps ==
    ASSUME PagingInv, hal_pt_create_user
    PROVE  PagingInv'
<1> DEFINE f == Min(FreeFrames(mem))
<1>1. f \in Frames /\ mem.ref[f] = 0
  BY LowestFree DEF hal_pt_create_user
<1>2. spaces' = spaces \cup {f} /\ cr3' = cr3 /\ tlb' = tlb /\ mapped' = mapped
  BY DEF hal_pt_create_user
<1>3. /\ MappedOK(Roots, mapped) /\ Tabled(mem, Roots, mapped)
      /\ spaces \subseteq Frames \ {KernelRoot} /\ cr3 \in Roots
  BY DEF PagingInv
<1>f. f = Min(FreeFrames(mem))
  OBVIOUS
<1> HIDE DEF f
<1>4. PICK lev, own : Shape(mem, Roots, lev, own, Count(mapped)) /\ Leaves(mem, lev, mapped)
  BY <1>3 DEF Tabled
<1>5. f \notin Roots /\ \A i \in Nat : ~Present(mem, f, i)
  BY <1>1, <1>4, FreeIsApart
<1>6. MemOK(mem) /\ cr3 \in Frames /\ KernelRoot \in Roots
  BY <1>3, <1>4 DEF Shape, LabelsOK
<1>7. RootAdded(mem, mem', cr3, f)
  BY <1>1, <1>3, <1>5, <1>6, <1>f, CreateAdds
<1>8. Roots' = Roots \cup {f}
  BY <1>2 DEF Roots
<1> DEFINE lev2 == [lev EXCEPT ![f] = 1]
           own2 == [own EXCEPT ![f] = f]
<1>9. lev2 = [lev EXCEPT ![f] = 1] /\ own2 = [own EXCEPT ![f] = f]
  OBVIOUS
<1> HIDE DEF lev2, own2
<1>10. /\ Shape(mem', Roots \cup {f}, lev2, own2, Count(mapped))
       /\ Grown(mem, mem', lev, lev2, own, own2)
  BY ONLY <1>1, <1>3, <1>4, <1>7, <1>9, RootAddedKeeps
<1>11. Leaves(mem', lev2, mapped)
  BY <1>3, <1>4, <1>10, LeavesGrown
<1>12. Tabled(mem', Roots', mapped')
  BY <1>2, <1>8, <1>10, <1>11 DEF Tabled
<1>13. MappedOK(Roots', mapped')
  BY <1>2, <1>3, <1>5, <1>6, <1>8 DEF MappedOK, Keys
<1>14. spaces' \subseteq Frames \ {KernelRoot} /\ cr3' \in Roots'
  BY <1>1, <1>2, <1>3, <1>5, <1>6, <1>8
<1> QED BY <1>2, <1>12, <1>13, <1>14 DEF PagingInv

----------------------------------------------------------------------------
(* Unmapping.                                                              *)

\* Two pages with the same entry of the last level are the same.
LEMMA KeyUnique ==
    ASSUME NEW mm, NEW R, NEW lev, NEW own, NEW cnt,
           Shape(mm, R, lev, own, cnt), NEW k \in Keys(R), NEW l \in Keys(R),
           NEW t2, NEW t3, NEW u2, NEW u3, NEW t4,
           Path(mm, k[1], k[2], t2, t3, t4), Path(mm, l[1], l[2], u2, u3, t4),
           k[2][4] = l[2][4]
    PROVE  k = l
<1>0. KernelRoot \in R
  BY DEF Shape, LabelsOK
<1>1. /\ k = <<k[1], k[2]>> /\ k[1] \in R /\ IsPage(k[2])
      /\ k[2] = <<k[2][1], k[2][2], k[2][3], k[2][4]>>
      /\ k[1] = KernelRoot => k[2][1] # UserSlot
      /\ k[1] # KernelRoot => k[2][1] = UserSlot
  BY <1>0, KeyIs
<1>2. /\ l = <<l[1], l[2]>> /\ l[1] \in R /\ IsPage(l[2])
      /\ l[2] = <<l[2][1], l[2][2], l[2][3], l[2][4]>>
      /\ l[1] = KernelRoot => l[2][1] # UserSlot
      /\ l[1] # KernelRoot => l[2][1] = UserSlot
  BY <1>0, KeyIs
<1>3. /\ k[2][1] = l[2][1] /\ k[2][2] = l[2][2] /\ k[2][3] = l[2][3]
      /\ k[2][1] = UserSlot => k[1] = l[1]
  BY <1>1, <1>2, PathUnique
<1>4. k[2] = l[2]
  BY ONLY <1>1, <1>2, <1>3, k[2][4] = l[2][4]
<1>5. k[1] = l[1]
  BY ONLY <1>1, <1>2, <1>3
<1> QED BY ONLY <1>1, <1>2, <1>4, <1>5

\* The entry i of t is gone, and the others are as they were.
GoneAt(mm, m, t, i) ==
    /\ MemOK(m) /\ m.ref = mm.ref
    /\ \A u \in Frames, j \in Nat :
          /\ Present(m, u, j) <=> Present(mm, u, j) /\ ~(u = t /\ j = i)
          /\ Present(m, u, j) => At(m, u, j) = At(mm, u, j)

\* An entry of the last level removed leaves the tables in shape.
LEMMA GoneKeeps ==
    ASSUME NEW mm, NEW R, NEW lev, NEW own, NEW cnt, Shape(mm, R, lev, own, cnt),
           NEW t \in Frames, lev[t] = 4, NEW i \in Nat, NEW m, GoneAt(mm, m, t, i)
    PROVE  Shape(m, R, lev, own, cnt)
<1>1. /\ MemOK(m) /\ m.ref = mm.ref
      /\ \A u \in Frames, j \in Nat : Present(m, u, j) =>
            Present(mm, u, j) /\ At(m, u, j) = At(mm, u, j)
  BY DEF GoneAt
<1>2. \A u \in Frames, j \in Nat : lev[u] # 4 =>
         /\ Present(m, u, j) <=> Present(mm, u, j)
         /\ Present(m, u, j) => At(m, u, j) = At(mm, u, j)
  BY DEF GoneAt
<1>3. /\ LabelsOK(R, lev, own) /\ R \subseteq Frames /\ KernelRoot \in R
      /\ \A r \in R : lev[r] = 1
      /\ lev \in [Frames -> 0 .. 4]
  BY DEF Shape, LabelsOK
<1>4. EntriesOK(m, lev, own)
  <2>1. EntriesOK(mm, lev, own)
    BY DEF Shape
  <2> QED BY ONLY <1>1, <2>1 DEF EntriesOK, EntryOK
<1>5. Single(m, lev)
  <2>1. Single(mm, lev)
    BY DEF Shape
  <2> QED BY ONLY <1>1, <2>1 DEF Single
<1>6. Reached(m, lev)
  <2> SUFFICES ASSUME NEW g \in Frames, lev[g] > 1
               PROVE  \E u \in Frames, j \in Nat :
                         Present(m, u, j) /\ ~At(m, u, j).huge /\ At(m, u, j).to = g
    BY DEF Reached
  <2>1. PICK u \in Frames, j \in Nat :
           Present(mm, u, j) /\ ~At(mm, u, j).huge /\ At(mm, u, j).to = g
    BY DEF Shape, Reached
  <2>2. EntryOK(mm, lev, own, u, j)
    BY <2>1 DEF Shape, EntriesOK
  <2>3. lev[u] # 4
    BY ONLY <2>1, <2>2, lev[g] > 1 DEF EntryOK
  <2> QED BY <1>2, <2>1, <2>3
<1>7. Shared(m, R)
  <2>1. Shared(mm, R)
    BY DEF Shape
  <2>2. \A r \in R : r \in Frames /\ lev[r] # 4
    BY <1>3
  <2> QED BY ONLY <1>2, <1>3, <2>1, <2>2 DEF Shared
<1>8. BootKept(m, lev)
  <2>1. BootKept(mm, lev)
    BY DEF Shape
  <2>2. /\ IdentityPage[1] \in Nat /\ IdentityPage[2] \in Nat /\ IdentityPage[3] \in Nat
        /\ 1 \in Frames /\ 2 \in Frames /\ 3 \in Frames
    BY Constants
  <2>3. lev[1] # 4 /\ lev[2] # 4 /\ lev[3] # 4
    BY BootOwned
  <2> QED BY ONLY <1>2, <2>1, <2>2, <2>3 DEF BootKept
<1>9. Counted(m, lev, cnt)
  <2>1. Counted(mm, lev, cnt)
    BY DEF Shape
  <2> QED BY ONLY <1>1, <2>1 DEF Counted
<1> QED BY <1>1, <1>3, <1>4, <1>5, <1>6, <1>7, <1>8, <1>9 DEF Shape

\* One mapping less of a frame mapped once.
LEMMA CountRemoved ==
    ASSUME NEW mp, IsFiniteSet(DOMAIN mp), NEW k \in DOMAIN mp, mp[k] \in Frames,
           \A l \in DOMAIN mp : mp[l] = mp[k] => l = k,
           NEW mp2, mp2 = Restrict(mp, DOMAIN mp \ {k})
    PROVE  /\ DOMAIN mp2 = DOMAIN mp \ {k} /\ \A l \in DOMAIN mp2 : mp2[l] = mp[l]
           /\ IsFiniteSet(DOMAIN mp2)
           /\ Count(mp2) = [Count(mp) EXCEPT ![mp[k]] = 0]
<1>1. DOMAIN mp2 = DOMAIN mp \ {k} /\ \A l \in DOMAIN mp2 : mp2[l] = mp[l]
  BY DEF Restrict
<1>2. IsFiniteSet(DOMAIN mp2)
  BY <1>1, FS_RemoveElement
<1>3. /\ Count(mp) \in [Frames -> Nat]
      /\ \A g \in Frames : Count(mp)[g] = Cardinality(Mappings(mp, g))
  BY CountIs
<1>4. /\ Count(mp2) \in [Frames -> Nat]
      /\ \A g \in Frames : Count(mp2)[g] = Cardinality(Mappings(mp2, g))
  BY ONLY <1>2, CountIs
<1>5. Count(mp2)[mp[k]] = 0
  <2>1. \A l \in DOMAIN mp2 : mp2[l] # mp[k]
    BY <1>1
  <2> QED BY ONLY <1>2, <2>1, mp[k] \in Frames, CountIs
<1>6. \A g \in Frames \ {mp[k]} : Mappings(mp2, g) = Mappings(mp, g)
  BY <1>1 DEF Mappings
<1>7. ASSUME NEW g \in Frames \ {mp[k]} PROVE Count(mp2)[g] = Count(mp)[g]
  <2>1. Mappings(mp2, g) = Mappings(mp, g)
    BY ONLY <1>6
  <2> QED BY ONLY <1>3, <1>4, <2>1
<1>8. Count(mp2) = [Count(mp) EXCEPT ![mp[k]] = 0]
  BY ONLY <1>3, <1>4, <1>5, <1>7, mp[k] \in Frames
<1> QED BY <1>1, <1>2, <1>8

\* What is left in the tables when a page is unmapped is mapped.
LEMMA LeafRemoved ==
    ASSUME NEW mm, NEW R, NEW lev, NEW own, NEW cnt, NEW mp,
           Shape(mm, R, lev, own, cnt), MappedOK(R, mp), Leaves(mm, lev, mp),
           NEW k \in DOMAIN mp, NEW t4, t4 = TableFor(mm, k[1], k[2]),
           NEW m, GoneAt(mm, m, t4, k[2][4]),
           NEW mp2, DOMAIN mp2 = DOMAIN mp \ {k}, \A l \in DOMAIN mp2 : mp2[l] = mp[l]
    PROVE  Leaves(m, lev, mp2)
<1>1. /\ KernelRoot \in R /\ R \subseteq Frames /\ LabelsOK(R, lev, own)
      /\ \A l \in DOMAIN mp : l \in Keys(R) /\ l[1] \in R /\ IsPage(l[2])
  BY KeyIs DEF Shape, LabelsOK, MappedOK
<1>2. t4 \in Frames /\ lev[t4] = 4
  BY DEF Leaves
<1>3. PICK t2, t3 : Path(mm, k[1], k[2], t2, t3, t4)
  BY <1>1, <1>2, TableForPath
<1>4. \A u \in Frames, j \in Nat :
         /\ Present(m, u, j) <=> Present(mm, u, j) /\ ~(u = t4 /\ j = k[2][4])
         /\ Present(m, u, j) => At(m, u, j) = At(mm, u, j)
  BY DEF GoneAt
<1>5. ASSUME NEW l \in DOMAIN mp
      PROVE  /\ TableFor(m, l[1], l[2]) = TableFor(mm, l[1], l[2])
             /\ TableFor(mm, l[1], l[2]) = t4 /\ l[2][4] = k[2][4] => l = k
  <2> DEFINE u4 == TableFor(mm, l[1], l[2])
  <2>1. u4 \in Frames /\ u4 = TableFor(mm, l[1], l[2])
    BY DEF Leaves
  <2> HIDE DEF u4
  <2>2. l[1] \in R /\ IsPage(l[2]) /\ l[1] \in Frames /\ l \in Keys(R)
    BY <1>1
  <2>3. PICK u2, u3 : Path(mm, l[1], l[2], u2, u3, u4)
    BY <2>1, <2>2, TableForPath
  <2>4. lev[l[1]] = 1 /\ lev[u2] = 2 /\ lev[u3] = 3
    BY <2>2, <2>3, PathLabels
  <2>5. l[1] # t4 /\ u2 # t4 /\ u3 # t4
    BY <1>2, <2>4
  <2>6. Path(m, l[1], l[2], u2, u3, u4)
    BY ONLY <1>4, <2>2, <2>3, <2>5 DEF Path, IsPage
  <2>7. TableFor(m, l[1], l[2]) = u4
    BY <2>2, <2>6, PathBelow
  <2>8. ASSUME u4 = t4, l[2][4] = k[2][4] PROVE l = k
    <3>1. k \in Keys(R) /\ Path(mm, l[1], l[2], u2, u3, t4)
      BY <1>1, <2>3, <2>8
    <3> QED BY ONLY Shape(mm, R, lev, own, cnt), <1>3, <2>2, <2>8, <3>1, KeyUnique
  <2> QED BY <2>1, <2>7, <2>8
<1>6. ASSUME NEW l \in DOMAIN mp2, NEW t, t = TableFor(m, l[1], l[2])
      PROVE  /\ t \in Frames /\ lev[t] = 4
             /\ Present(m, t, l[2][4]) /\ At(m, t, l[2][4]).to = mp2[l]
  <2>1. l \in DOMAIN mp /\ l # k /\ mp2[l] = mp[l]
    OBVIOUS
  <2>2. t = TableFor(mm, l[1], l[2]) /\ ~(t = t4 /\ l[2][4] = k[2][4])
    BY ONLY <1>5, <1>6, <2>1
  <2>3. /\ t \in Frames /\ lev[t] = 4 /\ l[2][4] \in Nat
        /\ Present(mm, t, l[2][4]) /\ At(mm, t, l[2][4]).to = mp[l]
    BY <1>1, <2>1, <2>2 DEF Leaves, IsPage
  <2> QED BY ONLY <1>4, <2>1, <2>2, <2>3
<1>7. ASSUME NEW t \in Frames, NEW i \in Nat, Present(m, t, i), lev[t] = 4
      PROVE  \E l \in DOMAIN mp2 : TableFor(m, l[1], l[2]) = t /\ l[2][4] = i
  <2>1. Present(mm, t, i) /\ ~(t = t4 /\ i = k[2][4])
    BY ONLY <1>4, <1>7
  <2>2. PICK l \in DOMAIN mp : TableFor(mm, l[1], l[2]) = t /\ l[2][4] = i
    BY <1>7, <2>1 DEF Leaves
  <2>3. l \in DOMAIN mp2
    BY <2>1, <2>2
  <2> QED BY <1>5, <2>2, <2>3
<1> QED BY ONLY <1>6, <1>7 DEF Leaves

\* What removing an entry makes of the memory.
LEMMA EntryRemoved ==
    ASSUME NEW mm, MemOK(mm), NEW t \in Frames, NEW i \in Nat,
           NEW m, m = [mm EXCEPT !.entry = Restrict(mm.entry, DOMAIN mm.entry \ {<<t, i>>})]
    PROVE  GoneAt(mm, m, t, i)
<1> DEFINE g == Restrict(mm.entry, DOMAIN mm.entry \ {<<t, i>>})
<1>1. mm = [entry |-> mm.entry, ref |-> mm.ref]
  BY DEF MemOK
<1>2. m = [entry |-> g, ref |-> mm.ref]
  <2>1. m = [mm EXCEPT !.entry = g]
    OBVIOUS
  <2> HIDE DEF g
  <2> QED BY ONLY <1>1, <2>1
<1>3. m.entry = g /\ m.ref = mm.ref
  BY ONLY <1>2
<1>4. /\ DOMAIN g = DOMAIN mm.entry \ {<<t, i>>} /\ \A x \in DOMAIN g : g[x] = mm.entry[x]
      /\ g = [x \in DOMAIN g |-> g[x]]
  BY DEF Restrict
<1> HIDE DEF g
<1>5. \A u \in Frames, j \in Nat : <<u, j>> = <<t, i>> <=> u = t /\ j = i
  OBVIOUS
<1>6. \A u \in Frames, j \in Nat :
         /\ Present(m, u, j) <=> Present(mm, u, j) /\ ~(u = t /\ j = i)
         /\ Present(m, u, j) => At(m, u, j) = At(mm, u, j)
  BY ONLY <1>3, <1>4, <1>5 DEF Present, At
<1>7. MemOK(m)
  <2>1. m = [entry |-> m.entry, ref |-> m.ref]
    BY ONLY <1>2, <1>3
  <2>2. m.entry = [x \in DOMAIN m.entry |-> m.entry[x]]
    BY ONLY <1>3, <1>4
  <2>3. DOMAIN m.entry \subseteq Frames \X Nat /\ m.ref \in [Frames -> Nat]
    BY <1>3, <1>4 DEF MemOK
  <2>4. \A u \in Frames, j \in Nat : Present(m, u, j) => At(m, u, j) \in Entries
    BY <1>6 DEF MemOK
  <2> QED BY ONLY <2>1, <2>2, <2>3, <2>4 DEF MemOK
<1> QED BY ONLY <1>3, <1>6, <1>7 DEF GoneAt

\* Unmapping a page of the kernel keeps the invariant.
LEMMA UnmapKeeps ==
    ASSUME PagingInv, NEW va \in KernelPages, unmap_kernel(va)
    PROVE  PagingInv'
<1> DEFINE k   == <<KernelRoot, va>>
           t4  == TableFor(mem, KernelRoot, va)
           f   == mapped[k]
           m1  == [mem EXCEPT !.entry = Restrict(mem.entry, DOMAIN mem.entry \ {<<t4, va[4]>>})]
           mp2 == Restrict(mapped, DOMAIN mapped \ {k})
<1>1. /\ cr3 = KernelRoot /\ k \in DOMAIN mapped
      /\ mem' = pmm_free_frame(m1, f) /\ mapped' = mp2 /\ tlb' = Flushed(KernelRoot, va)
      /\ spaces' = spaces /\ cr3' = cr3
  BY DEF unmap_kernel
<1>2. /\ MappedOK(Roots, mapped) /\ Tabled(mem, Roots, mapped) /\ KernelAlone(mapped)
      /\ spaces \subseteq Frames \ {KernelRoot} /\ TlbOK(tlb, mapped, cr3)
      /\ \A g \in Frames : Count(mapped)[g] <= Shares + 1
  BY DEF PagingInv
<1>3. PICK lev, own : Shape(mem, Roots, lev, own, Count(mapped)) /\ Leaves(mem, lev, mapped)
  BY <1>2 DEF Tabled
<1>4. k[1] = KernelRoot /\ k[2] = va /\ k \in Keys(Roots) /\ f \in Frames
  BY <1>1, <1>2 DEF MappedOK
<1>5. t4 \in Frames /\ lev[t4] = 4 /\ t4 = TableFor(mem, k[1], k[2])
  BY <1>1, <1>3, <1>4 DEF Leaves
<1>6. va[4] \in Nat /\ MemOK(mem) /\ k[2][4] = va[4]
  BY <1>3, <1>4, Constants DEF Shape
<1>7. \A l \in DOMAIN mapped : mapped[l] = f => l = k
  BY <1>1, <1>2, <1>4 DEF KernelAlone
<1>8. m1 = [mem EXCEPT !.entry = Restrict(mem.entry, DOMAIN mem.entry \ {<<t4, va[4]>>})]
      /\ mp2 = Restrict(mapped, DOMAIN mapped \ {k}) /\ f = mapped[k]
  OBVIOUS
<1> HIDE DEF k, t4, f, m1, mp2
<1>9. GoneAt(mem, m1, t4, va[4])
  BY ONLY <1>5, <1>6, <1>8, EntryRemoved
<1>10. Shape(m1, Roots, lev, own, Count(mapped))
  BY ONLY <1>3, <1>5, <1>6, <1>9, GoneKeeps
<1>11. /\ DOMAIN mp2 = DOMAIN mapped \ {k} /\ \A l \in DOMAIN mp2 : mp2[l] = mapped[l]
       /\ IsFiniteSet(DOMAIN mp2)
       /\ Count(mp2) = [Count(mapped) EXCEPT ![f] = 0]
  <2>1. IsFiniteSet(DOMAIN mapped)
    BY <1>2 DEF MappedOK
  <2> QED BY ONLY <1>1, <1>4, <1>7, <1>8, <2>1, CountRemoved
<1>12. Leaves(m1, lev, mp2)
  <2>1. GoneAt(mem, m1, t4, k[2][4]) /\ t4 = TableFor(mem, k[1], k[2]) /\ k \in DOMAIN mapped
    BY <1>1, <1>5, <1>6, <1>9
  <2>2. DOMAIN mp2 = DOMAIN mapped \ {k} /\ \A l \in DOMAIN mp2 : mp2[l] = mapped[l]
    BY <1>11
  <2>3. MappedOK(Roots, mapped) /\ Shape(mem, Roots, lev, own, Count(mapped))
        /\ Leaves(mem, lev, mapped)
    BY <1>2, <1>3
  <2> QED BY ONLY <2>1, <2>2, <2>3, LeafRemoved
<1>13. MappedOK(Roots, mp2)
  BY <1>2, <1>11 DEF MappedOK
<1>14. lev[f] = 0
  <2>1. Count(mapped)[f] # 0
    BY <1>1, <1>2, <1>4, <1>8, CountIs DEF MappedOK
  <2>2. lev \in [Frames -> 0 .. 4] /\ (lev[f] > 0 => Count(mapped)[f] = 0)
    BY <1>3, <1>4 DEF Shape, LabelsOK, Counted
  <2> QED BY <1>4, <2>1, <2>2
<1>15. ASSUME NEW t \in Frames, NEW i \in Nat, Present(m1, t, i), lev[t] = 4
       PROVE  At(m1, t, i).to # f
  <2>1. PICK l \in DOMAIN mp2 : TableFor(m1, l[1], l[2]) = t /\ l[2][4] = i
    BY <1>12, <1>15 DEF Leaves
  <2>2. At(m1, t, i).to = mp2[l]
    BY <1>12, <2>1 DEF Leaves
  <2> QED BY <1>7, <1>11, <2>1, <2>2
<1>16. mem' = WithRef(m1, f, 0) /\ 0 \in Nat
  BY <1>1, <1>10, RefChanges DEF Shape
<1>17. Shape(mem', Roots, lev, own, Count(mp2))
  <2>1. Shape(mem', Roots, lev, own, [Count(mapped) EXCEPT ![f] = 0])
    BY ONLY <1>4, <1>10, <1>14, <1>15, <1>16, CountSet
  <2> QED BY <1>11, <2>1
<1>18. Leaves(mem', lev, mp2)
  <2>1. mem'.entry = m1.entry
    BY <1>16 DEF WithRef
  <2> QED BY <1>12, <2>1, LeavesSame
<1>19. Tabled(mem', Roots, mp2) /\ Roots' = Roots
  BY <1>1, <1>17, <1>18 DEF Tabled, Roots
<1>20. \A g \in Frames : Count(mp2)[g] <= Shares + 1
  <2>1. Count(mapped) \in [Frames -> Nat] /\ Shares \in Nat
    BY <1>2, CountIs, Constants DEF MappedOK
  <2> QED BY ONLY <1>2, <1>4, <1>11, <2>1
<1>21. KernelAlone(mp2)
  BY ONLY <1>2, <1>11 DEF KernelAlone
<1>22. TlbOK(tlb', mp2, cr3)
  <2>1. \A x : x # <<KernelRoot, va>> => (x \in DOMAIN mp2 <=> x \in DOMAIN mapped)
                                         /\ (x \in DOMAIN mapped => mp2[x] = mapped[x])
    BY <1>11 DEF k
  <2>2. <<KernelRoot, va>> \in Keys(Roots) /\ KernelRoot \in Roots
    BY <1>4 DEF k, Roots
  <2> QED BY ONLY <1>1, <1>2, <2>1, <2>2, TlbKept
<1>23. cr3 \in Roots
  BY DEF PagingInv
<1> QED BY <1>1, <1>2, <1>13, <1>19, <1>20, <1>21, <1>22, <1>23 DEF PagingInv

----------------------------------------------------------------------------
(* Destroying an address space.                                            *)

\* The tables of one space at one level.
TablesAt(lev, own, root, n) == {f \in Frames : lev[f] = n /\ own[f] = root}

\* The entries in memory, as pairs.
LEMMA EntryPairs ==
    ASSUME MemOK(mem)
    PROVE  \A x : x \in DOMAIN mem.entry <=>
              \E t \in Frames, i \in Nat : /\ x = <<t, i>> /\ Present(mem, t, i)
                                           /\ x[1] = t /\ mem.entry[x] = At(mem, t, i)
<1>1. DOMAIN mem.entry \subseteq Frames \X Nat
  BY DEF MemOK
<1>2. ASSUME NEW x \in DOMAIN mem.entry
      PROVE  \E t \in Frames, i \in Nat : /\ x = <<t, i>> /\ Present(mem, t, i)
                                          /\ x[1] = t /\ mem.entry[x] = At(mem, t, i)
  <2>1. x = <<x[1], x[2]>> /\ x[1] \in Frames /\ x[2] \in Nat
    BY <1>1
  <2>2. Present(mem, x[1], x[2]) /\ mem.entry[x] = At(mem, x[1], x[2])
    BY <2>1 DEF Present, At
  <2> QED BY <2>1, <2>2
<1>3. ASSUME NEW t \in Frames, NEW i \in Nat, Present(mem, t, i)
      PROVE  <<t, i>> \in DOMAIN mem.entry
  BY <1>3 DEF Present
<1> QED BY <1>2, <1>3

\* The entry of a root that leads to a process's own tables is the one in the
\* slot of the processes.
LEMMA SecondLevel ==
    ASSUME NEW R, NEW lev, NEW own, NEW cnt, Shape(mem, R, lev, own, cnt),
           NEW root \in R, root # KernelRoot
    PROVE  TablesOf(OwnEntries(root)) = TablesAt(lev, own, root, 2)
<1>1. /\ MemOK(mem) /\ root \in Frames /\ lev[root] = 1 /\ own[root] = root
      /\ \A r \in R : own[r] = r
      /\ \A g \in Frames : lev[g] = 1 <=> g \in R
      /\ lev \in [Frames -> 0 .. 4]
  BY DEF Shape, LabelsOK
<1>2. ASSUME NEW t \in Frames, NEW i \in Nat, Present(mem, t, i)
      PROVE  EntryOK(mem, lev, own, t, i)
  BY <1>2 DEF Shape, EntriesOK
<1>3. ASSUME NEW f \in TablesOf(OwnEntries(root))
      PROVE  f \in TablesAt(lev, own, root, 2)
  <2>1. PICK x \in DOMAIN mem.entry : /\ x[1] = root /\ mem.entry[x].user
                                      /\ ~mem.entry[x].huge /\ mem.entry[x].to = f
    BY <1>3 DEF TablesOf, OwnEntries, EntriesOf
  <2>2. PICK i \in Nat : Present(mem, root, i) /\ mem.entry[x] = At(mem, root, i)
    BY <1>1, <2>1, EntryPairs
  <2>3. EntryOK(mem, lev, own, root, i)
    BY <1>1, <1>2, <2>2
  <2>4. Owner(lev, own, root, i) # KernelRoot
    BY ONLY <2>1, <2>2, <2>3 DEF EntryOK
  <2>5. Owner(lev, own, root, i) = root
    BY ONLY <1>1, <2>4 DEF Owner
  <2>6. f \in Frames /\ lev[f] = 2 /\ own[f] = root
    BY ONLY <1>1, <2>1, <2>2, <2>3, <2>5 DEF EntryOK
  <2> QED BY <2>6 DEF TablesAt
<1>4. ASSUME NEW f \in TablesAt(lev, own, root, 2)
      PROVE  f \in TablesOf(OwnEntries(root))
  <2>1. f \in Frames /\ lev[f] = 2 /\ own[f] = root
    BY <1>4 DEF TablesAt
  <2>2. PICK t \in Frames, i \in Nat :
           Present(mem, t, i) /\ ~At(mem, t, i).huge /\ At(mem, t, i).to = f
    BY <2>1 DEF Shape, Reached
  <2>3. EntryOK(mem, lev, own, t, i)
    BY <1>2, <2>2
  <2>4. lev[t] = 1 /\ own[f] = Owner(lev, own, t, i)
    <3>1. lev[t] \in 1 .. 4
      BY ONLY <2>3 DEF EntryOK
    <3> QED BY ONLY <2>1, <2>2, <2>3, <3>1 DEF EntryOK
  <2>5. own[t] = t /\ Owner(lev, own, t, i) = root
    BY <1>1, <2>1, <2>4
  <2>6. t = root
    BY ONLY <2>4, <2>5, root # KernelRoot DEF Owner
  <2>7. At(mem, t, i).user
    BY ONLY <2>3, <2>5, root # KernelRoot DEF EntryOK
  <2> DEFINE x == <<t, i>>
  <2>8. x \in DOMAIN mem.entry /\ x[1] = root /\ mem.entry[x] = At(mem, t, i)
    BY <2>2, <2>6 DEF Present, At
  <2> HIDE DEF x
  <2>9. x \in OwnEntries(root)
    BY <2>7, <2>8 DEF OwnEntries, EntriesOf
  <2> QED BY <2>2, <2>8, <2>9 DEF TablesOf
<1> QED BY <1>3, <1>4

\* Below a level of a process's tables is the next, and no large page.
LEMMA NextLevel ==
    ASSUME NEW R, NEW lev, NEW own, NEW cnt, Shape(mem, R, lev, own, cnt),
           NEW root \in R, root # KernelRoot, NEW n \in 2 .. 3,
           NEW S, S = TablesAt(lev, own, root, n)
    PROVE  /\ TablesOf(EntriesOf(S)) = TablesAt(lev, own, root, n + 1)
           /\ \A x \in EntriesOf(S) : ~mem.entry[x].huge
<1>1. MemOK(mem) /\ lev \in [Frames -> 0 .. 4]
  BY DEF Shape, LabelsOK
<1>2. ASSUME NEW t \in Frames, NEW i \in Nat, Present(mem, t, i)
      PROVE  EntryOK(mem, lev, own, t, i)
  BY <1>2 DEF Shape, EntriesOK
<1>3. ASSUME NEW x \in EntriesOf(S)
      PROVE  /\ ~mem.entry[x].huge
             /\ mem.entry[x].to \in TablesAt(lev, own, root, n + 1)
  <2>1. x \in DOMAIN mem.entry /\ x[1] \in S
    BY <1>3 DEF EntriesOf
  <2>2. PICK t \in Frames, i \in Nat :
           Present(mem, t, i) /\ t = x[1] /\ mem.entry[x] = At(mem, t, i)
    BY <1>1, <2>1, EntryPairs
  <2>3. lev[t] = n /\ own[t] = root
    BY <2>1, <2>2 DEF TablesAt
  <2>4. EntryOK(mem, lev, own, t, i)
    BY <1>2, <2>2
  <2>5. ~At(mem, t, i).huge
    <3>1. own[3] = KernelRoot
      BY BootOwned
    <3> QED BY ONLY <2>3, <2>4, <3>1, root # KernelRoot DEF EntryOK
  <2>6. Owner(lev, own, t, i) = root
    BY <2>3 DEF Owner
  <2>7. At(mem, t, i).to \in Frames /\ lev[At(mem, t, i).to] = n + 1 /\ own[At(mem, t, i).to] = root
    BY ONLY <2>3, <2>4, <2>5, <2>6, n \in 2 .. 3 DEF EntryOK
  <2> QED BY <2>2, <2>5, <2>7 DEF TablesAt
<1>4. ASSUME NEW f \in TablesAt(lev, own, root, n + 1)
      PROVE  f \in TablesOf(EntriesOf(S))
  <2>1. f \in Frames /\ lev[f] = n + 1 /\ own[f] = root
    BY <1>4 DEF TablesAt
  <2>2. PICK t \in Frames, i \in Nat :
           Present(mem, t, i) /\ ~At(mem, t, i).huge /\ At(mem, t, i).to = f
    BY <2>1 DEF Shape, Reached
  <2>3. EntryOK(mem, lev, own, t, i)
    BY <1>2, <2>2
  <2>4. lev[t] = n /\ own[f] = Owner(lev, own, t, i)
    <3>1. lev[t] \in 1 .. 4
      BY ONLY <2>3 DEF EntryOK
    <3> QED BY ONLY <2>1, <2>2, <2>3, <3>1, n \in 2 .. 3 DEF EntryOK
  <2>5. own[t] = root
    BY ONLY <2>1, <2>4, n \in 2 .. 3 DEF Owner
  <2> DEFINE x == <<t, i>>
  <2>6. x \in DOMAIN mem.entry /\ x[1] = t /\ mem.entry[x] = At(mem, t, i)
    BY <2>2 DEF Present, At
  <2> HIDE DEF x
  <2>7. x \in EntriesOf(S)
    BY <2>4, <2>5, <2>6 DEF EntriesOf, TablesAt
  <2> QED BY <2>2, <2>6, <2>7 DEF TablesOf
<1>5. ASSUME NEW f \in TablesOf(EntriesOf(S))
      PROVE  f \in TablesAt(lev, own, root, n + 1)
  BY <1>3, <1>5 DEF TablesOf
<1> QED BY <1>3, <1>4, <1>5

\* The tables in T are gone with their entries, and the other entries stand.
Cut(mm, m, T) ==
    /\ MemOK(m)
    /\ \A u \in Frames, j \in Nat :
          /\ Present(m, u, j) <=> Present(mm, u, j) /\ u \notin T
          /\ Present(m, u, j) => At(m, u, j) = At(mm, u, j)

\* The tables of a space.
TablesIn(lev, own, root) == {f \in Frames : lev[f] > 0 /\ own[f] = root}

\* Without the tables of one space those of the others are in shape.
LEMMA CutKeeps ==
    ASSUME NEW mm, NEW R, NEW lev, NEW own, NEW cnt, Shape(mm, R, lev, own, cnt),
           NEW root \in R, root # KernelRoot,
           NEW T, T = TablesIn(lev, own, root), NEW m, Cut(mm, m, T),
           NEW lev2, lev2 = [f \in Frames |-> IF f \in T THEN 0 ELSE lev[f]],
           NEW own2, own2 = [f \in Frames |-> IF own[f] = root THEN KernelRoot ELSE own[f]],
           NEW cnt2, Counted(m, lev2, cnt2)
    PROVE  Shape(m, R \ {root}, lev2, own2, cnt2)
<1>1. /\ R \subseteq Frames /\ KernelRoot \in R
      /\ lev \in [Frames -> 0 .. 4] /\ own \in [Frames -> R]
      /\ \A g \in Frames : lev[g] = 1 <=> g \in R
      /\ \A r \in R : own[r] = r
  BY DEF Shape, LabelsOK
<1>2. /\ lev2 \in [Frames -> 0 .. 4] /\ own2 \in [Frames -> R \ {root}]
      /\ \A g \in Frames : g \in T <=> lev[g] > 0 /\ own[g] = root
      /\ \A g \in Frames : lev2[g] = IF g \in T THEN 0 ELSE lev[g]
      /\ \A g \in Frames : own2[g] = IF own[g] = root THEN KernelRoot ELSE own[g]
  BY <1>1 DEF TablesIn
<1>3. root \in T /\ \A r \in R : r # root => r \notin T
  BY <1>1, <1>2
<1>4. LabelsOK(R \ {root}, lev2, own2)
  <2>1. \A g \in Frames : lev2[g] = 1 <=> g \in R \ {root}
    BY <1>1, <1>2, <1>3
  <2>2. \A r \in R \ {root} : own2[r] = r
    BY <1>1, <1>2
  <2> QED BY <1>1, <1>2, <2>1, <2>2 DEF LabelsOK
<1>5. ASSUME NEW u \in Frames, NEW j \in Nat, Present(m, u, j)
      PROVE  /\ Present(mm, u, j) /\ u \notin T /\ At(m, u, j) = At(mm, u, j)
             /\ EntryOK(mm, lev, own, u, j) /\ lev[u] \in 1 .. 4
             /\ lev2[u] = lev[u] /\ own2[u] = own[u] /\ own[u] # root
  <2>1. Present(mm, u, j) /\ u \notin T /\ At(m, u, j) = At(mm, u, j)
    BY <1>5 DEF Cut
  <2>2. EntryOK(mm, lev, own, u, j)
    BY <2>1 DEF Shape, EntriesOK
  <2>3. lev[u] \in 1 .. 4
    BY ONLY <2>2 DEF EntryOK
  <2>4. own[u] # root
    BY <1>2, <2>1, <2>3
  <2> QED BY <1>2, <2>1, <2>2, <2>3, <2>4
<1>6. ASSUME NEW u \in Frames, NEW j \in Nat, Present(m, u, j)
      PROVE  EntryOK(m, lev2, own2, u, j)
  <2>1. /\ At(m, u, j) = At(mm, u, j) /\ EntryOK(mm, lev, own, u, j) /\ lev[u] \in 1 .. 4
        /\ lev2[u] = lev[u] /\ own2[u] = own[u] /\ own[u] # root
    BY <1>5, <1>6
  <2>2. Owner(lev2, own2, u, j) = Owner(lev, own, u, j) /\ Owner(lev, own, u, j) # root
    BY ONLY <2>1, root # KernelRoot DEF Owner
  <2>3. ASSUME ~At(mm, u, j).huge
        PROVE  /\ At(mm, u, j).to \in Frames
               /\ lev2[At(mm, u, j).to] = lev[At(mm, u, j).to]
               /\ lev[u] < 4 => own2[At(mm, u, j).to] = own[At(mm, u, j).to]
    <3>1. /\ At(mm, u, j).to \in Frames
          /\ lev[At(mm, u, j).to] = IF lev[u] = 4 THEN 0 ELSE lev[u] + 1
          /\ lev[u] < 4 => own[At(mm, u, j).to] = Owner(lev, own, u, j)
      BY ONLY <2>1, <2>3 DEF EntryOK
    <3>2. At(mm, u, j).to \notin T
      BY ONLY <1>2, <2>1, <2>2, <3>1
    <3> QED BY ONLY <1>2, <2>2, <3>1, <3>2
  <2> QED BY ONLY <2>1, <2>2, <2>3 DEF EntryOK
<1>7. Single(m, lev2)
  <2> SUFFICES ASSUME NEW t \in Frames, NEW u \in Frames, NEW i \in Nat, NEW j \in Nat,
                      Present(m, t, i), ~At(m, t, i).huge, lev2[t] < 4,
                      Present(m, u, j), ~At(m, u, j).huge, At(m, t, i).to = At(m, u, j).to
               PROVE  i = j /\ (t = u \/ lev2[t] = 1)
    BY DEF Single
  <2>1. /\ Present(mm, t, i) /\ At(m, t, i) = At(mm, t, i) /\ lev2[t] = lev[t]
        /\ Present(mm, u, j) /\ At(m, u, j) = At(mm, u, j)
    BY <1>5
  <2> QED BY <2>1 DEF Shape, Single
<1>8. Shared(m, R \ {root})
  <2> SUFFICES ASSUME NEW r \in R \ {root}, NEW i \in Nat, i # UserSlot
               PROVE  /\ Present(m, r, i) <=> Present(m, KernelRoot, i)
                      /\ Present(m, r, i) => At(m, r, i).to = At(m, KernelRoot, i).to
    BY DEF Shared
  <2>1. /\ Present(mm, r, i) <=> Present(mm, KernelRoot, i)
        /\ Present(mm, r, i) => At(mm, r, i).to = At(mm, KernelRoot, i).to
    BY DEF Shape, Shared
  <2>2. r \in Frames /\ KernelRoot \in Frames /\ r \notin T /\ KernelRoot \notin T
    BY <1>1, <1>3
  <2> QED BY ONLY <2>1, <2>2, Cut(mm, m, T), i \in Nat DEF Cut
<1>9. Reached(m, lev2)
  <2> SUFFICES ASSUME NEW g \in Frames, lev2[g] > 1
               PROVE  \E u \in Frames, j \in Nat :
                         Present(m, u, j) /\ ~At(m, u, j).huge /\ At(m, u, j).to = g
    BY DEF Reached
  <2>1. lev[g] > 1 /\ own[g] # root
    BY <1>1, <1>2
  <2>2. PICK u \in Frames, j \in Nat :
           Present(mm, u, j) /\ ~At(mm, u, j).huge /\ At(mm, u, j).to = g
    BY <2>1 DEF Shape, Reached
  <2>3. CASE u \notin T
    BY <2>2, <2>3 DEF Cut
  <2>4. CASE u \in T
    <3>1. EntryOK(mm, lev, own, u, j) /\ own[u] = root
      BY <1>2, <2>2, <2>4 DEF Shape, EntriesOK
    <3>2. lev[u] < 4 /\ own[g] = Owner(lev, own, u, j)
      <4>1. lev[u] \in 1 .. 4
        BY ONLY <3>1 DEF EntryOK
      <4> QED BY ONLY <2>1, <2>2, <3>1, <4>1 DEF EntryOK
    <3>3. lev[u] = 1 /\ j # UserSlot
      BY ONLY <2>1, <3>1, <3>2 DEF Owner
    <3>4. u \in R
      BY <1>1, <3>3
    <3>5. Present(mm, KernelRoot, j) /\ At(mm, KernelRoot, j).to = g
      BY <2>2, <3>3, <3>4 DEF Shape, Shared
    <3>6. KernelRoot \in Frames /\ KernelRoot \notin T /\ lev[KernelRoot] = 1
      BY <1>1, <1>3
    <3>7. EntryOK(mm, lev, own, KernelRoot, j)
      BY <3>5, <3>6 DEF Shape, EntriesOK
    <3>8. ~At(mm, KernelRoot, j).huge
      BY ONLY <3>6, <3>7 DEF EntryOK
    <3>9. Present(m, KernelRoot, j) /\ At(m, KernelRoot, j) = At(mm, KernelRoot, j)
      BY <3>5, <3>6 DEF Cut
    <3> QED BY <3>5, <3>6, <3>8, <3>9
  <2> QED BY <2>3, <2>4
<1>10. BootKept(m, lev2)
  <2>1. BootKept(mm, lev)
    BY DEF Shape
  <2>2. /\ IdentityPage[1] \in Nat /\ IdentityPage[2] \in Nat /\ IdentityPage[3] \in Nat
        /\ 1 \in Frames /\ 2 \in Frames /\ 3 \in Frames
    BY Constants
  <2>3. 1 \notin T /\ 2 \notin T /\ 3 \notin T
    BY <1>2, <2>2, BootOwned
  <2>4. lev2[2] = 2 /\ lev2[3] = 3
    BY <1>2, <2>1, <2>2, <2>3 DEF BootKept
  <2> QED BY ONLY Cut(mm, m, T), <2>1, <2>2, <2>3, <2>4 DEF BootKept, Cut
<1>11. MemOK(m)
  BY DEF Cut
<1> QED BY <1>4, <1>6, <1>7, <1>8, <1>9, <1>10, <1>11 DEF Shape, EntriesOK

\* The tables on the path of a page that may be mapped are those of its space.
LEMMA KeyPath ==
    ASSUME NEW mm, NEW R, NEW lev, NEW own, NEW cnt,
           Shape(mm, R, lev, own, cnt), NEW k \in Keys(R), NEW t2, NEW t3, NEW t4,
           Path(mm, k[1], k[2], t2, t3, t4)
    PROVE  /\ t2 \in TablesAt(lev, own, k[1], 2) /\ t3 \in TablesAt(lev, own, k[1], 3)
           /\ t4 \in TablesAt(lev, own, k[1], 4)
<1>1. k[1] \in R /\ IsPage(k[2]) /\ k[1] = IF k[2][1] = UserSlot THEN k[1] ELSE KernelRoot
  BY KeyIs DEF Shape, LabelsOK
<1>2. /\ own[t2] = k[1] /\ own[t3] = k[1] /\ own[t4] = k[1]
      /\ lev[t2] = 2 /\ lev[t3] = 3 /\ lev[t4] = 4
  BY ONLY Shape(mm, R, lev, own, cnt), Path(mm, k[1], k[2], t2, t3, t4), <1>1, PathLabels
<1>3. t2 \in Frames /\ t3 \in Frames /\ t4 \in Frames
  BY DEF Path
<1> QED BY <1>2, <1>3 DEF TablesAt

\* The pages of the other spaces stay mapped, and no others.
LEMMA LeavesCut ==
    ASSUME NEW mm, NEW R, NEW lev, NEW own, NEW cnt, NEW mp,
           Shape(mm, R, lev, own, cnt), MappedOK(R, mp), Leaves(mm, lev, mp),
           NEW root \in R, root # KernelRoot,
           NEW T, T = TablesIn(lev, own, root), NEW m, Cut(mm, m, T),
           NEW lev2, lev2 = [f \in Frames |-> IF f \in T THEN 0 ELSE lev[f]],
           NEW mp2, DOMAIN mp2 = {k \in DOMAIN mp : k[1] # root},
           \A k \in DOMAIN mp2 : mp2[k] = mp[k]
    PROVE  Leaves(m, lev2, mp2)
<1>1. /\ R \subseteq Frames /\ KernelRoot \in R /\ lev \in [Frames -> 0 .. 4]
      /\ \A r \in R : own[r] = r
      /\ \A g \in Frames : g \in T <=> lev[g] > 0 /\ own[g] = root
      /\ \A g \in Frames : lev2[g] = IF g \in T THEN 0 ELSE lev[g]
  BY DEF Shape, LabelsOK, TablesIn
<1>2. ASSUME NEW k \in DOMAIN mp
      PROVE  /\ k[1] \in R /\ k[1] \in Frames /\ IsPage(k[2])
             /\ k[2][1] = UserSlot <=> k[1] # KernelRoot
  BY <1>1, KeyIs DEF MappedOK
<1>3. \A k \in DOMAIN mp : k \in Keys(R)
  BY DEF MappedOK
<1>4. ASSUME NEW k \in DOMAIN mp2
      PROVE  /\ k \in DOMAIN mp /\ TableFor(m, k[1], k[2]) = TableFor(mm, k[1], k[2])
             /\ TableFor(mm, k[1], k[2]) \in Frames \ T
  <2>1. k \in DOMAIN mp /\ k[1] # root /\ k[1] \in R /\ k[1] \in Frames /\ IsPage(k[2])
    BY <1>2
  <2>2. PICK t2, t3, t4 : Path(mm, k[1], k[2], t2, t3, t4)
    BY <2>1, MappedPath
  <2>3. t2 \in Frames \ T /\ t3 \in Frames \ T /\ t4 \in Frames \ T /\ k[1] \notin T
    <3>1. own[k[1]] = k[1]
      BY <1>1, <2>1
    <3>2. /\ own[t2] = k[1] /\ own[t3] = k[1] /\ own[t4] = k[1]
          /\ t2 \in Frames /\ t3 \in Frames /\ t4 \in Frames
      <4>1. k \in Keys(R)
        BY <1>3, <2>1
      <4>2. /\ t2 \in TablesAt(lev, own, k[1], 2) /\ t3 \in TablesAt(lev, own, k[1], 3)
            /\ t4 \in TablesAt(lev, own, k[1], 4)
        BY ONLY Shape(mm, R, lev, own, cnt), <4>1, <2>2, KeyPath
      <4> QED BY ONLY <4>2 DEF TablesAt
    <3> QED BY ONLY <1>1, <2>1, <3>1, <3>2
  <2>4. Path(m, k[1], k[2], t2, t3, t4)
    BY ONLY Cut(mm, m, T), <2>1, <2>2, <2>3 DEF Path, Cut, IsPage
  <2>5. TableFor(m, k[1], k[2]) = t4 /\ TableFor(mm, k[1], k[2]) = t4
    BY <2>1, <2>2, <2>4, PathBelow
  <2> QED BY <2>1, <2>3, <2>5
<1>5. ASSUME NEW k \in DOMAIN mp2, NEW t, t = TableFor(m, k[1], k[2])
      PROVE  /\ t \in Frames /\ lev2[t] = 4
             /\ Present(m, t, k[2][4]) /\ At(m, t, k[2][4]).to = mp2[k]
  <2>1. k \in DOMAIN mp /\ t = TableFor(mm, k[1], k[2]) /\ t \in Frames /\ t \notin T
    BY <1>4, <1>5
  <2>2. lev[t] = 4 /\ Present(mm, t, k[2][4]) /\ At(mm, t, k[2][4]).to = mp[k]
    BY <2>1 DEF Leaves
  <2>3. k[2][4] \in Nat
    BY <1>2, <2>1 DEF IsPage
  <2>4. Present(m, t, k[2][4]) /\ At(m, t, k[2][4]) = At(mm, t, k[2][4])
    BY ONLY Cut(mm, m, T), <2>1, <2>2, <2>3 DEF Cut
  <2>5. lev2[t] = 4
    BY <1>1, <2>1, <2>2
  <2> QED BY <2>1, <2>2, <2>4, <2>5
<1>6. ASSUME NEW t \in Frames, NEW i \in Nat, Present(m, t, i), lev2[t] = 4
      PROVE  \E k \in DOMAIN mp2 : TableFor(m, k[1], k[2]) = t /\ k[2][4] = i
  <2>1. Present(mm, t, i) /\ t \notin T /\ lev[t] = 4
    BY <1>1, <1>6 DEF Cut
  <2>2. PICK k \in DOMAIN mp : TableFor(mm, k[1], k[2]) = t /\ k[2][4] = i
    BY <2>1 DEF Leaves
  <2>5. PICK t2, t3 : Path(mm, k[1], k[2], t2, t3, t)
    BY <1>2, <2>2, TableForPath
  <2>3. own[t] = k[1]
    <3>1. k \in Keys(R)
      BY <1>3
    <3>2. t \in TablesAt(lev, own, k[1], 4)
      BY ONLY Shape(mm, R, lev, own, cnt), <2>5, <3>1, KeyPath
    <3> QED BY ONLY <3>2 DEF TablesAt
  <2>4. k \in DOMAIN mp2
    BY <1>1, <2>1, <2>3
  <2> QED BY <1>4, <2>2, <2>4
<1> QED BY ONLY <1>5, <1>6 DEF Leaves

\* The entries of the last level in the tables of a space.
LeafEntries(lev, own, root) ==
    {x \in DOMAIN mem.entry : x[1] \in TablesAt(lev, own, root, 4)}

\* Those that lead to a frame, and the mappings of the frame in the space.
LeavesTo(lev, own, root, f) == {x \in LeafEntries(lev, own, root) : mem.entry[x].to = f}
MappedIn(mp, root, f)       == {k \in Mappings(mp, f) : k[1] = root}

\* The pages mapped in the other spaces.
Without(mp, root) == Restrict(mp, {k \in DOMAIN mp : k[1] # root})

\* The entries of a space that lead to a frame are as many as its mappings of
\* the frame.
LEMMA LeafCount ==
    ASSUME NEW R, NEW lev, NEW own, NEW cnt, NEW mp,
           Shape(mem, R, lev, own, cnt), MappedOK(R, mp), Leaves(mem, lev, mp),
           NEW root \in R, root # KernelRoot, NEW f,
           NEW X, X = LeavesTo(lev, own, root, f), NEW K, K = MappedIn(mp, root, f)
    PROVE  IsFiniteSet(K) /\ IsFiniteSet(X) /\ Cardinality(X) = Cardinality(K)
<1> DEFINE b == [k \in K |-> <<TableFor(mem, k[1], k[2]), k[2][4]>>]
<1>1. K \subseteq DOMAIN mp /\ \A k \in K : k[1] = root /\ mp[k] = f
  BY DEF Mappings, MappedIn
<1>2. IsFiniteSet(K)
  <2>1. IsFiniteSet(DOMAIN mp) /\ K \in SUBSET DOMAIN mp
    BY <1>1 DEF MappedOK
  <2> QED BY ONLY <2>1, FS_Subset
<1>3. /\ KernelRoot \in R /\ R \subseteq Frames /\ MemOK(mem)
      /\ \A k \in DOMAIN mp : k \in Keys(R)
  BY DEF Shape, LabelsOK, MappedOK
<1>4. ASSUME NEW k \in K
      PROVE  /\ k \in Keys(R) /\ IsPage(k[2])
             /\ \E t2, t3 : Path(mem, k[1], k[2], t2, t3, TableFor(mem, k[1], k[2]))
             /\ b[k] \in X
  <2> DEFINE t == TableFor(mem, k[1], k[2])
             i == k[2][4]
  <2>1. k \in Keys(R) /\ k \in DOMAIN mp /\ mp[k] = f /\ k[1] = root
    BY <1>1, <1>3
  <2>2. k[1] \in R /\ IsPage(k[2])
    BY <1>3, <2>1, KeyIs
  <2>3. t \in Frames /\ Present(mem, t, i) /\ At(mem, t, i).to = f
    BY <2>1 DEF Leaves
  <2>4. PICK t2, t3 : Path(mem, k[1], k[2], t2, t3, t)
    BY <2>2, <2>3, TableForPath
  <2>5. t \in TablesAt(lev, own, k[1], 4)
    <3> HIDE DEF t, i
    <3> QED BY ONLY Shape(mem, R, lev, own, cnt), <2>1, <2>4, KeyPath
  <2>6. b[k] = <<t, i>>
    OBVIOUS
  <2>7. /\ <<t, i>> \in DOMAIN mem.entry /\ <<t, i>>[1] = t /\ mem.entry[<<t, i>>].to = f
    BY <2>3 DEF Present, At
  <2> HIDE DEF t, i, b
  <2>8. b[k] \in X
    BY <2>1, <2>5, <2>6, <2>7 DEF LeafEntries, LeavesTo
  <2> QED BY <2>1, <2>2, <2>4, <2>8 DEF t
<1>5. b \in [K -> X]
  BY ONLY <1>4
<1>6. ASSUME NEW k \in K, NEW l \in K, b[k] = b[l]
      PROVE  k = l
  <2>1. /\ TableFor(mem, k[1], k[2]) = TableFor(mem, l[1], l[2]) /\ k[2][4] = l[2][4]
    BY <1>6
  <2> DEFINE t == TableFor(mem, k[1], k[2])
  <2>2. PICK t2, t3 : Path(mem, k[1], k[2], t2, t3, t)
    BY <1>4
  <2>3. PICK u2, u3 : Path(mem, l[1], l[2], u2, u3, t)
    BY <1>4, <2>1
  <2>4. k \in Keys(R) /\ l \in Keys(R)
    BY ONLY <1>4, <1>6
  <2> HIDE DEF t
  <2> QED BY ONLY Shape(mem, R, lev, own, cnt), <2>1, <2>2, <2>3, <2>4, KeyUnique
<1>7. ASSUME NEW x \in X
      PROVE  \E k \in K : b[k] = x
  <2>1. x \in DOMAIN mem.entry /\ x[1] \in TablesAt(lev, own, root, 4) /\ mem.entry[x].to = f
    BY DEF LeafEntries, LeavesTo
  <2>2. PICK t \in Frames, i \in Nat :
           x = <<t, i>> /\ Present(mem, t, i) /\ t = x[1] /\ mem.entry[x] = At(mem, t, i)
    BY <1>3, <2>1, EntryPairs
  <2>3. lev[t] = 4 /\ own[t] = root
    BY <2>1, <2>2 DEF TablesAt
  <2>4. PICK k \in DOMAIN mp : TableFor(mem, k[1], k[2]) = t /\ k[2][4] = i
    BY <2>2, <2>3 DEF Leaves
  <2>5. mp[k] = f
    BY <2>1, <2>2, <2>4 DEF Leaves
  <2>6. k \in Keys(R) /\ k[1] \in R /\ IsPage(k[2])
    BY <1>3, KeyIs
  <2>7. PICK t2, t3 : Path(mem, k[1], k[2], t2, t3, t)
    BY <2>4, <2>6, TableForPath
  <2>8. t \in TablesAt(lev, own, k[1], 4)
    BY ONLY Shape(mem, R, lev, own, cnt), <2>6, <2>7, KeyPath
  <2>9. k[1] = root
    BY ONLY <2>3, <2>8 DEF TablesAt
  <2>10. k \in K
    BY <2>5, <2>9 DEF Mappings, MappedIn
  <2>11. b[k] = <<TableFor(mem, k[1], k[2]), k[2][4]>>
    BY <2>10
  <2> HIDE DEF b
  <2> QED BY <2>2, <2>4, <2>10, <2>11
<1> HIDE DEF b
<1>8. b \in Bijection(K, X)
  <2>1. DOMAIN b = K
    BY <1>5
  <2>2. b \in Injection(K, X)
    BY ONLY <1>5, <1>6, <2>1 DEF Injection, IsInjective
  <2>3. b \in Surjection(K, X)
    BY ONLY <1>5, <1>7 DEF Surjection
  <2> QED BY ONLY <2>2, <2>3 DEF Bijection
<1>9. ExistsBijection(K, X)
  BY ONLY <1>8 DEF ExistsBijection
<1> QED BY ONLY <1>2, <1>9, FS_Bijection

\* The mappings of a frame without those of one space.
LEMMA CountWithout ==
    ASSUME NEW mp, IsFiniteSet(DOMAIN mp), NEW root, NEW f \in Frames,
           NEW mp2, mp2 = Without(mp, root), NEW K, K = MappedIn(mp, root, f)
    PROVE  /\ Count(mp2)[f] = Count(mp)[f] - Cardinality(K)
           /\ Cardinality(K) \in Nat /\ Cardinality(K) <= Count(mp)[f]
<1>1. /\ DOMAIN mp2 = {k \in DOMAIN mp : k[1] # root}
      /\ \A k \in DOMAIN mp2 : mp2[k] = mp[k]
  BY DEF Restrict, Without
<1>2. IsFiniteSet(Mappings(mp, f)) /\ Count(mp)[f] = Cardinality(Mappings(mp, f))
  BY CountIs
<1>3. Mappings(mp2, f) = Mappings(mp, f) \ K /\ Mappings(mp, f) \cap K = K
  BY <1>1 DEF Mappings, MappedIn
<1>4. Count(mp2)[f] = Cardinality(Mappings(mp2, f))
  BY DEF Count
<1>5. K \in SUBSET Mappings(mp, f)
  BY DEF MappedIn
<1>6. IsFiniteSet(K) /\ Cardinality(K) <= Cardinality(Mappings(mp, f))
  BY ONLY <1>2, <1>5, FS_Subset
<1>7. Cardinality(K) \in Nat
  BY ONLY <1>6, FS_CardinalityType
<1>8. Cardinality(Mappings(mp, f) \ K) = Cardinality(Mappings(mp, f)) - Cardinality(K)
  <2> DEFINE M == Mappings(mp, f)
  <2>1. IsFiniteSet(M) /\ M \cap K = K
    BY <1>2, <1>3
  <2> HIDE DEF M
  <2>2. Cardinality(M \ K) = Cardinality(M) - Cardinality(M \cap K)
    BY ONLY <2>1, FS_Difference
  <2>3. Cardinality(M \cap K) = Cardinality(K)
    BY ONLY <2>1
  <2> QED BY <2>2, <2>3 DEF M
<1> QED BY ONLY <1>2, <1>3, <1>4, <1>6, <1>7, <1>8

\* What hal_pt_destroy visits: the tables of the space, and the entries of its
\* last level.
LEMMA DestroyVisits ==
    ASSUME NEW R, NEW lev, NEW own, NEW cnt, Shape(mem, R, lev, own, cnt),
           NEW root \in R, root # KernelRoot, hal_pt_destroy(root),
           NEW T, T = TablesIn(lev, own, root), NEW L, L = LeafEntries(lev, own, root)
    PROVE  /\ mem' = [entry |-> Restrict(mem.entry, DOMAIN mem.entry \ EntriesOf(T)),
                      ref   |-> [f \in Frames |->
                                    IF f \in T THEN 0
                                    ELSE IF \E x \in L : mem.entry[x].to = f
                                    THEN Unreferenced(L, f) ELSE mem.ref[f]]]
           /\ root # cr3 /\ spaces' = spaces \ {root} /\ cr3' = cr3 /\ tlb' = tlb
           /\ mapped' = Without(mapped, root)
<1> DEFINE pdpts  == TablesOf(OwnEntries(root))
           pds    == TablesOf(EntriesOf(pdpts))
           pts    == TablesOf(EntriesOf(pds))
           huge   == {x \in EntriesOf(pds) : mem.entry[x].huge}
           leaves == huge \cup EntriesOf(pts)
           tables == {root} \cup pdpts \cup pds \cup pts
<1>1. pdpts = TablesAt(lev, own, root, 2)
  BY SecondLevel
<1>2. pds = TablesAt(lev, own, root, 3)
  <2> HIDE DEF pdpts
  <2>1. 2 \in 2 .. 3 /\ 2 + 1 = 3
    OBVIOUS
  <2>2. TablesOf(EntriesOf(pdpts)) = TablesAt(lev, own, root, 2 + 1)
    BY ONLY <1>1, <2>1, Shape(mem, R, lev, own, cnt), root \in R, root # KernelRoot, NextLevel
  <2> QED BY <2>1, <2>2
<1>3. pts = TablesAt(lev, own, root, 4) /\ huge = {}
  <2> HIDE DEF pds
  <2>1. 3 \in 2 .. 3 /\ 3 + 1 = 4
    OBVIOUS
  <2>2. /\ TablesOf(EntriesOf(pds)) = TablesAt(lev, own, root, 3 + 1)
        /\ \A x \in EntriesOf(pds) : ~mem.entry[x].huge
    BY ONLY <1>2, <2>1, Shape(mem, R, lev, own, cnt), root \in R, root # KernelRoot, NextLevel
  <2> QED BY <2>1, <2>2
<1>4. /\ mem' = [entry |-> Restrict(mem.entry, DOMAIN mem.entry \ EntriesOf(tables)),
                 ref   |-> [f \in Frames |->
                               IF f \in tables THEN 0
                               ELSE IF \E x \in leaves : mem.entry[x].to = f
                               THEN Unreferenced(leaves, f) ELSE mem.ref[f]]]
      /\ root # cr3 /\ spaces' = spaces \ {root} /\ cr3' = cr3 /\ tlb' = tlb
      /\ mapped' = Without(mapped, root)
  BY DEF hal_pt_destroy, LeftFirst, Without
<1>5. leaves = L
  <2> HIDE DEF pts
  <2> QED BY <1>3 DEF LeafEntries, EntriesOf
<1>t. tables = {root} \cup pdpts \cup pds \cup pts
  OBVIOUS
<1> HIDE DEF pdpts, pds, pts, huge, leaves, tables
<1>6. tables = T
  <2>1. /\ lev \in [Frames -> 0 .. 4] /\ R \subseteq Frames /\ own[root] = root /\ lev[root] = 1
        /\ \A g \in Frames : lev[g] = 1 => g \in R /\ own[g] = g
    BY DEF Shape, LabelsOK
  <2>2. \A g \in Frames : lev[g] > 0 <=> lev[g] = 1 \/ lev[g] = 2 \/ lev[g] = 3 \/ lev[g] = 4
    BY <2>1
  <2>3. \A g : g \in T <=> g \in Frames /\ lev[g] > 0 /\ own[g] = root
    BY DEF TablesIn
  <2>4. \A g : g \in tables <=>
           \/ g = root
           \/ g \in Frames /\ own[g] = root /\ (lev[g] = 2 \/ lev[g] = 3 \/ lev[g] = 4)
    BY <1>1, <1>2, <1>3, <1>t DEF TablesAt
  <2>5. \A g : g \in tables <=> g \in T
    BY <2>1, <2>2, <2>3, <2>4
  <2> QED BY <2>5
<1> QED BY <1>4, <1>5, <1>6

\* The entries of the tables of a space go with them.
LEMMA DestroyCuts ==
    ASSUME MemOK(mem), NEW T \in SUBSET Frames, NEW r \in [Frames -> Nat],
           mem' = [entry |-> Restrict(mem.entry, DOMAIN mem.entry \ EntriesOf(T)), ref |-> r]
    PROVE  Cut(mem, mem', T) /\ mem'.ref = r
<1> DEFINE g == Restrict(mem.entry, DOMAIN mem.entry \ EntriesOf(T))
<1>1. /\ DOMAIN g = DOMAIN mem.entry \ EntriesOf(T) /\ \A x \in DOMAIN g : g[x] = mem.entry[x]
      /\ g = [x \in DOMAIN g |-> g[x]]
  BY DEF Restrict
<1>2. mem' = [entry |-> g, ref |-> r]
  OBVIOUS
<1> HIDE DEF g
<1>3. mem'.entry = g /\ mem'.ref = r
  BY ONLY <1>2
<1>4. ASSUME NEW u \in Frames, NEW j \in Nat
      PROVE  /\ Present(mem', u, j) <=> Present(mem, u, j) /\ u \notin T
             /\ Present(mem', u, j) => At(mem', u, j) = At(mem, u, j)
  <2>1. <<u, j>>[1] = u
    OBVIOUS
  <2>2. <<u, j>> \in DOMAIN g <=> <<u, j>> \in DOMAIN mem.entry /\ u \notin T
    BY <1>1, <2>1 DEF EntriesOf
  <2> QED BY ONLY <1>1, <1>3, <2>2 DEF Present, At
<1>5. MemOK(mem')
  <2>1. mem' = [entry |-> mem'.entry, ref |-> mem'.ref]
    BY ONLY <1>2, <1>3
  <2>2. mem'.entry = [x \in DOMAIN mem'.entry |-> mem'.entry[x]]
    BY ONLY <1>1, <1>3
  <2>3. DOMAIN mem'.entry \subseteq Frames \X Nat /\ mem'.ref \in [Frames -> Nat]
    BY <1>1, <1>3 DEF MemOK
  <2>4. \A u \in Frames, j \in Nat : Present(mem', u, j) => At(mem', u, j) \in Entries
    BY <1>4 DEF MemOK
  <2> QED BY ONLY <2>1, <2>2, <2>3, <2>4 DEF MemOK
<1> QED BY ONLY <1>3, <1>4, <1>5 DEF Cut

\* What hal_pt_destroy leaves of a count: a table of the space is free, another
\* table keeps its one reference, and a page as many as it still has mappings.
LEMMA DestroyCounts ==
    ASSUME NEW R, NEW lev, NEW own, NEW mp,
           Shape(mem, R, lev, own, Count(mp)), MappedOK(R, mp), Leaves(mem, lev, mp),
           NEW root \in R, root # KernelRoot,
           NEW T, T = TablesIn(lev, own, root), NEW L, L = LeafEntries(lev, own, root),
           NEW mp2, mp2 = Without(mp, root),
           NEW f \in Frames,
           NEW n, n = IF f \in T THEN 0
                      ELSE IF \E x \in L : mem.entry[x].to = f
                      THEN Unreferenced(L, f) ELSE mem.ref[f]
    PROVE  /\ n = IF f \in T THEN 0 ELSE IF lev[f] > 0 THEN 1 ELSE Count(mp2)[f]
           /\ lev[f] > 0 => Count(mp2)[f] = 0
           /\ Count(mp2)[f] \in Nat /\ Count(mp2)[f] <= Count(mp)[f]
<1> DEFINE K == MappedIn(mp, root, f)
           X == LeavesTo(lev, own, root, f)
           c == Count(mp)[f]
           d == Count(mp2)[f]
           a == Cardinality(X)
<1>1. /\ MemOK(mem) /\ lev \in [Frames -> 0 .. 4] /\ mem.ref[f] \in Nat
      /\ mem.ref[f] = IF lev[f] > 0 THEN 1 ELSE c
      /\ lev[f] > 0 => c = 0
  BY DEF Shape, LabelsOK, Counted, MemOK
<1>2. IsFiniteSet(DOMAIN mp)
  BY DEF MappedOK
<1>3. c \in Nat
  BY <1>2, CountIs
<1>4. X = {x \in L : mem.entry[x].to = f}
  BY DEF LeavesTo
<1>5. IsFiniteSet(X) /\ a = Cardinality(K)
  BY ONLY Shape(mem, R, lev, own, Count(mp)), MappedOK(R, mp),
          Leaves(mem, lev, mp), root \in R, root # KernelRoot, LeafCount
<1>6. d = c - a /\ a \in Nat /\ a <= c
  <2>1. d = c - Cardinality(K) /\ Cardinality(K) \in Nat /\ Cardinality(K) <= c
    BY ONLY <1>2, f \in Frames, mp2 = Without(mp, root), CountWithout
  <2> QED BY ONLY <1>5, <2>1
<1> HIDE DEF X
<1>7. (\E x \in L : mem.entry[x].to = f) <=> a # 0
  <2>1. (\E x \in L : mem.entry[x].to = f) <=> X # {}
    BY <1>4
  <2>2. a = 0 <=> X = {}
    BY ONLY <1>5, FS_EmptySet
  <2> QED BY ONLY <2>1, <2>2
<1>8. Unreferenced(L, f) = IF a < mem.ref[f] THEN mem.ref[f] - a ELSE 0
  BY <1>4 DEF Unreferenced
<1>9. f \in T => lev[f] > 0
  BY DEF TablesIn
<1> HIDE DEF a, c, d, K
<1>10. n = IF f \in T THEN 0 ELSE IF a # 0 THEN (IF a < mem.ref[f] THEN mem.ref[f] - a ELSE 0)
           ELSE mem.ref[f]
  BY <1>7, <1>8
<1>11. /\ n = IF f \in T THEN 0 ELSE IF lev[f] > 0 THEN 1 ELSE d
       /\ lev[f] > 0 => d = 0
       /\ d \in Nat /\ d <= c
  <2>1. CASE lev[f] > 0
    BY ONLY <1>1, <1>3, <1>6, <1>10, <2>1
  <2>2. CASE ~(lev[f] > 0)
    BY ONLY <1>1, <1>3, <1>6, <1>9, <1>10, <2>2
  <2> QED BY <2>1, <2>2
<1> QED BY ONLY <1>11 DEF c, d

\* What stays mapped without one space may be mapped without it.
LEMMA WithoutOK ==
    ASSUME NEW R, NEW mp, MappedOK(R, mp), NEW root, NEW mp2, mp2 = Without(mp, root)
    PROVE  MappedOK(R \ {root}, mp2)
<1>1. /\ DOMAIN mp2 = {k \in DOMAIN mp : k[1] # root}
      /\ \A k \in DOMAIN mp2 : mp2[k] = mp[k]
  BY DEF Without, Restrict
<1>2. IsFiniteSet(DOMAIN mp2)
  <2>1. DOMAIN mp2 \in SUBSET DOMAIN mp /\ IsFiniteSet(DOMAIN mp)
    BY <1>1 DEF MappedOK
  <2> QED BY ONLY <2>1, FS_Subset
<1>3. ASSUME NEW k \in DOMAIN mp2
      PROVE  k \in Keys(R \ {root}) /\ mp2[k] \in Frames
  <2>1. k \in DOMAIN mp /\ k[1] # root /\ mp2[k] = mp[k]
    BY <1>1
  <2>2. k \in Keys(R) /\ mp[k] \in Frames
    BY <2>1 DEF MappedOK
  <2> QED BY <2>1, <2>2 DEF Keys
<1> QED BY <1>2, <1>3 DEF MappedOK

\* The counts that hal_pt_destroy leaves are right.
LEMMA DestroyCounted ==
    ASSUME NEW R, NEW lev, NEW own, NEW mp,
           Shape(mem, R, lev, own, Count(mp)), MappedOK(R, mp), Leaves(mem, lev, mp),
           NEW root \in R, root # KernelRoot,
           NEW T, T = TablesIn(lev, own, root), NEW L, L = LeafEntries(lev, own, root),
           NEW mp2, mp2 = Without(mp, root), NEW m, Cut(mem, m, T),
           \A f \in Frames : m.ref[f] = IF f \in T THEN 0
                                        ELSE IF \E x \in L : mem.entry[x].to = f
                                        THEN Unreferenced(L, f) ELSE mem.ref[f],
           NEW lev2, lev2 = [f \in Frames |-> IF f \in T THEN 0 ELSE lev[f]]
    PROVE  /\ Counted(m, lev2, Count(mp2)) /\ Leaves(m, lev2, mp2)
           /\ \A f \in Frames : Count(mp2)[f] \in Nat /\ Count(mp2)[f] <= Count(mp)[f]
<1>1. /\ DOMAIN mp2 = {k \in DOMAIN mp : k[1] # root}
      /\ \A k \in DOMAIN mp2 : mp2[k] = mp[k]
  BY DEF Without, Restrict
<1>w. MappedOK(R \ {root}, mp2)
  BY ONLY MappedOK(R, mp), mp2 = Without(mp, root), WithoutOK
<1>2. Leaves(m, lev2, mp2)
  BY <1>1, LeavesCut
<1>3. \A f \in Frames : lev2[f] = IF f \in T THEN 0 ELSE lev[f]
  OBVIOUS
<1>4. IsFiniteSet(DOMAIN mp2) /\ \A k \in DOMAIN mp2 : mp2[k] \in Frames
  BY <1>w DEF MappedOK
<1>5. /\ Count(mp2) \in [Frames -> Nat]
      /\ \A f \in Frames : Count(mp2)[f] = 0 <=> \A k \in DOMAIN mp2 : mp2[k] # f
  BY <1>4, CountIs
<1>6. ASSUME NEW f \in Frames
      PROVE  /\ m.ref[f] = IF f \in T THEN 0 ELSE IF lev[f] > 0 THEN 1 ELSE Count(mp2)[f]
             /\ lev[f] > 0 => Count(mp2)[f] = 0
             /\ Count(mp2)[f] \in Nat /\ Count(mp2)[f] <= Count(mp)[f]
  <2> DEFINE n == m.ref[f]
  <2>1. n = IF f \in T THEN 0
            ELSE IF \E x \in L : mem.entry[x].to = f THEN Unreferenced(L, f) ELSE mem.ref[f]
    OBVIOUS
  <2> HIDE DEF n
  <2>2. /\ n = IF f \in T THEN 0 ELSE IF lev[f] > 0 THEN 1 ELSE Count(mp2)[f]
        /\ lev[f] > 0 => Count(mp2)[f] = 0
        /\ Count(mp2)[f] \in Nat /\ Count(mp2)[f] <= Count(mp)[f]
    BY ONLY Shape(mem, R, lev, own, Count(mp)), MappedOK(R, mp),
            Leaves(mem, lev, mp), root \in R, root # KernelRoot, T = TablesIn(lev, own, root),
            L = LeafEntries(lev, own, root), mp2 = Without(mp, root), f \in Frames,
            <2>1, DestroyCounts
  <2> QED BY <2>2 DEF n
<1>7. \A f \in T : f \in Frames /\ lev[f] > 0
  BY DEF TablesIn
<1>8. \A f \in Frames : m.ref[f] = IF lev2[f] > 0 THEN 1 ELSE Count(mp2)[f]
  BY ONLY <1>3, <1>6, <1>7
<1>9. \A f \in Frames : lev2[f] > 0 => Count(mp2)[f] = 0
  BY ONLY <1>3, <1>6, <1>7
<1>10. ASSUME NEW t \in Frames, NEW i \in Nat, Present(m, t, i), lev2[t] = 4
       PROVE  Count(mp2)[At(m, t, i).to] > 0
  <2>1. PICK k \in DOMAIN mp2 : TableFor(m, k[1], k[2]) = t /\ k[2][4] = i
    BY <1>2, <1>10 DEF Leaves
  <2>2. At(m, t, i).to = mp2[k]
    BY <1>2, <2>1 DEF Leaves
  <2>3. mp2[k] \in Frames
    BY <1>4
  <2>4. Count(mp2)[mp2[k]] \in Nat /\ Count(mp2)[mp2[k]] # 0
    BY <1>5, <2>3
  <2> QED BY ONLY <2>2, <2>4
<1> QED BY ONLY <1>2, <1>5, <1>6, <1>8, <1>9, <1>10 DEF Counted

\* hal_pt_destroy ends one space and leaves the others as they were.
LEMMA DestroyKeeps ==
    ASSUME PagingInv, NEW root \in spaces, hal_pt_destroy(root)
    PROVE  PagingInv'
<1>1. /\ spaces \subseteq Frames \ {KernelRoot} /\ cr3 \in Roots
      /\ MappedOK(Roots, mapped) /\ KernelAlone(mapped)
      /\ \A f \in Frames : Count(mapped)[f] <= Shares + 1
      /\ TlbOK(tlb, mapped, cr3)
  BY DEF PagingInv
<1>2. PICK lev, own : Shape(mem, Roots, lev, own, Count(mapped)) /\ Leaves(mem, lev, mapped)
  BY DEF PagingInv, Tabled
<1>3. root \in Roots /\ root # KernelRoot
  BY <1>1 DEF Roots
<1> DEFINE T    == TablesIn(lev, own, root)
           L    == LeafEntries(lev, own, root)
           mp2  == Without(mapped, root)
           r    == [f \in Frames |-> IF f \in T THEN 0
                                     ELSE IF \E x \in L : mem.entry[x].to = f
                                     THEN Unreferenced(L, f) ELSE mem.ref[f]]
           lev2 == [f \in Frames |-> IF f \in T THEN 0 ELSE lev[f]]
           own2 == [f \in Frames |-> IF own[f] = root THEN KernelRoot ELSE own[f]]
<1>4. /\ mem' = [entry |-> Restrict(mem.entry, DOMAIN mem.entry \ EntriesOf(T)), ref |-> r]
      /\ root # cr3 /\ spaces' = spaces \ {root} /\ cr3' = cr3 /\ tlb' = tlb
      /\ mapped' = mp2
  <2> HIDE DEF Roots
  <2> QED BY <1>2, <1>3, DestroyVisits
<1>5. Roots' = Roots \ {root} /\ KernelRoot \in Roots
  BY <1>3, <1>4 DEF Roots
<1>6. MemOK(mem) /\ mem.ref \in [Frames -> Nat] /\ T \in SUBSET Frames
  BY <1>2 DEF Shape, MemOK, TablesIn
<1>7. r \in [Frames -> Nat]
  <2>1. \A f \in Frames : r[f] \in Nat
    <3> SUFFICES ASSUME NEW f \in Frames PROVE r[f] \in Nat
      OBVIOUS
    <3> DEFINE n == IF f \in T THEN 0
                    ELSE IF \E x \in L : mem.entry[x].to = f
                    THEN Unreferenced(L, f) ELSE mem.ref[f]
    <3>1. n = IF f \in T THEN 0
              ELSE IF \E x \in L : mem.entry[x].to = f THEN Unreferenced(L, f) ELSE mem.ref[f]
      OBVIOUS
    <3>2. r[f] = n
      OBVIOUS
    <3>5. Count(mapped) \in [Frames -> Nat]
      BY <1>1, CountIs DEF MappedOK
    <3> HIDE DEF n, r, T, L, mp2, lev2, own2
    <3>3. n = IF f \in T THEN 0 ELSE IF lev[f] > 0 THEN 1 ELSE Count(mp2)[f]
      BY <1>1, <1>2, <1>3, <3>1, DestroyCounts DEF T, L, mp2
    <3>4. Count(mp2)[f] \in Nat
      BY <1>1, <1>2, <1>3, <3>1, DestroyCounts DEF T, L, mp2
    <3> QED BY ONLY <3>2, <3>3, <3>4
  <2> QED BY <2>1
<1>f. \A f \in Frames : r[f] = IF f \in T THEN 0
                               ELSE IF \E x \in L : mem.entry[x].to = f
                               THEN Unreferenced(L, f) ELSE mem.ref[f]
  OBVIOUS
<1>e. /\ lev2 = [f \in Frames |-> IF f \in T THEN 0 ELSE lev[f]]
      /\ own2 = [f \in Frames |-> IF own[f] = root THEN KernelRoot ELSE own[f]]
      /\ T = TablesIn(lev, own, root) /\ L = LeafEntries(lev, own, root)
      /\ mp2 = Without(mapped, root)
  OBVIOUS
<1> HIDE DEF T, L, mp2, r, lev2, own2
<1>8. Cut(mem, mem', T) /\ mem'.ref = r
  BY ONLY <1>4, <1>6, <1>7, DestroyCuts
<1>9. /\ Counted(mem', lev2, Count(mp2)) /\ Leaves(mem', lev2, mp2)
      /\ \A f \in Frames : Count(mp2)[f] \in Nat /\ Count(mp2)[f] <= Count(mapped)[f]
  <2> DEFINE m == mem'
  <2>1. \A f \in Frames : m.ref[f] = IF f \in T THEN 0
                                     ELSE IF \E x \in L : mem.entry[x].to = f
                                     THEN Unreferenced(L, f) ELSE mem.ref[f]
    BY ONLY <1>8, <1>f
  <2>2. Cut(mem, m, T)
    BY ONLY <1>8
  <2> HIDE DEF m
  <2>3. /\ Counted(m, lev2, Count(mp2)) /\ Leaves(m, lev2, mp2)
        /\ \A f \in Frames : Count(mp2)[f] \in Nat /\ Count(mp2)[f] <= Count(mapped)[f]
    BY ONLY <1>1, <1>2, <1>3, <1>e, <2>1, <2>2, DestroyCounted
  <2> QED BY <2>3 DEF m
<1>10. Shape(mem', Roots \ {root}, lev2, own2, Count(mp2))
  BY ONLY <1>2, <1>3, <1>8, <1>9, <1>e, CutKeeps
<1>11. /\ DOMAIN mp2 = {k \in DOMAIN mapped : k[1] # root}
       /\ \A k \in DOMAIN mp2 : mp2[k] = mapped[k]
  BY ONLY <1>e DEF Without, Restrict
<1>w. MappedOK(Roots \ {root}, mp2)
  BY ONLY <1>1, <1>e, WithoutOK
<1>12. Tabled(mem', Roots \ {root}, mp2)
  BY ONLY <1>9, <1>10 DEF Tabled
<1>13. KernelAlone(mp2)
  BY <1>1, <1>11 DEF KernelAlone
<1>14. \A f \in Frames : Count(mp2)[f] <= Shares + 1
  <2>1. Count(mapped) \in [Frames -> Nat] /\ Shares \in Nat
    BY <1>1, Constants, CountIs DEF MappedOK
  <2> QED BY ONLY <1>1, <1>9, <2>1
<1>15. TlbOK(tlb, mp2, cr3)
  <2> SUFFICES ASSUME NEW vb \in DOMAIN tlb
               PROVE  vb \in UserPages \cup KernelPages /\ tlb[vb] = Expected(mp2, cr3, vb)
    BY DEF TlbOK
  <2>1. vb \in UserPages \cup KernelPages /\ tlb[vb] = Expected(mapped, cr3, vb)
    BY <1>1 DEF TlbOK
  <2> DEFINE k == <<IF vb[1] = UserSlot THEN cr3 ELSE KernelRoot, vb>>
  <2>2. k[1] # root
    BY <1>3, <1>4
  <2>e. /\ Expected(mapped, cr3, vb) =
              IF k \in DOMAIN mapped THEN mapped[k] ELSE IF InIdentityMap(vb) THEN 0 ELSE -1
        /\ Expected(mp2, cr3, vb) =
              IF k \in DOMAIN mp2 THEN mp2[k] ELSE IF InIdentityMap(vb) THEN 0 ELSE -1
    BY DEF Expected
  <2> HIDE DEF k
  <2>3. k \in DOMAIN mp2 <=> k \in DOMAIN mapped
    BY ONLY <1>11, <2>2
  <2>4. Expected(mp2, cr3, vb) = Expected(mapped, cr3, vb)
    BY ONLY <1>11, <2>3, <2>e
  <2> QED BY ONLY <2>1, <2>4
<1>16. spaces' \subseteq Frames \ {KernelRoot} /\ cr3' \in Roots'
  BY <1>1, <1>4, <1>5
<1> QED BY ONLY <1>4, <1>5, <1>w, <1>12, <1>13, <1>14, <1>15, <1>16 DEF PagingInv

----------------------------------------------------------------------------
(* The invariant.                                                          *)

\* The bootstrap's tables.
LEMMA InitBoot ==
    ASSUME Init
    PROVE  /\ MemOK(mem)
           /\ \A t \in Frames, i \in Nat :
                 /\ Present(mem, t, i) <=> t \in 1 .. 3 /\ i = IdentityPage[t]
                 /\ Present(mem, t, i) =>
                       At(mem, t, i) = IF t = 3 THEN Entry(0, FALSE, TRUE)
                                       ELSE Entry(t + 1, FALSE, FALSE)
           /\ \A f \in Frames : mem.ref[f] = IF f <= 3 THEN 1 ELSE 0
<1>1. mem = [entry |-> BootTables, ref |-> [f \in Frames |-> IF f <= 3 THEN 1 ELSE 0]]
  BY DEF Init
<1> DEFINE D == {<<1, IdentityPage[1]>>, <<2, IdentityPage[2]>>, <<3, IdentityPage[3]>>}
           r == [f \in Frames |-> IF f <= 3 THEN 1 ELSE 0]
<1>2. /\ DOMAIN BootTables = D /\ BootTables = [x \in D |-> BootTables[x]]
      /\ \A x \in D : BootTables[x] = IF x[1] = 3 THEN Entry(0, FALSE, TRUE)
                                      ELSE Entry(x[1] + 1, FALSE, FALSE)
  BY DEF BootTables
<1>3. /\ IdentityPage[1] \in Nat /\ IdentityPage[2] \in Nat /\ IdentityPage[3] \in Nat
      /\ 1 \in Frames /\ 2 \in Frames /\ 3 \in Frames /\ Frames \subseteq Nat
  BY Constants
<1>4. mem.entry = BootTables /\ mem.ref = r
  BY ONLY <1>1
<1>5. r \in [Frames -> Nat] /\ \A f \in Frames : r[f] = IF f <= 3 THEN 1 ELSE 0
  OBVIOUS
<1>6. ASSUME NEW t \in Frames, NEW i \in Nat
      PROVE  /\ Present(mem, t, i) <=> t \in 1 .. 3 /\ i = IdentityPage[t]
             /\ Present(mem, t, i) =>
                   At(mem, t, i) = IF t = 3 THEN Entry(0, FALSE, TRUE)
                                   ELSE Entry(t + 1, FALSE, FALSE)
  <2>1. t \in Nat /\ <<t, i>>[1] = t
    BY <1>3
  <2>2. <<t, i>> \in D <=> (t = 1 \/ t = 2 \/ t = 3) /\ i = IdentityPage[t]
    OBVIOUS
  <2>3. t \in 1 .. 3 <=> t = 1 \/ t = 2 \/ t = 3
    BY ONLY <2>1
  <2> HIDE DEF D
  <2>4. Present(mem, t, i) <=> t \in 1 .. 3 /\ i = IdentityPage[t]
    BY ONLY <1>2, <1>4, <2>2, <2>3 DEF Present
  <2>5. Present(mem, t, i) =>
           At(mem, t, i) = IF t = 3 THEN Entry(0, FALSE, TRUE) ELSE Entry(t + 1, FALSE, FALSE)
    BY ONLY <1>2, <1>4, <2>1 DEF Present, At
  <2> QED BY ONLY <2>4, <2>5
<1>7. MemOK(mem)
  <2>1. D \subseteq Frames \X Nat
    BY <1>3
  <2>2. \A t \in Frames, i \in Nat : Present(mem, t, i) => At(mem, t, i) \in Entries
    <3> SUFFICES ASSUME NEW t \in Frames, NEW i \in Nat, Present(mem, t, i)
                 PROVE  At(mem, t, i) \in Entries
      OBVIOUS
    <3>1. /\ t \in 1 .. 3
          /\ At(mem, t, i) = IF t = 3 THEN Entry(0, FALSE, TRUE) ELSE Entry(t + 1, FALSE, FALSE)
      BY ONLY <1>6, t \in Frames, i \in Nat, Present(mem, t, i)
    <3>2. t # 3 => t + 1 \in Frames
      BY ONLY <1>3, <3>1
    <3> QED BY ONLY <3>1, <3>2 DEF Entry, Entries
  <2>3. mem = [entry |-> mem.entry, ref |-> mem.ref]
    BY ONLY <1>1, <1>4
  <2> HIDE DEF D, r
  <2>4. mem.entry = [x \in DOMAIN mem.entry |-> mem.entry[x]] /\ DOMAIN mem.entry = D
    BY ONLY <1>2, <1>4
  <2> QED BY ONLY <1>4, <1>5, <2>1, <2>2, <2>3, <2>4 DEF MemOK
<1> HIDE DEF r
<1> QED BY ONLY <1>4, <1>5, <1>6, <1>7

\* The bootstrap's tables are in shape, with nothing mapped.
LEMMA InitKeeps ==
    ASSUME Init
    PROVE  PagingInv
<1>1. /\ spaces = {} /\ cr3 = KernelRoot /\ DOMAIN tlb = {} /\ DOMAIN mapped = {}
      /\ Roots = {KernelRoot}
  BY DEF Init, Roots
<1>2. /\ MemOK(mem)
      /\ \A t \in Frames, i \in Nat :
            /\ Present(mem, t, i) <=> t \in 1 .. 3 /\ i = IdentityPage[t]
            /\ Present(mem, t, i) =>
                  At(mem, t, i) = IF t = 3 THEN Entry(0, FALSE, TRUE)
                                  ELSE Entry(t + 1, FALSE, FALSE)
      /\ \A f \in Frames : mem.ref[f] = IF f <= 3 THEN 1 ELSE 0
  BY InitBoot
<1>3. /\ IdentityPage[1] \in Nat /\ IdentityPage[2] \in Nat /\ IdentityPage[3] \in Nat
      /\ IdentityPage[1] # UserSlot
      /\ 1 \in Frames /\ 2 \in Frames /\ 3 \in Frames /\ Frames \subseteq Nat
      /\ 0 \notin Frames /\ KernelRoot = 1
  BY Constants
<1>4. MappedOK(Roots, mapped)
  <2>1. IsFiniteSet(DOMAIN mapped)
    BY ONLY <1>1, FS_EmptySet
  <2> QED BY <1>1, <2>1 DEF MappedOK
<1>5. Count(mapped) \in [Frames -> Nat] /\ \A f \in Frames : Count(mapped)[f] = 0
  BY <1>1, <1>4, CountIs DEF MappedOK
<1> DEFINE lev == [f \in Frames |-> IF f <= 3 THEN f ELSE 0]
           own == [f \in Frames |-> KernelRoot]
<1>6. /\ lev \in [Frames -> 0 .. 4] /\ own \in [Frames -> {KernelRoot}]
      /\ \A f \in Frames : lev[f] = IF f <= 3 THEN f ELSE 0
      /\ \A f \in Frames : own[f] = KernelRoot
  BY <1>3
<1> HIDE DEF lev, own
<1>7. ASSUME NEW t \in Frames, NEW i \in Nat, Present(mem, t, i)
      PROVE  /\ t \in 1 .. 3 /\ i = IdentityPage[t] /\ lev[t] = t
             /\ At(mem, t, i).to = IF t = 3 THEN 0 ELSE t + 1
             /\ At(mem, t, i).huge <=> t = 3
             /\ ~At(mem, t, i).user
             /\ t # 3 => t + 1 \in Frames /\ lev[t + 1] = t + 1
  <2>1. /\ t \in 1 .. 3 /\ i = IdentityPage[t]
        /\ At(mem, t, i) = IF t = 3 THEN Entry(0, FALSE, TRUE) ELSE Entry(t + 1, FALSE, FALSE)
    BY ONLY <1>2, <1>7
  <2>2. t # 3 => t + 1 \in Frames
    BY ONLY <1>3, <2>1
  <2>3. lev[t] = t /\ (t # 3 => lev[t + 1] = t + 1)
    BY ONLY <1>6, <2>1, <2>2
  <2> QED BY ONLY <2>1, <2>2, <2>3 DEF Entry
<1>8. LabelsOK({KernelRoot}, lev, own)
  <2>1. \A f \in Frames : lev[f] = 1 <=> f \in {KernelRoot}
    BY ONLY <1>3, <1>6
  <2> QED BY ONLY <1>3, <1>6, <2>1 DEF LabelsOK
<1>9. EntriesOK(mem, lev, own)
  <2> SUFFICES ASSUME NEW t \in Frames, NEW i \in Nat, Present(mem, t, i)
               PROVE  EntryOK(mem, lev, own, t, i)
    BY DEF EntriesOK
  <2>1. /\ t \in 1 .. 3 /\ i = IdentityPage[t] /\ lev[t] = t
        /\ At(mem, t, i).to = IF t = 3 THEN 0 ELSE t + 1
        /\ At(mem, t, i).huge <=> t = 3
        /\ ~At(mem, t, i).user
        /\ t # 3 => t + 1 \in Frames /\ lev[t + 1] = t + 1
    BY <1>7
  <2>2. Owner(lev, own, t, i) = KernelRoot
    BY ONLY <1>6, t \in Frames DEF Owner
  <2>3. lev[t] = 1 => i # UserSlot
    BY ONLY <1>3, <2>1
  <2>4. t # 3 => own[t + 1] = KernelRoot
    BY ONLY <1>6, <2>1
  <2> QED BY ONLY <2>1, <2>2, <2>3, <2>4 DEF EntryOK
<1>10. Single(mem, lev)
  <2> SUFFICES ASSUME NEW t \in Frames, NEW u \in Frames, NEW i \in Nat, NEW j \in Nat,
                      Present(mem, t, i), ~At(mem, t, i).huge,
                      Present(mem, u, j), ~At(mem, u, j).huge,
                      At(mem, t, i).to = At(mem, u, j).to
               PROVE  i = j /\ t = u
    BY DEF Single
  <2>1. t \in 1 .. 3 /\ i = IdentityPage[t] /\ t # 3 /\ At(mem, t, i).to = t + 1
    BY <1>7
  <2>2. u \in 1 .. 3 /\ j = IdentityPage[u] /\ u # 3 /\ At(mem, u, j).to = u + 1
    BY <1>7
  <2>3. t = u
    BY ONLY <2>1, <2>2, At(mem, t, i).to = At(mem, u, j).to
  <2> QED BY ONLY <2>1, <2>2, <2>3
<1>11. /\ Present(mem, 1, IdentityPage[1]) /\ Present(mem, 2, IdentityPage[2])
       /\ Present(mem, 3, IdentityPage[3])
       /\ At(mem, 1, IdentityPage[1]).to = 2 /\ ~At(mem, 1, IdentityPage[1]).huge
       /\ At(mem, 2, IdentityPage[2]).to = 3 /\ ~At(mem, 2, IdentityPage[2]).huge
       /\ At(mem, 3, IdentityPage[3]).huge
  <2>1. /\ Present(mem, 1, IdentityPage[1]) /\ Present(mem, 2, IdentityPage[2])
        /\ Present(mem, 3, IdentityPage[3])
    <3>1. \A t \in Frames, i \in Nat :
             Present(mem, t, i) <=> t \in 1 .. 3 /\ i = IdentityPage[t]
      BY ONLY <1>2
    <3>2. ASSUME NEW t \in Frames, t \in 1 .. 3, IdentityPage[t] \in Nat
          PROVE  Present(mem, t, IdentityPage[t])
      BY ONLY <3>1, <3>2
    <3>3. 1 \in 1 .. 3 /\ 2 \in 1 .. 3 /\ 3 \in 1 .. 3
      OBVIOUS
    <3> QED BY ONLY <1>3, <3>2, <3>3
  <2>2. At(mem, 1, IdentityPage[1]).to = 2 /\ ~At(mem, 1, IdentityPage[1]).huge
    BY <1>3, <1>7, <2>1
  <2>3. At(mem, 2, IdentityPage[2]).to = 3 /\ ~At(mem, 2, IdentityPage[2]).huge
    BY <1>3, <1>7, <2>1
  <2>4. At(mem, 3, IdentityPage[3]).huge
    BY <1>3, <1>7, <2>1
  <2> QED BY <2>1, <2>2, <2>3, <2>4
<1>12. Reached(mem, lev)
  <2> SUFFICES ASSUME NEW f \in Frames, lev[f] > 1
               PROVE  \E t \in Frames, i \in Nat :
                         Present(mem, t, i) /\ ~At(mem, t, i).huge /\ At(mem, t, i).to = f
    BY DEF Reached
  <2>1. f = 2 \/ f = 3
    BY ONLY <1>3, <1>6, f \in Frames, lev[f] > 1
  <2> QED BY ONLY <1>3, <1>11, <2>1
<1>13. BootKept(mem, lev)
  <2>1. lev[2] = 2 /\ lev[3] = 3
    BY ONLY <1>3, <1>6
  <2> QED BY ONLY <1>11, <2>1 DEF BootKept
<1>14. Counted(mem, lev, Count(mapped))
  <2>1. \A f \in Frames : mem.ref[f] = IF lev[f] > 0 THEN 1 ELSE Count(mapped)[f]
    BY ONLY <1>2, <1>3, <1>5, <1>6
  <2>2. \A t \in Frames, i \in Nat : Present(mem, t, i) => lev[t] # 4
    BY <1>7
  <2> QED BY ONLY <1>5, <2>1, <2>2 DEF Counted
<1>15. Shared(mem, {KernelRoot})
  BY DEF Shared
<1>16. Leaves(mem, lev, mapped)
  <2>1. \A t \in Frames, i \in Nat : Present(mem, t, i) => lev[t] # 4
    BY <1>7
  <2> QED BY ONLY <1>1, <2>1 DEF Leaves
<1>17. Tabled(mem, Roots, mapped)
  <2>1. Shape(mem, Roots, lev, own, Count(mapped))
    BY ONLY <1>1, <1>2, <1>8, <1>9, <1>10, <1>12, <1>13, <1>14, <1>15 DEF Shape
  <2> QED BY ONLY <1>16, <2>1 DEF Tabled
<1>18. KernelAlone(mapped) /\ TlbOK(tlb, mapped, cr3)
  BY ONLY <1>1 DEF KernelAlone, TlbOK
<1>19. \A f \in Frames : Count(mapped)[f] <= Shares + 1
  BY ONLY <1>5, Constants
<1> QED BY ONLY <1>1, <1>4, <1>17, <1>18, <1>19 DEF PagingInv

\* hal_set_page_table installs a root and forgets every translation.
LEMMA SwitchKeeps ==
    ASSUME PagingInv, NEW root \in spaces \cup {KernelRoot}, hal_set_page_table(root)
    PROVE  PagingInv'
<1>1. /\ cr3' = root /\ DOMAIN tlb' = {} /\ mem' = mem /\ spaces' = spaces /\ mapped' = mapped
  BY DEF hal_set_page_table
<1>2. Roots' = Roots /\ cr3' \in Roots
  BY <1>1 DEF Roots
<1>3. TlbOK(tlb', mapped', cr3')
  BY ONLY <1>1 DEF TlbOK
<1>4. /\ spaces \subseteq Frames \ {KernelRoot}
      /\ MappedOK(Roots, mapped) /\ KernelAlone(mapped)
      /\ \A f \in Frames : Count(mapped)[f] <= Shares + 1
      /\ Tabled(mem, Roots, mapped)
  BY DEF PagingInv
<1> QED BY ONLY <1>1, <1>2, <1>3, <1>4 DEF PagingInv

\* What the processor remembers is what the tables give.
LEMMA AccessKeeps ==
    ASSUME PagingInv, NEW va \in UserPages \cup KernelPages, access(va)
    PROVE  PagingInv'
<1>1. /\ spaces \subseteq Frames \ {KernelRoot} /\ cr3 \in Roots
      /\ MappedOK(Roots, mapped) /\ KernelAlone(mapped)
      /\ \A f \in Frames : Count(mapped)[f] <= Shares + 1
      /\ Tabled(mem, Roots, mapped) /\ TlbOK(tlb, mapped, cr3)
  BY DEF PagingInv
<1>2. PICK lev, own : Shape(mem, Roots, lev, own, Count(mapped)) /\ Leaves(mem, lev, mapped)
  BY ONLY <1>1 DEF Tabled
<1>3. hal_translate(mem, cr3, va) = Expected(mapped, cr3, va)
  BY <1>1, <1>2, Translates
<1>4. /\ tlb' = [x \in DOMAIN tlb \cup {va} |->
                    IF x = va THEN hal_translate(mem, cr3, va) ELSE tlb[x]]
      /\ mem' = mem /\ spaces' = spaces /\ cr3' = cr3 /\ mapped' = mapped
  BY DEF access
<1>5. TlbOK(tlb', mapped, cr3)
  <2>1. /\ DOMAIN tlb' = DOMAIN tlb \cup {va}
        /\ \A x \in DOMAIN tlb' : tlb'[x] = IF x = va THEN hal_translate(mem, cr3, va) ELSE tlb[x]
    BY ONLY <1>4
  <2> QED BY ONLY <1>1, <1>3, <2>1, va \in UserPages \cup KernelPages DEF TlbOK
<1>6. Roots' = Roots
  BY <1>4 DEF Roots
<1> QED BY ONLY <1>1, <1>4, <1>5, <1>6 DEF PagingInv

\* A space once strayed stays so until it ends, and then all is lost.
LEMMA CalmBefore ==
    ASSUME [Next]_vars, Calm'
    PROVE  Calm
<1>1. strayed \subseteq strayed' \/ (\E root \in spaces : hal_pt_destroy(root))
  BY DEF Next, vars, hal_pt_create_user, map_user, map_kernel, map_new, Straying,
         map_shared, unmap_kernel, hal_set_page_table, access
<1>2. lost => lost'
  BY DEF Next, vars, hal_pt_create_user, hal_pt_destroy, map_user, map_kernel, map_new,
         map_shared, unmap_kernel, hal_set_page_table, access
<1>3. ASSUME NEW root \in spaces, hal_pt_destroy(root) PROVE strayed \subseteq strayed'
  <2>1. strayed' = strayed \ {root} /\ lost' = (lost \/ root \in strayed)
    BY <1>3 DEF hal_pt_destroy
  <2>2. root \notin strayed
    BY <2>1 DEF Calm
  <2> QED BY ONLY <2>1, <2>2
<1> QED BY <1>1, <1>2, <1>3 DEF Calm

\* Every step keeps the invariant, as long as no page is put outside its slot.
LEMMA NextKeeps ==
    ASSUME PagingInv, [Next]_vars, Calm'
    PROVE  PagingInv'
<1>1. /\ spaces \subseteq Frames \ {KernelRoot} /\ KernelRoot \in Roots
      /\ spaces \subseteq Roots \ {KernelRoot} /\ (spaces = {} => Roots = {KernelRoot})
  BY DEF PagingInv, Roots
<1>s. ASSUME NEW root \in spaces, NEW va \in UserPages, strayed' = Straying(root, va)
      PROVE  va \in OwnPages
  <2>1. root # KernelRoot /\ strayed' = {}
    BY <1>1 DEF Calm
  <2> QED BY <1>s, <2>1 DEF Straying, OwnPages
<1>2. CASE hal_pt_create_user
  BY <1>2, CreateKeeps
<1>3. ASSUME NEW root \in spaces, hal_pt_destroy(root) PROVE PagingInv'
  BY <1>3, DestroyKeeps
<1>4. ASSUME NEW root \in spaces, NEW va \in UserPages, map_user(root, va) PROVE PagingInv'
  <2>2. map_new(root, va, TRUE)
    BY <1>4 DEF map_user
  <2>o. va \in OwnPages
    BY <1>s, <2>2 DEF map_new
  <2>1. <<root, va>> \in Keys(Roots) /\ root # KernelRoot
    BY <1>1, <2>o DEF Keys
  <2>3. TRUE \in BOOLEAN /\ (TRUE <=> root # KernelRoot)
        /\ (root = KernelRoot => Roots = {KernelRoot} /\ cr3 = KernelRoot)
    BY <2>1
  <2> QED BY ONLY PagingInv, <2>1, <2>2, <2>3, MapNewKeeps
<1>5. ASSUME NEW va \in KernelPages, map_kernel(va) PROVE PagingInv'
  <2>1. <<KernelRoot, va>> \in Keys(Roots)
    BY <1>1 DEF Keys
  <2>2. spaces = {} /\ cr3 = KernelRoot /\ map_new(KernelRoot, va, FALSE)
    BY <1>5 DEF map_kernel
  <2>3. FALSE \in BOOLEAN /\ (FALSE <=> KernelRoot # KernelRoot)
        /\ (KernelRoot = KernelRoot => Roots = {KernelRoot} /\ cr3 = KernelRoot)
    BY <1>1, <2>2
  <2> QED BY ONLY PagingInv, <2>1, <2>2, <2>3, MapNewKeeps
<1>6. ASSUME NEW x \in DOMAIN mapped, NEW root \in spaces, NEW va \in UserPages,
             map_shared(x, root, va)
      PROVE  PagingInv'
  <2>1. va \in OwnPages
    BY <1>s, <1>6 DEF map_shared
  <2> QED BY <1>6, <2>1, MapSharedKeeps
<1>7. ASSUME NEW va \in KernelPages, unmap_kernel(va) PROVE PagingInv'
  BY <1>7, UnmapKeeps
<1>8. ASSUME NEW root \in spaces \cup {KernelRoot}, hal_set_page_table(root) PROVE PagingInv'
  BY <1>8, SwitchKeeps
<1>9. ASSUME NEW va \in UserPages \cup KernelPages, access(va) PROVE PagingInv'
  BY <1>9, AccessKeeps
<1>10. CASE UNCHANGED vars
  <2>1. mem' = mem /\ spaces' = spaces /\ cr3' = cr3 /\ tlb' = tlb /\ mapped' = mapped
    BY <1>10 DEF vars
  <2>2. Roots' = Roots
    BY <2>1 DEF Roots
  <2>3. /\ spaces \subseteq Frames \ {KernelRoot} /\ cr3 \in Roots
        /\ MappedOK(Roots, mapped) /\ KernelAlone(mapped)
        /\ \A f \in Frames : Count(mapped)[f] <= Shares + 1
        /\ Tabled(mem, Roots, mapped) /\ TlbOK(tlb, mapped, cr3)
    BY DEF PagingInv
  <2> QED BY ONLY <2>1, <2>2, <2>3 DEF PagingInv
<1> QED BY <1>2, <1>3, <1>4, <1>5, <1>6, <1>7, <1>8, <1>9, <1>10 DEF Next

\* Page tables: until elf_load or a sharing gives a process a page outside its
\* slot, the shape of the tables, their counts, what is mapped and what the
\* processor remembers agree.
THEOREM PagingInductive == Spec => []CalmInv
<1>1. Init => CalmInv
  BY InitKeeps DEF CalmInv
<1>2. CalmInv /\ [Next]_vars => CalmInv'
  <2> SUFFICES ASSUME CalmInv, [Next]_vars, Calm' PROVE PagingInv'
    BY DEF CalmInv
  <2>1. PagingInv
    BY CalmBefore DEF CalmInv
  <2> QED BY <2>1, NextKeeps
<1> QED BY <1>1, <1>2, PTL DEF Spec

----------------------------------------------------------------------------
(* What the invariant gives.                                               *)

\* hal_unmap_page, hal_map_page and hal_pt_destroy never leave the processor a
\* translation that the installed tables no longer give, until a process is
\* given a page outside its slot.
THEOREM PagingTlbFresh == Spec => [](Calm => TlbFresh)
<1>1. PagingInv => TlbFresh
  <2> SUFFICES ASSUME PagingInv, NEW va \in DOMAIN tlb
               PROVE  tlb[va] = hal_translate(mem, cr3, va)
    BY DEF TlbFresh
  <2>1. cr3 \in Roots /\ MappedOK(Roots, mapped) /\ TlbOK(tlb, mapped, cr3)
    BY DEF PagingInv
  <2>2. PICK lev, own : Shape(mem, Roots, lev, own, Count(mapped)) /\ Leaves(mem, lev, mapped)
    BY DEF PagingInv, Tabled
  <2>3. va \in UserPages \cup KernelPages /\ tlb[va] = Expected(mapped, cr3, va)
    BY <2>1 DEF TlbOK
  <2> QED BY <2>1, <2>2, <2>3, Translates
<1> QED BY <1>1, PagingInductive, PTL DEF CalmInv

\* hal_pt_create_user gives each space the kernel's half, and neither a switch
\* nor the end of another space takes it away, until a process is given a page
\* outside its slot.
THEOREM PagingKernelMapped == Spec => [](Calm => KernelMapped)
<1>1. PagingInv => KernelMapped
  <2> SUFFICES ASSUME PagingInv, NEW root \in Roots
               PROVE  hal_translate(mem, root, IdentityPage) = 0
    BY DEF KernelMapped
  <2>1. PICK lev, own : Shape(mem, Roots, lev, own, Count(mapped))
    BY DEF PagingInv, Tabled
  <2>2. IsPage(IdentityPage) /\ InIdentityMap(IdentityPage)
    BY PageIs DEF InIdentityMap
  <2> QED BY <2>1, <2>2, IdentityWalk
<1> QED BY <1>1, PagingInductive, PTL DEF CalmInv

\* A space gives ring 3 the pages mapped for it, where they were mapped, and
\* nothing else: hal_map_page sets USER on the way to them, and hal_unmap_page
\* and hal_pt_destroy take nothing from another space, until a process is given
\* a page outside its slot.
THEOREM PagingSpacesExact == Spec => [](Calm => SpacesExact)
<1>1. ASSUME PagingInv
      PROVE  \A root \in Roots, va \in UserPages \cup KernelPages :
                 va[1] = UserSlot \/ root = KernelRoot => TranslatesExactly(root, va)
  <2> SUFFICES ASSUME NEW root \in Roots, NEW va \in UserPages \cup KernelPages,
                      va[1] = UserSlot \/ root = KernelRoot
               PROVE  TranslatesExactly(root, va)
    OBVIOUS
  <2>1. MappedOK(Roots, mapped)
    BY <1>1 DEF PagingInv
  <2>2. PICK lev, own : Shape(mem, Roots, lev, own, Count(mapped)) /\ Leaves(mem, lev, mapped)
    BY <1>1 DEF PagingInv, Tabled
  <2>3. hal_translate(mem, root, va) = Expected(mapped, root, va)
    BY <2>1, <2>2, Translates
  <2>4. (IF va[1] = UserSlot THEN root ELSE KernelRoot) = root
    OBVIOUS
  <2> QED BY ONLY <2>3, <2>4 DEF Expected, TranslatesExactly
<1>2. ASSUME PagingInv, NEW root \in Roots, NEW va \in Pages
      PROVE  ReachedRightly(root, va)
  <2>1. MappedOK(Roots, mapped) /\ (root \in spaces <=> root # KernelRoot)
    BY <1>2 DEF PagingInv, Roots
  <2>2. PICK lev, own : Shape(mem, Roots, lev, own, Count(mapped)) /\ Leaves(mem, lev, mapped)
    BY <1>2 DEF PagingInv, Tabled
  <2> DEFINE reach == UserCanReach(root, va)
  <2>3. reach <=> /\ Pml4e(mem, root, va).user /\ Pdpte(mem, root, va).user
                  /\ Pde(mem, root, va).user
                  /\ \/ Pde(mem, root, va).huge
                     \/ Below(mem, Pde(mem, root, va).to, va[4]).user
    BY DEF UserCanReach, Pml4e, Pdpte, Pde
  <2>4. va \in UserPages \cup KernelPages \cup {IdentityPage}
    BY <1>2 DEF Pages
  <2> HIDE DEF reach
  <2>5. reach <=> root # KernelRoot /\ <<root, va>> \in DOMAIN mapped
    BY ONLY <1>2, <2>1, <2>2, <2>3, <2>4, UserReaches
  <2> QED BY <2>1, <2>5 DEF reach, ReachedRightly
<1>3. ASSUME PagingInv PROVE SpacesExact
  <2>1. /\ \A root \in spaces : root \in Roots
        /\ \A va \in UserPages : va \in UserPages \cup KernelPages /\ va \in Pages
    BY DEF Roots, Pages
  <2>2. \A root \in Roots, va \in Pages : ReachedRightly(root, va)
    BY <1>2, <1>3
  <2> QED BY <1>1, <1>3, <2>1, <2>2 DEF SpacesExact
<1> QED BY <1>3, PagingInductive, PTL DEF CalmInv

\* The tables of a level.
LevelIs(lev, n) == {f \in Frames : lev[f] = n}

\* What a level's entries lead to is the next level.
LEMMA LevelBelow ==
    ASSUME NEW R, NEW lev, NEW own, NEW cnt, Shape(mem, R, lev, own, cnt),
           NEW n \in 1 .. 3, NEW S, S = LevelIs(lev, n)
    PROVE  /\ TablesOf(EntriesOf(S)) = LevelIs(lev, n + 1)
           /\ n = 1 => \A x \in EntriesOf(S) : ~mem.entry[x].huge
<1>1. MemOK(mem) /\ lev \in [Frames -> 0 .. 4]
  BY DEF Shape, LabelsOK
<1>2. ASSUME NEW t \in Frames, NEW i \in Nat, Present(mem, t, i)
      PROVE  EntryOK(mem, lev, own, t, i)
  BY <1>2 DEF Shape, EntriesOK
<1>3. ASSUME NEW x \in EntriesOf(S)
      PROVE  \E t \in Frames, i \in Nat :
                /\ Present(mem, t, i) /\ mem.entry[x] = At(mem, t, i)
                /\ lev[t] = n /\ EntryOK(mem, lev, own, t, i)
  <2>1. x \in DOMAIN mem.entry /\ x[1] \in S
    BY <1>3 DEF EntriesOf
  <2>2. PICK t \in Frames, i \in Nat :
           Present(mem, t, i) /\ t = x[1] /\ mem.entry[x] = At(mem, t, i)
    BY <1>1, <2>1, EntryPairs
  <2>3. lev[t] = n
    BY <2>1, <2>2 DEF LevelIs
  <2> QED BY <1>2, <2>2, <2>3
<1>4. ASSUME NEW f \in TablesOf(EntriesOf(S))
      PROVE  f \in LevelIs(lev, n + 1)
  <2>1. PICK x \in EntriesOf(S) : ~mem.entry[x].huge /\ mem.entry[x].to = f
    BY <1>4 DEF TablesOf
  <2>2. PICK t \in Frames, i \in Nat :
           /\ Present(mem, t, i) /\ mem.entry[x] = At(mem, t, i)
           /\ lev[t] = n /\ EntryOK(mem, lev, own, t, i)
    BY <1>3
  <2>3. f \in Frames /\ lev[f] = n + 1
    BY ONLY <2>1, <2>2, n \in 1 .. 3 DEF EntryOK
  <2> QED BY <2>3 DEF LevelIs
<1>5. ASSUME NEW f \in LevelIs(lev, n + 1)
      PROVE  f \in TablesOf(EntriesOf(S))
  <2>1. f \in Frames /\ lev[f] = n + 1
    BY <1>5 DEF LevelIs
  <2>2. PICK t \in Frames, i \in Nat :
           Present(mem, t, i) /\ ~At(mem, t, i).huge /\ At(mem, t, i).to = f
    BY <2>1 DEF Shape, Reached
  <2>3. EntryOK(mem, lev, own, t, i)
    BY <1>2, <2>2
  <2>4. lev[t] = n
    <3>1. lev[t] \in 1 .. 4
      BY ONLY <2>3 DEF EntryOK
    <3> QED BY ONLY <2>1, <2>2, <2>3, <3>1, n \in 1 .. 3 DEF EntryOK
  <2> DEFINE x == <<t, i>>
  <2>5. x \in DOMAIN mem.entry /\ x[1] = t /\ mem.entry[x] = At(mem, t, i)
    BY <2>2 DEF Present, At
  <2> HIDE DEF x
  <2>6. x \in EntriesOf(S)
    BY <2>4, <2>5 DEF EntriesOf, LevelIs
  <2> QED BY <2>2, <2>5, <2>6 DEF TablesOf
<1>6. ASSUME n = 1, NEW x \in EntriesOf(S)
      PROVE  ~mem.entry[x].huge
  <2>1. PICK t \in Frames, i \in Nat :
           /\ Present(mem, t, i) /\ mem.entry[x] = At(mem, t, i)
           /\ lev[t] = n /\ EntryOK(mem, lev, own, t, i)
    BY <1>3, <1>6
  <2> QED BY ONLY <1>6, <2>1 DEF EntryOK
<1> QED BY <1>4, <1>5, <1>6

\* The frames reached as tables are those that carry a level.
LEMMA TablesAre ==
    ASSUME NEW lev, NEW own, NEW cnt, Shape(mem, Roots, lev, own, cnt)
    PROVE  \A f \in Frames : f \in Tables <=> lev[f] > 0
<1>1. /\ lev \in [Frames -> 0 .. 4] /\ Roots \subseteq Frames
      /\ \A g \in Frames : lev[g] = 1 <=> g \in Roots
  BY DEF Shape, LabelsOK
<1> DEFINE S1 == LevelIs(lev, 1)
           S2 == LevelIs(lev, 2)
           S3 == LevelIs(lev, 3)
           S4 == LevelIs(lev, 4)
<1>2. Roots = S1
  BY <1>1 DEF LevelIs
<1>e. /\ S1 = LevelIs(lev, 1) /\ S2 = LevelIs(lev, 2)
      /\ S3 = LevelIs(lev, 3) /\ S4 = LevelIs(lev, 4)
      /\ 1 \in 1 .. 3 /\ 2 \in 1 .. 3 /\ 3 \in 1 .. 3 /\ 1 + 1 = 2 /\ 2 + 1 = 3 /\ 3 + 1 = 4
  OBVIOUS
<1> HIDE DEF S1, S2, S3, S4
<1>3. Level2 = S2
  <2>1. TablesOf(EntriesOf(S1)) = LevelIs(lev, 1 + 1) /\ \A x \in EntriesOf(S1) : ~mem.entry[x].huge
    BY ONLY <1>e, Shape(mem, Roots, lev, own, cnt), LevelBelow
  <2>2. Level2 = TablesOf(EntriesOf(S1))
    BY ONLY <1>2, <2>1 DEF Level2, TablesOf
  <2> QED BY ONLY <1>e, <2>1, <2>2
<1>4. Level3 = S3
  <2>1. TablesOf(EntriesOf(S2)) = LevelIs(lev, 2 + 1)
    BY ONLY <1>e, Shape(mem, Roots, lev, own, cnt), LevelBelow
  <2> QED BY ONLY <1>3, <1>e, <2>1 DEF Level3
<1>5. Level4 = S4
  <2>1. TablesOf(EntriesOf(S3)) = LevelIs(lev, 3 + 1)
    BY ONLY <1>e, Shape(mem, Roots, lev, own, cnt), LevelBelow
  <2> QED BY ONLY <1>4, <1>e, <2>1 DEF Level4
<1>6. ASSUME NEW f \in Frames
      PROVE  f \in Tables <=> lev[f] > 0
  <2>1. f \in Tables <=> lev[f] = 1 \/ lev[f] = 2 \/ lev[f] = 3 \/ lev[f] = 4
    BY <1>2, <1>3, <1>4, <1>5 DEF Tables, LevelIs, S1, S2, S3, S4
  <2>2. lev[f] \in 0 .. 4
    BY <1>1
  <2> QED BY ONLY <2>1, <2>2
<1> QED BY <1>6

\* Every frame is accounted for: hal_map_page and hal_pt_create_user count the
\* tables they make once, a mapped frame is counted as often as it is mapped,
\* and hal_pt_destroy gives back exactly what its space held, until a process is
\* given a page outside its slot.
THEOREM PagingTablesSound == Spec => [](Calm => TablesSound)
<1>1. ASSUME Calm, PagingInv PROVE TypeOK /\ FramesAccounted
  <2>1. /\ spaces \subseteq Frames \ {KernelRoot} /\ cr3 \in Roots
        /\ MappedOK(Roots, mapped) /\ \A f \in Frames : Count(mapped)[f] <= Shares + 1
    BY <1>1 DEF PagingInv
  <2>2. PICK lev, own : Shape(mem, Roots, lev, own, Count(mapped)) /\ Leaves(mem, lev, mapped)
    BY <1>1 DEF PagingInv, Tabled
  <2>3. /\ MemOK(mem) /\ lev \in [Frames -> 0 .. 4]
        /\ \A f \in Frames : mem.ref[f] = IF lev[f] > 0 THEN 1 ELSE Count(mapped)[f]
    BY <2>2 DEF Shape, LabelsOK, Counted
  <2>4. /\ Count(mapped) \in [Frames -> Nat]
        /\ \A f \in Frames : Count(mapped)[f] = Cardinality(Mappings(mapped, f))
    BY <2>1, CountIs DEF MappedOK
  <2>5. FramesAccounted
    <3> SUFFICES ASSUME NEW f \in Frames
                 PROVE  mem.ref[f] = IF f \in Tables THEN 1 ELSE Cardinality(Mappings(mapped, f))
      BY DEF FramesAccounted, Mappings
    <3>1. f \in Tables <=> lev[f] > 0
      BY <2>2, TablesAre
    <3> QED BY ONLY <2>3, <2>4, <3>1, f \in Frames
  <2>6. mem.ref \in [Frames -> 0 .. Shares + 1]
    <3>1. \A f \in Frames : mem.ref[f] \in 0 .. Shares + 1
      BY ONLY <2>1, <2>3, <2>4, Constants
    <3>2. mem.ref \in [Frames -> Nat]
      BY <2>3 DEF MemOK
    <3> QED BY ONLY <3>1, <3>2
  <2>7. ASSUME NEW x \in DOMAIN mem.entry
        PROVE  x[1] \in Frames /\ mem.entry[x].to \in Frames \cup {0}
    <3>1. PICK t \in Frames, i \in Nat :
             Present(mem, t, i) /\ x[1] = t /\ mem.entry[x] = At(mem, t, i)
      BY <2>3, EntryPairs
    <3>2. At(mem, t, i) \in Entries
      BY <2>3, <3>1 DEF MemOK
    <3> QED BY ONLY <3>1, <3>2 DEF Entries
  <2>8. \A x \in DOMAIN mapped : x[1] \in Roots /\ mapped[x] \in Frames
    <3>1. KernelRoot \in Roots
      BY DEF Roots
    <3> QED BY <2>1, <3>1, KeyIs DEF MappedOK
  <2>9. strayed \subseteq spaces
    BY <1>1 DEF Calm
  <2> QED BY ONLY <2>1, <2>5, <2>6, <2>7, <2>8, <2>9 DEF TypeOK
<1>2. Calm /\ PagingInv => TablesSound
  BY <1>1 DEF TablesSound
<1> QED BY <1>2, PagingInductive, PTL DEF CalmInv
============================================================================
