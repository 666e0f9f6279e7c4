----------------------------- MODULE CapProofs -----------------------------
(***************************************************************************)
(* Proofs about the capability table, for every size of the table, every   *)
(* width of the generation field and every set of objects and rights.      *)
(*                                                                         *)
(* AuthorityIsGranted is not inductive: it speaks of the handles that      *)
(* resolve now and says nothing of the others, one of which could come     *)
(* back to life.  CapInv adds where every handle ever issued stands with   *)
(* respect to the generation of its slot.                                  *)
(***************************************************************************)
EXTENDS Cap, FiniteSetTheorems, WellFoundedInduction, TLAPS

\* The handle was current in its slot at some time: its generation is past,
\* or is the slot's present one and the slot is still in use.
Known(cap) ==
    /\ cap.index \in Slots
    /\ cap.gen # 0
    /\ \/ cap.gen < generation[cap.index]
       \/ cap.gen = generation[cap.index] /\ used[cap.index]

\* An issued handle either can never resolve (the generation did not fit in
\* it), or is known, and denotes its grant as long as it is current.
IssuedKnown ==
    \A g \in issued :
        /\ g.cap.index \in Slots
        /\ g.cap.gen # 0 =>
             /\ Known(g.cap)
             /\ g.cap.gen = generation[g.cap.index] =>
                  /\ object[g.cap.index] = g.object
                  /\ rights[g.cap.index] = g.rights

\* Derivation starts from handles that resolve.
LinesKnown == \A g \in issued : \A cap \in g.line : Known(cap)

\* A used slot whose generation still fits in a handle was granted.
UsedGranted ==
    \A i \in Slots : used[i] =>
        /\ object[i] \in Objects
        /\ generation[i] < HandleGens =>
             \E g \in issued : /\ g.cap = [index |-> i, gen |-> generation[i]]
                               /\ g.object = object[i]
                               /\ g.rights = rights[i]

\* The inductive invariant of the table.
CapInv ==
    /\ TypeOK
    /\ CountExact
    /\ IssuedKnown
    /\ LinesKnown
    /\ UsedGranted
    /\ LineageNarrows

----------------------------------------------------------------------------
\* A set of natural numbers that is not empty has a least element.
LEMMA LeastNatural ==
    ASSUME NEW T, T \subseteq Nat, T # {}
    PROVE  \E x \in T : \A y \in T : x <= y
<1> DEFINE R == OpToRel(<, Nat)
<1>1. IsWellFoundedOn(R, Nat)
    BY NatLessThanWellFounded
<1>2. \E x \in T : \A y \in T : ~(<<y, x>> \in R)
    BY ONLY <1>1, T \subseteq Nat, T # {}, WFMin
<1>3. \A x, y \in Nat : <<y, x>> \in R <=> y < x
    BY DEF OpToRel
<1> HIDE DEF R
<1>4. PICK x \in T : \A y \in T : ~(<<y, x>> \in R)
    BY <1>2
<1>5. \A y \in T : x <= y
    <2> TAKE y \in T
    <2>1. x \in Nat /\ y \in Nat /\ ~(y < x)
        BY <1>3, <1>4
    <2> QED BY <2>1
<1> QED BY <1>5

\* Induction: a set of natural numbers with 0 and every successor is Nat.
LEMMA InductionOnNat ==
    ASSUME NEW S, 0 \in S, \A n \in Nat : n \in S => n + 1 \in S
    PROVE  \A n \in Nat : n \in S
<1> SUFFICES ASSUME ~(\A n \in Nat : n \in S) PROVE FALSE
    OBVIOUS
<1> DEFINE T == Nat \ S
<1>1. T \subseteq Nat /\ T # {}
    OBVIOUS
<1> HIDE DEF T
<1>2. PICK n \in T : \A m \in T : n <= m
    BY <1>1, LeastNatural
<1>3. n \in Nat /\ n \notin S /\ \A m \in Nat : m \notin S => n <= m
    BY <1>2 DEF T
<1>4. n # 0 /\ n - 1 \in Nat
    BY <1>3
<1>5. n - 1 \in S
    BY <1>3, <1>4
<1> QED BY <1>3, <1>4, <1>5

\* What the packing of a generation into a handle keeps of it.
LEMMA PackedGeneration ==
    ASSUME NEW g \in 1 .. HandleGens
    PROVE  /\ g % HandleGens \in 0 .. HandleGens - 1
           /\ g < HandleGens => g % HandleGens = g
           /\ g = HandleGens => g % HandleGens = 0
<1> HandleGens \in Nat /\ HandleGens > 1
  BY CapAssumption
<1> QED
  OBVIOUS

\* The table holds at most as many capabilities as it has slots.
LEMMA UsedFinite ==
    ASSUME NEW U \in SUBSET Slots
    PROVE  /\ IsFiniteSet(U)
           /\ Cardinality(U) \in 0 .. MaxSlots - 1
<1>1. MaxSlots \in Nat /\ MaxSlots >= 1
  BY CapAssumption
<1>2. IsFiniteSet(Slots) /\ Cardinality(Slots) = MaxSlots - 1
  BY <1>1, FS_Interval, 1 \in Int, MaxSlots - 1 \in Int DEF Slots
<1>3. IsFiniteSet(U) /\ Cardinality(U) <= MaxSlots - 1
  BY <1>2, FS_Subset
<1> QED
  BY <1>1, <1>3, FS_CardinalityType

\* The empty table of cap_table_create satisfies the invariant.
LEMMA InitCapInv == Init => CapInv
<1> SUFFICES ASSUME Init PROVE CapInv
  OBVIOUS
<1>1. TypeOK
  <2>1. MaxSlots \in Nat /\ MaxSlots >= 1 /\ HandleGens \in Nat /\ HandleGens >= 1
    BY CapAssumption
  <2>2. count \in 0 .. MaxSlots - 1 /\ 1 \in 1 .. HandleGens
    BY <2>1 DEF Init
  <2> QED
    BY <2>2 DEF Init, TypeOK
<1>2. CountExact
  <2>1. {i \in Slots : used[i]} = {}
    BY DEF Init
  <2> QED
    BY <2>1, FS_EmptySet DEF Init, CountExact
<1> QED
  BY <1>1, <1>2 DEF Init, CapInv, IssuedKnown, LinesKnown, UsedGranted, LineageNarrows

----------------------------------------------------------------------------
\* Filling a free slot keeps the invariant, provided the lineage recorded is
\* of known handles whose grants cover the new one.
LEMMA FillCapInv ==
    ASSUME CapInv,
           NEW i \in Slots, ~used[i],
           NEW o \in Objects, NEW r \in SUBSET Rights,
           NEW p \in Slots \cup {NoParent},
           NEW line \in SUBSET Handles,
           \A cap \in line : Known(cap),
           \A g \in issued : g.cap \in line => g.object = o /\ r \subseteq g.rights,
           Fill(i, o, r, p, line)
    PROVE  CapInv'
<1> DEFINE new == [cap |-> pack(i, generation[i]), object |-> o,
                   rights |-> r, line |-> line]
<1> USE DEF CapInv
<1>0. MaxSlots \in Nat /\ HandleGens \in Nat /\ HandleGens > 1
  BY CapAssumption
<1>1. /\ generation[i] \in 1 .. HandleGens
      /\ new.cap.index = i
      /\ new.cap.gen \in 0 .. HandleGens - 1
      /\ generation[i] < HandleGens => new.cap.gen = generation[i]
      /\ new.cap.gen # 0 => new.cap.gen = generation[i]
  <2>1. generation[i] \in 1 .. HandleGens
    BY DEF TypeOK
  <2> QED
    BY <1>0, <2>1, PackedGeneration DEF pack
<1>2. /\ issued' = issued \cup {new}
      /\ generation' = generation
      /\ used' = [used EXCEPT ![i] = TRUE]
      /\ object' = [object EXCEPT ![i] = o]
      /\ rights' = [rights EXCEPT ![i] = r]
      /\ parent' = [parent EXCEPT ![i] = p]
      /\ count' = count + 1
      /\ overflow' = overflow
  BY DEF Fill
<1>3. CountExact'
  <2>1. {j \in Slots : used'[j]} = {j \in Slots : used[j]} \cup {i}
    BY <1>2 DEF TypeOK
  <2>2. IsFiniteSet({j \in Slots : used[j]})
    BY UsedFinite
  <2>3. Cardinality({j \in Slots : used'[j]}) = Cardinality({j \in Slots : used[j]}) + 1
    BY <2>1, <2>2, FS_AddElement
  <2> QED
    BY <2>3, <1>2 DEF CountExact
<1>4. TypeOK'
  <2>1. new \in Grants
    <3>1. pack(i, generation[i]) \in Handles
      BY <1>0, <1>1 DEF pack, Handles, Slots
    <3> QED
      BY <3>1 DEF Grants
  <2>2. count' \in 0 .. MaxSlots - 1
    BY <1>3, UsedFinite DEF CountExact
  <2> QED
    BY <1>2, <2>1, <2>2 DEF TypeOK
<1>5. IssuedKnown'
  <2> SUFFICES ASSUME NEW g \in issued'
               PROVE  /\ g.cap.index \in Slots
                      /\ g.cap.gen # 0 =>
                           /\ Known(g.cap)'
                           /\ g.cap.gen = generation'[g.cap.index] =>
                                /\ object'[g.cap.index] = g.object
                                /\ rights'[g.cap.index] = g.rights
    BY DEF IssuedKnown
  <2>1. CASE g \in issued
    BY <1>2, <2>1, <1>0 DEF IssuedKnown, Known, TypeOK
  <2>2. CASE g = new
    BY <1>1, <1>2, <2>2 DEF Known, TypeOK
  <2> QED
    BY <1>2, <2>1, <2>2
<1>6. \A cap : Known(cap) => Known(cap)'
  BY <1>2 DEF Known, TypeOK
<1>7. LinesKnown'
  BY <1>2, <1>6 DEF LinesKnown
<1>8. UsedGranted'
  <2> SUFFICES ASSUME NEW j \in Slots, used'[j]
               PROVE  /\ object'[j] \in Objects
                      /\ generation'[j] < HandleGens =>
                           \E g \in issued' :
                              /\ g.cap = [index |-> j, gen |-> generation'[j]]
                              /\ g.object = object'[j]
                              /\ g.rights = rights'[j]
    BY DEF UsedGranted
  <2>1. CASE j = i
    <3>1. generation[i] < HandleGens => new.cap = [index |-> i, gen |-> generation[i]]
      BY <1>0, <1>1, PackedGeneration DEF pack
    <3>2. new \in issued' /\ new.object = o /\ new.rights = r
      BY <1>2
    <3>3. object'[i] = o /\ rights'[i] = r /\ generation'[i] = generation[i]
      BY <1>2 DEF TypeOK
    <3> HIDE DEF new
    <3> QED
      BY <2>1, <3>1, <3>2, <3>3
  <2>2. CASE j # i
    BY <1>2, <2>2 DEF UsedGranted, TypeOK
  <2> QED
    BY <2>1, <2>2
<1>9. LineageNarrows'
  <2>1. ~Known(new.cap)
    BY <1>1 DEF Known
  <2> SUFFICES ASSUME NEW g \in issued', NEW q \in issued', q.cap \in g.line
               PROVE  g.object = q.object /\ g.rights \subseteq q.rights
    BY DEF LineageNarrows
  <2>2. Known(q.cap)
    BY <1>2 DEF LinesKnown
  <2>3. q \in issued
    BY <1>2, <2>1, <2>2
  <2>4. CASE g \in issued
    BY <2>3, <2>4 DEF LineageNarrows
  <2>5. CASE g = new
    BY <2>3, <2>5
  <2> QED
    BY <1>2, <2>4, <2>5
<1> QED
  BY <1>3, <1>4, <1>5, <1>7, <1>8, <1>9

\* Clearing used slots whose generation still fits in a handle keeps it too.
LEMMA ClearCapInv ==
    ASSUME CapInv,
           NEW S \in SUBSET Slots,
           \A i \in S : used[i] /\ generation[i] < HandleGens,
           Clear(S)
    PROVE  CapInv'
<1> USE DEF CapInv
<1>0. MaxSlots \in Nat /\ HandleGens \in Nat /\ HandleGens > 1
  BY CapAssumption
<1>1. /\ issued' = issued
      /\ overflow' = overflow
      /\ used' = [i \in Slots |-> IF i \in S THEN FALSE ELSE used[i]]
      /\ object' = [i \in Slots |-> IF i \in S THEN NoObject ELSE object[i]]
      /\ rights' = [i \in Slots |-> IF i \in S THEN {} ELSE rights[i]]
      /\ parent' = [i \in Slots |-> IF i \in S THEN NoParent ELSE parent[i]]
      /\ generation' = [i \in Slots |-> IF i \in S THEN generation[i] + 1
                                                    ELSE generation[i]]
      /\ count' = IF count >= Cardinality(S) THEN count - Cardinality(S) ELSE 0
  BY DEF Clear, CountAfter
<1>2. CountExact'
  <2> DEFINE U == {j \in Slots : used[j]}
  <2>1. {j \in Slots : used'[j]} = U \ S
    BY <1>1 DEF TypeOK
  <2>2. U \cap S = S
    OBVIOUS
  <2>3. IsFiniteSet(U) /\ Cardinality(U) \in Nat
    BY UsedFinite
  <2>4. /\ IsFiniteSet(S) /\ Cardinality(S) \in Nat
        /\ Cardinality(S) <= Cardinality(U)
    <3>1. S \in SUBSET U
      OBVIOUS
    <3> HIDE DEF U
    <3> QED
      BY <2>3, <3>1, FS_Subset, FS_CardinalityType
  <2>5. Cardinality(U \ S) = Cardinality(U) - Cardinality(S)
    <3> HIDE DEF U
    <3> QED
      BY <2>2, <2>3, FS_Difference
  <2>6. count = Cardinality(U)
    BY DEF CountExact
  <2>7. count' = Cardinality(U \ S)
    <3> HIDE DEF U
    <3> QED
      BY <1>1, <2>3, <2>4, <2>5, <2>6
  <2> QED
    BY <2>1, <2>7 DEF CountExact
<1>3. TypeOK'
  <2>1. count' \in 0 .. MaxSlots - 1
    BY <1>2, UsedFinite DEF CountExact
  <2>2. generation' \in [Slots -> 1 .. HandleGens]
    BY <1>0, <1>1 DEF TypeOK
  <2> QED
    BY <1>1, <2>1, <2>2 DEF TypeOK
<1>4. \A cap \in Handles : Known(cap) => Known(cap)'
  BY <1>0, <1>1 DEF Known, TypeOK, Handles
<1>5. IssuedKnown'
  <2> SUFFICES ASSUME NEW g \in issued
               PROVE  /\ g.cap.index \in Slots
                      /\ g.cap.gen # 0 =>
                           /\ Known(g.cap)'
                           /\ g.cap.gen = generation'[g.cap.index] =>
                                /\ object'[g.cap.index] = g.object
                                /\ rights'[g.cap.index] = g.rights
    BY <1>1 DEF IssuedKnown
  <2>1. g.cap \in Handles
    BY DEF TypeOK, Grants
  <2> QED
    BY <1>0, <1>1, <1>4, <2>1 DEF IssuedKnown, Known, TypeOK, Handles
<1>6. LinesKnown'
  <2>1. \A g \in issued : g.line \subseteq Handles
    BY DEF TypeOK, Grants
  <2> QED
    BY <1>1, <1>4, <2>1 DEF LinesKnown
<1>7. UsedGranted'
  BY <1>1 DEF UsedGranted, TypeOK
<1>8. LineageNarrows'
  BY <1>1 DEF LineageNarrows
<1> QED
  BY <1>2, <1>3, <1>5, <1>6, <1>7, <1>8

----------------------------------------------------------------------------
\* A handle that resolves is known, and its slot's generation fits in it.
LEMMA ResolvedKnown ==
    ASSUME CapInv, NEW cap \in Handles, resolve(cap)
    PROVE  /\ Known(cap)
           /\ cap.index \in Slots
           /\ used[cap.index]
           /\ cap.gen = generation[cap.index]
           /\ generation[cap.index] < HandleGens
<1>1. HandleGens \in Nat /\ cap.gen \in 0 .. HandleGens - 1
  BY CapAssumption DEF Handles
<1>2. generation[cap.index] \in 1 .. HandleGens
  BY DEF CapInv, TypeOK, resolve
<1> QED
  BY <1>1, <1>2 DEF Known, resolve

\* What cap_revoke clears: used slots whose generation fits in a handle.
LEMMA RevokedSlots ==
    ASSUME CapInv, NEW cap \in Handles, resolve(cap),
           NEW j \in revoke_children(cap.index) \cup {cap.index}
    PROVE  j \in Slots /\ used[j] /\ generation[j] < HandleGens
<1>1. CASE j = cap.index
  BY <1>1, ResolvedKnown
<1>2. CASE j \in revoke_children(cap.index)
  <2>0. MaxSlots \in Nat /\ HandleGens \in Nat /\ HandleGens > 1
    BY CapAssumption
  <2>1. j \in Slots /\ resolve(pack(j, generation[j]))
    BY <1>2 DEF revoke_children, Deletable, Descendants
  <2>2. generation[j] \in 1 .. HandleGens
    BY <2>1 DEF CapInv, TypeOK
  <2>3. pack(j, generation[j]) \in Handles
    BY <2>0, <2>1, <2>2, PackedGeneration DEF pack, Handles, Slots
  <2>4. pack(j, generation[j]).index = j
    BY DEF pack
  <2> QED
    BY <2>1, <2>3, <2>4, ResolvedKnown
<1> QED
  BY <1>1, <1>2

\* Every operation of cap.c, and every word presented to it, keeps the invariant.
LEMMA NextCapInv == CapInv /\ [Next]_vars => CapInv'
<1> SUFFICES ASSUME CapInv, [Next]_vars PROVE CapInv'
  OBVIOUS
<1>0. MaxSlots \in Nat /\ HandleGens \in Nat /\ HandleGens > 1
  BY CapAssumption
<1>1. ASSUME NEW o \in Objects, NEW r \in SUBSET Rights, cap_insert(o, r)
      PROVE  CapInv'
  <2>1. PICK i \in Slots : IsFirstFree(i) /\ Fill(i, o, r, NoParent, {})
    BY <1>1 DEF cap_insert
  <2>2. ~used[i]
    BY <2>1 DEF IsFirstFree, FreeSlots
  <2> QED
    BY <2>1, <2>2, FillCapInv
<1>2. ASSUME NEW cap \in Handles, NEW r \in SUBSET Rights, cap_derive(cap, r)
      PROVE  CapInv'
  <2>1. PICK i \in Slots :
            /\ IsFirstFree(i)
            /\ Fill(i, object[cap.index], r, ChildParent(i, cap), LineageOf(cap))
    BY <1>2 DEF cap_derive
  <2>2. ~used[i]
    BY <2>1 DEF IsFirstFree, FreeSlots
  <2>3. /\ Known(cap) /\ cap.index \in Slots /\ used[cap.index]
        /\ cap.gen = generation[cap.index] /\ cap.gen # 0
        /\ r \subseteq rights[cap.index]
    BY <1>2, ResolvedKnown DEF cap_derive, Narrows, Known
  <2>4. object[cap.index] \in Objects
    BY <2>3 DEF CapInv, UsedGranted
  <2>5. ChildParent(i, cap) \in Slots \cup {NoParent}
    BY <2>3 DEF ChildParent
  <2>6. LineageOf(cap) \in SUBSET Handles
    BY DEF LineageOf, CapInv, TypeOK, Grants
  <2>7. \A c \in LineageOf(cap) : Known(c)
    BY <2>3 DEF LineageOf, CapInv, LinesKnown
  <2>8. ASSUME NEW h \in issued, h.cap = cap
        PROVE  h.object = object[cap.index] /\ h.rights = rights[cap.index]
    BY <2>3, <2>8 DEF CapInv, IssuedKnown
  <2>9. ASSUME NEW g \in issued, g.cap \in LineageOf(cap)
        PROVE  g.object = object[cap.index] /\ r \subseteq g.rights
    <3>1. CASE g.cap = cap
      BY <2>3, <2>8, <3>1
    <3>2. CASE g.cap # cap
      <4>1. PICK h \in issued : h.cap = cap /\ g.cap \in h.line
        BY <2>9, <3>2 DEF LineageOf
      <4>2. h.object = g.object /\ h.rights \subseteq g.rights
        BY <4>1 DEF CapInv, LineageNarrows
      <4> QED
        BY <2>3, <2>8, <4>1, <4>2
    <3> QED
      BY <3>1, <3>2
  <2> QED
    BY <2>1, <2>2, <2>4, <2>5, <2>6, <2>7, <2>9, FillCapInv
<1>3. ASSUME NEW cap \in Handles, cap_delete(cap)
      PROVE  CapInv'
  <2>1. resolve(cap) /\ Clear({cap.index})
    BY <1>3 DEF cap_delete
  <2> QED
    BY <2>1, ResolvedKnown, ClearCapInv
<1>4. ASSUME NEW cap \in Handles, cap_revoke(cap)
      PROVE  CapInv'
  <2> DEFINE S == revoke_children(cap.index) \cup {cap.index}
  <2>1. resolve(cap) /\ Clear(S)
    BY <1>4 DEF cap_revoke
  <2>2. \A j \in S : j \in Slots /\ used[j] /\ generation[j] < HandleGens
    BY <2>1, RevokedSlots
  <2> HIDE DEF S
  <2> QED
    BY <2>1, <2>2, ClearCapInv
<1>5. ASSUME NEW cap \in Handles, cap_revoke_overflow(cap)
      PROVE  CapInv'
  BY <1>5 DEF cap_revoke_overflow, slotVars, CapInv, TypeOK, CountExact, IssuedKnown,
              LinesKnown, UsedGranted, LineageNarrows, Known
<1>6. CASE UNCHANGED vars
  BY <1>6 DEF vars, slotVars, CapInv, TypeOK, CountExact, IssuedKnown,
              LinesKnown, UsedGranted, LineageNarrows, Known
<1>7. CASE cap_insert_full
  BY <1>6, <1>7 DEF cap_insert_full
<1> QED
  BY <1>1, <1>2, <1>3, <1>4, <1>5, <1>6, <1>7 DEF Next

----------------------------------------------------------------------------
\* The table of cap.c keeps its inductive invariant through every sequence of
\* operations.
THEOREM CapInvariant == Spec => []CapInv
<1>1. Init => CapInv
  BY InitCapInv
<1>2. CapInv /\ [Next]_vars => CapInv'
  BY NextCapInv
<1> QED
  BY <1>1, <1>2, PTL DEF Spec

\* Type correctness: in particular a generation never passes the first value
\* that a handle cannot carry, and table->used never leaves its range.
THEOREM CapTypeCorrect == Spec => []TypeOK
<1>1. CapInv => TypeOK
  BY DEF CapInv
<1> QED
  BY <1>1, CapInvariant, PTL

\* No word presented to cap_lookup opens more than was granted under it.
THEOREM CapAuthority == Spec => []AuthorityIsGranted
<1>1. CapInv => AuthorityIsGranted
  <2> SUFFICES ASSUME CapInv, NEW cap \in Handles, NEW required \in SUBSET Rights,
                      cap_lookup(cap, required) = "OK"
               PROVE  \E g \in issued : /\ g.cap = cap
                                         /\ g.object = object[cap.index]
                                         /\ required \subseteq g.rights
    BY DEF AuthorityIsGranted
  <2>1. resolve(cap) /\ required \subseteq rights[cap.index]
    BY DEF cap_lookup
  <2>2. /\ cap.index \in Slots /\ used[cap.index]
        /\ cap.gen = generation[cap.index] /\ generation[cap.index] < HandleGens
    BY <2>1, ResolvedKnown
  <2>3. cap = [index |-> cap.index, gen |-> generation[cap.index]]
    BY <2>2 DEF Handles
  <2>4. PICK g \in issued : /\ g.cap = [index |-> cap.index, gen |-> generation[cap.index]]
                            /\ g.object = object[cap.index]
                            /\ g.rights = rights[cap.index]
    BY <2>2 DEF CapInv, UsedGranted
  <2> QED
    BY <2>1, <2>3, <2>4
<1> QED
  BY <1>1, CapInvariant, PTL

\* Rule 1 of cap.h along every chain of derivations.
THEOREM CapNarrowing == Spec => []LineageNarrows
<1>1. CapInv => LineageNarrows
  BY DEF CapInv
<1> QED
  BY <1>1, CapInvariant, PTL

\* table->used is the number of slots in use.
THEOREM CapCount == Spec => []CountExact
<1>1. CapInv => CountExact
  BY DEF CapInv
<1> QED
  BY <1>1, CapInvariant, PTL

\* The table of cap.c keeps its form and its count.
THEOREM CapTableSound == Spec => []TableSound
<1>1. TypeOK /\ CountExact <=> TableSound
  BY DEF TableSound
<1> QED
  BY <1>1, CapTypeCorrect, CapCount, PTL

\* A deleted or revoked handle never resolves again.
THEOREM CapStaysDead == Spec => StaysDead
<1>1. CapInv /\ CapInv' /\ [Next]_vars
        => [\A g \in issued : ~resolve(g.cap) => ~resolve(g.cap)']_vars
  <2> SUFFICES ASSUME CapInv, CapInv', Next,
                      NEW g \in issued, ~resolve(g.cap), resolve(g.cap)'
               PROVE  FALSE
    OBVIOUS
  <2>1. g.cap \in Handles /\ g.cap \in Handles'
    BY DEF CapInv, TypeOK, Grants
  <2>2. generation'[g.cap.index] = g.cap.gen /\ g.cap.index \in Slots /\ g.cap # INVALID
    BY DEF resolve
  <2>3. generation'[g.cap.index] \in 1 .. HandleGens
    BY <2>2 DEF CapInv, TypeOK
  <2>4. g.cap.gen # 0 /\ g.cap.gen \in Nat
    BY <2>2, <2>3
  <2>5. g.cap.gen < generation[g.cap.index]
    BY <2>2, <2>4 DEF CapInv, IssuedKnown, Known, resolve
  <2>6. generation[g.cap.index] \in Nat
    BY <2>2 DEF CapInv, TypeOK
  <2>7. generation'[g.cap.index] >= generation[g.cap.index]
    <3>1. ASSUME NEW S, Clear(S)
          PROVE  generation'[g.cap.index] >= generation[g.cap.index]
      BY <2>2, <2>6, <3>1 DEF Clear
    <3>2. ASSUME NEW i, NEW o, NEW r, NEW p, NEW line, Fill(i, o, r, p, line)
          PROVE  generation' = generation
      BY <3>2 DEF Fill
    <3>3. CASE \E o \in Objects, r \in SUBSET Rights : cap_insert(o, r)
      BY <2>6, <3>2, <3>3 DEF cap_insert
    <3>4. CASE \E cap \in Handles, r \in SUBSET Rights : cap_derive(cap, r)
      BY <2>6, <3>2, <3>4 DEF cap_derive
    <3>5. CASE \E cap \in Handles : cap_delete(cap) \/ cap_revoke(cap)
      BY <3>1, <3>5 DEF cap_delete, cap_revoke
    <3>6. CASE cap_insert_full \/ \E cap \in Handles : cap_revoke_overflow(cap)
      BY <2>6, <3>6 DEF cap_insert_full, cap_revoke_overflow, vars, slotVars
    <3> QED
      BY <3>3, <3>4, <3>5, <3>6 DEF Next
  <2> QED
    BY <2>2, <2>4, <2>5, <2>6, <2>7
<1>2. []CapInv /\ [][Next]_vars
        => [][\A g \in issued : ~resolve(g.cap) => ~resolve(g.cap)']_vars
  BY <1>1, PTL
<1> QED
  BY <1>2, CapInvariant, PTL DEF Spec, StaysDead

----------------------------------------------------------------------------
(* Revocation.  It follows the parent indices of the slots, and the        *)
(* property speaks of the lines of derivation: LineInv relates the two.    *)

\* A handle that cannot carry its slot's generation belongs to a slot that is
\* never freed again.
UnfitStays ==
    \A g \in issued : g.cap.gen = 0 =>
        used[g.cap.index] /\ generation[g.cap.index] = HandleGens

\* No handle is returned twice.
CapsUnique == \A g, h \in issued : g.cap = h.cap => g = h

\* No handle descends from itself.
NotOwnAncestor == \A g \in issued : g.cap \notin g.line

\* The line of a derived handle is its parent's, with the parent added, and as
\* long as the handle resolves its slot names the parent's slot.
Linked ==
    \A g \in issued : g.line # {} =>
        \E p \in issued :
            /\ g.line = {p.cap} \cup p.line
            /\ resolve(g.cap) => parent[g.cap.index] = p.cap.index

LineInv == UnfitStays /\ CapsUnique /\ NotOwnAncestor /\ Linked

\* A new handle was never seen before, and names its parent's slot.
LEMMA FillLineInv ==
    ASSUME CapInv, LineInv,
           NEW i \in Slots, ~used[i], NEW o, NEW r, NEW p, NEW line,
           \A cap \in line : Known(cap),
           line # {} => \E q \in issued : /\ line = {q.cap} \cup q.line
                                          /\ generation[i] < HandleGens => p = q.cap.index,
           Fill(i, o, r, p, line)
    PROVE  LineInv'
<1> DEFINE new == [cap |-> pack(i, generation[i]), object |-> o,
                   rights |-> r, line |-> line]
<1>0. HandleGens \in Nat /\ HandleGens > 1
  BY CapAssumption
<1>1. /\ generation[i] \in 1 .. HandleGens
      /\ new.cap.index = i
      /\ new.cap.gen \in 0 .. HandleGens - 1
      /\ generation[i] < HandleGens => new.cap.gen = generation[i]
      /\ generation[i] = HandleGens => new.cap.gen = 0
  <2>1. generation[i] \in 1 .. HandleGens
    BY DEF CapInv, TypeOK
  <2> QED
    BY <1>0, <2>1, PackedGeneration DEF pack
<1>2. /\ issued' = issued \cup {new}
      /\ generation' = generation
      /\ used' = [used EXCEPT ![i] = TRUE]
      /\ parent' = [parent EXCEPT ![i] = p]
  BY DEF Fill
<1>3. /\ used \in [Slots -> BOOLEAN] /\ parent \in [Slots -> Slots \cup {NoParent}]
      /\ \A g \in issued : g.cap.index \in Slots
  BY DEF CapInv, TypeOK, IssuedKnown
<1>4. new.line = line
  OBVIOUS
<1> HIDE DEF new
<1>5. ~Known(new.cap)
  BY <1>0, <1>1 DEF Known
<1>6. UnfitStays'
  <2> SUFFICES ASSUME NEW g \in issued', g.cap.gen = 0
               PROVE  used'[g.cap.index] /\ generation'[g.cap.index] = HandleGens
    BY DEF UnfitStays
  <2>1. CASE g \in issued
    BY <1>2, <1>3, <2>1 DEF LineInv, UnfitStays
  <2>2. CASE g = new
    BY <1>0, <1>1, <1>2, <1>3, <2>2
  <2> QED
    BY <1>2, <2>1, <2>2
<1>7. \A g \in issued : g.cap # new.cap
  <2> SUFFICES ASSUME NEW g \in issued, g.cap = new.cap PROVE FALSE
    OBVIOUS
  <2>1. CASE g.cap.gen = 0
    BY <1>1, <2>1 DEF LineInv, UnfitStays
  <2>2. CASE g.cap.gen # 0
    BY <1>5, <2>2 DEF CapInv, IssuedKnown
  <2> QED
    BY <2>1, <2>2
<1>8. CapsUnique'
  BY <1>2, <1>7 DEF LineInv, CapsUnique
<1>9. NotOwnAncestor'
  BY <1>2, <1>4, <1>5 DEF LineInv, NotOwnAncestor
<1>10. Linked'
  <2> SUFFICES ASSUME NEW g \in issued', g.line # {}
               PROVE  \E q \in issued' :
                         /\ g.line = {q.cap} \cup q.line
                         /\ resolve(g.cap)' => parent'[g.cap.index] = q.cap.index
    BY DEF Linked
  <2>1. CASE g \in issued
    <3>1. PICK q \in issued : /\ g.line = {q.cap} \cup q.line
                              /\ resolve(g.cap) => parent[g.cap.index] = q.cap.index
      BY <2>1 DEF LineInv, Linked
    <3>2. resolve(g.cap)' => g.cap.index # i
      <4> SUFFICES ASSUME resolve(g.cap)', g.cap.index = i PROVE FALSE
        OBVIOUS
      <4>1. g.cap.gen = generation[i] /\ g.cap.gen # 0
        BY <1>1, <1>2 DEF resolve
      <4>2. Known(g.cap)
        BY <2>1, <4>1 DEF CapInv, IssuedKnown
      <4> QED
        BY <1>1, <4>1, <4>2 DEF Known
    <3>3. resolve(g.cap)' => resolve(g.cap) /\ parent'[g.cap.index] = parent[g.cap.index]
      BY <1>2, <1>3, <2>1, <3>2 DEF resolve
    <3> QED
      BY <1>2, <3>1, <3>3
  <2>2. CASE g = new
    <3>1. PICK q \in issued : /\ line = {q.cap} \cup q.line
                              /\ generation[i] < HandleGens => p = q.cap.index
      BY <1>4, <2>2
    <3>2. resolve(g.cap)' => generation[i] < HandleGens /\ parent'[i] = p
      BY <1>0, <1>1, <1>2, <1>3, <2>2 DEF resolve
    <3> QED
      BY <1>1, <1>2, <1>4, <2>2, <3>1, <3>2
  <2> QED
    BY <1>2, <2>1, <2>2
<1> QED
  BY <1>6, <1>8, <1>9, <1>10 DEF LineInv

\* Freeing slots takes handles away and changes no parent of those that remain.
LEMMA ClearLineInv ==
    ASSUME CapInv, LineInv,
           NEW S \in SUBSET Slots,
           \A i \in S : used[i] /\ generation[i] < HandleGens,
           Clear(S)
    PROVE  LineInv'
<1>0. HandleGens \in Nat /\ HandleGens > 1
  BY CapAssumption
<1>1. /\ issued' = issued
      /\ used' = [i \in Slots |-> IF i \in S THEN FALSE ELSE used[i]]
      /\ parent' = [i \in Slots |-> IF i \in S THEN NoParent ELSE parent[i]]
      /\ generation' = [i \in Slots |-> IF i \in S THEN generation[i] + 1
                                                    ELSE generation[i]]
  BY DEF Clear
<1>2. /\ \A g \in issued : g.cap.index \in Slots
      /\ generation \in [Slots -> 1 .. HandleGens]
  BY DEF CapInv, TypeOK, IssuedKnown
<1>3. UnfitStays'
  <2> SUFFICES ASSUME NEW g \in issued, g.cap.gen = 0
               PROVE  used'[g.cap.index] /\ generation'[g.cap.index] = HandleGens
    BY <1>1 DEF UnfitStays
  <2>1. used[g.cap.index] /\ generation[g.cap.index] = HandleGens
    BY DEF LineInv, UnfitStays
  <2>2. g.cap.index \notin S
    BY <1>0, <2>1
  <2> QED
    BY <1>1, <1>2, <2>1, <2>2
<1>4. \A g \in issued : resolve(g.cap)' =>
          resolve(g.cap) /\ parent'[g.cap.index] = parent[g.cap.index]
  BY <1>1, <1>2 DEF resolve
<1>5. Linked'
  <2> SUFFICES ASSUME NEW g \in issued, g.line # {}
               PROVE  \E p \in issued :
                         /\ g.line = {p.cap} \cup p.line
                         /\ resolve(g.cap)' => parent'[g.cap.index] = p.cap.index
    BY <1>1 DEF Linked
  <2>1. PICK p \in issued : /\ g.line = {p.cap} \cup p.line
                            /\ resolve(g.cap) => parent[g.cap.index] = p.cap.index
    BY DEF LineInv, Linked
  <2>2. resolve(g.cap)' => parent'[g.cap.index] = p.cap.index
    BY <1>4, <2>1
  <2> QED
    BY <2>1, <2>2
<1> QED
  BY <1>1, <1>3, <1>5 DEF LineInv, CapsUnique, NotOwnAncestor

\* A handle that resolves was granted once; it is the end of its own line.
LEMMA ResolvedGranted ==
    ASSUME CapInv, LineInv, NEW cap \in Handles, resolve(cap)
    PROVE  \E q \in issued : q.cap = cap /\ LineageOf(cap) = {cap} \cup q.line
<1>1. /\ cap.index \in Slots /\ used[cap.index]
      /\ cap.gen = generation[cap.index] /\ generation[cap.index] < HandleGens
  BY ResolvedKnown
<1>2. cap = [index |-> cap.index, gen |-> generation[cap.index]]
  BY <1>1 DEF Handles
<1>3. PICK q \in issued : q.cap = [index |-> cap.index, gen |-> generation[cap.index]]
  BY <1>1 DEF CapInv, UsedGranted
<1>4. q.cap = cap
  BY <1>2, <1>3
<1>5. \A h \in issued : h.cap = cap => h = q
  BY <1>4 DEF LineInv, CapsUnique
<1>6. {h \in issued : h.cap = cap} = {q}
  BY <1>4, <1>5
<1>7. LineageOf(cap) = {cap} \cup q.line
  BY <1>6 DEF LineageOf
<1> QED
  BY <1>4, <1>7

\* Every operation keeps the lines and the parents in step.
LEMMA NextLineInv == CapInv /\ LineInv /\ [Next]_vars => LineInv'
<1> SUFFICES ASSUME CapInv, LineInv, [Next]_vars PROVE LineInv'
  OBVIOUS
<1>1. ASSUME NEW o \in Objects, NEW r \in SUBSET Rights, cap_insert(o, r)
      PROVE  LineInv'
  <2>1. PICK i \in Slots : IsFirstFree(i) /\ Fill(i, o, r, NoParent, {})
    BY <1>1 DEF cap_insert
  <2>2. ~used[i]
    BY <2>1 DEF IsFirstFree, FreeSlots
  <2> QED
    BY <2>1, <2>2, FillLineInv
<1>2. ASSUME NEW cap \in Handles, NEW r \in SUBSET Rights, cap_derive(cap, r)
      PROVE  LineInv'
  <2>1. PICK i \in Slots :
            /\ IsFirstFree(i)
            /\ Fill(i, object[cap.index], r, ChildParent(i, cap), LineageOf(cap))
    BY <1>2 DEF cap_derive
  <2>2. ~used[i] /\ resolve(cap)
    BY <1>2, <2>1 DEF IsFirstFree, FreeSlots, cap_derive
  <2>3. \A c \in LineageOf(cap) : Known(c)
    BY <2>2, ResolvedKnown DEF LineageOf, CapInv, LinesKnown
  <2>4. PICK q \in issued : q.cap = cap /\ LineageOf(cap) = {cap} \cup q.line
    BY <2>2, ResolvedGranted
  <2>5. generation[i] < HandleGens => ChildParent(i, cap) = cap.index
    <3>1. generation[i] \in 1 .. HandleGens
      BY DEF CapInv, TypeOK
    <3> QED
      BY <3>1, PackedGeneration DEF ChildParent, pack
  <2> QED
    BY <2>1, <2>2, <2>3, <2>4, <2>5, FillLineInv
<1>3. ASSUME NEW cap \in Handles, cap_delete(cap)
      PROVE  LineInv'
  <2>1. resolve(cap) /\ Clear({cap.index})
    BY <1>3 DEF cap_delete
  <2> QED
    BY <2>1, ResolvedKnown, ClearLineInv
<1>4. ASSUME NEW cap \in Handles, cap_revoke(cap)
      PROVE  LineInv'
  <2> DEFINE S == revoke_children(cap.index) \cup {cap.index}
  <2>1. resolve(cap) /\ Clear(S)
    BY <1>4 DEF cap_revoke
  <2>2. \A j \in S : j \in Slots /\ used[j] /\ generation[j] < HandleGens
    BY <2>1, RevokedSlots
  <2> HIDE DEF S
  <2> QED
    BY <2>1, <2>2, ClearLineInv
<1>5. CASE \/ UNCHANGED vars \/ cap_insert_full
           \/ \E cap \in Handles : cap_revoke_overflow(cap)
  <2>1. UNCHANGED <<used, generation, parent, issued>>
    BY <1>5 DEF cap_insert_full, cap_revoke_overflow, vars, slotVars
  <2> QED
    BY <2>1 DEF LineInv, UnfitStays, CapsUnique, NotOwnAncestor, Linked, resolve
<1> QED
  BY <1>1, <1>2, <1>3, <1>4, <1>5 DEF Next

\* The lines of derivation and the parent indices agree in every state.
THEOREM CapLines == Spec => []LineInv
<1>1. Init => LineInv
  BY DEF Init, LineInv, UnfitStays, CapsUnique, NotOwnAncestor, Linked
<1>2. CapInv /\ LineInv /\ [Next]_vars => LineInv'
  BY NextLineInv
<1> QED
  BY <1>1, <1>2, CapInvariant, PTL DEF Spec

----------------------------------------------------------------------------
\* The slots of the capabilities on the line of g below cap.
Between(cap, g) == {a.cap.index : a \in {b \in issued : b.cap \in g.line /\ cap \in b.line}}

\* A handle that descends from cap through handles that resolve is in a slot the
\* recursion of revoke_children reaches.  By induction on the number of slots
\* between the two.
LEMMA DescendantReached ==
    ASSUME CapInv, LineInv, NEW cap \in Handles,
           NEW C \in SUBSET Slots, ChildrenOf(cap.index) \subseteq C,
           \A i \in C : ChildrenOf(i) \subseteq C
    PROVE  \A n \in Nat : \A g \in issued :
               /\ Cardinality(Between(cap, g)) = n
               /\ cap \in g.line /\ resolve(g.cap)
               /\ \A a \in issued : a.cap \in g.line /\ cap \in a.line => resolve(a.cap)
               => g.cap.index \in C
<1>0. \A n \in Nat : n + 1 \in Nat
  OBVIOUS
<1> DEFINE Reached(g) ==
              /\ cap \in g.line /\ resolve(g.cap)
              /\ \A a \in issued : a.cap \in g.line /\ cap \in a.line => resolve(a.cap)
              => g.cap.index \in C
           T == {n \in Nat : \A g \in issued : Cardinality(Between(cap, g)) = n => Reached(g)}
\* One step up the line: the parent is cap, or is reached one slot earlier.
<1>1. ASSUME NEW g \in issued, cap \in g.line, resolve(g.cap),
             \A a \in issued : a.cap \in g.line /\ cap \in a.line => resolve(a.cap)
      PROVE  \/ g.cap.index \in C
             \/ \E p \in issued :
                   /\ IsFiniteSet(Between(cap, p))
                   /\ Cardinality(Between(cap, g)) = Cardinality(Between(cap, p)) + 1
                   /\ cap \in p.line /\ resolve(p.cap)
                   /\ \A a \in issued : a.cap \in p.line /\ cap \in a.line => resolve(a.cap)
                   /\ p.cap.index \in C => g.cap.index \in C
  <2>1. PICK p \in issued : g.line = {p.cap} \cup p.line /\ parent[g.cap.index] = p.cap.index
    BY <1>1 DEF LineInv, Linked
  <2>2. g.cap.index \in ChildrenOf(p.cap.index)
    BY <1>1, <2>1 DEF ChildrenOf, resolve
  <2>3. CASE p.cap = cap
    BY <2>2, <2>3
  <2>4. CASE p.cap # cap
    <3>1. cap \in p.line /\ resolve(p.cap)
      BY <1>1, <2>1, <2>4
    <3>2. \A a \in issued : a.cap \in p.line /\ cap \in a.line => resolve(a.cap)
      BY <1>1, <2>1
    <3>3. p.cap.index \notin Between(cap, p)
      <4> SUFFICES ASSUME NEW a \in issued, a.cap \in p.line, cap \in a.line,
                          a.cap.index = p.cap.index
                   PROVE  FALSE
        BY DEF Between
      <4>1. resolve(a.cap)
        BY <3>2
      <4>2. a.cap.gen = p.cap.gen
        BY <3>1, <4>1 DEF resolve
      <4>3. a.cap \in Handles /\ p.cap \in Handles
        BY DEF CapInv, TypeOK, Grants
      <4>4. a.cap = p.cap
        BY <4>2, <4>3 DEF Handles
      <4> QED
        BY <4>4 DEF LineInv, NotOwnAncestor
    <3>4. Between(cap, g) = Between(cap, p) \cup {p.cap.index}
      <4>1. \A b \in issued : b.cap \in g.line /\ cap \in b.line <=>
                 b = p \/ (b.cap \in p.line /\ cap \in b.line)
        BY <2>1, <3>1 DEF LineInv, CapsUnique
      <4> QED
        BY <4>1 DEF Between
    <3>5. IsFiniteSet(Between(cap, p))
      <4>1. Between(cap, p) \in SUBSET Slots
        BY DEF Between, CapInv, IssuedKnown
      <4> QED
        BY <4>1, UsedFinite
    <3>6. Cardinality(Between(cap, g)) = Cardinality(Between(cap, p)) + 1
      BY <3>3, <3>4, <3>5, FS_AddElement
    <3>7. p.cap.index \in C => g.cap.index \in C
      BY <2>2
    <3> QED
      BY <3>1, <3>2, <3>5, <3>6, <3>7
  <2> QED
    BY <2>3, <2>4
<1>2. 0 \in T
  <2> SUFFICES ASSUME NEW g \in issued, Cardinality(Between(cap, g)) = 0 PROVE Reached(g)
    OBVIOUS
  <2> SUFFICES ASSUME cap \in g.line, resolve(g.cap),
                      \A a \in issued : a.cap \in g.line /\ cap \in a.line => resolve(a.cap),
                      g.cap.index \notin C
               PROVE  FALSE
    OBVIOUS
  <2>1. PICK p \in issued : /\ IsFiniteSet(Between(cap, p))
                            /\ 0 = Cardinality(Between(cap, p)) + 1
    BY <1>1
  <2>2. Cardinality(Between(cap, p)) \in Nat
    BY <2>1, FS_CardinalityType
  <2> QED
    BY <2>1, <2>2
<1>3. \A n \in Nat : n \in T => n + 1 \in T
  <2> SUFFICES ASSUME NEW n \in Nat, n \in T,
                      NEW g \in issued, Cardinality(Between(cap, g)) = n + 1
               PROVE  Reached(g)
    BY <1>0, Zenon
  <2> SUFFICES ASSUME cap \in g.line, resolve(g.cap),
                      \A a \in issued : a.cap \in g.line /\ cap \in a.line => resolve(a.cap),
                      g.cap.index \notin C
               PROVE  FALSE
    OBVIOUS
  <2>1. PICK p \in issued :
            /\ IsFiniteSet(Between(cap, p))
            /\ n + 1 = Cardinality(Between(cap, p)) + 1
            /\ cap \in p.line /\ resolve(p.cap)
            /\ \A a \in issued : a.cap \in p.line /\ cap \in a.line => resolve(a.cap)
            /\ p.cap.index \in C => g.cap.index \in C
    BY <1>1
  <2>2. Cardinality(Between(cap, p)) \in Nat
    BY <2>1, FS_CardinalityType
  <2>3. Cardinality(Between(cap, p)) = n
    BY <2>1, <2>2
  <2>4. Reached(p)
    BY <2>3
  <2> QED
    BY <2>1, <2>4
<1>4. \A n \in Nat : n \in T
  <2> HIDE DEF T
  <2> QED
    BY <1>2, <1>3, InductionOnNat
<1> QED
  BY <1>4

\* A revocation disarms the revoked handle and every handle that descends from it
\* through capabilities that still exist.
THEOREM CapRevokeDisarms == Spec => RevokeDisarms
<1> DEFINE Disarms == \A cap \in Handles :
              cap_revoke(cap) =>
                /\ ~resolve(cap)'
                /\ \A g \in issued :
                     /\ cap \in g.line
                     /\ \A a \in issued :
                           a.cap \in g.line /\ cap \in a.line => resolve(a.cap)
                     => ~resolve(g.cap)'
<1>1. CapInv /\ LineInv => Disarms
  <2> SUFFICES ASSUME CapInv, LineInv, NEW cap \in Handles, cap_revoke(cap)
               PROVE  /\ ~resolve(cap)'
                      /\ \A g \in issued :
                           /\ cap \in g.line
                           /\ \A a \in issued :
                                 a.cap \in g.line /\ cap \in a.line => resolve(a.cap)
                           => ~resolve(g.cap)'
    OBVIOUS
  <2> DEFINE S == revoke_children(cap.index) \cup {cap.index}
  <2>1. resolve(cap) /\ Clear(S)
    BY DEF cap_revoke
  <2>2. \A c : c.index \in S => ~resolve(c)'
    BY <2>1 DEF Clear, resolve
  <2>3. cap.index \in S
    OBVIOUS
  <2>4. ASSUME NEW g \in issued, cap \in g.line,
               \A a \in issued : a.cap \in g.line /\ cap \in a.line => resolve(a.cap),
               resolve(g.cap)'
        PROVE  FALSE
    <3>1. g.cap \in Handles
      BY DEF CapInv, TypeOK, Grants
    <3>2. resolve(g.cap)
      <4>1. g.cap.index \notin S
        BY <2>2, <2>4
      <4> HIDE DEF S
      <4> QED
        BY <2>1, <2>4, <4>1 DEF Clear, resolve
    <3>3. g.cap.index \in Descendants(cap.index)
      <4> SUFFICES ASSUME NEW C \in SUBSET Slots, ChildrenOf(cap.index) \subseteq C,
                          \A i \in C : ChildrenOf(i) \subseteq C
                   PROVE  g.cap.index \in C
        BY <3>2 DEF Descendants, resolve
      <4>1. Cardinality(Between(cap, g)) \in Nat
        <5>1. Between(cap, g) \in SUBSET Slots
          BY DEF Between, CapInv, IssuedKnown
        <5>2. IsFiniteSet(Between(cap, g))
          BY <5>1, UsedFinite
        <5> QED
          BY <5>2, FS_CardinalityType
      <4> QED
        BY <2>4, <3>2, <4>1, DescendantReached
    <3>4. pack(g.cap.index, generation[g.cap.index]) = g.cap
      <4>1. /\ g.cap.index \in Slots /\ g.cap.gen = generation[g.cap.index]
            /\ generation[g.cap.index] < HandleGens
        BY <3>1, <3>2, ResolvedKnown
      <4>2. generation[g.cap.index] % HandleGens = g.cap.gen
        BY <4>1, PackedGeneration DEF CapInv, TypeOK
      <4> QED
        BY <3>1, <4>2 DEF pack, Handles
    <3>5. g.cap.index \in S
      BY <3>2, <3>3, <3>4 DEF revoke_children, Deletable
    <3> QED
      BY <2>2, <2>4, <3>5
  <2> QED
    BY <2>2, <2>3, <2>4
<1>2. []CapInv /\ []LineInv => [][Disarms]_vars
  BY <1>1, PTL
<1>3. Spec => [][Disarms]_vars
  BY <1>2, CapInvariant, CapLines, PTL
<1> QED
  BY <1>3 DEF RevokeDisarms
============================================================================
