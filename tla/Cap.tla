-------------------------------- MODULE Cap --------------------------------
(***************************************************************************)
(* The capability table of one process (kernel/core/cap.c).                *)
(*                                                                         *)
(* A capability is a used slot: an object, a set of rights, a generation   *)
(* and the index of the slot it was derived from.  Holders never see the   *)
(* slot, only a handle, a 32-bit word with the slot's index in the low 8   *)
(* bits and as much of the generation as fits in the 24 bits above it.     *)
(*                                                                         *)
(* HandleGens is the number of generations a handle can tell apart (2^24   *)
(* in the code).  Slot 0 exists but is never handed out, so that the word  *)
(* 0 is never a handle.  No operation takes a lock: a table belongs to one *)
(* process, and each operation is one step here.                           *)
(***************************************************************************)
EXTENDS Integers, FiniteSets

CONSTANTS MaxSlots,     \* AF_CAP_MAX_SLOTS
          HandleGens,   \* 2^(32 - AF_CAP_INDEX_BITS)
          Objects,      \* what a capability may refer to
          Rights,       \* the bits of AF_RIGHT_ALL
          REVOKE,       \* AF_RIGHT_REVOKE, one of them
          NoObject,     \* AF_OBJECT_NONE
          MaxGrants     \* bound: different grants in a behaviour

ASSUME CapAssumption ==
    /\ MaxSlots \in Nat \ {0}
    /\ HandleGens \in Nat \ {0, 1}
    /\ REVOKE \in Rights
    /\ NoObject \notin Objects
    /\ MaxGrants \in Nat

Slots    == 1 .. MaxSlots - 1
NoParent == -1                    \* AF_CAP_NO_PARENT
Handles  == [index : 0 .. MaxSlots - 1, gen : 0 .. HandleGens - 1]
INVALID  == [index |-> 0, gen |-> 0]

VARIABLES used, object, rights, generation, parent,   \* the slots
          count,     \* table->used
          issued,    \* history: every handle ever returned, with its meaning
          overflow   \* TRUE when a revoke has recursed without bound

slotVars == <<used, object, rights, generation, parent>>
vars     == <<slotVars, count, issued, overflow>>

(***************************************************************************)
(* issued is not in the code.  It records what each handle was returned    *)
(* for: the object and rights granted, and the handles it descends from.   *)
(***************************************************************************)
Grants == [cap : Handles, object : Objects, rights : SUBSET Rights,
           line : SUBSET Handles]

\* The handle cap and every handle it was derived from, however far back.
LineageOf(cap) == {cap} \cup UNION {g.line : g \in {h \in issued : h.cap = cap}}

pack(i, g) == [index |-> i, gen |-> g % HandleGens]

\* The handle resolves to its slot: the index is in range, the slot is in
\* use, and the slot's whole generation is the one the handle carries.
resolve_NoGenerationCheck(cap) ==
    /\ cap # INVALID
    /\ cap.index \in Slots
    /\ used[cap.index]

resolve(cap) ==
    /\ cap # INVALID
    /\ cap.index \in Slots
    /\ used[cap.index]
    /\ generation[cap.index] = cap.gen

Init ==
    /\ used       = [i \in Slots |-> FALSE]
    /\ object     = [i \in Slots |-> NoObject]
    /\ rights     = [i \in Slots |-> {}]
    /\ generation = [i \in Slots |-> 1]
    /\ parent     = [i \in Slots |-> NoParent]
    /\ count = 0
    /\ issued = {}
    /\ overflow = FALSE

----------------------------------------------------------------------------
(* Insertion: the lowest free slot takes the capability.                   *)

FreeSlots == {i \in Slots : ~used[i]}

IsFirstFree(i) == i \in FreeSlots /\ \A j \in FreeSlots : i <= j

\* Slot i takes capability <o, r>; the slot's parent field becomes p.
Fill(i, o, r, p, line) ==
    /\ ~overflow
    /\ used'   = [used   EXCEPT ![i] = TRUE]
    /\ object' = [object EXCEPT ![i] = o]
    /\ rights' = [rights EXCEPT ![i] = r]
    /\ parent' = [parent EXCEPT ![i] = p]
    /\ count'  = count + 1
    /\ issued' = issued \cup {[cap |-> pack(i, generation[i]), object |-> o,
                               rights |-> r, line |-> line]}
    /\ UNCHANGED <<generation, overflow>>

cap_insert(o, r) ==
    /\ Cardinality(issued) < MaxGrants
    /\ \E i \in Slots : IsFirstFree(i) /\ Fill(i, o, r, NoParent, {})

\* A full table answers AF_CAP_INVALID and changes nothing.
cap_insert_full ==
    /\ ~overflow
    /\ FreeSlots = {}
    /\ UNCHANGED vars

\* The resolve of the new handle can fail only when its generation no longer
\* fits in a handle; the child then keeps NoParent.
ChildParent(i, cap) ==
    IF generation[i] = pack(i, generation[i]).gen THEN cap.index ELSE NoParent

\* The rights test that makes derivation narrowing.
Narrows_Always(r, cap) == TRUE

Narrows(r, cap) == r \subseteq rights[cap.index]

cap_derive(cap, r) ==
    /\ resolve(cap)
    /\ Narrows(r, cap)
    /\ Cardinality(issued) < MaxGrants
    /\ \E i \in Slots :
          /\ IsFirstFree(i)
          /\ Fill(i, object[cap.index], r, ChildParent(i, cap), LineageOf(cap))

----------------------------------------------------------------------------
(* Deletion and revocation.                                                *)

\* table->used after the deletion of every slot of S.
CountAfter_Once(S) == IF count > 0 THEN count - 1 ELSE 0

CountAfter(S) == IF count >= Cardinality(S) THEN count - Cardinality(S) ELSE 0

\* The effect of deleting every slot of S by its handle.
Clear_KeepGeneration(S) ==
    /\ ~overflow
    /\ used'   = [i \in Slots |-> IF i \in S THEN FALSE ELSE used[i]]
    /\ object' = [i \in Slots |-> IF i \in S THEN NoObject ELSE object[i]]
    /\ rights' = [i \in Slots |-> IF i \in S THEN {} ELSE rights[i]]
    /\ parent' = [i \in Slots |-> IF i \in S THEN NoParent ELSE parent[i]]
    /\ count' = CountAfter(S)
    /\ UNCHANGED <<generation, issued, overflow>>

Clear(S) ==
    /\ ~overflow
    /\ used'   = [i \in Slots |-> IF i \in S THEN FALSE ELSE used[i]]
    /\ object' = [i \in Slots |-> IF i \in S THEN NoObject ELSE object[i]]
    /\ rights' = [i \in Slots |-> IF i \in S THEN {} ELSE rights[i]]
    /\ parent' = [i \in Slots |-> IF i \in S THEN NoParent ELSE parent[i]]
    /\ generation' = [i \in Slots |-> IF i \in S THEN generation[i] + 1
                                                  ELSE generation[i]]
    /\ count' = CountAfter(S)
    /\ UNCHANGED <<issued, overflow>>

cap_delete(cap) ==
    /\ resolve(cap)
    /\ Clear({cap.index})

\* One level of revoke_children: the used slots that name p as their parent.
ChildrenOf(p) == {j \in Slots : used[j] /\ parent[j] = p}

Descendants_ChildrenOnly(p) == ChildrenOf(p)

\* The slots its recursion visits below index p: the least set that holds the
\* children of p and of each of its members.
Descendants(p) ==
    {j \in Slots : \A C \in SUBSET Slots :
        ChildrenOf(p) \subseteq C /\ (\A i \in C : ChildrenOf(i) \subseteq C) => j \in C}

\* Each visited slot is deleted through its packed handle, which fails
\* silently when the generation no longer fits.
Deletable(S) == {j \in S : resolve(pack(j, generation[j]))}

revoke_children(p) == Deletable(Descendants(p))

\* The recursion ends unless the chain of parents returns to its start.
Recurses(p) == p \in Descendants(p)

cap_revoke(cap) ==
    /\ resolve(cap)
    /\ REVOKE \in rights[cap.index]
    /\ ~Recurses(cap.index)
    /\ Clear(revoke_children(cap.index) \cup {cap.index})

\* On a cycle of parents no slot is ever deleted: each visit recurses first.
cap_revoke_overflow(cap) ==
    /\ ~overflow
    /\ resolve(cap)
    /\ REVOKE \in rights[cap.index]
    /\ Recurses(cap.index)
    /\ overflow' = TRUE
    /\ UNCHANGED <<slotVars, count, issued>>

----------------------------------------------------------------------------
\* Authority is decided here and nowhere else.
cap_lookup(cap, required) ==
    IF ~resolve(cap) THEN "CAP_INVALID"
    ELSE IF ~(required \subseteq rights[cap.index]) THEN "PERM"
    ELSE "OK"

Next ==
    \/ \E o \in Objects, r \in SUBSET Rights : cap_insert(o, r)
    \/ cap_insert_full
    \/ \E cap \in Handles, r \in SUBSET Rights : cap_derive(cap, r)
    \/ \E cap \in Handles : cap_delete(cap)
    \/ \E cap \in Handles : cap_revoke(cap)
    \/ \E cap \in Handles : cap_revoke_overflow(cap)

Spec == Init /\ [][Next]_vars

----------------------------------------------------------------------------
\* Every slot field keeps its range; a slot's generation stops growing at the
\* first value a handle cannot carry, because no handle then deletes the slot.
TypeOK ==
    /\ used \in [Slots -> BOOLEAN]
    /\ object \in [Slots -> Objects \cup {NoObject}]
    /\ rights \in [Slots -> SUBSET Rights]
    /\ generation \in [Slots -> 1 .. HandleGens]
    /\ parent \in [Slots -> Slots \cup {NoParent}]
    /\ count \in 0 .. MaxSlots - 1
    /\ issued \subseteq Grants
    /\ overflow \in BOOLEAN

\* Whatever word is presented to cap_lookup, stale, forged or genuine, it
\* opens an object only if that very word was returned by cap_insert or
\* cap_derive for that object, with at least the rights asked for.
AuthorityIsGranted ==
    \A cap \in Handles, required \in SUBSET Rights :
        cap_lookup(cap, required) = "OK" =>
            \E g \in issued : /\ g.cap = cap
                              /\ g.object = object[cap.index]
                              /\ required \subseteq g.rights

\* Rule 1 over whole histories: along any chain of cap_derive, through
\* deletions and reuse of the slots in between, authority only narrows.
LineageNarrows ==
    \A g, p \in issued :
        p.cap \in g.line => g.object = p.object /\ g.rights \subseteq p.rights

\* A handle that has been deleted or revoked never resolves again, whatever
\* later takes its slot.
StaysDead ==
    [][\A g \in issued : ~resolve(g.cap) => ~resolve(g.cap)']_vars

\* The deletions of revoke_children: every handle that descends from the
\* revoked one through capabilities that still exist is dead afterwards, and
\* so is the revoked one itself.
RevokeDisarms ==
    [][\A cap \in Handles :
          cap_revoke(cap) =>
            /\ ~resolve(cap)'
            /\ \A g \in issued :
                 /\ cap \in g.line
                 /\ \A a \in issued :
                       a.cap \in g.line /\ cap \in a.line => resolve(a.cap)
                 => ~resolve(g.cap)']_vars

\* table->used counts the slots in use, through every path that frees one.
CountExact == count = Cardinality({i \in Slots : used[i]})

\* The table keeps its form, generations within what handles carry, and its
\* count is exact.
TableSound == TypeOK /\ CountExact

----------------------------------------------------------------------------
(* What the comments of cap.h and cap.c say and the code does not do.      *)

\* cap.h: "Revoking a capability destroys everything derived from it,
\* recursively."  Deleting a capability in the middle of a chain detaches
\* everything below it from revocation.
RevokeIsTransitive ==
    [][\A cap \in Handles : cap_revoke(cap) =>
          \A g \in issued : cap \in g.line => ~resolve(g.cap)']_vars

\* cap.c: "a child of a since-reused slot is simply never reached by a
\* revoke".  Parents are compared by index only, so the child is reached by
\* the revocation of the unrelated capability now in its parent's slot.
RevokeSparesStrangers ==
    [][\A cap \in Handles : cap_revoke(cap) =>
          \A g \in issued :
              g.cap # cap /\ cap \notin g.line /\ resolve(g.cap)
                  => resolve(g.cap)']_vars

\* cap.c: "the depth is bounded by AF_CAP_MAX_SLOTS and there is no stack
\* overflow risk".  Reused slots can make a cycle of parent indices.
RevokeTerminates == ~overflow

\* cap.c: "the resolve below cannot fail".  It fails once a slot has been
\* freed 2^24 - 1 times: its generation no longer fits in a handle.
FreshHandleResolves ==
    \A i \in Slots : used[i] => resolve(pack(i, generation[i]))
============================================================================
