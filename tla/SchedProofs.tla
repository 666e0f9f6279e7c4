----------------------------- MODULE SchedProofs -----------------------------
(***************************************************************************)
(* Sched, for every number of threads, priorities, slices and zombies: a   *)
(* thread is where its state says, with ticks at any point of a switch,    *)
(* until one has torn a switch apart.  The step that needs an argument is  *)
(* the choice of a successor: suspended threads may hold others that are   *)
(* runnable and in no queue, even the idle thread, but each holds one only *)
(* and is runnable itself, so one of them is left in the queues.           *)
(***************************************************************************)
EXTENDS Sched, SequenceTheorems, FiniteSetTheorems, WellFoundedInduction, TLAPS

----------------------------------------------------------------------------
(* Natural numbers.                                                        *)

\* A set of natural numbers that is not empty has a least element, as the
\* occupied levels have.
LEMMA LeastNatural ==
    ASSUME NEW T, T \subseteq Nat, T # {}
    PROVE  \E x \in T : \A y \in T : x <= y
<1> DEFINE R == OpToRel(<, Nat)
<1>1. IsWellFoundedOn(R, Nat)
    BY NatLessThanWellFounded
<1>2. \E x \in T : \A y \in T : ~(<<y, x>> \in R)
    BY ONLY <1>1, T \subseteq Nat, T # {}, WFMin
<1>3. \A x, y \in Nat : <<y, x>> \in R <=> y < x
    BY DEF OpToRel
<1> HIDE DEF R
<1>4. PICK x \in T : \A y \in T : ~(<<y, x>> \in R)
    BY <1>2
<1>5. \A y \in T : x <= y
    <2> TAKE y \in T
    <2>1. x \in Nat /\ y \in Nat /\ ~(y < x)
        BY <1>3, <1>4
    <2> QED BY <2>1
<1> QED BY <1>5

\* Induction: a set of natural numbers with 0 and every successor is Nat.
LEMMA InductionOnNat ==
    ASSUME NEW S, 0 \in S, \A n \in Nat : n \in S => n + 1 \in S
    PROVE  \A n \in Nat : n \in S
<1> SUFFICES ASSUME ~(\A n \in Nat : n \in S) PROVE FALSE
    OBVIOUS
<1> DEFINE T == Nat \ S
<1>1. T \subseteq Nat /\ T # {}
    OBVIOUS
<1> HIDE DEF T
<1>2. PICK n \in T : \A m \in T : n <= m
    BY <1>1, LeastNatural
<1>3. n \in Nat /\ n \notin S /\ \A m \in Nat : m \notin S => n <= m
    BY <1>2 DEF T
<1>4. n # 0 /\ n - 1 \in Nat
    BY <1>3
<1>5. n - 1 \in S
    BY <1>3, <1>4
<1> QED BY <1>3, <1>4, <1>5

\* The sequence lists the tids of T in increasing order, each once.
Listing(q, T) ==
    /\ q \in [1 .. Cardinality(T) -> T]
    /\ \A i, j \in 1 .. Cardinality(T) : i < j => q[i] < q[j]
    /\ \A t \in T : \E i \in 1 .. Cardinality(T) : q[i] = t

\* A finite set of tids can be listed so: the loop of sched_wake_sleepers over the
\* thread table.
LEMMA ListingExists ==
    ASSUME NEW T, IsFiniteSet(T), T \subseteq Nat
    PROVE  \E q : Listing(q, T)
<1>0. \A n \in Nat : n + 1 \in Nat
    OBVIOUS
<1> DEFINE S == {n \in Nat : \A U : IsFiniteSet(U) /\ U \subseteq Nat /\ Cardinality(U) = n => \E q : Listing(q, U)}
<1>1. 0 \in S
    <2> SUFFICES ASSUME NEW U, IsFiniteSet(U), Cardinality(U) = 0 PROVE \E q : Listing(q, U)
        OBVIOUS
    <2>1. U = {}
        BY FS_EmptySet
    <2>2. Listing([i \in 1 .. 0 |-> 0], U)
        BY <2>1 DEF Listing
    <2> QED BY <2>2
<1>2. \A n \in Nat : n \in S => n + 1 \in S
    <2> SUFFICES ASSUME NEW n \in Nat, n \in S,
                        NEW U, IsFiniteSet(U), U \subseteq Nat, Cardinality(U) = n + 1
                 PROVE  \E q : Listing(q, U)
        BY <1>0, Zenon
    <2>1. PICK a \in U : \A y \in U : a <= y
        <3>1. U # {}
            BY FS_EmptySet
        <3> QED BY <3>1, LeastNatural
    <2> DEFINE V == U \ {a}
    <2>2. IsFiniteSet(V) /\ Cardinality(V) = n /\ V \subseteq Nat
        <3>1. IsFiniteSet(V) /\ Cardinality(V) = Cardinality(U) - 1
            BY <2>1, FS_RemoveElement
        <3> QED BY <3>1
    <2>3. PICK q : Listing(q, V)
        BY <2>2
    <2>4. /\ q \in [1 .. n -> V]
          /\ \A i, j \in 1 .. n : i < j => q[i] < q[j]
          /\ \A t \in V : \E i \in 1 .. n : q[i] = t
        BY <2>2, <2>3 DEF Listing
    <2> DEFINE r == [i \in 1 .. n + 1 |-> IF i = 1 THEN a ELSE q[i - 1]]
    <2>5. r \in [1 .. n + 1 -> U]
        <3> SUFFICES ASSUME NEW i \in 1 .. n + 1, i # 1 PROVE q[i - 1] \in U
            BY <2>1
        <3>1. i - 1 \in 1 .. n
            OBVIOUS
        <3> QED BY <3>1, <2>4
    <2>6. \A i, j \in 1 .. n + 1 : i < j => r[i] < r[j]
        <3> SUFFICES ASSUME NEW i \in 1 .. n + 1, NEW j \in 1 .. n + 1, i < j PROVE r[i] < r[j]
            OBVIOUS
        <3>1. j - 1 \in 1 .. n /\ r[j] = q[j - 1] /\ q[j - 1] \in V
            BY <2>4
        <3>2. CASE i = 1
            <4>1. r[i] = a /\ a \in Nat /\ q[j - 1] \in Nat /\ a <= q[j - 1] /\ a # q[j - 1]
                BY <2>1, <3>1, <3>2
            <4> HIDE DEF r
            <4> QED BY <3>1, <4>1
        <3>3. CASE i # 1
            <4>1. i - 1 \in 1 .. n /\ r[i] = q[i - 1] /\ i - 1 < j - 1
                BY <3>3
            <4> HIDE DEF r
            <4> QED BY <3>1, <4>1, <2>4
        <3> QED BY <3>2, <3>3
    <2>7. \A t \in U : \E i \in 1 .. n + 1 : r[i] = t
        <3> TAKE t \in U
        <3>1. CASE t = a
            <4>1. 1 \in 1 .. n + 1 /\ r[1] = t
                BY <3>1
            <4> HIDE DEF r
            <4> QED BY <4>1
        <3>2. CASE t # a
            <4>1. PICK i \in 1 .. n : q[i] = t
                BY <3>2, <2>4
            <4>2. i + 1 \in 1 .. n + 1 /\ r[i + 1] = t
                BY <4>1
            <4> HIDE DEF r
            <4> QED BY <4>2
        <3> QED BY <3>1, <3>2
    <2> HIDE DEF r
    <2>8. Listing(r, U)
        BY <2>5, <2>6, <2>7 DEF Listing
    <2> QED BY <2>8
<1>3. Cardinality(T) \in Nat
    BY FS_CardinalityType
<1>4. Cardinality(T) \in S
    <2> HIDE DEF S
    <2> QED BY <1>1, <1>2, <1>3, InductionOnNat
<1> QED BY <1>4
----------------------------------------------------------------------------
(* The run queues.                                                         *)

PrioLevels == 0 .. Levels - 1

\* One queue: threads of S of priority p, each once.
LevelHolds(s, p, S) ==
    /\ s \in Seq(Threads)
    /\ \A k \in 1 .. Len(s) : s[k] \in S /\ Prio[s[k]] = p
    /\ \A k, l \in 1 .. Len(s) : s[k] = s[l] => k = l
    /\ \A t \in S : Prio[t] = p => \E k \in 1 .. Len(s) : s[k] = t

\* The queues hold the threads of S and no other, each once, at its priority.
QueuesHold(q, S) ==
    /\ S \subseteq Threads
    /\ DOMAIN q = PrioLevels /\ q = [p \in PrioLevels |-> q[p]]
    /\ \A p \in PrioLevels : LevelHolds(q[p], p, S)

\* A level depends only on the threads of its own priority.
LEMMA LevelSame ==
    ASSUME NEW s, NEW p, NEW S, NEW T, LevelHolds(s, p, S),
           \A t \in Threads : Prio[t] = p => (t \in S <=> t \in T), T \subseteq Threads
    PROVE  LevelHolds(s, p, T)
<1>1. /\ s \in Seq(Threads)
      /\ \A k \in 1 .. Len(s) : s[k] \in S /\ Prio[s[k]] = p
      /\ \A k, l \in 1 .. Len(s) : s[k] = s[l] => k = l
      /\ \A t \in S : Prio[t] = p => \E k \in 1 .. Len(s) : s[k] = t
    BY DEF LevelHolds
<1>2. \A k \in 1 .. Len(s) : s[k] \in T /\ Prio[s[k]] = p
    <2> TAKE k \in 1 .. Len(s)
    <2>1. s[k] \in Threads /\ s[k] \in S /\ Prio[s[k]] = p
        BY <1>1
    <2> QED BY <2>1
<1>3. \A t \in T : Prio[t] = p => \E k \in 1 .. Len(s) : s[k] = t
    BY <1>1
<1> QED BY <1>1, <1>2, <1>3 DEF LevelHolds

\* runq_push adds the thread at the end of its own level.
LEMMA PushHolds ==
    ASSUME NEW q, NEW S, QueuesHold(q, S), NEW t \in Threads, t \notin S
    PROVE  QueuesHold(runq_push(q, t), S \cup {t})
<1> DEFINE r == runq_push(q, t)
           T == S \cup {t}
<1>1. Prio[t] \in PrioLevels
    BY SchedAssumption DEF PrioLevels
<1>2. /\ S \subseteq Threads /\ DOMAIN q = PrioLevels /\ q = [p \in PrioLevels |-> q[p]]
      /\ \A p \in PrioLevels : LevelHolds(q[p], p, S)
    BY DEF QueuesHold
<1>3. /\ DOMAIN r = PrioLevels /\ r = [p \in PrioLevels |-> r[p]]
      /\ \A p \in PrioLevels : r[p] = IF p = Prio[t] THEN Append(q[p], t) ELSE q[p]
    BY <1>1, <1>2 DEF runq_push
<1>4. T \subseteq Threads
    BY <1>2
<1>5. \A p \in PrioLevels : LevelHolds(r[p], p, T)
    <2> SUFFICES ASSUME NEW p \in PrioLevels PROVE LevelHolds(r[p], p, T)
        OBVIOUS
    <2>1. LevelHolds(q[p], p, S)
        BY <1>2
    <2>2. CASE p # Prio[t]
        <3>1. \A u \in Threads : Prio[u] = p => (u \in S <=> u \in T)
            BY <2>2
        <3>2. r[p] = q[p]
            BY <1>3, <2>2
        <3> HIDE DEF r, T
        <3> QED BY <1>4, <2>1, <3>1, <3>2, LevelSame
    <2>3. CASE p = Prio[t]
        <3> PICK s : s = q[p]
            OBVIOUS
        <3> PICK n : n = Len(s)
            OBVIOUS
        <3>1. /\ s \in Seq(Threads) /\ n \in Nat
              /\ \A k \in 1 .. n : s[k] \in S /\ Prio[s[k]] = p
              /\ \A k, l \in 1 .. n : s[k] = s[l] => k = l
              /\ \A u \in S : Prio[u] = p => \E k \in 1 .. n : s[k] = u
            BY <2>1 DEF LevelHolds
        <3>2. r[p] = Append(s, t)
            BY <1>3, <2>3
        <3>3. /\ r[p] \in Seq(Threads) /\ Len(r[p]) = n + 1 /\ r[p][n + 1] = t
              /\ \A k \in 1 .. n : r[p][k] = s[k]
            BY <3>1, <3>2
        <3> HIDE DEF r
        <3> PICK w : w = r[p]
            OBVIOUS
        <3>4. \A k \in 1 .. n + 1 : w[k] \in T /\ Prio[w[k]] = p
            <4> TAKE k \in 1 .. n + 1
            <4>1. k \in 1 .. n \/ k = n + 1
                BY <3>1
            <4> QED BY <4>1, <3>1, <3>3, <2>3
        <3>5. \A k, l \in 1 .. n + 1 : w[k] = w[l] => k = l
            <4> TAKE k, l \in 1 .. n + 1
            <4>1. (k \in 1 .. n \/ k = n + 1) /\ (l \in 1 .. n \/ l = n + 1)
                BY <3>1
            <4> QED BY <4>1, <3>1, <3>3
        <3>6. \A u \in T : Prio[u] = p => \E k \in 1 .. n + 1 : w[k] = u
            <4> SUFFICES ASSUME NEW u \in T, Prio[u] = p PROVE \E k \in 1 .. n + 1 : w[k] = u
                OBVIOUS
            <4>1. CASE u = t
                BY <4>1, <3>1, <3>3
            <4>2. CASE u \in S
                <5>1. PICK k \in 1 .. n : s[k] = u
                    BY <4>2, <3>1
                <5>2. k \in 1 .. n + 1 /\ w[k] = u
                    BY <5>1, <3>1, <3>3
                <5> QED BY <5>2
            <4> QED BY <4>1, <4>2
        <3> QED BY <3>3, <3>4, <3>5, <3>6 DEF LevelHolds
    <2> QED BY <2>2, <2>3
<1> HIDE DEF r, T
<1>6. QueuesHold(r, T)
    BY <1>3, <1>4, <1>5 DEF QueuesHold
<1> QED BY <1>6 DEF r, T

\* With every queue empty no thread is waiting.
LEMMA EmptyHolds ==
    ASSUME NEW q, NEW S, QueuesHold(q, S), Occupied(q) = {}
    PROVE  S = {}
<1> SUFFICES ASSUME NEW t \in S PROVE FALSE
    OBVIOUS
<1>1. t \in Threads /\ DOMAIN q = PrioLevels
    BY DEF QueuesHold
<1>2. Prio[t] \in PrioLevels
    BY <1>1, SchedAssumption DEF PrioLevels
<1>3. q[Prio[t]] = <<>>
    BY <1>1, <1>2 DEF Occupied
<1>4. LevelHolds(q[Prio[t]], Prio[t], S)
    BY <1>2 DEF QueuesHold
<1>5. \E k \in 1 .. Len(q[Prio[t]]) : q[Prio[t]][k] = t
    BY <1>4 DEF LevelHolds
<1> QED BY <1>3, <1>5

\* runq_pop_highest takes one thread out of the queues, the one pick_next
\* returns.
LEMMA PopHolds ==
    ASSUME NEW q, NEW S, QueuesHold(q, S), Occupied(q) # {}
    PROVE  /\ Head(q[HighestLevel(q)]) \in S
           /\ QueuesHold(Popped(q), S \ {Head(q[HighestLevel(q)])})
<1> DEFINE h == HighestLevel(q)
           t == Head(q[h])
           r == Popped(q)
           T == S \ {t}
<1>1. /\ S \subseteq Threads /\ DOMAIN q = PrioLevels /\ q = [p \in PrioLevels |-> q[p]]
      /\ \A p \in PrioLevels : LevelHolds(q[p], p, S)
    BY DEF QueuesHold
<1>2. h \in PrioLevels /\ q[h] # <<>>
    <2>1. PrioLevels \subseteq Nat
        BY SchedAssumption DEF PrioLevels
    <2>2. Occupied(q) \subseteq Nat /\ Occupied(q) \subseteq PrioLevels
        BY <1>1, <2>1 DEF Occupied
    <2>3. \E p \in Occupied(q) : \A x \in Occupied(q) : p <= x
        BY <2>2, LeastNatural
    <2>4. h \in Occupied(q)
        BY <2>3 DEF HighestLevel
    <2> QED BY <2>2, <2>4 DEF Occupied
<1> HIDE DEF h
<1> PICK s : s = q[h]
    OBVIOUS
<1> PICK n : n = Len(s)
    OBVIOUS
<1>3. LevelHolds(s, h, S)
    BY <1>1, <1>2
<1>4. /\ s \in Seq(Threads) /\ n \in Nat
      /\ \A k \in 1 .. n : s[k] \in S /\ Prio[s[k]] = h
      /\ \A k, l \in 1 .. n : s[k] = s[l] => k = l
      /\ \A u \in S : Prio[u] = h => \E k \in 1 .. n : s[k] = u
    BY <1>3 DEF LevelHolds
<1>5. n > 0 /\ t = s[1] /\ t \in S /\ Prio[t] = h
    BY <1>2, <1>4
<1>6. /\ Tail(s) \in Seq(Threads) /\ Len(Tail(s)) = n - 1 /\ n - 1 \in Nat
      /\ \A k \in 1 .. n - 1 : Tail(s)[k] = s[k + 1]
    BY <1>4, <1>5
<1>7. /\ DOMAIN r = PrioLevels /\ r = [p \in PrioLevels |-> r[p]]
      /\ \A p \in PrioLevels : r[p] = IF p = h THEN Tail(s) ELSE q[p]
    BY <1>1, <1>2 DEF Popped, h
<1> HIDE DEF t, r
<1>8. LevelHolds(Tail(s), h, T)
    <2> PICK w : w = Tail(s)
        OBVIOUS
    <2>1. \A k \in 1 .. n - 1 : w[k] = s[k + 1] /\ k + 1 \in 1 .. n
        BY <1>4, <1>6
    <2>2. \A k \in 1 .. n - 1 : w[k] \in T /\ Prio[w[k]] = h
        <3> TAKE k \in 1 .. n - 1
        <3>1. s[k + 1] # s[1]
            <4>1. 1 \in 1 .. n /\ k + 1 # 1 /\ k + 1 \in 1 .. n
                BY <1>4, <1>5, <2>1
            <4> QED BY <4>1, <1>4
        <3> QED BY <3>1, <2>1, <1>4, <1>5
    <2>3. \A k, l \in 1 .. n - 1 : w[k] = w[l] => k = l
        <3> SUFFICES ASSUME NEW k \in 1 .. n - 1, NEW l \in 1 .. n - 1, w[k] = w[l] PROVE k = l
            OBVIOUS
        <3>1. k + 1 = l + 1
            BY <2>1, <1>4
        <3> QED BY <3>1
    <2>4. \A u \in T : Prio[u] = h => \E k \in 1 .. n - 1 : w[k] = u
        <3> SUFFICES ASSUME NEW u \in T, Prio[u] = h PROVE \E k \in 1 .. n - 1 : w[k] = u
            OBVIOUS
        <3>1. PICK k \in 1 .. n : s[k] = u
            BY <1>4
        <3>2. k # 1
            BY <1>5, <3>1
        <3>3. k - 1 \in 1 .. n - 1 /\ (k - 1) + 1 = k
            BY <1>4, <3>2
        <3>4. w[k - 1] = s[k]
            BY <2>1, <3>3
        <3> QED BY <3>1, <3>3, <3>4
    <2> QED BY <1>6, <2>2, <2>3, <2>4 DEF LevelHolds
<1>9. \A p \in PrioLevels : LevelHolds(r[p], p, T)
    <2> SUFFICES ASSUME NEW p \in PrioLevels, p # h PROVE LevelHolds(r[p], p, T)
        BY <1>7, <1>8
    <2>1. LevelHolds(q[p], p, S) /\ r[p] = q[p]
        BY <1>1, <1>7
    <2>2. \A u \in Threads : Prio[u] = p => (u \in S <=> u \in T)
        BY <1>5
    <2>3. T \subseteq Threads
        BY <1>1
    <2> HIDE DEF T
    <2> QED BY <2>1, <2>2, <2>3, LevelSame
<1>10. QueuesHold(r, T)
    BY <1>1, <1>7, <1>9 DEF QueuesHold
<1> QED BY <1>5, <1>10 DEF t, r, h

\* A thread that is in no queue is not taken out of one.
LEMMA RemoveHolds ==
    ASSUME NEW q, NEW S, QueuesHold(q, S), NEW t, t \notin S
    PROVE  runq_remove(q, t) = q
<1>1. \A p \in DOMAIN q : t \notin ToSet(q[p])
    <2> SUFFICES ASSUME NEW p \in DOMAIN q, t \in ToSet(q[p]) PROVE FALSE
        OBVIOUS
    <2>1. LevelHolds(q[p], p, S)
        BY DEF QueuesHold
    <2>2. q[p] \in Seq(Threads) /\ \A k \in 1 .. Len(q[p]) : q[p][k] \in S
        BY <2>1 DEF LevelHolds
    <2> QED BY <2>2 DEF ToSet
<1> QED BY <1>1 DEF runq_remove

\* sched_wake_sleepers adds the threads that are due behind those queued.
LEMMA DueHolds ==
    ASSUME NEW q, NEW S, QueuesHold(q, S), S \cap Due = {}
    PROVE  QueuesHold([p \in DOMAIN q |-> q[p] \o DueQueue(p)], S \cup Due)
<1> DEFINE r == [p \in DOMAIN q |-> q[p] \o DueQueue(p)]
           T == S \cup Due
<1>1. /\ S \subseteq Threads /\ DOMAIN q = PrioLevels
      /\ \A p \in PrioLevels : LevelHolds(q[p], p, S)
    BY DEF QueuesHold
<1>2. Due \subseteq Threads /\ Threads \subseteq Nat /\ IsFiniteSet(Threads)
    BY SchedAssumption DEF Due
<1>3. \A p \in PrioLevels : LevelHolds(r[p], p, T)
    <2> SUFFICES ASSUME NEW p \in PrioLevels PROVE LevelHolds(r[p], p, T)
        OBVIOUS
    <2> DEFINE D == {t \in Due : Prio[t] = p}
               d == DueQueue(p)
               m == Cardinality(D)
    <2>1. IsFiniteSet(D) /\ D \subseteq Nat /\ D \subseteq Threads
        <3>1. D \subseteq Threads
            BY <1>2
        <3>2. IsFiniteSet(D)
            BY <1>2, <3>1, FS_Subset
        <3> QED BY <1>2, <3>1, <3>2
    <2>2. m \in Nat
        BY <2>1, FS_CardinalityType
    <2>3. /\ d \in SetToSeqs(D)
          /\ \A i, j \in DOMAIN d : i < j => d[i] < d[j]
        <3> HIDE DEF D
        <3>1. PICK x : Listing(x, D)
            BY <2>1, ListingExists
        <3>2. /\ x \in [1 .. m -> D]
              /\ \A i, j \in 1 .. m : i < j => x[i] < x[j]
            BY <3>1 DEF Listing
        <3>3. \A i, j \in 1 .. m : i # j => x[i] # x[j]
            <4> SUFFICES ASSUME NEW i \in 1 .. m, NEW j \in 1 .. m, i # j PROVE x[i] # x[j]
                OBVIOUS
            <4>1. x[i] \in Nat /\ x[j] \in Nat
                BY <2>1, <3>2
            <4>2. i < j \/ j < i
                BY <2>2
            <4>3. x[i] < x[j] \/ x[j] < x[i]
                BY <3>2, <4>2
            <4> QED BY <4>1, <4>3
        <3>4. x \in SetToSeqs(D) /\ \A i, j \in DOMAIN x : i < j => x[i] < x[j]
            BY <3>2, <3>3 DEF SetToSeqs
        <3>5. d = CHOOSE y \in SetToSeqs(D) : \A i, j \in DOMAIN y : i < j => y[i] < y[j]
            BY DEF DueQueue, D
        <3> HIDE DEF d
        <3> QED BY <3>4, <3>5
    <2> HIDE DEF d
    <2>4. d \in [1 .. m -> D] /\ \A i, j \in 1 .. m : i # j => d[i] # d[j]
        <3> HIDE DEF D
        <3> QED BY <2>3 DEF SetToSeqs
    <2>5. \A t \in D : \E i \in 1 .. m : d[i] = t
        <3> HIDE DEF D
        <3> DEFINE I == {t \in D : \E i \in 1 .. m : d[i] = t}
        <3>1. d \in [1 .. m -> I]
            BY <2>4
        <3>2. IsFiniteSet(I)
            BY <2>1, FS_Subset
        <3>3. d \in Injection(1 .. m, I) /\ d \in Surjection(1 .. m, I)
            <4> HIDE DEF I
            <4>1. \A t \in I : \E i \in 1 .. m : d[i] = t
                BY DEF I
            <4>2. \A a, b \in 1 .. m : d[a] = d[b] => a = b
                BY <2>4
            <4>3. d \in Injection(1 .. m, I)
                BY <3>1, <4>2 DEF Injection, IsInjective
            <4>4. d \in Surjection(1 .. m, I)
                BY <3>1, <4>1 DEF Surjection
            <4> QED BY <4>3, <4>4
        <3>4. IsFiniteSet(1 .. m) /\ Cardinality(1 .. m) = m
            <4>1. 1 \in Int /\ m \in Int
                BY <2>2
            <4>2. IsFiniteSet(1 .. m) /\ Cardinality(1 .. m) = IF 1 > m THEN 0 ELSE m - 1 + 1
                BY ONLY <4>1, FS_Interval
            <4> QED BY <4>2, <2>2
        <3>5. Cardinality(I) = m
            <4> HIDE DEF I
            <4> QED BY <3>3, <3>4, FS_Surjection
        <3>6. I = D
            <4>1. I \subseteq D
                OBVIOUS
            <4> HIDE DEF I
            <4> QED BY <4>1, <2>1, <3>5, FS_Subset
        <3> QED BY <3>6
    <2> HIDE DEF m
    <2>6. d \in Seq(Threads) /\ Len(d) = m
        BY <2>1, <2>2, <2>4
    <2>7. \A i \in 1 .. m : d[i] \in Due /\ Prio[d[i]] = p
        BY <2>4
    <2>8. \A t \in Due : Prio[t] = p => \E i \in 1 .. m : d[i] = t
        BY <2>5
    <2> HIDE DEF D
    <2> PICK s : s = q[p]
        OBVIOUS
    <2> PICK n : n = Len(s)
        OBVIOUS
    <2>9. /\ s \in Seq(Threads) /\ n \in Nat
          /\ \A k \in 1 .. n : s[k] \in S /\ Prio[s[k]] = p
          /\ \A k, l \in 1 .. n : s[k] = s[l] => k = l
          /\ \A u \in S : Prio[u] = p => \E k \in 1 .. n : s[k] = u
        <3>1. LevelHolds(s, p, S)
            BY <1>1
        <3> QED BY <3>1 DEF LevelHolds
    <2>10. r[p] = s \o d
        BY <1>1 DEF d
    <2> HIDE DEF r
    <2> PICK w : w = r[p]
        OBVIOUS
    <2>11. /\ w \in Seq(Threads) /\ Len(w) = n + m
           /\ \A k \in 1 .. n + m : w[k] = IF k <= n THEN s[k] ELSE d[k - n]
        <3>1. /\ s \o d \in Seq(Threads)
              /\ Len(s \o d) = Len(s) + Len(d)
              /\ \A k \in 1 .. Len(s) + Len(d) : (s \o d)[k] = IF k <= Len(s) THEN s[k] ELSE d[k - Len(s)]
            <4>1. s \in Seq(Threads) /\ d \in Seq(Threads)
                BY <2>6, <2>9
            <4> QED BY ONLY <4>1, ConcatProperties, Zenon
        <3> QED BY ONLY <3>1, <2>6, <2>10, w = r[p], n = Len(s)
    <2>12. \A k \in 1 .. n + m : (k <= n /\ k \in 1 .. n) \/ (~(k <= n) /\ k - n \in 1 .. m)
        BY <2>2, <2>9
    <2>13. \A k \in 1 .. n + m : w[k] \in T /\ Prio[w[k]] = p
        BY <2>7, <2>9, <2>11, <2>12
    <2>14. \A k, l \in 1 .. n + m : w[k] = w[l] => k = l
        <3> SUFFICES ASSUME NEW k \in 1 .. n + m, NEW l \in 1 .. n + m, w[k] = w[l] PROVE k = l
            OBVIOUS
        <3>1. CASE k <= n /\ l <= n
            BY <3>1, <2>9, <2>11, <2>12
        <3>2. CASE ~(k <= n) /\ ~(l <= n)
            <4>1. d[k - n] = d[l - n] /\ k - n \in 1 .. m /\ l - n \in 1 .. m
                BY <3>2, <2>11, <2>12
            <4>2. k - n = l - n
                BY <4>1, <2>4
            <4> QED BY <4>2, <2>2, <2>9
        <3>3. CASE k <= n /\ ~(l <= n)
            <4>1. s[k] \in S /\ d[l - n] \in Due /\ s[k] = d[l - n]
                BY <3>3, <2>7, <2>9, <2>11, <2>12
            <4> QED BY <4>1
        <3>4. CASE ~(k <= n) /\ l <= n
            <4>1. s[l] \in S /\ d[k - n] \in Due /\ s[l] = d[k - n]
                BY <3>4, <2>7, <2>9, <2>11, <2>12
            <4> QED BY <4>1
        <3> QED BY <3>1, <3>2, <3>3, <3>4
    <2>15. \A u \in T : Prio[u] = p => \E k \in 1 .. n + m : w[k] = u
        <3> SUFFICES ASSUME NEW u \in T, Prio[u] = p PROVE \E k \in 1 .. n + m : w[k] = u
            OBVIOUS
        <3>1. CASE u \in S
            <4>1. PICK k \in 1 .. n : s[k] = u
                BY <3>1, <2>9
            <4>2. k \in 1 .. n + m /\ k <= n
                BY <2>2, <2>9
            <4> QED BY <4>1, <4>2, <2>11
        <3>2. CASE u \in Due
            <4>1. PICK i \in 1 .. m : d[i] = u
                BY <3>2, <2>8
            <4>2. n + i \in 1 .. n + m /\ ~(n + i <= n) /\ (n + i) - n = i
                BY <2>2, <2>9
            <4> QED BY <4>1, <4>2, <2>11
        <3> QED BY <3>1, <3>2
    <2> QED BY <2>11, <2>13, <2>14, <2>15 DEF LevelHolds
<1>4. DOMAIN r = PrioLevels /\ r = [p \in PrioLevels |-> r[p]] /\ T \subseteq Threads
    BY <1>1, <1>2
<1> HIDE DEF r, T
<1>5. QueuesHold(r, T)
    BY <1>3, <1>4 DEF QueuesHold
<1> QED BY <1>5 DEF r, T
----------------------------------------------------------------------------
(* The inductive invariant.                                                *)

\* The sequence lists the threads of S, each once.
Lists(z, S) ==
    /\ z \in Seq(Threads)
    /\ \A k \in 1 .. Len(z) : z[k] \in S
    /\ \A k, l \in 1 .. Len(z) : z[k] = z[l] => k = l
    /\ \A t \in S : \E k \in 1 .. Len(z) : z[k] = t

\* Threads that wait in a queue, and threads that have exited and left.
Queued == {t \in Threads : state[t] = "RUNNABLE" /\ ~InHand(t)}

Exited == {t \in Threads \ {current} : state[t] = "ZOMBIE"}

\* The thread u has chosen its successor and not switched yet.
Inside(u) == pc[u] # "run"

\* A thread suspended inside the scheduler was only yielding.  The running one
\* is there in the state its call, or a tick that woke it, gave it.  Each has
\* picked another thread, which is runnable and not the running one.
InsideSound ==
    /\ \A u \in Threads \ {current} :
          Inside(u) => pc[u] = "switch" /\ state[u] = "RUNNABLE"
    /\ pc[current] = "switch" => state[current] \in {"RUNNING", "ZOMBIE"}
    /\ pc[current] = "hand" => state[current] \in {"BLOCKED", "SLEEPING", "RUNNABLE"}
    /\ \A u \in Threads :
          Inside(u) => /\ picked[u] # u /\ picked[u] # current
                       /\ state[picked[u]] = "RUNNABLE"

\* The idle thread never waits, yields or exits.
IdleReady == state[Idle] \in {"RUNNABLE", "RUNNING"} /\ pc[Idle] = "run"

\* What holds as long as no switch has been torn apart.
Whole ==
    /\ TypeOK
    /\ OnlyCurrentRuns
    /\ InsideSound
    /\ HeldOnce
    /\ IdleReady
    /\ QueuesHold(runq, Queued)
    /\ Lists(zombies, Exited)

SchedInv == ~torn => Whole

\* The list stays right when a thread that is not on it is put at its end.
LEMMA AppendLists ==
    ASSUME NEW z, NEW S, Lists(z, S), NEW t \in Threads, t \notin S
    PROVE  Lists(Append(z, t), S \cup {t})
<1> DEFINE T == S \cup {t}
<1> PICK n : n = Len(z)
    OBVIOUS
<1>1. /\ z \in Seq(Threads) /\ n \in Nat
      /\ \A k \in 1 .. n : z[k] \in S
      /\ \A k, l \in 1 .. n : z[k] = z[l] => k = l
      /\ \A u \in S : \E k \in 1 .. n : z[k] = u
    BY DEF Lists
<1> PICK w : w = Append(z, t)
    OBVIOUS
<1>2. /\ w \in Seq(Threads) /\ Len(w) = n + 1 /\ w[n + 1] = t
      /\ \A k \in 1 .. n : w[k] = z[k]
    BY <1>1
<1>3. \A k \in 1 .. n + 1 : k \in 1 .. n \/ k = n + 1
    BY <1>1
<1>4. \A k \in 1 .. n + 1 : w[k] \in T
    BY <1>1, <1>2, <1>3
<1>5. \A k, l \in 1 .. n + 1 : w[k] = w[l] => k = l
    BY <1>1, <1>2, <1>3
<1>6. \A u \in T : \E k \in 1 .. n + 1 : w[k] = u
    <2> TAKE u \in T
    <2>1. n + 1 \in 1 .. n + 1 /\ \A k \in 1 .. n : k \in 1 .. n + 1
        BY <1>1
    <2>2. CASE u = t
        BY <1>2, <2>1, <2>2
    <2>3. CASE u \in S
        <3>1. PICK k \in 1 .. n : z[k] = u
            BY <1>1, <2>3
        <3> QED BY <1>2, <2>1, <3>1
    <2> QED BY <2>2, <2>3
<1> HIDE DEF T
<1>7. Lists(w, T)
    BY <1>2, <1>4, <1>5, <1>6 DEF Lists
<1> QED BY <1>7 DEF T

\* sched_reap frees the oldest of the list when it is full.
LEMMA TailLists ==
    ASSUME NEW z, NEW S, Lists(z, S), z # <<>>
    PROVE  Head(z) \in S /\ Lists(Tail(z), S \ {Head(z)}) /\ Len(Tail(z)) = Len(z) - 1
<1> PICK n : n = Len(z)
    OBVIOUS
<1> PICK h : h = Head(z)
    OBVIOUS
<1> PICK w : w = Tail(z)
    OBVIOUS
<1>1. /\ z \in Seq(Threads) /\ n \in Nat
      /\ \A k \in 1 .. n : z[k] \in S
      /\ \A k, l \in 1 .. n : z[k] = z[l] => k = l
      /\ \A u \in S : \E k \in 1 .. n : z[k] = u
    BY DEF Lists
<1>2. n > 0 /\ 1 \in 1 .. n /\ h = z[1] /\ h \in S
    BY <1>1
<1>3. /\ w \in Seq(Threads) /\ Len(w) = n - 1
      /\ \A k \in 1 .. n - 1 : w[k] = z[k + 1] /\ k + 1 \in 1 .. n /\ k + 1 # 1
    BY <1>1, <1>2
<1>4. \A k \in 1 .. n - 1 : w[k] \in S \ {h}
    <2> TAKE k \in 1 .. n - 1
    <2>1. z[k + 1] # z[1]
        BY <1>1, <1>2, <1>3
    <2> QED BY <1>1, <1>2, <1>3, <2>1
<1>5. \A k, l \in 1 .. n - 1 : w[k] = w[l] => k = l
    <2> SUFFICES ASSUME NEW k \in 1 .. n - 1, NEW l \in 1 .. n - 1, w[k] = w[l] PROVE k = l
        OBVIOUS
    <2>1. k + 1 = l + 1
        BY <1>1, <1>3
    <2> QED BY <2>1
<1>6. \A u \in S \ {h} : \E k \in 1 .. n - 1 : w[k] = u
    <2> TAKE u \in S \ {h}
    <2>1. PICK k \in 1 .. n : z[k] = u
        BY <1>1
    <2>2. k # 1
        BY <1>2, <2>1
    <2>3. k - 1 \in 1 .. n - 1 /\ (k - 1) + 1 = k
        BY <1>1, <2>2
    <2>4. w[k - 1] = z[k]
        BY <1>3, <2>3
    <2> QED BY <2>1, <2>3, <2>4
<1>7. Lists(w, S \ {h})
    BY <1>3, <1>4, <1>5, <1>6 DEF Lists
<1> QED BY <1>2, <1>3, <1>7

\* sched_collect_zombies takes the youngest off the list.
LEMMA FrontLists ==
    ASSUME NEW z, NEW S, Lists(z, S), z # <<>>
    PROVE  Last(z) \in S /\ Lists(Front(z), S \ {Last(z)}) /\ Len(Front(z)) = Len(z) - 1
<1> PICK n : n = Len(z)
    OBVIOUS
<1> PICK h : h = Last(z)
    OBVIOUS
<1> PICK w : w = Front(z)
    OBVIOUS
<1>1. /\ z \in Seq(Threads) /\ n \in Nat
      /\ \A k \in 1 .. n : z[k] \in S
      /\ \A k, l \in 1 .. n : z[k] = z[l] => k = l
      /\ \A u \in S : \E k \in 1 .. n : z[k] = u
    BY DEF Lists
<1>2. n > 0 /\ n \in 1 .. n /\ h = z[n] /\ h \in S
    BY <1>1 DEF Last
<1>3. /\ w \in Seq(Threads) /\ Len(w) = n - 1
      /\ \A k \in 1 .. n - 1 : w[k] = z[k] /\ k \in 1 .. n /\ k # n
    BY <1>1, <1>2 DEF Front
<1>4. \A k \in 1 .. n - 1 : w[k] \in S \ {h}
    <2> TAKE k \in 1 .. n - 1
    <2>1. z[k] # z[n]
        BY <1>1, <1>2, <1>3
    <2> QED BY <1>1, <1>2, <1>3, <2>1
<1>5. \A k, l \in 1 .. n - 1 : w[k] = w[l] => k = l
    BY <1>1, <1>3
<1>6. \A u \in S \ {h} : \E k \in 1 .. n - 1 : w[k] = u
    <2> TAKE u \in S \ {h}
    <2>1. PICK k \in 1 .. n : z[k] = u
        BY <1>1
    <2>2. k # n
        BY <1>2, <2>1
    <2>3. k \in 1 .. n - 1
        BY <1>1, <2>2
    <2> QED BY <1>3, <2>1, <2>3
<1>7. Lists(w, S \ {h})
    BY <1>3, <1>4, <1>5, <1>6 DEF Lists
<1> QED BY <1>2, <1>3, <1>7

\* A list without repetition is as long as the set it lists.
LEMMA ListsCounts ==
    ASSUME NEW z, NEW S, Lists(z, S)
    PROVE  ToSet(z) = S /\ Cardinality(ToSet(z)) = Len(z)
<1> PICK n : n = Len(z)
    OBVIOUS
<1>1. /\ z \in Seq(Threads) /\ n \in Nat /\ DOMAIN z = 1 .. n
      /\ \A k \in 1 .. n : z[k] \in S
      /\ \A k, l \in 1 .. n : z[k] = z[l] => k = l
      /\ \A u \in S : \E k \in 1 .. n : z[k] = u
    BY DEF Lists
<1>2. ToSet(z) = S
    BY <1>1 DEF ToSet
<1>3. z \in [1 .. n -> S]
    BY <1>1
<1>4. z \in Injection(1 .. n, S) /\ z \in Surjection(1 .. n, S)
    BY <1>1, <1>3 DEF Injection, IsInjective, Surjection
<1>5. IsFiniteSet(1 .. n) /\ Cardinality(1 .. n) = n
    <2>1. 1 \in Int /\ n \in Int
        BY <1>1
    <2>2. IsFiniteSet(1 .. n) /\ Cardinality(1 .. n) = IF 1 > n THEN 0 ELSE n - 1 + 1
        BY ONLY <2>1, FS_Interval
    <2> QED BY <2>2, <1>1
<1>6. Cardinality(S) = n
    BY <1>4, <1>5, FS_Surjection
<1> QED BY <1>2, <1>6

----------------------------------------------------------------------------
(* Choosing and switching.                                                 *)

ThreadStates ==
    {"FREE", "CREATED", "RUNNABLE", "RUNNING", "BLOCKED", "SLEEPING", "ZOMBIE"}

\* Outside the scheduler the thread in hand is held by a suspended one.
LEMMA HeldByOther ==
    ASSUME Whole, NEW t \in Threads, InHand(t)
    PROVE  state[t] = "RUNNABLE" /\ t # current
BY DEF InHand, Whole, InsideSound, Inside

\* When a thread other than idle is about to choose, some thread is queued:
\* the threads suspended inside the scheduler and the idle thread are runnable,
\* and they are one more than the threads that can be in hand.
LEMMA SomeQueued ==
    ASSUME Whole, pc[current] = "run", current # Idle
    PROVE  Queued # {}
<1> DEFINE H == {u \in Threads : Inside(u)}
           R == H \cup {Idle}
           f == [u \in H |-> picked[u]]
           T == {f[u] : u \in H}
<1>1. /\ TypeOK /\ OnlyCurrentRuns /\ InsideSound /\ IdleReady /\ Idle \in Threads
      /\ IsFiniteSet(Threads)
    BY SchedAssumption DEF Whole
<1>2. IsFiniteSet(H) /\ Idle \notin H
    <2>1. H \in SUBSET Threads
        OBVIOUS
    <2> QED BY <1>1, <2>1, FS_Subset DEF IdleReady, Inside
<1>3. Cardinality(R) = Cardinality(H) + 1 /\ Cardinality(H) \in Nat
    BY <1>2, FS_AddElement, FS_CardinalityType
<1>4. f \in Surjection(H, T)
    BY DEF Surjection
<1>5. IsFiniteSet(T) /\ Cardinality(T) <= Cardinality(H)
    BY <1>2, <1>4, FS_Surjection
<1>6. Cardinality(T) \in Nat
    BY <1>5, FS_CardinalityType
<1>7. PICK t \in R : t \notin T
    <2> SUFFICES ASSUME R \subseteq T PROVE FALSE
        OBVIOUS
    <2>1. Cardinality(R) <= Cardinality(T)
        BY <1>5, FS_Subset
    <2> QED BY <1>3, <1>5, <1>6, <2>1
<1>8. t \in Threads /\ state[t] = "RUNNABLE"
    <2>1. CASE t = Idle
        BY <1>1, <2>1 DEF IdleReady, OnlyCurrentRuns
    <2>2. CASE t \in H
        <3>1. Inside(t) /\ t # current
            BY <2>2 DEF Inside
        <3> QED BY <1>1, <2>2, <3>1 DEF InsideSound
    <2> QED BY <2>1, <2>2
<1>9. ~InHand(t)
    <2> SUFFICES ASSUME InHand(t) PROVE FALSE
        OBVIOUS
    <2>1. PICK u \in Threads : Inside(u) /\ picked[u] = t
        BY DEF InHand, Inside
    <2>2. u \in H /\ f[u] = t
        BY <2>1
    <2> QED BY <1>7, <2>2
<1> QED BY <1>8, <1>9 DEF Queued

\* A thread other than idle that gives up the processor finds a runnable one,
\* takes it out of the queues and has it in hand.
LEMMA ChooseKeeps ==
    ASSUME Whole, NEW t \in Threads, Acts(t), t # Idle, NEW st \in ThreadStates,
           st # "RUNNABLE", NEW step \in {"switch", "hand"},
           Choose(t, [state EXCEPT ![t] = st], step),
           step = "switch" => st \in {"RUNNING", "ZOMBIE"},
           step = "hand" => st \in {"BLOCKED", "SLEEPING"},
           slice' \in [Threads -> 0 .. Slice], left' \in [Threads -> 0 .. MaxSleep]
    PROVE  Whole'
<1> DEFINE s == [state EXCEPT ![t] = st]
           x == pick_next(s, runq)
<1>1. /\ TypeOK /\ OnlyCurrentRuns /\ InsideSound /\ HeldOnce /\ IdleReady
      /\ QueuesHold(runq, Queued) /\ Lists(zombies, Exited)
      /\ current = t /\ pc[t] = "run"
    BY DEF Whole, Acts
<1>2. /\ state \in [Threads -> ThreadStates] /\ state[t] = "RUNNING"
      /\ pc \in [Threads -> {"run", "switch", "hand"}] /\ picked \in [Threads -> Threads]
    BY <1>1 DEF TypeOK, OnlyCurrentRuns, ThreadStates
<1>3. Occupied(runq) # {}
    <2>1. Queued # {}
        BY <1>1, SomeQueued
    <2> QED BY <1>1, <2>1, EmptyHolds
<1>4. x = Head(runq[HighestLevel(runq)])
    BY <1>3 DEF pick_next
<1>5. x \in Queued /\ QueuesHold(Popped(runq), Queued \ {x})
    BY <1>1, <1>3, <1>4, PopHolds
<1>6. /\ state' = s /\ picked' = [picked EXCEPT ![t] = x] /\ runq' = Popped(runq)
      /\ pc' = [pc EXCEPT ![t] = step]
      /\ UNCHANGED <<current, zombies, frame, irq, root, attached, torn>>
    BY DEF Choose
<1> HIDE DEF x
<1>7. /\ x \in Threads /\ state[x] = "RUNNABLE" /\ x # t
      /\ \A u \in Threads : u # x /\ Inside(u) => picked[u] # x
    BY <1>2, <1>5 DEF Queued, InHand, Inside
<1>8. \A u \in Threads : Inside(u) => picked[u] # x
    BY <1>1, <1>7 DEF InsideSound
<1>9. /\ s \in [Threads -> ThreadStates] /\ s[t] = st
      /\ \A u \in Threads : u # t => s[u] = state[u]
    BY <1>2
<1> HIDE DEF s
<1>10. /\ pc' \in [Threads -> {"run", "switch", "hand"}] /\ pc'[t] = step
       /\ \A u \in Threads : u # t => pc'[u] = pc[u]
    BY <1>2, <1>6
<1>11. /\ picked' \in [Threads -> Threads] /\ picked'[t] = x
       /\ \A u \in Threads : u # t => picked'[u] = picked[u]
    BY <1>2, <1>6, <1>7
<1>12. Inside(t)' /\ \A u \in Threads : u # t => (Inside(u)' <=> Inside(u))
    BY <1>10 DEF Inside
<1>13. Queued' = Queued \ {x}
    <2>1. \A u \in Threads : u # t => (InHand(u)' <=> InHand(u) \/ u = x)
        BY <1>1, <1>7, <1>10, <1>11, <1>12 DEF InHand, Inside
    <2>2. \A u \in Threads : u \in Queued' <=> u \in Queued /\ u # x
        BY <1>2, <1>6, <1>7, <1>9, <2>1 DEF Queued
    <2>3. Queued' \subseteq Threads /\ Queued \subseteq Threads
        BY DEF Queued
    <2> QED BY <2>2, <2>3
<1>14. QueuesHold(runq', Queued')
    BY <1>5, <1>6, <1>13
<1>15. TypeOK'
    <2>1. runq' \in [0 .. Levels - 1 -> Seq(Threads)]
        BY <1>14 DEF QueuesHold, LevelHolds, PrioLevels
    <2> QED BY <1>1, <1>6, <1>9, <1>10, <1>11, <2>1 DEF TypeOK, ThreadStates
<1>16. OnlyCurrentRuns'
    BY <1>1, <1>6, <1>9, <1>10 DEF OnlyCurrentRuns
<1>17. InsideSound'
    <2>1. \A u \in Threads \ {t} : Inside(u)' => pc'[u] = "switch" /\ state'[u] = "RUNNABLE"
        BY <1>1, <1>6, <1>9, <1>10, <1>12 DEF InsideSound
    <2>2. /\ pc'[t] = "switch" => state'[t] \in {"RUNNING", "ZOMBIE"}
          /\ pc'[t] = "hand" => state'[t] \in {"BLOCKED", "SLEEPING", "RUNNABLE"}
        BY <1>6, <1>9, <1>10
    <2>3. \A u \in Threads :
              Inside(u)' => /\ picked'[u] # u /\ picked'[u] # t
                            /\ state'[picked'[u]] = "RUNNABLE"
        <3> SUFFICES ASSUME NEW u \in Threads, Inside(u)'
                     PROVE  /\ picked'[u] # u /\ picked'[u] # t
                            /\ state'[picked'[u]] = "RUNNABLE"
            OBVIOUS
        <3>1. CASE u = t
            BY <1>6, <1>7, <1>9, <1>11, <3>1
        <3>2. CASE u # t
            <4>1. /\ picked'[u] = picked[u] /\ picked[u] # u /\ picked[u] # t
                  /\ state[picked[u]] = "RUNNABLE" /\ picked[u] \in Threads
                BY <1>1, <1>2, <1>11, <1>12, <3>2 DEF InsideSound
            <4> QED BY <1>6, <1>9, <4>1
        <3> QED BY <3>1, <3>2
    <2>4. current' = t
        BY <1>1, <1>6
    <2> QED BY <2>1, <2>2, <2>3, <2>4 DEF InsideSound
<1>18. HeldOnce'
    <2> SUFFICES ASSUME NEW u \in Threads, NEW v \in Threads, u # v, Inside(u)', Inside(v)'
                 PROVE  picked'[u] # picked'[v]
        BY DEF HeldOnce, Inside
    <2>1. CASE u # t /\ v # t
        BY <1>1, <1>11, <1>12, <2>1 DEF HeldOnce, Inside
    <2>2. CASE u = t \/ v = t
        BY <1>8, <1>11, <1>12, <2>2
    <2> QED BY <2>1, <2>2
<1>19. IdleReady'
    BY <1>1, <1>6, <1>9, <1>10, SchedAssumption DEF IdleReady
<1>20. Exited' = Exited
    BY <1>1, <1>6, <1>9 DEF Exited
<1>21. Lists(zombies, Exited)'
    BY <1>1, <1>6, <1>20
<1> QED BY <1>14, <1>15, <1>16, <1>17, <1>18, <1>19, <1>21 DEF Whole

\* switch_to from a thread that is still running queues it.
LEMMA SwitchAway ==
    ASSUME TypeOK, NEW st \in [Threads -> ThreadStates], NEW q, NEW S, QueuesHold(q, S),
           NEW next \in Threads, NEW sl \in [Threads -> 0 .. Slice], NEW flag \in BOOLEAN,
           NEW via \in {"new", "call", "tick"}, next # current,
           st[current] = "RUNNING", current \notin S,
           switch_to(next, st, q, sl, flag, via)
    PROVE  /\ state' \in [Threads -> ThreadStates]
           /\ state'[next] = "RUNNING" /\ state'[current] = "RUNNABLE"
           /\ \A t \in Threads \ {next, current} : state'[t] = st[t]
           /\ QueuesHold(runq', S \cup {current})
           /\ slice' \in [Threads -> 0 .. Slice]
           /\ frame' \in [Threads -> {"new", "call", "tick"}]
           /\ irq' \in BOOLEAN
           /\ root' \in {Root[t] : t \in Threads} \cup {KernelRoot}
           /\ current' = next /\ zombies' = zombies
<1>1. current \in Threads /\ frame \in [Threads -> {"new", "call", "tick"}]
    BY DEF TypeOK
<1>2. /\ runq' = runq_push(q, current) /\ zombies' = zombies
      /\ state' = [t \in Threads |-> IF t = next THEN "RUNNING"
                                     ELSE IF t = current THEN LeftAs(st[t]) ELSE st[t]]
      /\ slice' = [sl EXCEPT ![next] = Slice] /\ frame' = [frame EXCEPT ![current] = via]
      /\ irq' = ResumedIrq(next, flag) /\ root' = Root[next] /\ current' = next
    BY DEF switch_to, Requeued
<1>3. QueuesHold(runq', S \cup {current})
    BY <1>1, <1>2, PushHolds
<1>4. LeftAs("RUNNING") = "RUNNABLE"
    BY DEF LeftAs
<1>5. /\ state' \in [Threads -> ThreadStates]
      /\ state'[next] = "RUNNING" /\ state'[current] = "RUNNABLE"
      /\ \A t \in Threads \ {next, current} : state'[t] = st[t]
    BY <1>1, <1>2, <1>4 DEF ThreadStates
<1>6. slice' \in [Threads -> 0 .. Slice]
    BY <1>2, SchedAssumption
<1>7. frame' \in [Threads -> {"new", "call", "tick"}]
    BY <1>1, <1>2
<1>8. irq' \in BOOLEAN
    BY <1>2 DEF ResumedIrq
<1> QED BY <1>2, <1>3, <1>5, <1>6, <1>7, <1>8

----------------------------------------------------------------------------
(* The actions.                                                            *)

\* A tick that tears nothing wakes the threads that are due and, at the end of
\* a slice, gives the processor to the first thread queued.
LEMMA TickKeeps ==
    ASSUME Whole, sched_tick, ~Tears
    PROVE  Whole'
<1> DEFINE st == Woken(state)
           q  == [p \in DOMAIN runq |-> runq[p] \o DueQueue(p)]
           sl == [slice EXCEPT ![current] = Spent(current)]
           S  == Queued \cup Due
<1>1. /\ TypeOK /\ OnlyCurrentRuns /\ InsideSound /\ HeldOnce /\ IdleReady
      /\ QueuesHold(runq, Queued) /\ Lists(zombies, Exited)
    BY DEF Whole
<1>2. current \in Threads /\ state \in [Threads -> ThreadStates] /\ picked \in [Threads -> Threads]
    BY <1>1 DEF TypeOK, ThreadStates
<1>3. \A t \in Threads : t \in Due => state[t] = "SLEEPING"
    BY DEF Due
<1>4. \A t \in Threads : InHand(t) => state[t] = "RUNNABLE" /\ t # current
    BY HeldByOther
<1>5. QueuesHold(q, S)
    <2>1. Queued \cap Due = {}
        BY DEF Due, Queued
    <2> QED BY <1>1, <2>1, DueHolds
<1>6. /\ st \in [Threads -> ThreadStates]
      /\ \A t \in Threads : st[t] = IF t \in Due THEN "RUNNABLE" ELSE state[t]
    BY <1>2 DEF Woken, ThreadStates
<1>7. S \subseteq Threads /\ \A t \in Threads : t \in S <=> st[t] = "RUNNABLE" /\ ~InHand(t)
    BY <1>3, <1>4, <1>6 DEF Due, Queued
<1>8. sl \in [Threads -> 0 .. Slice]
    <2>1. slice \in [Threads -> 0 .. Slice] /\ Slice \in Nat
        BY <1>1, SchedAssumption DEF TypeOK
    <2>2. Spent(current) \in 0 .. Slice
        BY <1>2, <2>1 DEF Spent
    <2> QED BY <2>1, <2>2
<1>9. /\ left' = [t \in Threads |-> IF state[t] = "SLEEPING" /\ left[t] > 0
                                    THEN left[t] - 1 ELSE left[t]]
      /\ IF Spent(current) = 0
         THEN switch_to(pick_next(st, q), st, Popped(q), sl, FALSE, "tick")
         ELSE /\ state' = st /\ runq' = q /\ slice' = sl
              /\ UNCHANGED <<current, zombies, frame, irq, root>>
      /\ torn' = (torn \/ Tears)
      /\ UNCHANGED <<pc, picked, attached>>
    BY DEF sched_tick
<1>10. left' \in [Threads -> 0 .. MaxSleep] /\ torn' \in BOOLEAN
    <2>1. left \in [Threads -> 0 .. MaxSleep] /\ MaxSleep \in Nat
        BY <1>1, SchedAssumption DEF TypeOK
    <2>2. \A t \in Threads : (IF state[t] = "SLEEPING" /\ left[t] > 0
                              THEN left[t] - 1 ELSE left[t]) \in 0 .. MaxSleep
        BY <2>1
    <2> QED BY <1>9, <2>2
<1>11. \A u \in Threads : Inside(u)' <=> Inside(u)
    BY <1>9 DEF Inside
<1>12. \A u \in Threads : InHand(u)' <=> InHand(u)
    BY <1>9 DEF InHand
<1>13. \A u \in Threads : Inside(u) => st[picked[u]] = "RUNNABLE"
    BY <1>1, <1>2, <1>6 DEF InsideSound
<1>14. HeldOnce'
    BY <1>1, <1>9 DEF HeldOnce
<1> HIDE DEF st, q, sl, S
<1>15. CASE /\ state' = st /\ runq' = q /\ slice' = sl
            /\ UNCHANGED <<current, zombies, frame, irq, root>>
    <2>1. Queued' = S
        BY <1>7, <1>12, <1>15 DEF Queued
    <2>2. QueuesHold(runq', Queued')
        BY <1>5, <1>15, <2>1
    <2>3. TypeOK'
        <3>1. runq' \in [0 .. Levels - 1 -> Seq(Threads)]
            BY <2>2 DEF QueuesHold, LevelHolds, PrioLevels
        <3> QED BY <1>1, <1>6, <1>8, <1>9, <1>10, <1>15, <3>1 DEF TypeOK, ThreadStates
    <2>4. OnlyCurrentRuns'
        BY <1>1, <1>2, <1>3, <1>6, <1>9, <1>15 DEF OnlyCurrentRuns
    <2>5. InsideSound'
        <3>1. \A u \in Threads \ {current} :
                  Inside(u)' => pc'[u] = "switch" /\ state'[u] = "RUNNABLE"
            BY <1>1, <1>6, <1>9, <1>11, <1>15 DEF InsideSound
        <3>2. /\ pc'[current] = "switch" => state'[current] \in {"RUNNING", "ZOMBIE"}
              /\ pc'[current] = "hand" => state'[current] \in {"BLOCKED", "SLEEPING", "RUNNABLE"}
            BY <1>1, <1>2, <1>3, <1>6, <1>9, <1>15 DEF InsideSound
        <3>3. \A u \in Threads :
                  Inside(u)' => /\ picked'[u] # u /\ picked'[u] # current
                                /\ state'[picked'[u]] = "RUNNABLE"
            BY <1>1, <1>9, <1>11, <1>13, <1>15 DEF InsideSound
        <3> QED BY <1>15, <3>1, <3>2, <3>3 DEF InsideSound
    <2>6. IdleReady'
        BY <1>1, <1>6, <1>9, <1>15, SchedAssumption DEF IdleReady
    <2>7. Exited' = Exited
        BY <1>3, <1>6, <1>15 DEF Exited
    <2>8. Lists(zombies, Exited)'
        BY <1>1, <1>15, <2>7
    <2> QED BY <1>14, <2>2, <2>3, <2>4, <2>5, <2>6, <2>8 DEF Whole
<1>16. CASE /\ Spent(current) = 0
            /\ switch_to(pick_next(st, q), st, Popped(q), sl, FALSE, "tick")
    <2>1. state[current] = "RUNNING" /\ st[current] = "RUNNING"
        BY <1>1, <1>2, <1>3, <1>6, <1>16 DEF Tears, OnlyCurrentRuns
    <2>2. CASE Occupied(q) = {}
        <3>1. pick_next(st, q) = current /\ Popped(q) = q
            BY <2>1, <2>2 DEF pick_next, Popped
        <3>2. /\ state' = st /\ runq' = q /\ slice' = sl
              /\ UNCHANGED <<current, zombies, frame, irq, root>>
            BY <1>16, <3>1 DEF switch_to
        <3> QED BY <1>15, <3>2
    <2>3. CASE Occupied(q) # {}
        <3> DEFINE x == Head(q[HighestLevel(q)])
        <3>1. x \in S /\ QueuesHold(Popped(q), S \ {x}) /\ pick_next(st, q) = x
            BY <1>5, <2>3, PopHolds DEF pick_next
        <3> HIDE DEF x
        <3>2. /\ x \in Threads /\ st[x] = "RUNNABLE" /\ x # current /\ current \notin S \ {x}
              /\ ~InHand(x)
            BY <1>7, <2>1, <3>1
        <3>3. /\ state' \in [Threads -> ThreadStates]
              /\ state'[x] = "RUNNING" /\ state'[current] = "RUNNABLE"
              /\ \A t \in Threads \ {x, current} : state'[t] = st[t]
              /\ QueuesHold(runq', (S \ {x}) \cup {current})
              /\ slice' \in [Threads -> 0 .. Slice]
              /\ frame' \in [Threads -> {"new", "call", "tick"}]
              /\ irq' \in BOOLEAN
              /\ root' \in {Root[t] : t \in Threads} \cup {KernelRoot}
              /\ current' = x /\ zombies' = zombies
            <4>1. switch_to(x, st, Popped(q), sl, FALSE, "tick")
                BY <1>16, <3>1
            <4>2. FALSE \in BOOLEAN /\ "tick" \in {"new", "call", "tick"}
                OBVIOUS
            <4>3. /\ TypeOK /\ st \in [Threads -> ThreadStates] /\ QueuesHold(Popped(q), S \ {x})
                  /\ x \in Threads /\ sl \in [Threads -> 0 .. Slice] /\ x # current
                  /\ st[current] = "RUNNING" /\ current \notin S \ {x}
                BY <1>1, <1>6, <1>8, <2>1, <3>1, <3>2
            <4> QED BY ONLY <4>1, <4>2, <4>3, SwitchAway, Zenon
        <3>4. Queued' = (S \ {x}) \cup {current}
            <4>1. \A t \in Threads : t \in Queued' <=> (t \in S /\ t # x) \/ t = current
                <5> TAKE t \in Threads
                <5>1. t \in Queued' <=> state'[t] = "RUNNABLE" /\ ~InHand(t)
                    BY <1>12 DEF Queued
                <5>2. CASE t = x
                    BY <3>2, <3>3, <5>1, <5>2
                <5>3. CASE t = current
                    BY <1>4, <3>3, <5>1, <5>3
                <5>4. CASE t # x /\ t # current
                    BY <1>7, <3>3, <5>1, <5>4
                <5> QED BY <5>2, <5>3, <5>4
            <4>2. Queued' \subseteq Threads
                BY DEF Queued
            <4> QED BY <1>2, <1>7, <4>1, <4>2
        <3>5. QueuesHold(runq', Queued')
            BY <3>3, <3>4
        <3>6. TypeOK'
            <4>1. runq' \in [0 .. Levels - 1 -> Seq(Threads)]
                BY <3>5 DEF QueuesHold, LevelHolds, PrioLevels
            <4> QED BY <1>1, <1>9, <1>10, <3>2, <3>3, <4>1 DEF TypeOK, ThreadStates
        <3>7. OnlyCurrentRuns'
            BY <1>1, <1>2, <1>6, <3>2, <3>3 DEF OnlyCurrentRuns
        <3>8. InsideSound'
            <4>1. \A u \in Threads \ {x} :
                      Inside(u)' => pc'[u] = "switch" /\ state'[u] = "RUNNABLE"
                <5> SUFFICES ASSUME NEW u \in Threads, u # x, Inside(u)
                             PROVE  pc'[u] = "switch" /\ state'[u] = "RUNNABLE"
                    BY <1>11
                <5>1. CASE u = current
                    BY <1>1, <1>9, <2>1, <3>3, <5>1 DEF InsideSound, TypeOK, Inside
                <5>2. CASE u # current
                    BY <1>1, <1>6, <1>9, <3>3, <5>2 DEF InsideSound
                <5> QED BY <5>1, <5>2
            <4>2. /\ pc'[x] = "switch" => state'[x] \in {"RUNNING", "ZOMBIE"}
                  /\ pc'[x] = "hand" => state'[x] \in {"BLOCKED", "SLEEPING", "RUNNABLE"}
                <5>1. pc[x] # "hand"
                    BY <1>1, <3>2 DEF InsideSound, Inside
                <5> QED BY <1>9, <3>3, <5>1
            <4>3. \A u \in Threads :
                      Inside(u)' => /\ picked'[u] # u /\ picked'[u] # x
                                    /\ state'[picked'[u]] = "RUNNABLE"
                <5> SUFFICES ASSUME NEW u \in Threads, Inside(u)
                             PROVE  /\ picked[u] # u /\ picked[u] # x
                                    /\ state'[picked[u]] = "RUNNABLE"
                    BY <1>9, <1>11
                <5>1. picked[u] # u /\ picked[u] # current /\ picked[u] \in Threads
                    BY <1>1, <1>2 DEF InsideSound
                <5>2. picked[u] # x
                    BY <3>2, <5>1 DEF InHand, Inside
                <5> QED BY <1>13, <3>3, <5>1, <5>2
            <4> QED BY <3>3, <4>1, <4>2, <4>3 DEF InsideSound
        <3>9. IdleReady'
            BY <1>1, <1>6, <1>9, <3>3, SchedAssumption DEF IdleReady
        <3>10. Exited' = Exited
            BY <1>2, <1>3, <1>6, <2>1, <3>2, <3>3 DEF Exited
        <3>11. Lists(zombies, Exited)'
            BY <1>1, <3>3, <3>10
        <3> QED BY <1>14, <3>5, <3>6, <3>7, <3>8, <3>9, <3>11 DEF Whole
    <2> QED BY <2>2, <2>3
<1> QED BY <1>9, <1>15, <1>16

\* The first halves of yield, block, sleep and exit.
LEMMA ChoosersKeep ==
    ASSUME Whole, NEW t \in Threads,
           \/ sched_yield(t) \/ sched_block(t) \/ thread_exit(t)
           \/ \E n \in 1 .. MaxSleep : sched_sleep(t, n)
    PROVE  Whole'
<1>1. /\ slice \in [Threads -> 0 .. Slice] /\ left \in [Threads -> 0 .. MaxSleep]
      /\ state \in [Threads -> ThreadStates] /\ Slice \in Nat /\ MaxSleep \in Nat
    BY SchedAssumption DEF Whole, TypeOK, ThreadStates
<1>2. CASE sched_yield(t)
    <2>1. Acts(t) /\ t # Idle /\ Choose(t, state, "switch") /\ slice' = [slice EXCEPT ![t] = Slice] /\ left' = left
        BY <1>2 DEF sched_yield
    <2>2. state[t] = "RUNNING"
        BY <2>1 DEF Whole, OnlyCurrentRuns, Acts
    <2>3. state = [state EXCEPT ![t] = "RUNNING"]
        BY <1>1, <2>2
    <2>4. Choose(t, [state EXCEPT ![t] = "RUNNING"], "switch")
        BY <2>1, <2>3
    <2>5. slice' \in [Threads -> 0 .. Slice] /\ left' \in [Threads -> 0 .. MaxSleep]
        BY <1>1, <2>1
    <2>6. "RUNNING" \in ThreadStates
        BY DEF ThreadStates
    <2> QED BY <2>1, <2>4, <2>5, <2>6, ChooseKeeps
<1>3. CASE sched_block(t)
    <2>1. /\ Acts(t) /\ t # Idle /\ Choose(t, [state EXCEPT ![t] = "BLOCKED"], "hand")
          /\ slice' = slice /\ left' = left
        BY <1>3 DEF sched_block
    <2>2. "BLOCKED" \in ThreadStates
        BY DEF ThreadStates
    <2> QED BY <1>1, <2>1, <2>2, ChooseKeeps
<1>4. CASE thread_exit(t)
    <2>1. /\ Acts(t) /\ t # Idle /\ Choose(t, [state EXCEPT ![t] = "ZOMBIE"], "switch")
          /\ slice' = slice /\ left' = left
        BY <1>4 DEF thread_exit
    <2>2. "ZOMBIE" \in ThreadStates
        BY DEF ThreadStates
    <2> QED BY <1>1, <2>1, <2>2, ChooseKeeps
<1>5. CASE \E n \in 1 .. MaxSleep : sched_sleep(t, n)
    <2>1. PICK n \in 1 .. MaxSleep : sched_sleep(t, n)
        BY <1>5
    <2>2. /\ Acts(t) /\ t # Idle /\ Choose(t, [state EXCEPT ![t] = "SLEEPING"], "hand")
          /\ slice' = slice /\ left' = [left EXCEPT ![t] = n]
        BY <2>1 DEF sched_sleep
    <2>3. n \in 0 .. MaxSleep
        BY <1>1
    <2>4. left' \in [Threads -> 0 .. MaxSleep]
        BY <1>1, <2>2, <2>3
    <2>5. "SLEEPING" \in ThreadStates
        BY DEF ThreadStates
    <2> QED BY <1>1, <2>2, <2>4, <2>5, ChooseKeeps
<1> QED BY <1>2, <1>3, <1>4, <1>5

\* A thread that switches to the one in its hand leaves the scheduler: what it
\* held is not in hand any more, and what others hold still is.
LEMMA LeaveHand ==
    ASSUME Whole, NEW t \in Threads, current = t, Inside(t),
           pc' = [pc EXCEPT ![t] = "run"], picked' = [picked EXCEPT ![t] = t],
           current' = picked[t]
    PROVE  /\ ~Inside(t)' /\ \A u \in Threads : u # t => (Inside(u)' <=> Inside(u))
           /\ \A u \in Threads : u # t => picked'[u] = picked[u] /\ pc'[u] = pc[u]
           /\ InHand(picked[t]) /\ ~InHand(picked[t])'
           /\ \A u \in Threads : u # picked[t] => (InHand(u)' <=> InHand(u))
           /\ HeldOnce'
           /\ pc[picked[t]] # "hand"
           /\ \A u \in Threads \ {t} :
                 Inside(u) => picked[u] # u /\ picked[u] # picked[t] /\ picked[u] # t
<1>1. /\ TypeOK /\ InsideSound /\ HeldOnce
      /\ pc \in [Threads -> {"run", "switch", "hand"}] /\ picked \in [Threads -> Threads]
    BY DEF Whole, TypeOK
<1>2. /\ ~Inside(t)' /\ \A u \in Threads : u # t => (Inside(u)' <=> Inside(u))
      /\ \A u \in Threads : u # t => picked'[u] = picked[u] /\ pc'[u] = pc[u]
    BY <1>1 DEF Inside
<1>3. picked[t] \in Threads /\ picked[t] # t
    BY <1>1 DEF InsideSound
<1>4. \A u \in Threads \ {t} :
          Inside(u) => picked[u] # u /\ picked[u] # picked[t] /\ picked[u] # t
    BY <1>1 DEF InsideSound, HeldOnce, Inside
<1>5. InHand(picked[t]) /\ ~InHand(picked[t])'
    BY <1>2, <1>3, <1>4 DEF InHand, Inside
<1>6. \A u \in Threads : u # picked[t] => (InHand(u)' <=> InHand(u))
    BY <1>2, <1>3, <1>4 DEF InHand, Inside
<1>7. HeldOnce'
    BY <1>1, <1>2 DEF HeldOnce, Inside
<1>8. pc[picked[t]] # "hand"
    BY <1>1, <1>3 DEF InsideSound, Inside
<1> QED BY <1>2, <1>4, <1>5, <1>6, <1>7, <1>8

\* The second half of yield and exit: the thread that yielded is queued, the
\* one that exited goes on the list of zombies.
LEMMA FinishSwitchKeeps ==
    ASSUME Whole, NEW t \in Threads, finish_switch(t)
    PROVE  Whole'
<1> DEFINE x == picked[t]
<1>1. /\ TypeOK /\ OnlyCurrentRuns /\ InsideSound /\ HeldOnce /\ IdleReady
      /\ QueuesHold(runq, Queued) /\ Lists(zombies, Exited)
      /\ current = t /\ pc[t] = "switch" /\ switch_to(x, state, runq, slice, irq, "call")
      /\ pc' = [pc EXCEPT ![t] = "run"] /\ picked' = [picked EXCEPT ![t] = t]
      /\ left' = left /\ attached' = attached /\ torn' = torn
    BY DEF Whole, finish_switch
<1>2. /\ state \in [Threads -> ThreadStates] /\ x \in Threads /\ irq \in BOOLEAN
      /\ slice \in [Threads -> 0 .. Slice] /\ pc \in [Threads -> {"run", "switch", "hand"}]
      /\ frame \in [Threads -> {"new", "call", "tick"}] /\ picked \in [Threads -> Threads]
      /\ zombies \in Seq(Threads) /\ Len(zombies) <= MaxZombies /\ MaxZombies \in Nat \ {0}
    BY <1>1, SchedAssumption DEF TypeOK, ThreadStates
<1>3. Inside(t)
    BY <1>1 DEF Inside
<1> HIDE DEF x
<1>4. state[x] = "RUNNABLE" /\ state[t] \in {"RUNNING", "ZOMBIE"} /\ x # t
    BY <1>1, <1>2, <1>3 DEF InsideSound, x
<1>5. current' = x
    BY <1>1, <1>4 DEF switch_to
<1>6. /\ ~Inside(t)' /\ \A u \in Threads : u # t => (Inside(u)' <=> Inside(u))
      /\ \A u \in Threads : u # t => picked'[u] = picked[u] /\ pc'[u] = pc[u]
      /\ InHand(x) /\ ~InHand(x)'
      /\ \A u \in Threads : u # x => (InHand(u)' <=> InHand(u))
      /\ HeldOnce'
      /\ pc[x] # "hand"
      /\ \A u \in Threads \ {t} :
            Inside(u) => picked[u] # u /\ picked[u] # x /\ picked[u] # t
    BY <1>1, <1>3, <1>5, LeaveHand DEF x
<1>7. pc' \in [Threads -> {"run", "switch", "hand"}] /\ picked' \in [Threads -> Threads]
    BY <1>1, <1>2
<1>8. ~InHand(t)
    BY <1>1, HeldByOther
<1>9. \A u \in Threads \ {t} :
          Inside(u) => pc[u] = "switch" /\ state[u] = "RUNNABLE" /\ state[picked[u]] = "RUNNABLE"
    BY <1>1 DEF InsideSound
<1>10. InsideSound'
    <2>1. /\ state'[x] = "RUNNING"
          /\ \A u \in Threads : u # x /\ state[u] = "RUNNABLE" => state'[u] = "RUNNABLE"
        <3>1. \A u \in Evicted(t) : state[t] = "ZOMBIE" => u \in Threads /\ state[u] = "ZOMBIE"
            <4> SUFFICES ASSUME NEW u \in Evicted(t) PROVE u \in Threads /\ state[u] = "ZOMBIE"
                OBVIOUS
            <4>1. u = Head(zombies) /\ Len(zombies) = MaxZombies
                BY DEF Evicted
            <4>2. zombies # <<>>
                BY <1>2, <4>1
            <4>3. u \in Exited
                BY <1>1, <4>1, <4>2, TailLists
            <4> QED BY <4>3 DEF Exited
        <3>2. state' = [u \in Threads |->
                          IF u = x THEN "RUNNING"
                          ELSE IF u \in (IF state[t] = "ZOMBIE" THEN Evicted(t) ELSE {}) THEN "FREE"
                          ELSE IF u = t THEN LeftAs(state[u]) ELSE state[u]]
            BY <1>1, <1>4 DEF switch_to
        <3> QED BY <1>2, <1>4, <3>1, <3>2
    <2>2. \A u \in Threads \ {x} : Inside(u)' => pc'[u] = "switch" /\ state'[u] = "RUNNABLE"
        BY <1>6, <1>9, <2>1
    <2>3. /\ pc'[x] = "switch" => state'[x] \in {"RUNNING", "ZOMBIE"}
          /\ pc'[x] = "hand" => state'[x] \in {"BLOCKED", "SLEEPING", "RUNNABLE"}
        BY <1>2, <1>4, <1>6, <2>1
    <2>4. \A u \in Threads :
              Inside(u)' => /\ picked'[u] # u /\ picked'[u] # x
                            /\ state'[picked'[u]] = "RUNNABLE"
        BY <1>2, <1>6, <1>9, <2>1
    <2> QED BY <1>5, <2>2, <2>3, <2>4 DEF InsideSound
<1>11. Idle \in Threads /\ pc'[Idle] = "run"
    BY <1>1, <1>2, SchedAssumption DEF IdleReady
<1>12. CASE state[t] = "RUNNING"
    <2>1. /\ state' \in [Threads -> ThreadStates]
          /\ state'[x] = "RUNNING" /\ state'[t] = "RUNNABLE"
          /\ \A u \in Threads \ {x, t} : state'[u] = state[u]
          /\ QueuesHold(runq', Queued \cup {t})
          /\ slice' \in [Threads -> 0 .. Slice]
          /\ frame' \in [Threads -> {"new", "call", "tick"}]
          /\ irq' \in BOOLEAN
          /\ root' \in {Root[u] : u \in Threads} \cup {KernelRoot}
          /\ current' = x /\ zombies' = zombies
        <3>1. /\ "call" \in {"new", "call", "tick"} /\ current \notin Queued
              /\ state[current] = "RUNNING" /\ x # current
            BY <1>1, <1>4, <1>12 DEF Queued
        <3>2. /\ state' \in [Threads -> ThreadStates]
              /\ state'[x] = "RUNNING" /\ state'[current] = "RUNNABLE"
              /\ \A u \in Threads \ {x, current} : state'[u] = state[u]
              /\ QueuesHold(runq', Queued \cup {current})
              /\ slice' \in [Threads -> 0 .. Slice]
              /\ frame' \in [Threads -> {"new", "call", "tick"}]
              /\ irq' \in BOOLEAN
              /\ root' \in {Root[u] : u \in Threads} \cup {KernelRoot}
              /\ current' = x /\ zombies' = zombies
            <4>1. /\ TypeOK /\ state \in [Threads -> ThreadStates] /\ QueuesHold(runq, Queued)
                  /\ x \in Threads /\ slice \in [Threads -> 0 .. Slice] /\ irq \in BOOLEAN
                  /\ switch_to(x, state, runq, slice, irq, "call")
                BY <1>1, <1>2
            <4> QED BY ONLY <3>1, <4>1, SwitchAway, Zenon
        <3> QED BY <1>1, <3>2
    <2>2. Queued' = Queued \cup {t}
        <3>1. \A u \in Threads : u \in Queued' <=> u \in Queued \/ u = t
            BY <1>4, <1>6, <1>8, <2>1 DEF Queued
        <3> QED BY <3>1 DEF Queued
    <2>3. QueuesHold(runq', Queued')
        BY <2>1, <2>2
    <2>4. TypeOK'
        <3>1. runq' \in [0 .. Levels - 1 -> Seq(Threads)]
            BY <2>3 DEF QueuesHold, LevelHolds, PrioLevels
        <3> QED BY <1>1, <1>2, <1>7, <2>1, <3>1 DEF TypeOK, ThreadStates
    <2>5. OnlyCurrentRuns'
        BY <1>1, <1>2, <2>1 DEF OnlyCurrentRuns
    <2>6. IdleReady'
        BY <1>1, <1>11, <2>1 DEF IdleReady
    <2>7. Exited' = Exited
        BY <1>1, <1>4, <1>12, <2>1 DEF Exited
    <2>8. Lists(zombies, Exited)'
        BY <1>1, <2>1, <2>7
    <2> QED BY <1>6, <1>10, <2>3, <2>4, <2>5, <2>6, <2>8 DEF Whole
<1>13. CASE state[t] = "ZOMBIE"
    <2> DEFINE e == Evicted(t)
    <2>1. /\ runq' = runq_remove(runq, t) /\ zombies' = sched_reap(t)
          /\ state' = [u \in Threads |-> IF u = x THEN "RUNNING"
                                         ELSE IF u \in e THEN "FREE"
                                         ELSE IF u = t THEN LeftAs(state[u]) ELSE state[u]]
          /\ slice' = [slice EXCEPT ![x] = Slice] /\ frame' = [frame EXCEPT ![t] = "call"]
          /\ irq' = ResumedIrq(x, irq) /\ root' = Root[x] /\ current' = x
        BY <1>1, <1>4, <1>13 DEF switch_to
    <2>2. runq' = runq
        <3>1. t \notin Queued
            BY <1>13 DEF Queued
        <3> QED BY <1>1, <2>1, <3>1, RemoveHolds
    <2>3. t \notin ToSet(zombies) /\ t \notin Exited
        <3>1. t \notin Exited
            BY <1>1 DEF Exited
        <3>2. ToSet(zombies) = Exited
            BY <1>1, ListsCounts
        <3> QED BY <3>1, <3>2
    <2>4. \A u \in e : u \in Exited
        <3> SUFFICES ASSUME NEW u \in e PROVE u \in Exited
            OBVIOUS
        <3>1. u = Head(zombies) /\ Len(zombies) = MaxZombies
            BY DEF Evicted
        <3>2. zombies # <<>>
            BY <1>2, <3>1
        <3> QED BY <1>1, <3>1, <3>2, TailLists
    <2>5. Lists(zombies', (Exited \ e) \cup {t}) /\ Len(zombies') <= MaxZombies
        <3>1. CASE Len(zombies) = MaxZombies
            <4>1. e = {Head(zombies)} /\ zombies # <<>>
                BY <1>2, <2>3, <3>1 DEF Evicted
            <4>2. zombies' = Append(Tail(zombies), t)
                BY <2>1, <2>3, <4>1 DEF sched_reap
            <4>3. Lists(Tail(zombies), Exited \ e) /\ Len(Tail(zombies)) = Len(zombies) - 1
                BY <1>1, <4>1, TailLists
            <4>4. Lists(zombies', (Exited \ e) \cup {t})
                BY <2>3, <4>2, <4>3, AppendLists
            <4>5. Tail(zombies) \in Seq(Threads)
                BY <4>3 DEF Lists
            <4> QED BY <1>2, <3>1, <4>2, <4>3, <4>4, <4>5
        <3>2. CASE Len(zombies) # MaxZombies
            <4>1. e = {}
                BY <3>2 DEF Evicted
            <4>2. zombies' = Append(zombies, t)
                BY <2>1, <2>3, <4>1 DEF sched_reap
            <4>3. Lists(zombies', Exited \cup {t})
                BY <1>1, <2>3, <4>2, AppendLists
            <4>4. Len(zombies') <= MaxZombies
                BY <1>2, <3>2, <4>2
            <4> QED BY <4>1, <4>3, <4>4
        <3> QED BY <3>1, <3>2
    <2> HIDE DEF e
    <2>6. x \notin e /\ t \notin e
        BY <1>4, <2>3, <2>4 DEF Exited
    <2>7. /\ state' \in [Threads -> ThreadStates]
          /\ state'[x] = "RUNNING" /\ state'[t] = "ZOMBIE"
          /\ \A u \in e : state'[u] = "FREE"
          /\ \A u \in Threads : u # x /\ u \notin e => state'[u] = state[u]
        <3>1. LeftAs("ZOMBIE") = "ZOMBIE"
            BY DEF LeftAs
        <3>2. e \subseteq Threads
            BY <2>4 DEF Exited
        <3> QED BY <1>2, <1>4, <1>13, <2>1, <2>6, <3>1, <3>2 DEF ThreadStates
    <2>8. Queued' = Queued
        <3>1. \A u \in e : u \in Threads /\ state[u] = "ZOMBIE"
            BY <2>4 DEF Exited
        <3>2. \A u \in Threads : u \in Queued' <=> u \in Queued
            BY <1>4, <1>6, <2>7, <3>1 DEF Queued
        <3> QED BY <3>2 DEF Queued
    <2>9. QueuesHold(runq', Queued')
        BY <1>1, <2>2, <2>8
    <2>10. Exited' = (Exited \ e) \cup {t}
        BY <1>1, <1>4, <2>1, <2>4, <2>6, <2>7 DEF Exited
    <2>11. Lists(zombies, Exited)'
        BY <2>5, <2>10
    <2>12. TypeOK'
        <3>1. zombies' \in Seq(Threads)
            BY <2>5 DEF Lists
        <3>2. slice' \in [Threads -> 0 .. Slice]
            BY <1>2, <2>1, SchedAssumption
        <3>3. irq' \in BOOLEAN /\ frame' \in [Threads -> {"new", "call", "tick"}]
            BY <1>2, <2>1 DEF ResumedIrq
        <3>4. root' \in {Root[u] : u \in Threads} \cup {KernelRoot}
            BY <1>2, <2>1
        <3>5. state' \in [Threads -> ThreadStates]
            BY <2>7
        <3>6. left' \in [Threads -> 0 .. MaxSleep] /\ attached' \subseteq Threads /\ torn' \in BOOLEAN
            BY <1>1 DEF TypeOK
        <3>7. runq' \in [0 .. Levels - 1 -> Seq(Threads)] /\ current' \in Threads
            BY <1>1, <1>2, <2>1, <2>2 DEF TypeOK
        <3>8. Len(zombies') <= MaxZombies
            BY <2>5
        <3> QED BY ONLY <1>7, <3>1, <3>2, <3>3, <3>4, <3>5, <3>6, <3>7, <3>8 DEF TypeOK, ThreadStates
    <2>13. OnlyCurrentRuns'
        <3>1. \A u \in Threads : state'[u] = "RUNNING" => u = x
            <4> SUFFICES ASSUME NEW u \in Threads, state'[u] = "RUNNING", u # x PROVE FALSE
                OBVIOUS
            <4>1. u \notin e /\ state[u] = "RUNNING"
                BY <2>7
            <4>2. u = t
                BY <1>1, <4>1 DEF OnlyCurrentRuns
            <4> QED BY <1>13, <4>1, <4>2
        <3> QED BY <2>1, <2>7, <3>1 DEF OnlyCurrentRuns
    <2>14. IdleReady'
        <3>1. Idle \notin e
            BY <1>1, <2>4 DEF IdleReady, Exited
        <3> QED BY <1>1, <1>11, <2>7, <3>1 DEF IdleReady
    <2> QED BY <1>6, <1>10, <2>1, <2>9, <2>11, <2>12, <2>13, <2>14 DEF Whole
<1> QED BY <1>4, <1>12, <1>13

\* The second half of block and sleep.
LEMMA FinishWaitKeeps ==
    ASSUME Whole, NEW t \in Threads, finish_wait(t)
    PROVE  Whole'
<1> DEFINE x == picked[t]
<1>1. /\ TypeOK /\ OnlyCurrentRuns /\ InsideSound /\ HeldOnce /\ IdleReady
      /\ QueuesHold(runq, Queued) /\ Lists(zombies, Exited)
      /\ current = t /\ pc[t] = "hand" /\ hand_switch(x)
      /\ pc' = [pc EXCEPT ![t] = "run"] /\ picked' = [picked EXCEPT ![t] = t]
      /\ left' = left /\ attached' = attached /\ torn' = torn
    BY DEF Whole, finish_wait
<1>2. /\ state \in [Threads -> ThreadStates] /\ x \in Threads /\ irq \in BOOLEAN
      /\ slice \in [Threads -> 0 .. Slice] /\ pc \in [Threads -> {"run", "switch", "hand"}]
      /\ frame \in [Threads -> {"new", "call", "tick"}] /\ picked \in [Threads -> Threads]
    BY <1>1, SchedAssumption DEF TypeOK, ThreadStates
<1>3. Inside(t)
    BY <1>1 DEF Inside
<1> HIDE DEF x
<1>4. /\ state[x] = "RUNNABLE" /\ state[t] \in {"BLOCKED", "SLEEPING", "RUNNABLE"} /\ x # t
    BY <1>1, <1>2, <1>3 DEF InsideSound, x
<1>5. /\ state' = [state EXCEPT ![x] = "RUNNING"] /\ slice' = [slice EXCEPT ![x] = Slice]
      /\ frame' = [frame EXCEPT ![t] = "call"] /\ irq' = ResumedIrq(x, irq) /\ current' = x
      /\ UNCHANGED <<runq, zombies, root>>
    BY <1>1 DEF hand_switch
<1>6. /\ ~Inside(t)' /\ \A u \in Threads : u # t => (Inside(u)' <=> Inside(u))
      /\ \A u \in Threads : u # t => picked'[u] = picked[u] /\ pc'[u] = pc[u]
      /\ InHand(x) /\ ~InHand(x)'
      /\ \A u \in Threads : u # x => (InHand(u)' <=> InHand(u))
      /\ HeldOnce'
      /\ pc[x] # "hand"
      /\ \A u \in Threads \ {t} :
            Inside(u) => picked[u] # u /\ picked[u] # x /\ picked[u] # t
    BY <1>1, <1>3, <1>5, LeaveHand DEF x
<1>7. pc' \in [Threads -> {"run", "switch", "hand"}] /\ picked' \in [Threads -> Threads]
    BY <1>1, <1>2
<1>8. /\ state' \in [Threads -> ThreadStates] /\ state'[x] = "RUNNING"
      /\ \A u \in Threads : u # x => state'[u] = state[u]
    BY <1>2, <1>5 DEF ThreadStates
<1>9. Queued' = Queued
    <2>1. \A u \in Threads : u \in Queued' <=> u \in Queued
        BY <1>6, <1>8 DEF Queued
    <2> QED BY <2>1 DEF Queued
<1>10. QueuesHold(runq', Queued')
    BY <1>1, <1>5, <1>9
<1>11. Exited' = Exited
    BY <1>1, <1>4, <1>5, <1>8 DEF Exited
<1>12. Lists(zombies, Exited)'
    BY <1>1, <1>5, <1>11
<1>13. TypeOK'
    <2>1. slice' \in [Threads -> 0 .. Slice]
        BY <1>2, <1>5, SchedAssumption
    <2>2. irq' \in BOOLEAN /\ frame' \in [Threads -> {"new", "call", "tick"}]
        BY <1>2, <1>5 DEF ResumedIrq
    <2> QED BY <1>1, <1>2, <1>5, <1>7, <1>8, <2>1, <2>2 DEF TypeOK, ThreadStates
<1>14. OnlyCurrentRuns'
    BY <1>1, <1>4, <1>5, <1>8 DEF OnlyCurrentRuns
<1>15. InsideSound'
    <2>1. \A u \in Threads \ {t} :
              Inside(u) => /\ pc[u] = "switch" /\ state[u] = "RUNNABLE"
                           /\ state[picked[u]] = "RUNNABLE" /\ picked[u] \in Threads
        BY <1>1, <1>2 DEF InsideSound
    <2>2. \A u \in Threads \ {x} : Inside(u)' => pc'[u] = "switch" /\ state'[u] = "RUNNABLE"
        BY <1>6, <1>8, <2>1
    <2>3. /\ pc'[x] = "switch" => state'[x] \in {"RUNNING", "ZOMBIE"}
          /\ pc'[x] = "hand" => state'[x] \in {"BLOCKED", "SLEEPING", "RUNNABLE"}
        BY <1>2, <1>4, <1>6, <1>8
    <2>4. \A u \in Threads :
              Inside(u)' => /\ picked'[u] # u /\ picked'[u] # x
                            /\ state'[picked'[u]] = "RUNNABLE"
        BY <1>6, <1>8, <2>1
    <2> QED BY <1>5, <2>2, <2>3, <2>4 DEF InsideSound
<1>16. IdleReady'
    BY <1>1, <1>2, <1>8, SchedAssumption DEF IdleReady
<1> QED BY <1>6, <1>10, <1>12, <1>13, <1>14, <1>15, <1>16 DEF Whole

\* A blocked thread that is woken and a new one that is admitted are queued.
LEMMA ReadyKeeps ==
    ASSUME Whole, NEW t \in Threads, NEW u \in Threads,
           sched_unblock(t, u) \/ sched_admit(t, u)
    PROVE  Whole'
<1>1. /\ TypeOK /\ OnlyCurrentRuns /\ InsideSound /\ HeldOnce /\ IdleReady
      /\ QueuesHold(runq, Queued) /\ Lists(zombies, Exited)
      /\ current = t /\ pc[t] = "run" /\ state[u] \in {"BLOCKED", "CREATED"}
      /\ state' = [state EXCEPT ![u] = "RUNNABLE"] /\ runq' = runq_push(runq, u)
      /\ UNCHANGED <<slice, left, current, zombies, pc, picked, frame, irq, root, attached,
                     torn>>
    BY DEF Whole, sched_unblock, sched_admit, Acts
<1>2. state \in [Threads -> ThreadStates]
    BY <1>1 DEF TypeOK, ThreadStates
<1>3. /\ state' \in [Threads -> ThreadStates] /\ state'[u] = "RUNNABLE"
      /\ \A v \in Threads : v # u => state'[v] = state[v]
    BY <1>1, <1>2 DEF ThreadStates
<1>4. u \notin Queued /\ Queued' = Queued \cup {u}
    <2>1. ~InHand(u)
        BY <1>1, HeldByOther
    <2>2. \A v \in Threads : InHand(v)' <=> InHand(v)
        BY <1>1 DEF InHand
    <2> QED BY <1>1, <1>3, <2>1, <2>2 DEF Queued
<1>5. QueuesHold(runq', Queued')
    BY <1>1, <1>4, PushHolds
<1>6. Exited' = Exited
    BY <1>1, <1>3 DEF Exited
<1>7. Lists(zombies, Exited)'
    BY <1>1, <1>6
<1>8. TypeOK'
    <2>1. runq' \in [0 .. Levels - 1 -> Seq(Threads)]
        BY <1>5 DEF QueuesHold, LevelHolds, PrioLevels
    <2> QED BY <1>1, <1>3, <2>1 DEF TypeOK, ThreadStates
<1>9. OnlyCurrentRuns'
    BY <1>1, <1>3 DEF OnlyCurrentRuns
<1>10. InsideSound' /\ HeldOnce'
    BY <1>1, <1>3 DEF InsideSound, HeldOnce, Inside, OnlyCurrentRuns, TypeOK
<1>11. IdleReady'
    BY <1>1, <1>3, SchedAssumption DEF IdleReady
<1> QED BY <1>5, <1>7, <1>8, <1>9, <1>10, <1>11 DEF Whole

\* A new thread is in no queue and on no list.
LEMMA CreateKeeps ==
    ASSUME Whole, NEW t \in Threads, NEW u \in Threads, thread_create(t, u)
    PROVE  Whole'
<1>1. /\ TypeOK /\ OnlyCurrentRuns /\ InsideSound /\ HeldOnce /\ IdleReady
      /\ QueuesHold(runq, Queued) /\ Lists(zombies, Exited)
      /\ current = t /\ pc[t] = "run" /\ state[u] = "FREE"
      /\ state' = [state EXCEPT ![u] = "CREATED"]
      /\ slice' = [slice EXCEPT ![u] = Slice] /\ frame' = [frame EXCEPT ![u] = "new"]
      /\ attached' = IF Root[u] = KernelRoot THEN attached ELSE attached \cup {u}
      /\ pc' = [pc EXCEPT ![u] = "run"] /\ picked' = [picked EXCEPT ![u] = u]
      /\ UNCHANGED <<left, runq, current, zombies, irq, root, torn>>
    BY DEF Whole, thread_create, Acts
<1>2. state \in [Threads -> ThreadStates]
    BY <1>1 DEF TypeOK, ThreadStates
<1>3. /\ state' \in [Threads -> ThreadStates] /\ state'[u] = "CREATED"
      /\ \A v \in Threads : v # u => state'[v] = state[v]
    BY <1>1, <1>2 DEF ThreadStates
<1>4. /\ \A v \in Threads : v # u => pc'[v] = pc[v] /\ picked'[v] = picked[v]
      /\ pc[u] = "run" /\ pc'[u] = "run"
    <2>1. u # current
        BY <1>1 DEF OnlyCurrentRuns
    <2>2. pc[u] = "run"
        BY <1>1, <2>1 DEF InsideSound, Inside
    <2> QED BY <1>1, <2>2 DEF TypeOK
<1>5. Queued' = Queued
    <2>1. \A v \in Threads : InHand(v)' <=> InHand(v)
        BY <1>4 DEF InHand
    <2> QED BY <1>1, <1>3, <2>1 DEF Queued
<1>6. QueuesHold(runq', Queued')
    BY <1>1, <1>5
<1>7. Exited' = Exited
    BY <1>1, <1>3 DEF Exited
<1>8. Lists(zombies, Exited)'
    BY <1>1, <1>7
<1>9. TypeOK'
    <2>1. slice' \in [Threads -> 0 .. Slice]
        <3>1. slice \in [Threads -> 0 .. Slice] /\ Slice \in 0 .. Slice
            BY <1>1, SchedAssumption DEF TypeOK
        <3> QED BY <1>1, <3>1
    <2>2. frame' \in [Threads -> {"new", "call", "tick"}] /\ attached' \subseteq Threads
        BY <1>1 DEF TypeOK
    <2> QED BY <1>1, <1>3, <2>1, <2>2 DEF TypeOK, ThreadStates
<1>10. OnlyCurrentRuns'
    BY <1>1, <1>3 DEF OnlyCurrentRuns
<1>11. InsideSound' /\ HeldOnce'
    BY <1>1, <1>3, <1>4 DEF InsideSound, HeldOnce, Inside, TypeOK
<1>12. IdleReady'
    BY <1>1, <1>3, SchedAssumption DEF IdleReady
<1> QED BY <1>6, <1>8, <1>9, <1>10, <1>11, <1>12 DEF Whole

\* A thread whose stack is freed leaves the list of zombies.
LEMMA CollectKeeps ==
    ASSUME Whole, NEW t \in Threads, sched_collect_zombies(t)
    PROVE  Whole'
<1> DEFINE z == Last(zombies)
<1>1. /\ TypeOK /\ OnlyCurrentRuns /\ InsideSound /\ HeldOnce /\ IdleReady
      /\ QueuesHold(runq, Queued) /\ Lists(zombies, Exited)
      /\ current = t /\ pc[t] = "run" /\ zombies # <<>>
      /\ root' = IF Root[z] # KernelRoot /\ root = Root[z] THEN KernelRoot ELSE root
      /\ attached' = attached \ {z} /\ state' = [state EXCEPT ![z] = "FREE"]
      /\ zombies' = Front(zombies)
      /\ UNCHANGED <<slice, left, runq, current, pc, picked, frame, irq, torn>>
    BY DEF Whole, sched_collect_zombies, Acts
<1>2. state \in [Threads -> ThreadStates]
    BY <1>1 DEF TypeOK, ThreadStates
<1>3. z \in Exited /\ Lists(zombies', Exited \ {z}) /\ Len(zombies') = Len(zombies) - 1
    BY <1>1, FrontLists
<1> HIDE DEF z
<1>4. z \in Threads /\ state[z] = "ZOMBIE" /\ z # current
    BY <1>3 DEF Exited
<1>5. /\ state' \in [Threads -> ThreadStates] /\ state'[z] = "FREE"
      /\ \A v \in Threads : v # z => state'[v] = state[v]
    BY <1>1, <1>2, <1>4 DEF ThreadStates
<1>6. Queued' = Queued
    <2>1. \A v \in Threads : InHand(v)' <=> InHand(v)
        BY <1>1 DEF InHand
    <2> QED BY <1>4, <1>5, <2>1 DEF Queued
<1>7. QueuesHold(runq', Queued')
    BY <1>1, <1>6
<1>8. Exited' = Exited \ {z}
    BY <1>1, <1>5 DEF Exited
<1>9. Lists(zombies, Exited)'
    BY <1>3, <1>8
<1>10. TypeOK'
    <2>1. zombies' \in Seq(Threads) /\ Len(zombies') <= MaxZombies
        <3>1. zombies \in Seq(Threads) /\ Len(zombies) <= MaxZombies /\ MaxZombies \in Nat
            BY <1>1, SchedAssumption DEF TypeOK
        <3> QED BY <1>3, <3>1 DEF Lists
    <2>2. root' \in {Root[u] : u \in Threads} \cup {KernelRoot}
        BY <1>1 DEF TypeOK
    <2> QED BY <1>1, <1>5, <2>1, <2>2 DEF TypeOK, ThreadStates
<1>11. OnlyCurrentRuns'
    BY <1>1, <1>4, <1>5 DEF OnlyCurrentRuns
<1>12. InsideSound' /\ HeldOnce'
    BY <1>1, <1>4, <1>5 DEF InsideSound, HeldOnce, Inside, TypeOK
<1>13. IdleReady'
    BY <1>1, <1>4, <1>5, SchedAssumption DEF IdleReady
<1> QED BY <1>7, <1>9, <1>10, <1>11, <1>12, <1>13 DEF Whole

\* The scheduler starts with the boot thread running and idle queued.
LEMMA InitSched ==
    ASSUME Init PROVE Whole
<1>1. /\ Threads \subseteq Nat /\ Boot \in Threads /\ Idle \in Threads /\ Boot # Idle
      /\ Levels \in Nat \ {0} /\ Prio \in [Threads -> 0 .. Levels - 1] /\ Slice \in Nat
      /\ MaxSleep \in Nat /\ MaxZombies \in Nat
    BY SchedAssumption
<1>2. /\ state \in [Threads -> ThreadStates] /\ state[Boot] = "RUNNING" /\ state[Idle] = "RUNNABLE"
      /\ \A t \in Threads \ {Boot, Idle} : state[t] = "FREE"
    BY <1>1 DEF Init, ThreadStates
<1>3. /\ current = Boot /\ zombies = <<>> /\ pc = [t \in Threads |-> "run"]
      /\ runq = [p \in 0 .. Levels - 1 |-> IF p = Prio[Idle] THEN <<Idle>> ELSE <<>>]
    BY DEF Init
<1>4. Queued = {Idle}
    BY <1>1, <1>2, <1>3 DEF Queued, InHand
<1>5. QueuesHold(runq, Queued)
    <2>1. \A p \in PrioLevels : LevelHolds(runq[p], p, {Idle})
        BY <1>1, <1>3 DEF LevelHolds, PrioLevels
    <2> QED BY <1>1, <1>3, <1>4, <2>1 DEF QueuesHold, PrioLevels
<1>6. Lists(zombies, Exited)
    <2>1. Exited = {}
        BY <1>1, <1>2, <1>3 DEF Exited
    <2> QED BY <1>3, <2>1 DEF Lists
<1>7. TypeOK
    <2>1. runq \in [0 .. Levels - 1 -> Seq(Threads)]
        BY <1>5 DEF QueuesHold, LevelHolds, PrioLevels
    <2>2. zombies \in Seq(Threads) /\ Len(zombies) <= MaxZombies
        BY <1>1, <1>3
    <2>3. /\ slice \in [Threads -> 0 .. Slice] /\ left \in [Threads -> 0 .. MaxSleep]
          /\ pc \in [Threads -> {"run", "switch", "hand"}] /\ picked \in [Threads -> Threads]
          /\ frame \in [Threads -> {"new", "call", "tick"}]
          /\ attached \subseteq Threads
          /\ root \in {Root[t] : t \in Threads} \cup {KernelRoot}
        BY <1>1 DEF Init
    <2>4. irq \in BOOLEAN /\ torn \in BOOLEAN
        BY DEF Init
    <2> QED BY <1>1, <1>2, <1>3, <2>1, <2>2, <2>3, <2>4 DEF TypeOK, ThreadStates
<1>8. OnlyCurrentRuns /\ InsideSound /\ HeldOnce /\ IdleReady
    BY <1>1, <1>2, <1>3 DEF OnlyCurrentRuns, InsideSound, Inside, HeldOnce, IdleReady
<1> QED BY <1>5, <1>6, <1>7, <1>8 DEF Whole

\* Every step of the scheduler keeps the invariant or tears a switch.
LEMMA NextSched ==
    ASSUME SchedInv, [Next]_vars
    PROVE  SchedInv'
<1> SUFFICES ASSUME ~torn' PROVE Whole'
    BY DEF SchedInv
<1>1. ~torn
    BY DEF Next, vars, sched_tick, sched_yield, sched_block, sched_sleep, thread_exit, Choose,
           finish_switch, finish_wait, sched_unblock, thread_create, sched_admit,
           sched_collect_zombies
<1>2. Whole
    BY <1>1 DEF SchedInv
<1>3. CASE sched_tick
    <2>1. ~Tears
        BY <1>3 DEF sched_tick
    <2> QED BY <1>2, <1>3, <2>1, TickKeeps
<1>4. CASE \E t \in Threads : \/ sched_yield(t) \/ sched_block(t) \/ thread_exit(t)
                              \/ \E n \in 1 .. MaxSleep : sched_sleep(t, n)
    BY <1>2, <1>4, ChoosersKeep
<1>5. CASE \E t \in Threads : finish_switch(t)
    BY <1>2, <1>5, FinishSwitchKeeps
<1>6. CASE \E t \in Threads : finish_wait(t)
    BY <1>2, <1>6, FinishWaitKeeps
<1>7. CASE \E t, u \in Threads : sched_unblock(t, u) \/ sched_admit(t, u)
    BY <1>2, <1>7, ReadyKeeps
<1>8. CASE \E t, u \in Threads : thread_create(t, u)
    BY <1>2, <1>8, CreateKeeps
<1>9. CASE \E t \in Threads : sched_collect_zombies(t)
    BY <1>2, <1>9, CollectKeeps
<1>10. CASE UNCHANGED vars
    BY <1>2, <1>10 DEF vars, Whole, TypeOK, OnlyCurrentRuns, InsideSound, Inside, HeldOnce,
                       IdleReady, Queued, InHand, Exited
<1> QED BY <1>3, <1>4, <1>5, <1>6, <1>7, <1>8, <1>9, <1>10 DEF Next

\* Queues that hold the runnable threads have each in one place.
LEMMA HeldIsQueued ==
    ASSUME TypeOK, QueuesHold(runq, Queued) PROVE RunnableIsQueued
<1> SUFFICES ASSUME NEW t \in Threads
             PROVE  IF t \in Queued
                    THEN Cardinality(Places(t)) = 1 /\ \A x \in Places(t) : x[1] = Prio[t]
                    ELSE Places(t) = {}
    BY DEF RunnableIsQueued, Queued
<1>1. \A p \in PrioLevels : /\ runq[p] \in Seq(Threads) /\ DOMAIN runq[p] = 1 .. Len(runq[p])
                            /\ LevelHolds(runq[p], p, Queued)
    BY DEF QueuesHold, LevelHolds
<1>2. \A p \in PrioLevels : \A k \in DOMAIN runq[p] :
          runq[p][k] = t => t \in Queued /\ Prio[t] = p
    BY <1>1 DEF LevelHolds
<1>3. \A x : x \in Places(t) <=>
          \E p \in PrioLevels : \E k \in DOMAIN runq[p] : runq[p][k] = t /\ x = <<p, k>>
    BY DEF Places, PrioLevels
<1>4. CASE t \notin Queued
    BY <1>2, <1>3, <1>4
<1>5. CASE t \in Queued
    <2>1. Prio[t] \in PrioLevels
        BY SchedAssumption DEF PrioLevels
    <2>2. PICK k \in 1 .. Len(runq[Prio[t]]) : runq[Prio[t]][k] = t
        BY <1>1, <1>5, <2>1 DEF LevelHolds
    <2>3. \A l \in DOMAIN runq[Prio[t]] : runq[Prio[t]][l] = t => l = k
        BY <1>1, <2>1, <2>2 DEF LevelHolds
    <2>4. k \in DOMAIN runq[Prio[t]]
        BY <1>1, <2>1
    <2>5. \A x : x \in Places(t) <=> x = <<Prio[t], k>>
        BY ONLY <1>2, <1>3, <2>1, <2>2, <2>3, <2>4, Zenon
    <2>6. Places(t) = {<<Prio[t], k>>}
        BY <2>5
    <2>7. Cardinality(Places(t)) = 1
        BY <2>6, FS_Singleton
    <2> QED BY <1>5, <2>6, <2>7
<1> QED BY <1>4, <1>5

----------------------------------------------------------------------------
(* The theorems.                                                           *)

\* As long as no tick has torn a switch apart, the invariant holds.
THEOREM SchedInductive == Spec => []SchedInv
<1>1. Init => SchedInv
    BY InitSched DEF SchedInv
<1>2. SchedInv /\ [Next]_vars => SchedInv'
    BY NextSched
<1> QED BY <1>1, <1>2, PTL DEF Spec

\* With ticks at any point of a switch, every thread is where its state says:
\* the runnable ones in one place of the queue of their priority or in the hands
\* of one other thread, the running one on the processor, the exited ones on the
\* list of zombies once.  It ends with a tick that ends the slice of a thread
\* that has given up its place and not switched yet, and with nothing else.
THEOREM SchedThreadsSound == Spec => []ThreadsSound
<1>1. SchedInv => ThreadsSound
    <2> SUFFICES ASSUME Whole
                 PROVE  TypeOK /\ RunnableIsQueued /\ HeldOnce /\ OnlyCurrentRuns /\ ZombiesListed
        BY DEF SchedInv, ThreadsSound
    <2>1. /\ TypeOK /\ HeldOnce /\ OnlyCurrentRuns
          /\ QueuesHold(runq, Queued) /\ Lists(zombies, Exited)
        BY DEF Whole
    <2>2. RunnableIsQueued
        BY <2>1, HeldIsQueued
    <2>3. ZombiesListed
        BY <2>1, ListsCounts DEF ZombiesListed, Exited
    <2> QED BY <2>1, <2>2, <2>3
<1>2. Spec => []SchedInv
    BY SchedInductive
<1> QED BY <1>1, <1>2, PTL
=============================================================================
