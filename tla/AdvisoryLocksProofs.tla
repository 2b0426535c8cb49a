------------------------- MODULE AdvisoryLocksProofs -------------------------
(***************************************************************************)
(* Theorems about AdvisoryLocks for every set of transactions, every set   *)
(* of ids and every set of plans: the lock order is kept across calls, and *)
(* no transactions wait only for each other.                               *)
(***************************************************************************)
EXTENDS AdvisoryLocks, WellFoundedInduction, TLAPS

\* Any non-empty set of naturals has a least element.
LEMMA LeastNatural ==
    ASSUME NEW S \in SUBSET Nat, S # {}
    PROVE  \E m \in S : \A n \in S : m <= n
<1> DEFINE R == OpToRel(<, Nat)
<1>1. IsWellFoundedOn(R, Nat)
    BY NatLessThanWellFounded
<1>2. PICK m \in S : \A n \in S : ~ (<<n, m>> \in R)
    BY <1>1, WFMin
<1>3. \A n \in S : ~ (n < m)
    BY <1>2 DEF OpToRel
<1> QED
    BY <1>3

\* Any non-empty set of naturals below a bound has a greatest element.
LEMMA GreatestNatural ==
    ASSUME NEW B \in Nat, NEW S \in SUBSET (0..B), S # {}
    PROVE  \E m \in S : \A n \in S : n <= m
<1> DEFINE D == {d \in Nat : \E n \in S : n = B - d}
<1>1. D # {}
    <2>1. PICK n \in S : TRUE
        OBVIOUS
    <2>2. B - n \in Nat /\ n = B - (B - n)
        OBVIOUS
    <2> QED
        BY <2>2
<1>2. PICK d \in D : \A e \in D : d <= e
    <2>1. D \in SUBSET Nat
        OBVIOUS
    <2> HIDE DEF D
    <2> QED
        BY <1>1, <2>1, LeastNatural
<1>3. PICK m \in S : m = B - d
    OBVIOUS
<1>4. ASSUME NEW n \in S PROVE n <= m
    <2>1. B - n \in Nat /\ n = B - (B - n)
        OBVIOUS
    <2>2. d <= B - n
        BY <1>2, <2>1
    <2> QED
        BY <1>3, <2>2
<1> QED
    BY <1>4

LEMMA RankRange ==
    ASSUME NEW k \in Key
    PROVE  Rank(k) \in 0..4 /\ k.id \in 0..MaxId
BY DEF Key, Rank, LockDomain, LockDomainRank, Id

\* Any non-empty set of keys has one that no other comes after.
LEMMA LastKey ==
    ASSUME NEW M \in SUBSET Key, M # {}
    PROVE  \E k \in M : \A j \in M : ~ Before(k, j)
<1> USE MaxIdAssumption
<1> DEFINE Ranks == {Rank(k) : k \in M}
<1>1. Ranks \in SUBSET (0..4) /\ Ranks # {}
    BY RankRange
<1>2. PICK r \in Ranks : \A q \in Ranks : q <= r
    <2> HIDE DEF Ranks
    <2> QED BY <1>1, GreatestNatural
<1> DEFINE Ids == {k.id : k \in {j \in M : Rank(j) = r}}
<1>3. Ids \in SUBSET (0..MaxId) /\ Ids # {}
    BY RankRange, <1>2
<1>4. PICK i \in Ids : \A n \in Ids : n <= i
    <2> HIDE DEF Ids
    <2> QED BY <1>3, GreatestNatural
<1>5. PICK k \in M : Rank(k) = r /\ k.id = i
    BY <1>4
<1>6. ASSUME NEW j \in M PROVE ~ Before(k, j)
    <2>1. Rank(j) \in 0..4 /\ j.id \in 0..MaxId
        BY RankRange
    <2>2. Rank(j) <= r
        BY <1>2
    <2>3. Rank(j) = r => j.id <= i
        BY <1>4
    <2> QED
        BY <1>1, <1>3, <1>5, <2>1, <2>2, <2>3 DEF Before
<1> QED
    BY <1>6

-----------------------------------------------------------------------------
\* A transaction outside acquireLocks waits for nothing, and one that has not
\* begun holds nothing.
PhaseInv ==
    \A t \in Txn :
        /\ phase[t] # "locking" => want[t] = {}
        /\ phase[t] = "idle" => held[t] = {}

\* The inductive invariant: types, and every held key before every
\* key still wanted.
LockInv == TypeOK /\ PhaseInv /\ HeldBeforeWanted

LEMMA InitLockInv == Init => LockInv
BY DEF Init, LockInv, TypeOK, PhaseInv, HeldBeforeWanted

LEMMA NextLockInv == LockInv /\ [Next]_vars => LockInv'
<1> SUFFICES ASSUME LockInv, [Next]_vars PROVE LockInv'
    OBVIOUS
<1> USE DEF LockInv
<1>1. ASSUME NEW t \in Txn, NEW ks \in Plans, Begin(t, ks)
      PROVE  LockInv'
    <2>1. ks \in SUBSET Key
        BY PlansAssumption
    <2>2. held[t] = {}
        BY <1>1 DEF Begin, PhaseInv
    <2>3. TypeOK' /\ PhaseInv'
        BY <1>1, <2>1, <2>2 DEF Begin, TypeOK, PhaseInv
    <2>4. HeldBeforeWanted'
        BY <1>1, <2>1, <2>2 DEF Begin, TypeOK, HeldBeforeWanted
    <2> QED
        BY <2>3, <2>4
<1>2. ASSUME NEW t \in Txn, NEW ks \in Plans, AcquireMore(t, ks)
      PROVE  LockInv'
    <2>1. ks \in SUBSET Key
        BY PlansAssumption
    <2>2. \A h \in held[t], k \in ks : Before(h, k)
        BY <1>2 DEF AcquireMore, Before
    <2>3. TypeOK' /\ PhaseInv'
        BY <1>2, <2>1 DEF AcquireMore, TypeOK, PhaseInv
    <2>4. HeldBeforeWanted'
        BY <1>2, <2>1, <2>2 DEF AcquireMore, TypeOK, HeldBeforeWanted
    <2> QED
        BY <2>3, <2>4
<1>3. ASSUME NEW t \in Txn, Take(t)
      PROVE  LockInv'
    <2>1. PICK k \in Key :
            /\ IsNext(t, k)
            /\ \A u \in Txn \ {t} : k \notin held[u]
            /\ held' = [held EXCEPT ![t] = @ \cup {k}]
            /\ want' = [want EXCEPT ![t] = @ \ {k}]
        BY <1>3 DEF Take
    <2>2. phase[t] = "locking" /\ phase' = phase
        BY <1>3 DEF Take
    <2>3. TypeOK' /\ PhaseInv'
        BY <2>1, <2>2 DEF TypeOK, PhaseInv
    <2>4. HeldBeforeWanted'
        BY <2>1 DEF TypeOK, HeldBeforeWanted, IsNext
    <2> QED
        BY <2>3, <2>4
<1>4. ASSUME NEW t \in Txn, Acquired(t)
      PROVE  LockInv'
    BY <1>4 DEF Acquired, TypeOK, PhaseInv, HeldBeforeWanted
<1>5. ASSUME NEW t \in Txn, Release(t)
      PROVE  LockInv'
    BY <1>5 DEF Release, TypeOK, PhaseInv, HeldBeforeWanted
<1>6. CASE UNCHANGED vars
    BY <1>6 DEF vars, TypeOK, PhaseInv, HeldBeforeWanted, IsNext
<1> QED
    BY <1>1, <1>2, <1>3, <1>4, <1>5, <1>6 DEF Next, End, Cancel

\* A set of transactions that wait only for each other would have, among the
\* keys they wait for, none that comes last.
LEMMA OrderExcludesDeadlock == LockInv => NoDeadlock
<1> SUFFICES ASSUME LockInv,
                    NEW S \in (SUBSET Txn) \ {{}},
                    \A t \in S : \E u \in S : WaitsFor(t, u)
             PROVE  FALSE
    BY DEF NoDeadlock
<1> DEFINE M == {k \in Key : \E t \in S : IsNext(t, k)}
<1>1. M # {}
    <2>0. PICK s : s \in S
        OBVIOUS
    <2>1. PICK t \in S : \E u \in S : WaitsFor(t, u)
        BY <2>0
    <2>2. PICK k \in Key : IsNext(t, k)
        BY <2>1 DEF WaitsFor
    <2> QED
        BY <2>2
<1>2. \A k \in M : \E j \in M : Before(k, j)
    <2> SUFFICES ASSUME NEW t \in S, NEW k \in Key, IsNext(t, k)
                 PROVE  \E j \in M : Before(k, j)
        OBVIOUS
    <2>1. PICK u \in S : \E i \in Key : IsNext(t, i) /\ i \in held[u]
        BY DEF WaitsFor
    <2>2. k \in held[u]
        <3>1. PICK i \in Key : IsNext(t, i) /\ i \in held[u]
            BY <2>1
        <3>2. i = k
            <4> SUFFICES ASSUME i # k PROVE FALSE
                OBVIOUS
            <4>1. Before(i, k) /\ Before(k, i)
                BY <3>1 DEF IsNext
            <4>2. /\ Rank(i) \in Int /\ i.id \in Int
                  /\ Rank(k) \in Int /\ k.id \in Int
                BY RankRange, MaxIdAssumption
            <4> QED
                BY <4>1, <4>2 DEF Before
        <3> QED
            BY <3>1, <3>2
    <2>3. PICK j \in Key : IsNext(u, j)
        BY DEF WaitsFor
    <2>4. Before(k, j)
        BY <2>2, <2>3 DEF LockInv, HeldBeforeWanted, IsNext
    <2> QED
        BY <2>3, <2>4
<1>3. \E k \in M : \A j \in M : ~ Before(k, j)
    <2>1. M \in SUBSET Key
        OBVIOUS
    <2> HIDE DEF M
    <2> QED
        BY <1>1, <2>1, LastKey
<1> QED
    BY <1>2, <1>3

-----------------------------------------------------------------------------
\* Callers of acquireLocks never deadlock: for any transactions, ids and key
\* sets, the order of orderLocks leaves some waiter free in every set of them
\* (locks.ts: LOCK_DOMAIN_RANK, orderLocks).
THEOREM DeadlockFreedom == Spec => []NoDeadlock
BY InitLockInv, NextLockInv, OrderExcludesDeadlock, PTL DEF Spec
=============================================================================
