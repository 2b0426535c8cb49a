-------------------------- MODULE CirculationProofs --------------------------
(***************************************************************************)
(* Proofs about Circulation for any number of copies, holds, readers,      *)
(* branches, groups and desks.  A transaction is composed of a few helpers *)
(* on the database; each is shown to keep the tables sound and to let      *)
(* nobody pass anybody in a queue, then the loops over them, then the      *)
(* transactions.                                                           *)
(***************************************************************************)
EXTENDS Circulation, FiniteSetTheorems, WellFoundedInduction, TLAPS

-----------------------------------------------------------------------------
(* Finite sets and folds.                                                  *)

\* The element the folds take first.
Pick(s) == CHOOSE x \in s : TRUE

LEMMA SubsetInduction ==
    ASSUME NEW S, IsFiniteSet(S), NEW T, {} \in T,
           \A s \in SUBSET S : s # {} /\ s \ {Pick(s)} \in T => s \in T
    PROVE  \A s \in SUBSET S : s \in T
<1> DEFINE Bad == {n \in Nat : \E s \in SUBSET S : s \notin T /\ Cardinality(s) = n}
           R == OpToRel(<, Nat)
<1>1. ASSUME NEW s \in SUBSET S PROVE IsFiniteSet(s) /\ Cardinality(s) \in Nat
    BY FS_Subset, FS_CardinalityType
<1>2. SUFFICES ASSUME Bad # {} PROVE FALSE
    BY <1>1
<1>3. PICK n \in Bad : \A m \in Bad : ~ (<<m, n>> \in R)
    <2>1. IsWellFoundedOn(R, Nat)
        BY NatLessThanWellFounded
    <2>2. Bad \subseteq Nat
        OBVIOUS
    <2> HIDE DEF Bad, R
    <2> QED
        BY <1>2, <2>1, <2>2, WFMin
<1>4. PICK s \in SUBSET S : s \notin T /\ Cardinality(s) = n
    OBVIOUS
<1>5. s # {} /\ Pick(s) \in s
    BY <1>4 DEF Pick
<1>6. Cardinality(s \ {Pick(s)}) = n - 1 /\ n - 1 \in Nat
    <2>1. IsFiniteSet(s \ {Pick(s)}) /\ Cardinality(s \ {Pick(s)}) = Cardinality(s) - 1
        BY <1>1, <1>5, FS_RemoveElement
    <2> QED
        BY <1>1, <1>4, <2>1, FS_CardinalityType
<1>7. s \ {Pick(s)} \in SUBSET S /\ s \ {Pick(s)} \notin T
    BY <1>4, <1>5
<1>8. n - 1 \in Bad
    BY <1>6, <1>7
<1>9. <<n - 1, n>> \in R
    BY <1>6 DEF OpToRel
<1> QED
    BY <1>3, <1>8, <1>9

\* F folds the elements of S into base, within D[s] once those of s are folded.
FoldsWithin(S, U, F, base, D) ==
    /\ IsFiniteSet(S)
    /\ F \in [S -> [U -> U]]
    /\ D \in [SUBSET S -> SUBSET U]
    /\ base \in D[{}]
    /\ \A s \in SUBSET S : s # {} =>
            \A e \in D[s \ {Pick(s)}] : F[Pick(s)][e] \in D[s]

IsFold(S, U, F, base, D, J) ==
    /\ J \in [SUBSET S -> U]
    /\ J[{}] = base
    /\ \A s \in SUBSET S : J[s] \in D[s]
    /\ \A s \in SUBSET S : s # {} => J[s] = F[Pick(s)][J[s \ {Pick(s)}]]

\* The recursion that computes the fold has a solution.
LEMMA FoldExists ==
    ASSUME NEW S, NEW U, NEW F, NEW base, NEW D, FoldsWithin(S, U, F, base, D)
    PROVE  \E J : IsFold(S, U, F, base, D, J)
<1> USE DEF FoldsWithin
<1> DEFINE Upto(n) == {s \in SUBSET S : Cardinality(s) <= n}
           IsPart(n, J) ==
              /\ J[{}] = base
              /\ \A s \in Upto(n) : J[s] \in D[s]
              /\ \A s \in Upto(n) : s # {} => J[s] = F[Pick(s)][J[s \ {Pick(s)}]]
           Bad == {n \in Nat : ~ \E J \in [SUBSET S -> U] : IsPart(n, J)}
           R == OpToRel(<, Nat)
<1>1. ASSUME NEW s \in SUBSET S
      PROVE  /\ IsFiniteSet(s) /\ Cardinality(s) \in Nat
             /\ s # {} => /\ Pick(s) \in s /\ Pick(s) \in S
                          /\ s \ {Pick(s)} \in SUBSET S
                          /\ Cardinality(s \ {Pick(s)}) = Cardinality(s) - 1
             /\ s = {} <=> Cardinality(s) = 0
    <2>1. IsFiniteSet(s) /\ Cardinality(s) \in Nat
        BY FS_Subset, FS_CardinalityType
    <2>2. s # {} => Pick(s) \in s
        BY DEF Pick
    <2>3. s # {} => Cardinality(s \ {Pick(s)}) = Cardinality(s) - 1
        BY <2>1, <2>2, FS_RemoveElement
    <2>4. s = {} <=> Cardinality(s) = 0
        BY <2>1, FS_EmptySet
    <2> QED
        BY <2>1, <2>2, <2>3, <2>4
<1>2. {} \in SUBSET S /\ base \in U
    OBVIOUS
<1>3. ASSUME NEW n \in Nat, Bad = {} PROVE \E J \in [SUBSET S -> U] : IsPart(n, J)
    BY <1>3
<1>4. 0 \notin Bad
    <2> DEFINE J0 == [s \in SUBSET S |-> base]
    <2>1. J0 \in [SUBSET S -> U] /\ J0[{}] = base
        BY <1>2
    <2>2. ASSUME NEW s \in Upto(0) PROVE s = {}
        <3>1. s \in SUBSET S /\ Cardinality(s) <= 0
            OBVIOUS
        <3>2. Cardinality(s) \in Nat /\ (s = {} <=> Cardinality(s) = 0)
            BY <1>1, <3>1
        <3> QED
            BY <3>1, <3>2
    <2> HIDE DEF J0
    <2>3. IsPart(0, J0)
        BY <2>1, <2>2
    <2> HIDE DEF IsPart
    <2> QED
        BY <2>1, <2>3
<1>5. ASSUME NEW n \in Nat, n \notin Bad PROVE n + 1 \notin Bad
    <2>1. PICK J \in [SUBSET S -> U] : IsPart(n, J)
        <3> HIDE DEF IsPart
        <3> QED
            BY <1>5
    <2> DEFINE K == [s \in SUBSET S |->
                        IF s \in Upto(n) THEN J[s]
                        ELSE IF s \in Upto(n + 1) THEN F[Pick(s)][J[s \ {Pick(s)}]]
                        ELSE base]
    <2>2. ASSUME NEW s \in SUBSET S, s \in Upto(n + 1), s # {}
          PROVE  s \ {Pick(s)} \in Upto(n) /\ Pick(s) \in S
        <3>1. Cardinality(s) <= n + 1 /\ Cardinality(s) \in Nat
            BY <1>1, <2>2
        <3>2. /\ Pick(s) \in S /\ s \ {Pick(s)} \in SUBSET S
              /\ Cardinality(s \ {Pick(s)}) = Cardinality(s) - 1
            BY <1>1, <2>2
        <3> QED
            BY <3>1, <3>2
    <2>3. ASSUME NEW s \in Upto(n) PROVE K[s] = J[s]
        OBVIOUS
    <2>4. ASSUME NEW s \in Upto(n + 1), s # {}
          PROVE  /\ K[s] = F[Pick(s)][K[s \ {Pick(s)}]]
                 /\ K[s] \in D[s]
        <3>1. s \ {Pick(s)} \in Upto(n) /\ Pick(s) \in S
            BY <2>2, <2>4
        <3>2. K[s \ {Pick(s)}] = J[s \ {Pick(s)}]
            BY <2>3, <3>1
        <3>3. K[s] = F[Pick(s)][J[s \ {Pick(s)}]]
            <4>1. CASE s \in Upto(n)
                BY <2>1, <2>4, <4>1
            <4>2. CASE s \notin Upto(n)
                BY <2>4, <4>2
            <4> QED
                BY <4>1, <4>2
        <3>4. J[s \ {Pick(s)}] \in D[s \ {Pick(s)}]
            BY <2>1, <3>1
        <3> QED
            BY <2>4, <3>2, <3>3, <3>4
    <2>5. {} \in Upto(n) /\ {} \in Upto(n + 1)
        <3>1. Cardinality({}) = 0
            BY FS_EmptySet
        <3> QED
            BY <1>2, <3>1
    <2>6. K[{}] = base
        BY <2>1, <2>3, <2>5
    <2>7. K \in [SUBSET S -> U]
        <3>1. ASSUME NEW s \in SUBSET S PROVE K[s] \in U
            <4>1. CASE s \in Upto(n)
                BY <2>3, <4>1
            <4>2. CASE s \notin Upto(n) /\ s \in Upto(n + 1)
                BY <2>4, <2>5, <4>2
            <4>3. CASE s \notin Upto(n) /\ s \notin Upto(n + 1)
                BY <1>2, <4>3
            <4> QED
                BY <4>1, <4>2, <4>3
        <3> QED
            BY <3>1
    <2>8. ASSUME NEW s \in Upto(n + 1) PROVE K[s] \in D[s]
        BY <2>4, <2>6
    <2> HIDE DEF K
    <2>9. IsPart(n + 1, K)
        BY <2>4, <2>6, <2>8
    <2> HIDE DEF IsPart
    <2> QED
        BY <2>7, <2>9
<1>6. Bad = {}
    <2>1. SUFFICES ASSUME Bad # {} PROVE FALSE
        OBVIOUS
    <2>2. Bad \subseteq Nat
        OBVIOUS
    <2> HIDE DEF Bad
    <2>3. IsWellFoundedOn(R, Nat)
        BY NatLessThanWellFounded
    <2>4. PICK n \in Bad : \A m \in Bad : ~ (<<m, n>> \in R)
        <3> HIDE DEF R
        <3> QED
            BY <2>1, <2>2, <2>3, WFMin
    <2>5. n \in Nat /\ n # 0
        BY <1>4, <2>2, <2>4
    <2>6. n - 1 \in Nat /\ (n - 1) + 1 = n
        BY <2>5
    <2>7. n - 1 \notin Bad
        <3>1. <<n - 1, n>> \in R
            BY <2>5, <2>6 DEF OpToRel
        <3> QED
            BY <2>4, <3>1
    <2> QED
        BY <1>5, <2>4, <2>6, <2>7
<1>7. Cardinality(S) \in Nat
    BY FS_CardinalityType
<1>8. PICK J \in [SUBSET S -> U] : IsPart(Cardinality(S), J)
    <2> HIDE DEF IsPart
    <2> QED
        BY <1>3, <1>6, <1>7
<1>9. \A s \in SUBSET S : s \in Upto(Cardinality(S))
    BY FS_Subset
<1> QED
    BY <1>8, <1>9 DEF IsFold

\* What every End of a loop keeps, the loop keeps.
LEMMA EndAllWithin ==
    ASSUME NEW S, IsFiniteSet(S), NEW d, NEW how, NEW U,
           NEW D \in [SUBSET S -> SUBSET U], d \in D[{}],
           \A h \in S : \A e \in U : End(e, h, how) \in U,
           \A s \in SUBSET S : s # {} =>
                \A e \in D[s \ {Pick(s)}] : End(e, Pick(s), how) \in D[s]
    PROVE  EndAll(d, S, how) \in D[S]
<1> DEFINE F == [h \in S |-> [e \in U |-> End(e, h, how)]]
           Rec(f) == f = [s \in SUBSET S |->
                            IF s = {} THEN d
                            ELSE End(f[s \ {Pick(s)}], Pick(s), how)]
           fold == CHOOSE f : Rec(f)
<1>1. ASSUME NEW s \in SUBSET S, s # {}
      PROVE  Pick(s) \in S /\ s \ {Pick(s)} \in SUBSET S
    BY <1>1 DEF Pick
<1>2. ASSUME NEW h \in S, NEW e \in U PROVE F[h][e] = End(e, h, how)
    OBVIOUS
<1>3. F \in [S -> [U -> U]]
    OBVIOUS
<1>4. \A s \in SUBSET S : s # {} =>
                \A e \in D[s \ {Pick(s)}] : F[Pick(s)][e] \in D[s]
    BY <1>1, <1>2
<1> HIDE DEF F
<1>5. FoldsWithin(S, U, F, d, D)
    BY <1>3, <1>4 DEF FoldsWithin
<1>6. PICK J : IsFold(S, U, F, d, D, J)
    BY <1>5, FoldExists
<1>7. Rec(J)
    <2>1. ASSUME NEW s \in SUBSET S
          PROVE  J[s] = IF s = {} THEN d ELSE End(J[s \ {Pick(s)}], Pick(s), how)
        BY <1>1, <1>2, <1>6 DEF IsFold
    <2> QED
        BY <1>6, <2>1 DEF IsFold
<1>8. Rec(fold)
    <2> HIDE DEF Rec
    <2> QED
        BY <1>7
<1>9. EndAll(d, S, how) = fold[S]
    BY DEF EndAll, FoldSet, MapThenFoldSet, Pick
<1> HIDE DEF fold
<1> DEFINE T == {s \in SUBSET S : fold[s] \in D[s]}
<1>10. {} \in T
    BY <1>8
<1>11. ASSUME NEW s \in SUBSET S, s # {}, s \ {Pick(s)} \in T PROVE s \in T
    <2>1. fold[s] = End(fold[s \ {Pick(s)}], Pick(s), how)
        BY <1>8, <1>11
    <2>2. fold[s \ {Pick(s)}] \in D[s \ {Pick(s)}]
        BY <1>11
    <2> HIDE DEF Rec
    <2> QED
        BY <1>11, <2>1, <2>2
<1>12. \A s \in SUBSET S : s \in T
    <2> HIDE DEF T
    <2> QED
        BY <1>10, <1>11, SubsetInduction
<1> QED
    BY <1>9, <1>12

\* The same of a loop of releases.
LEMMA ReleaseAllWithin ==
    ASSUME NEW S, IsFiniteSet(S), NEW d, NEW U,
           NEW D \in [SUBSET S -> SUBSET U], d \in D[{}],
           \A i \in S : \A e \in U : releaseSetAsideCopy(e, i) \in U,
           \A s \in SUBSET S : s # {} =>
                \A e \in D[s \ {Pick(s)}] : releaseSetAsideCopy(e, Pick(s)) \in D[s]
    PROVE  releaseAll(d, S) \in D[S]
<1> DEFINE F == [i \in S |-> [e \in U |-> releaseSetAsideCopy(e, i)]]
           Rec(f) == f = [s \in SUBSET S |->
                            IF s = {} THEN d
                            ELSE releaseSetAsideCopy(f[s \ {Pick(s)}], Pick(s))]
           fold == CHOOSE f : Rec(f)
<1>1. ASSUME NEW s \in SUBSET S, s # {}
      PROVE  Pick(s) \in S /\ s \ {Pick(s)} \in SUBSET S
    BY <1>1 DEF Pick
<1>2. ASSUME NEW i \in S, NEW e \in U PROVE F[i][e] = releaseSetAsideCopy(e, i)
    OBVIOUS
<1>3. F \in [S -> [U -> U]]
    OBVIOUS
<1>4. \A s \in SUBSET S : s # {} =>
                \A e \in D[s \ {Pick(s)}] : F[Pick(s)][e] \in D[s]
    BY <1>1, <1>2
<1> HIDE DEF F
<1>5. FoldsWithin(S, U, F, d, D)
    BY <1>3, <1>4 DEF FoldsWithin
<1>6. PICK J : IsFold(S, U, F, d, D, J)
    BY <1>5, FoldExists
<1>7. Rec(J)
    <2>1. ASSUME NEW s \in SUBSET S
          PROVE  J[s] = IF s = {} THEN d ELSE releaseSetAsideCopy(J[s \ {Pick(s)}], Pick(s))
        BY <1>1, <1>2, <1>6 DEF IsFold
    <2> QED
        BY <1>6, <2>1 DEF IsFold
<1>8. Rec(fold)
    <2> HIDE DEF Rec
    <2> QED
        BY <1>7
<1>9. releaseAll(d, S) = fold[S]
    BY DEF releaseAll, FoldSet, MapThenFoldSet, Pick
<1> HIDE DEF fold
<1> DEFINE T == {s \in SUBSET S : fold[s] \in D[s]}
<1>10. {} \in T
    BY <1>8
<1>11. ASSUME NEW s \in SUBSET S, s # {}, s \ {Pick(s)} \in T PROVE s \in T
    <2>1. fold[s] = releaseSetAsideCopy(fold[s \ {Pick(s)}], Pick(s))
        BY <1>8, <1>11
    <2>2. fold[s \ {Pick(s)}] \in D[s \ {Pick(s)}]
        BY <1>11
    <2> HIDE DEF Rec
    <2> QED
        BY <1>11, <2>1, <2>2
<1>12. \A s \in SUBSET S : s \in T
    <2> HIDE DEF T
    <2> QED
        BY <1>10, <1>11, SubsetInduction
<1> QED
    BY <1>9, <1>12

-----------------------------------------------------------------------------
(* Queues.                                                                 *)

\* Any non-empty set of naturals below a bound has a greatest element.
LEMMA BoundedMax ==
    ASSUME NEW B \in Nat, NEW S \in SUBSET (0..B), S # {}
    PROVE  Max(S) \in S /\ \A n \in S : n <= Max(S)
<1> DEFINE D == {d \in Nat : \E n \in S : n = B - d}
           R == OpToRel(<, Nat)
<1>1. PICK n0 : n0 \in S
    OBVIOUS
<1>2. n0 \in 0..B
    BY <1>1
<1>3. B - n0 \in Nat /\ n0 = B - (B - n0)
    BY <1>2
<1>4. D \subseteq Nat /\ D # {}
    BY <1>1, <1>3
<1>5. PICK d \in D : \A e \in D : ~ (<<e, d>> \in R)
    <2>1. IsWellFoundedOn(R, Nat)
        BY NatLessThanWellFounded
    <2> HIDE DEF D, R
    <2> QED
        BY <1>4, <2>1, WFMin
<1>6. d \in Nat /\ \A e \in D : d <= e
    <2>1. \A e \in D : e \in Nat
        BY <1>4
    <2> HIDE DEF D
    <2>2. \A e \in D : ~ (e < d)
        BY <1>5, <2>1 DEF OpToRel
    <2> QED
        BY <2>1, <2>2
<1>7. PICK m \in S : m = B - d
    BY <1>5
<1>8. ASSUME NEW n \in S PROVE m >= n
    <2>1. n \in 0..B
        OBVIOUS
    <2>2. B - n \in Nat /\ n = B - (B - n)
        BY <2>1
    <2>3. d <= B - n
        BY <1>6, <2>2
    <2> QED
        BY <1>6, <1>7, <2>1, <2>3
<1>9. \A x \in S : x \in Int
    OBVIOUS
<1> HIDE DEF D, R
<1>10. /\ Max(S) \in S
       /\ \A y \in S : Max(S) >= y
    BY <1>8 DEF Max
<1> QED
    BY <1>9, <1>10

\* nextQueuePosition is a free position right behind the last one in use.
LEMMA NextQueuePositionIsFree ==
    ASSUME NEW p \in [Hold -> Nat], NEW n \in Nat,
           \A h \in Hold : p[h] <= n,
           NEW Q \in SUBSET Hold
    PROVE  /\ NextQueuePosition(p, Q) \in 1..(n + 1)
           /\ \A h \in Q : p[h] < NextQueuePosition(p, Q)
           /\ \/ NextQueuePosition(p, Q) = 1
              \/ \E g \in Q : p[g] = NextQueuePosition(p, Q) - 1
<1> DEFINE S == {0} \cup {p[h] : h \in Q}
<1>1. S \in SUBSET (0..n) /\ S # {}
    OBVIOUS
<1>2. Max(S) \in S /\ \A x \in S : x <= Max(S)
    <2> HIDE DEF S
    <2> QED
        BY <1>1, BoundedMax
<1>3. Max(S) \in 0..n
    BY <1>1, <1>2
<1>4. NextQueuePosition(p, Q) = Max(S) + 1
    BY DEF NextQueuePosition
<1>5. \A h \in Q : p[h] <= Max(S)
    BY <1>2
<1>6. Max(S) = 0 \/ \E g \in Q : p[g] = Max(S)
    BY <1>2
<1> HIDE DEF S
<1> QED
    BY <1>3, <1>4, <1>5, <1>6

\* Joining keeps a queue contiguous.
LEMMA EnqueueContiguous ==
    ASSUME NEW p \in [Hold -> Nat], NEW n \in Nat,
           \A h \in Hold : p[h] <= n,
           NEW Q \in SUBSET Hold, Contiguous(p, Q),
           NEW h \in Q, p[h] = 0
    PROVE  /\ Enqueue(p, Q, h) \in [Hold -> Nat]
           /\ \A g \in Hold : Enqueue(p, Q, h)[g] <= n + 1
           /\ Contiguous(Enqueue(p, Q, h), Q)
<1> DEFINE k == NextQueuePosition(p, Q)
           q == Enqueue(p, Q, h)
<1>1. /\ k \in 1..(n + 1)
      /\ \A g \in Q : p[g] < k
      /\ k = 1 \/ \E g \in Q : p[g] = k - 1
    BY NextQueuePositionIsFree
<1>2. q = [p EXCEPT ![h] = k]
    BY DEF Enqueue
<1> HIDE DEF k, q
<1>3. /\ q \in [Hold -> Nat]
      /\ \A g \in Hold : q[g] <= n + 1
    BY <1>1, <1>2
<1>4. q[h] = k /\ \A g \in Hold \ {h} : q[g] = p[g]
    BY <1>2
<1>5. Contiguous(q, Q)
    <2>1. \A g \in Q : q[g] >= 0
        BY <1>3
    <2>2. \A f, g \in Q : q[f] > 0 /\ q[f] = q[g] => f = g
        BY <1>1, <1>4 DEF Contiguous
    <2>3. ASSUME NEW g \in Q, q[g] > 1 PROVE \E f \in Q : q[f] = q[g] - 1
        <3>1. CASE g = h
            <4>1. PICK f \in Q : p[f] = k - 1
                BY <1>1, <1>4, <2>3, <3>1
            <4>2. f # h
                BY <1>1, <1>4, <2>3, <3>1, <4>1
            <4> QED
                BY <1>4, <3>1, <4>1, <4>2
        <3>2. CASE g # h
            <4>1. PICK f \in Q : p[f] = p[g] - 1
                BY <1>4, <2>3, <3>2 DEF Contiguous
            <4>2. f # h
                BY <1>4, <2>3, <3>2, <4>1
            <4> QED
                BY <1>4, <3>2, <4>1, <4>2
        <3> QED
            BY <3>1, <3>2
    <2> QED
        BY <2>1, <2>2, <2>3 DEF Contiguous
<1> QED
    BY <1>3, <1>5 DEF q

\* What leaving does to each row.
LEMMA DequeueRows ==
    ASSUME NEW p \in [Hold -> Nat], NEW Q \in SUBSET Hold,
           NEW h \in Q, p[h] > 0
    PROVE  /\ Dequeue(p, Q, h) \in [Hold -> Nat]
           /\ Dequeue(p, Q, h)[h] = 0
           /\ \A g \in Hold \ {h} :
                Dequeue(p, Q, h)[g] =
                    IF g \in Q /\ p[g] > p[h] THEN p[g] - 1 ELSE p[g]
<1> DEFINE z == [p EXCEPT ![h] = 0]
<1>1. z \in [Hold -> Nat] /\ z[h] = 0 /\ \A g \in Hold \ {h} : z[g] = p[g]
    OBVIOUS
<1>2. Dequeue(p, Q, h) =
        [g \in Hold |-> IF g \in Q /\ z[g] > p[h] THEN z[g] - 1 ELSE z[g]]
    BY DEF Dequeue, CloseQueueGap
<1> HIDE DEF z
<1> QED
    BY <1>1, <1>2

\* Leaving keeps a queue contiguous, wherever in it the hold was.
LEMMA DequeueContiguous ==
    ASSUME NEW p \in [Hold -> Nat],
           NEW Q \in SUBSET Hold, Contiguous(p, Q),
           NEW h \in Q, p[h] > 0
    PROVE  Contiguous(Dequeue(p, Q, h), Q)
<1> DEFINE q == Dequeue(p, Q, h)
<1>1. /\ q \in [Hold -> Nat]
      /\ q[h] = 0
      /\ \A g \in Hold \ {h} :
            q[g] = IF g \in Q /\ p[g] > p[h] THEN p[g] - 1 ELSE p[g]
    BY DequeueRows
<1> HIDE DEF q
<1>2. \A g \in Q : g # h => q[g] = IF p[g] > p[h] THEN p[g] - 1 ELSE p[g]
    BY <1>1
<1>3. \A g \in Q : g # h => p[g] # p[h]
    BY DEF Contiguous
<1>4. \A g \in Q : q[g] >= 0
    BY <1>1
<1>5. \A f, g \in Q : q[f] > 0 /\ q[f] = q[g] => f = g
    BY <1>1, <1>2, <1>3 DEF Contiguous
<1>6. ASSUME NEW g \in Q, q[g] > 1 PROVE \E f \in Q : q[f] = q[g] - 1
    <2>1. g # h
        BY <1>1, <1>6
    <2>2. p[g] > 1
        BY <1>2, <1>6, <2>1
    <2>3. PICK f \in Q : p[f] = p[g] - 1
        BY <2>2 DEF Contiguous
    <2>4. CASE f # h
        BY <1>2, <1>3, <1>6, <2>1, <2>3, <2>4
    <2>5. CASE f = h
        <3>1. q[g] = p[h]
            BY <1>2, <2>1, <2>3, <2>5
        <3>2. PICK e \in Q : p[e] = p[h] - 1
            BY <1>6, <3>1 DEF Contiguous
        <3>3. e # h /\ q[e] = p[e]
            BY <1>2, <3>2
        <3> QED
            BY <3>1, <3>2, <3>3
    <2> QED
        BY <2>4, <2>5
<1> QED
    BY <1>4, <1>5, <1>6 DEF Contiguous, q

\* A queue no row of which moves stays contiguous.
LEMMA OtherQueues ==
    ASSUME NEW p \in [Hold -> Nat], NEW q \in [Hold -> Nat],
           NEW Q \in SUBSET Hold, \A g \in Q : q[g] = p[g],
           Contiguous(p, Q)
    PROVE  Contiguous(q, Q)
BY DEF Contiguous

\* Every queue of column p is contiguous, and there is a last position.
QueuesSound(p) ==
    /\ \E n \in Nat : \A h \in Hold : p[h] <= n
    /\ \A h \in Hold : Contiguous(p, Queue(h))

\* Among the holds that wait in column q, nobody has passed anybody.
SameOrder(p, q) ==
    /\ \A h \in Hold : q[h] > 0 => p[h] > 0
    /\ \A g, h \in Hold : Bib(g) = Bib(h) /\ q[g] > 0 /\ q[h] > 0 =>
            (q[g] < q[h] <=> p[g] < p[h])

LEMMA QueueFacts ==
    /\ \A h \in Hold : Queue(h) \in SUBSET Hold /\ h \in Queue(h)
    /\ \A g, h \in Hold : Queue(g) = Queue(h) \/ Queue(g) \cap Queue(h) = {}
    /\ \A g, h \in Hold : g \in Queue(h) <=> Bib(g) = Bib(h)
BY DEF Queue

\* Only the hold that leaves stops waiting, and the rest keep their order.
LEMMA DequeueKeeps ==
    ASSUME NEW p \in [Hold -> Nat], QueuesSound(p), NEW h \in Hold, p[h] > 0,
           NEW q, q = Dequeue(p, Queue(h), h)
    PROVE  /\ q \in [Hold -> Nat] /\ QueuesSound(q) /\ SameOrder(p, q)
           /\ q[h] = 0 /\ \A g \in Hold \ {h} : q[g] > 0 <=> p[g] > 0
<1>1. /\ Queue(h) \in SUBSET Hold /\ h \in Queue(h)
      /\ \A g \in Hold : g \in Queue(h) <=> Bib(g) = Bib(h)
      /\ \A g \in Hold : Queue(g) \in SUBSET Hold
    BY QueueFacts
<1>2. /\ q \in [Hold -> Nat] /\ q[h] = 0
      /\ \A g \in Hold \ {h} :
            q[g] = IF g \in Queue(h) /\ p[g] > p[h] THEN p[g] - 1 ELSE p[g]
    BY <1>1, DequeueRows
<1>3. Contiguous(p, Queue(h)) /\ Contiguous(q, Queue(h))
    BY <1>1, DequeueContiguous DEF QueuesSound
<1>4. ASSUME NEW g \in Hold PROVE Contiguous(q, Queue(g))
    <2>1. CASE Queue(g) = Queue(h)
        BY <1>3, <2>1
    <2>2. CASE Queue(g) \cap Queue(h) = {}
        <3>1. \A f \in Queue(g) : q[f] = p[f]
            BY <1>1, <1>2, <2>2
        <3> QED
            BY <1>1, <1>2, <3>1, OtherQueues DEF QueuesSound
    <2> QED
        BY <2>1, <2>2, QueueFacts
<1>5. QueuesSound(q)
    <2>1. PICK n \in Nat : \A g \in Hold : p[g] <= n
        BY DEF QueuesSound
    <2>2. \A g \in Hold : q[g] <= n
        BY <1>2, <2>1
    <2> QED
        BY <1>4, <2>2 DEF QueuesSound
<1>6. \A g \in Hold \ {h} : q[g] > 0 <=> p[g] > 0
    BY <1>2
<1>7. ASSUME NEW f \in Hold, NEW g \in Hold, Bib(f) = Bib(g), q[f] > 0, q[g] > 0
      PROVE  q[f] < q[g] <=> p[f] < p[g]
    <2>1. f # h /\ g # h /\ (f \in Queue(h) <=> g \in Queue(h))
        BY <1>1, <1>2, <1>7
    <2>2. f \in Queue(h) => p[f] # p[h]
        BY <1>1, <1>3, <2>1 DEF Contiguous
    <2>3. g \in Queue(h) => p[g] # p[h]
        BY <1>1, <1>3, <2>1 DEF Contiguous
    <2> QED
        BY <1>2, <2>1, <2>2, <2>3
<1>8. SameOrder(p, q)
    BY <1>2, <1>6, <1>7 DEF SameOrder
<1> QED
    BY <1>2, <1>5, <1>6, <1>8

\* The hold that joins waits behind all of its queue, and no other row moves.
LEMMA EnqueueKeeps ==
    ASSUME NEW p \in [Hold -> Nat], QueuesSound(p), NEW h \in Hold, p[h] = 0,
           NEW q, q = Enqueue(p, Queue(h), h)
    PROVE  /\ q \in [Hold -> Nat] /\ QueuesSound(q)
           /\ q[h] > 0 /\ \A g \in Hold \ {h} : q[g] = p[g]
           /\ \A g \in Queue(h) \ {h} : q[g] < q[h]
<1>1. /\ Queue(h) \in SUBSET Hold /\ h \in Queue(h)
      /\ \A g \in Hold : Queue(g) \in SUBSET Hold
    BY QueueFacts
<1>2. PICK n \in Nat : \A g \in Hold : p[g] <= n
    BY DEF QueuesSound
<1>3. Contiguous(p, Queue(h))
    BY DEF QueuesSound
<1>4. /\ q \in [Hold -> Nat] /\ \A g \in Hold : q[g] <= n + 1
      /\ Contiguous(q, Queue(h))
    BY <1>1, <1>2, <1>3, EnqueueContiguous
<1>5. /\ NextQueuePosition(p, Queue(h)) \in 1..(n + 1)
      /\ \A g \in Queue(h) : p[g] < NextQueuePosition(p, Queue(h))
    BY <1>1, <1>2, NextQueuePositionIsFree
<1>6. q[h] = NextQueuePosition(p, Queue(h)) /\ \A g \in Hold \ {h} : q[g] = p[g]
    BY DEF Enqueue
<1>7. ASSUME NEW g \in Hold PROVE Contiguous(q, Queue(g))
    <2>1. CASE Queue(g) = Queue(h)
        BY <1>4, <2>1
    <2>2. CASE Queue(g) \cap Queue(h) = {}
        <3>1. \A f \in Queue(g) : q[f] = p[f]
            BY <1>1, <1>6, <2>2
        <3> QED
            BY <1>1, <1>4, <3>1, OtherQueues DEF QueuesSound
    <2> QED
        BY <2>1, <2>2, QueueFacts
<1>8. QueuesSound(q)
    BY <1>2, <1>4, <1>7 DEF QueuesSound
<1> QED
    BY <1>1, <1>4, <1>5, <1>6, <1>8

-----------------------------------------------------------------------------
(* Who wins a copy.                                                        *)

\* A set of naturals that is not empty has a least element.
LEMMA NatMin ==
    ASSUME NEW S \in SUBSET Nat, S # {}
    PROVE  /\ Min(S) \in S /\ \A n \in S : Min(S) <= n
           /\ \E m \in S : \A n \in S : m <= n
<1> DEFINE R == OpToRel(<, Nat)
<1>1. IsWellFoundedOn(R, Nat)
    BY NatLessThanWellFounded
<1>2. PICK m \in S : \A n \in S : ~ (<<n, m>> \in R)
    <2> HIDE DEF R
    <2> QED
        BY <1>1, WFMin
<1>3. \A n \in S : ~ (n < m)
    BY <1>2 DEF OpToRel
<1>4. \A n \in S : m <= n
    BY <1>3
<1> HIDE DEF R
<1>5. Min(S) \in S /\ \A n \in S : Min(S) <= n
    BY <1>4 DEF Min
<1> QED
    BY <1>4, <1>5

\* A column of finitely many rows has a greatest value.
LEMMA ColumnMax ==
    ASSUME NEW f \in [Hold -> Nat], NEW S \in SUBSET Hold, IsFiniteSet(S), S # {}
    PROVE  \E m \in S : \A h \in S : f[h] <= f[m]
<1> DEFINE T == {s \in SUBSET S : \E n \in Nat : \A h \in s : f[h] <= n}
<1>1. {} \in T
    OBVIOUS
<1>2. ASSUME NEW s \in SUBSET S, s # {}, s \ {Pick(s)} \in T PROVE s \in T
    <2>1. PICK n \in Nat : \A h \in s \ {Pick(s)} : f[h] <= n
        BY <1>2
    <2>2. Pick(s) \in s
        BY <1>2 DEF Pick
    <2> DEFINE m == IF f[Pick(s)] > n THEN f[Pick(s)] ELSE n
    <2>3. m \in Nat /\ n <= m /\ f[Pick(s)] <= m
        BY <2>2
    <2> HIDE DEF m
    <2>4. \A h \in s : f[h] <= m
        BY <2>1, <2>3
    <2> QED
        BY <2>3, <2>4
<1>3. \A s \in SUBSET S : s \in T
    <2> HIDE DEF T
    <2> QED
        BY <1>1, <1>2, SubsetInduction
<1>4. PICK n \in Nat : \A h \in S : f[h] <= n
    BY <1>3
<1> HIDE DEF T
<1> DEFINE V == {f[h] : h \in S}
<1>5. V \in SUBSET (0..n) /\ V # {}
    BY <1>4
<1>6. Max(V) \in V /\ \A x \in V : x <= Max(V)
    <2> HIDE DEF V
    <2> QED
        BY <1>5, BoundedMax
<1>7. PICK m \in S : f[m] = Max(V)
    BY <1>6
<1> QED
    BY <1>6, <1>7

\* The query's ORDER BY always has a first row: positions are unique within a
\* queue, so no two candidates tie.
LEMMA WinnerIsCandidate ==
    ASSUME NEW d \in Database, QueuesSound(d.pos), NEW i \in Item,
           Candidates(d, i) # {}
    PROVE  Winner(d, i) \in Candidates(d, i)
<1> DEFINE C == Candidates(d, i)
<1>1. d.pos \in [Hold -> Nat] /\ d.prio \in [Hold -> Nat]
    BY DEF Database
<1>2. C \in SUBSET Hold /\ \A h \in C : d.pos[h] > 0 /\ Bib(h) = BibOfItem[i]
    BY DEF Candidates
<1> HIDE DEF C
<1>3. IsFiniteSet(C)
    BY <1>2, BoundsAssumption, FS_Subset
<1>4. PICK m \in C : \A h \in C : d.prio[h] <= d.prio[m]
    <2>1. C # {}
        BY DEF C
    <2> QED
        BY <1>1, <1>2, <1>3, <2>1, ColumnMax
<1> DEFINE V == {n \in Nat : \E h \in C : d.prio[h] = d.prio[m] /\ n = d.pos[h]}
<1>5. V \in SUBSET Nat /\ V # {}
    BY <1>1, <1>2, <1>4
<1>6. PICK v \in V : \A n \in V : v <= n
    <2> HIDE DEF V
    <2> QED
        BY <1>5, NatMin
<1>7. PICK w \in C : d.prio[w] = d.prio[m] /\ v = d.pos[w]
    BY <1>6
<1>8. ASSUME NEW g \in C \ {w} PROVE Precedes(d, w, g)
    <2>1. d.prio[g] <= d.prio[w] /\ d.prio[g] \in Nat /\ d.prio[w] \in Nat
        BY <1>1, <1>2, <1>4, <1>7
    <2>2. CASE d.prio[g] = d.prio[w]
        <3>1. d.pos[g] \in V
            BY <1>1, <1>2, <1>7, <2>2
        <3>2. d.pos[w] <= d.pos[g]
            BY <1>6, <1>7, <3>1
        <3>3. g \in Queue(w) /\ w \in Queue(w) /\ Contiguous(d.pos, Queue(w))
            BY <1>2, QueueFacts DEF QueuesSound
        <3>4. d.pos[w] # d.pos[g]
            BY <1>1, <1>2, <3>3 DEF Contiguous
        <3>5. d.pos[w] < d.pos[g]
            BY <1>1, <1>2, <3>2, <3>4
        <3> QED
            BY <2>2, <3>5 DEF Precedes
    <2>3. CASE d.prio[g] # d.prio[w]
        BY <2>1, <2>3 DEF Precedes
    <2> QED
        BY <2>2, <2>3
<1>9. \E h \in C : \A g \in C \ {h} : Precedes(d, h, g)
    BY <1>8
<1>10. Winner(d, i) = CHOOSE h \in C : \A g \in C \ {h} : Precedes(d, h, g)
    BY DEF Winner, C
<1> QED
    BY <1>9, <1>10 DEF C

-----------------------------------------------------------------------------
(* What the helpers keep.                                                  *)

\* The rows agree with each other: a hold waits while it is open and has no copy,
\* only a hold with a copy is collectable, and the copy is one of its record.
RowsSound(d) ==
    \A h \in Hold :
        /\ (d.pos[h] > 0 <=> (Open(d, h) /\ d.copy[h] = None))
        /\ (d.shelf[h] # "no" => d.copy[h] # None)
        /\ (d.copy[h] # None => (Open(d, h) /\ BibOfItem[d.copy[h]] = Bib(h)))

LoansSound(d) == \A i \in Item : d.status[i] = "on_loan" => d.loan[i] # None

Sound(d) ==
    d \in Database /\ QueuesSound(d.pos) /\ RowsSound(d) /\ LoansSound(d)

\* AssignedIsComing, of a database. It is kept by what commits: where two holds
\* would share a copy or a copy two vans, the transaction is aborted.
Coming(d) ==
    \A h \in Hold :
        Open(d, h) /\ d.copy[h] # None /\ d.shelf[h] = "no" =>
            d.van[d.copy[h]] = [to |-> Request[h].pickup, hold |-> h]

StrandedIn(d, i) == d.status[i] = "awaiting_pickup" /\ Assigned(d, i) = {}

\* Outside S, no van and no request's copy changes.
Leaves(d, e, S) ==
    \A i \in Item \ S :
        e.van[i] = d.van[i] /\ \A h \in Hold : e.copy[h] = i <=> d.copy[h] = i

\* The same, but for the requests that were filled.
Touches(d, e, S) ==
    /\ \A i \in Item \ S :
        /\ e.van[i] = d.van[i]
        /\ \A h \in Hold : /\ e.copy[h] = i => d.copy[h] = i
                           /\ d.copy[h] = i => e.copy[h] = i \/ e.state[h] = "fulfilled"
    /\ \A h \in Hold : d.state[h] = "fulfilled" => e.state[h] = "fulfilled"

\* What the helpers may do to the holds between two states of a transaction: holds
\* end, and a waiting hold that is not suspended to a date is given a copy.
HoldsFollow(d, e) ==
    /\ (e.ok => d.ok)
    /\ SameOrder(d.pos, e.pos)
    /\ \A h \in Hold :
        /\ (Open(e, h) => (Open(d, h) /\ e.susp[h] = d.susp[h]))
        /\ (e.susp[h] = d.susp[h] \/ e.susp[h] = "no")
        /\ (e.copy[h] # None =>
                (e.copy[h] = d.copy[h] \/ (d.pos[h] > 0 /\ d.susp[h] # "dated")))

Follows(d, e) == e.loan = d.loan /\ HoldsFollow(d, e)

LEMMA FollowsItself ==
    ASSUME NEW d \in Database
    PROVE  Follows(d, d)
<1>1. d.pos \in [Hold -> Nat]
    BY DEF Database
<1>2. SameOrder(d.pos, d.pos)
    BY <1>1 DEF SameOrder
<1> QED
    BY <1>2 DEF Follows, HoldsFollow

LEMMA FollowsOn ==
    ASSUME NEW d \in Database, NEW e \in Database, NEW f \in Database,
           Follows(d, e), Follows(e, f), RowsSound(f)
    PROVE  Follows(d, f)
<1>1. /\ d.pos \in [Hold -> Nat] /\ e.pos \in [Hold -> Nat] /\ f.pos \in [Hold -> Nat]
    BY DEF Database
<1>2. SameOrder(d.pos, f.pos)
    BY <1>1 DEF Follows, HoldsFollow, SameOrder
<1>3. f.loan = d.loan /\ (f.ok => d.ok)
    BY DEF Follows, HoldsFollow
<1>4. ASSUME NEW h \in Hold
      PROVE  /\ (Open(f, h) => (Open(d, h) /\ f.susp[h] = d.susp[h]))
             /\ (f.susp[h] = d.susp[h] \/ f.susp[h] = "no")
             /\ (f.copy[h] # None =>
                    (f.copy[h] = d.copy[h] \/ (d.pos[h] > 0 /\ d.susp[h] # "dated")))
    <2>1. Open(f, h) => (Open(e, h) /\ f.susp[h] = e.susp[h])
        BY DEF Follows, HoldsFollow
    <2>2. Open(e, h) => (Open(d, h) /\ e.susp[h] = d.susp[h])
        BY DEF Follows, HoldsFollow
    <2>3. f.copy[h] # None => Open(f, h)
        BY DEF RowsSound
    <2>4. f.copy[h] # None => (f.copy[h] = e.copy[h] \/ (e.pos[h] > 0 /\ e.susp[h] # "dated"))
        BY DEF Follows, HoldsFollow
    <2>5. e.copy[h] # None => (e.copy[h] = d.copy[h] \/ (d.pos[h] > 0 /\ d.susp[h] # "dated"))
        BY DEF Follows, HoldsFollow
    <2>6. e.pos[h] > 0 => d.pos[h] > 0
        BY DEF Follows, HoldsFollow, SameOrder
    <2>7. /\ (f.susp[h] = e.susp[h] \/ f.susp[h] = "no")
          /\ (e.susp[h] = d.susp[h] \/ e.susp[h] = "no")
        BY DEF Follows, HoldsFollow
    <2> QED
        BY <2>1, <2>2, <2>3, <2>4, <2>5, <2>6, <2>7
<1> QED
    BY <1>2, <1>3, <1>4 DEF Follows, HoldsFollow

Ended == {"fulfilled", "cancelled", "expired"}

LEMMA EndFields ==
    ASSUME NEW d \in Database, NEW h \in Hold, NEW how \in Ended,
           NEW e, e = End(d, h, how)
    PROVE  /\ e.status = d.status /\ e.at = d.at /\ e.archived = d.archived
           /\ e.loan = d.loan /\ e.van = d.van /\ e.resolved = d.resolved
           /\ e.ok = d.ok
           /\ e.state = [d.state EXCEPT ![h] = how]
           /\ e.copy = [d.copy EXCEPT ![h] = None]
           /\ e.shelf = [d.shelf EXCEPT ![h] = "no"]
           /\ e.susp = [d.susp EXCEPT ![h] = "no"]
           /\ e.prio = [d.prio EXCEPT ![h] = 0]
           /\ e.pos = IF d.pos[h] > 0 THEN Dequeue(d.pos, Queue(h), h) ELSE d.pos
BY Zenon DEF End, Database

LEMMA DbFields ==
    ASSUME NEW d \in Database
    PROVE  /\ d.status \in [Item -> ItemStatus] /\ d.at \in [Item -> Branch]
           /\ d.archived \in SUBSET Item
           /\ d.loan \in [Item -> Patron \cup {None}]
           /\ d.van \in [Item -> [to : Branch, hold : Hold \cup {None}] \cup {None}]
           /\ d.state \in [Hold -> {"unplaced", "open"} \cup Ended]
           /\ d.pos \in [Hold -> Nat] /\ d.copy \in [Hold -> Item \cup {None}]
           /\ d.shelf \in [Hold -> {"no", "waiting", "lapsed"}]
           /\ d.susp \in [Hold -> {"no", "dated", "open"}]
           /\ d.prio \in [Hold -> Nat] /\ d.resolved \in SUBSET Group
           /\ d.ok \in BOOLEAN
<1>1. {"unplaced", "open"} \cup Ended = {"unplaced", "open", "fulfilled", "cancelled", "expired"}
    BY DEF Ended
<1> QED
    BY <1>1 DEF Database

\* A hold ends.
LEMMA EndKeeps ==
    ASSUME NEW d, Sound(d), NEW h \in Hold, NEW how \in Ended,
           NEW e, e = End(d, h, how)
    PROVE  /\ Sound(e) /\ Follows(d, e) /\ (Coming(d) => Coming(e))
           /\ e.status = d.status /\ e.van = d.van /\ e.at = d.at
           /\ e.resolved = d.resolved /\ e.ok = d.ok
           /\ e.state = [d.state EXCEPT ![h] = how]
           /\ e.copy = [d.copy EXCEPT ![h] = None]
           /\ e.shelf = [d.shelf EXCEPT ![h] = "no"]
<1>1. d \in Database /\ QueuesSound(d.pos) /\ RowsSound(d) /\ LoansSound(d)
    BY DEF Sound
<1>2. /\ e.status = d.status /\ e.at = d.at /\ e.archived = d.archived
      /\ e.loan = d.loan /\ e.van = d.van /\ e.resolved = d.resolved
      /\ e.ok = d.ok
      /\ e.state = [d.state EXCEPT ![h] = how]
      /\ e.copy = [d.copy EXCEPT ![h] = None]
      /\ e.shelf = [d.shelf EXCEPT ![h] = "no"]
      /\ e.susp = [d.susp EXCEPT ![h] = "no"]
      /\ e.prio = [d.prio EXCEPT ![h] = 0]
      /\ e.pos = IF d.pos[h] > 0 THEN Dequeue(d.pos, Queue(h), h) ELSE d.pos
    BY <1>1, EndFields
<1>3. /\ d.state \in [Hold -> {"unplaced", "open"} \cup Ended]
      /\ d.pos \in [Hold -> Nat] /\ d.copy \in [Hold -> Item \cup {None}]
      /\ d.shelf \in [Hold -> {"no", "waiting", "lapsed"}]
      /\ d.susp \in [Hold -> {"no", "dated", "open"}]
      /\ d.prio \in [Hold -> Nat]
    BY <1>1, DbFields
<1>4. /\ e.pos \in [Hold -> Nat] /\ QueuesSound(e.pos) /\ SameOrder(d.pos, e.pos)
      /\ e.pos[h] = 0 /\ \A g \in Hold \ {h} : e.pos[g] > 0 <=> d.pos[g] > 0
    <2>1. CASE d.pos[h] > 0
        BY <1>1, <1>2, <1>3, <2>1, DequeueKeeps
    <2>2. CASE ~ (d.pos[h] > 0)
        <3>1. e.pos = d.pos /\ d.pos[h] = 0
            BY <1>2, <1>3, <2>2
        <3> QED
            BY <1>1, <1>3, <3>1 DEF SameOrder
    <2> QED
        BY <2>1, <2>2
<1>5. how # "open" /\ how \in {"unplaced", "open", "fulfilled", "cancelled", "expired"}
    BY DEF Ended
<1>6. /\ e.state[h] = how /\ e.copy[h] = None /\ e.shelf[h] = "no" /\ e.susp[h] = "no"
      /\ \A g \in Hold \ {h} : /\ e.state[g] = d.state[g] /\ e.copy[g] = d.copy[g]
                               /\ e.shelf[g] = d.shelf[g] /\ e.susp[g] = d.susp[g]
    BY <1>2, <1>3
<1>7. e \in Database
    <2>1. /\ e.state \in [Hold -> {"unplaced", "open", "fulfilled", "cancelled", "expired"}]
          /\ e.copy \in [Hold -> Item \cup {None}]
          /\ e.shelf \in [Hold -> {"no", "waiting", "lapsed"}]
          /\ e.susp \in [Hold -> {"no", "dated", "open"}]
          /\ e.prio \in [Hold -> Nat]
        BY <1>2, <1>3, <1>5 DEF Ended
    <2> QED
        BY <1>1, <1>2, <1>4, <2>1, Zenon DEF Database, End
<1>8. RowsSound(e)
    <2> SUFFICES ASSUME NEW g \in Hold
                 PROVE  /\ (e.pos[g] > 0 <=> (Open(e, g) /\ e.copy[g] = None))
                        /\ (e.shelf[g] # "no" => e.copy[g] # None)
                        /\ (e.copy[g] # None => (Open(e, g) /\ BibOfItem[e.copy[g]] = Bib(g)))
        BY DEF RowsSound
    <2>1. CASE g = h
        BY <1>4, <1>5, <1>6, <2>1 DEF Open
    <2>2. CASE g # h
        BY <1>1, <1>4, <1>6, <2>2 DEF Open, RowsSound
    <2> QED
        BY <2>1, <2>2
<1>9. Sound(e)
    BY <1>1, <1>2, <1>4, <1>7, <1>8 DEF Sound, LoansSound
<1>10. Follows(d, e)
    BY <1>2, <1>4, <1>5, <1>6 DEF Follows, HoldsFollow, Open
<1>11. Coming(d) => Coming(e)
    BY <1>2, <1>5, <1>6 DEF Coming, Open
<1> QED
    BY <1>2, <1>9, <1>10, <1>11

LEMMA PromoteFields ==
    ASSUME NEW d \in Database, NEW i \in Item, NEW h \in Hold,
           NEW e, e = promoteForItem(d, i, h)
    PROVE  /\ e.status = d.status /\ e.at = d.at /\ e.archived = d.archived
           /\ e.loan = d.loan /\ e.van = d.van /\ e.resolved = d.resolved
           /\ e.state = d.state /\ e.shelf = d.shelf /\ e.susp = d.susp
           /\ e.prio = d.prio
           /\ e.ok = (d.ok /\ Assigned(d, i) = {})
           /\ e.copy = [d.copy EXCEPT ![h] = i]
           /\ e.pos = Dequeue(d.pos, Queue(h), h)
BY Zenon DEF promoteForItem, Database

\* The winner takes the copy.
LEMMA PromoteKeeps ==
    ASSUME NEW d, Sound(d), NEW i \in Item, NEW h \in Candidates(d, i),
           NEW e, e = promoteForItem(d, i, h)
    PROVE  /\ Sound(e) /\ Follows(d, e)
           /\ e.status = d.status /\ e.van = d.van /\ e.state = d.state
           /\ e.at = d.at /\ e.resolved = d.resolved /\ e.shelf = d.shelf
           /\ e.ok = (d.ok /\ Assigned(d, i) = {})
           /\ e.copy = [d.copy EXCEPT ![h] = i]
           /\ h \in Hold /\ Open(d, h) /\ d.copy[h] = None
<1>1. d \in Database /\ QueuesSound(d.pos) /\ RowsSound(d) /\ LoansSound(d)
    BY DEF Sound
<1>2. /\ h \in Hold /\ Open(d, h) /\ d.pos[h] > 0
      /\ Bib(h) = BibOfItem[i] /\ d.susp[h] # "dated"
    BY DEF Candidates
<1>3. /\ e.status = d.status /\ e.at = d.at /\ e.archived = d.archived
      /\ e.loan = d.loan /\ e.van = d.van /\ e.resolved = d.resolved
      /\ e.state = d.state /\ e.shelf = d.shelf /\ e.susp = d.susp
      /\ e.prio = d.prio
      /\ e.ok = (d.ok /\ Assigned(d, i) = {})
      /\ e.copy = [d.copy EXCEPT ![h] = i]
      /\ e.pos = Dequeue(d.pos, Queue(h), h)
    BY <1>1, <1>2, PromoteFields
<1>4. d.pos \in [Hold -> Nat] /\ d.copy \in [Hold -> Item \cup {None}]
    BY <1>1, DbFields
<1>5. /\ e.pos \in [Hold -> Nat] /\ QueuesSound(e.pos) /\ SameOrder(d.pos, e.pos)
      /\ e.pos[h] = 0 /\ \A g \in Hold \ {h} : e.pos[g] > 0 <=> d.pos[g] > 0
    BY <1>1, <1>2, <1>3, <1>4, DequeueKeeps
<1>6. e.copy[h] = i /\ \A g \in Hold \ {h} : e.copy[g] = d.copy[g]
    BY <1>2, <1>3, <1>4
<1>7. e \in Database
    <2>1. e.copy \in [Hold -> Item \cup {None}]
        BY <1>3, <1>4
    <2>2. e.ok \in BOOLEAN
        BY <1>3
    <2> QED
        BY <1>1, <1>3, <1>5, <2>1, <2>2, Zenon DEF Database, promoteForItem
<1>8. i # None /\ d.copy[h] = None
    BY <1>1, <1>2, NoneAssumption DEF RowsSound
<1>9. RowsSound(e)
    <2> SUFFICES ASSUME NEW g \in Hold
                 PROVE  /\ (e.pos[g] > 0 <=> (Open(e, g) /\ e.copy[g] = None))
                        /\ (e.shelf[g] # "no" => e.copy[g] # None)
                        /\ (e.copy[g] # None => (Open(e, g) /\ BibOfItem[e.copy[g]] = Bib(g)))
        BY DEF RowsSound
    <2>1. CASE g = h
        BY <1>2, <1>3, <1>5, <1>6, <1>8, <2>1 DEF Open
    <2>2. CASE g # h
        BY <1>1, <1>3, <1>5, <1>6, <2>2 DEF Open, RowsSound
    <2> QED
        BY <2>1, <2>2
<1>10. Sound(e)
    BY <1>1, <1>3, <1>5, <1>7, <1>9 DEF Sound, LoansSound
<1>11. Follows(d, e)
    <2>1. ASSUME NEW g \in Hold
          PROVE  /\ (Open(e, g) => (Open(d, g) /\ e.susp[g] = d.susp[g]))
                 /\ (e.susp[g] = d.susp[g] \/ e.susp[g] = "no")
                 /\ (e.copy[g] # None =>
                        (e.copy[g] = d.copy[g] \/ (d.pos[g] > 0 /\ d.susp[g] # "dated")))
        BY <1>2, <1>3, <1>6 DEF Open
    <2>2. e.ok => d.ok
        BY <1>3
    <2> QED
        BY <1>3, <1>5, <2>1, <2>2 DEF Follows, HoldsFollow
<1> QED
    BY <1>2, <1>3, <1>8, <1>10, <1>11

LEMMA ClaimFields ==
    ASSUME NEW d \in Database, NEW i \in Item, NEW b,
           NEW e, e = claimOnArrival(d, i, b)
    PROVE  /\ e.at = d.at /\ e.archived = d.archived
           /\ e.loan = d.loan /\ e.van = d.van /\ e.resolved = d.resolved
           /\ e.state = d.state /\ e.susp = d.susp /\ e.prio = d.prio
           /\ e.ok = d.ok /\ e.copy = d.copy /\ e.pos = d.pos
           /\ e.shelf = [h \in Hold |->
                            IF h \in Claimant(d, i, b) THEN "waiting" ELSE d.shelf[h]]
           /\ e.status = [d.status EXCEPT ![i] =
                            IF Claimant(d, i, b) = {} THEN "available"
                                                      ELSE "awaiting_pickup"]
BY Zenon DEF claimOnArrival, Database

\* A copy arrives.
LEMMA ClaimKeeps ==
    ASSUME NEW d, Sound(d), NEW i \in Item, NEW b,
           NEW e, e = claimOnArrival(d, i, b)
    PROVE  /\ Sound(e) /\ Follows(d, e) /\ (Coming(d) => Coming(e))
           /\ e.van = d.van /\ e.state = d.state /\ e.copy = d.copy
           /\ e.at = d.at /\ e.resolved = d.resolved /\ e.ok = d.ok
           /\ e.status[i] # "on_loan" /\ ~ StrandedIn(e, i)
           /\ \A j \in Item \ {i} : e.status[j] = d.status[j]
           /\ \A h \in Hold : e.shelf[h] = IF h \in Claimant(d, i, b) THEN "waiting"
                                                                      ELSE d.shelf[h]
           /\ e.status[i] = IF Claimant(d, i, b) = {} THEN "available"
                                                      ELSE "awaiting_pickup"
<1>1. d \in Database /\ QueuesSound(d.pos) /\ RowsSound(d) /\ LoansSound(d)
    BY DEF Sound
<1>2. /\ e.at = d.at /\ e.archived = d.archived
      /\ e.loan = d.loan /\ e.van = d.van /\ e.resolved = d.resolved
      /\ e.state = d.state /\ e.susp = d.susp /\ e.prio = d.prio
      /\ e.ok = d.ok /\ e.copy = d.copy /\ e.pos = d.pos
      /\ e.shelf = [h \in Hold |->
                       IF h \in Claimant(d, i, b) THEN "waiting" ELSE d.shelf[h]]
      /\ e.status = [d.status EXCEPT ![i] =
                       IF Claimant(d, i, b) = {} THEN "available"
                                                 ELSE "awaiting_pickup"]
    BY <1>1, ClaimFields
<1>3. /\ d.status \in [Item -> ItemStatus] /\ d.pos \in [Hold -> Nat]
      /\ d.shelf \in [Hold -> {"no", "waiting", "lapsed"}]
    BY <1>1, DbFields
<1>4. /\ e.status[i] = IF Claimant(d, i, b) = {} THEN "available" ELSE "awaiting_pickup"
      /\ \A j \in Item \ {i} : e.status[j] = d.status[j]
    BY <1>2, <1>3
<1>5. \A h \in Hold : e.shelf[h] = IF h \in Claimant(d, i, b) THEN "waiting" ELSE d.shelf[h]
    BY <1>2
<1>6. e \in Database
    <2>1. e.status \in [Item -> ItemStatus]
        BY <1>2, <1>3 DEF ItemStatus
    <2>2. e.shelf \in [Hold -> {"no", "waiting", "lapsed"}]
        BY <1>2, <1>3
    <2> QED
        BY <1>1, <1>2, <2>1, <2>2, Zenon DEF Database, claimOnArrival
<1>7. \A h \in Claimant(d, i, b) : h \in Hold /\ d.copy[h] = i /\ Open(d, h) /\ i # None
    BY NoneAssumption DEF Claimant, Assigned
<1>8. RowsSound(e)
    BY <1>1, <1>2, <1>5, <1>7 DEF RowsSound, Open
<1>9. LoansSound(e)
    BY <1>1, <1>2, <1>4 DEF LoansSound
<1>10. Sound(e)
    BY <1>1, <1>2, <1>6, <1>8, <1>9 DEF Sound
<1>11. Follows(d, e)
    BY <1>1, <1>2, FollowsItself DEF Follows, HoldsFollow, Open
<1>12. Coming(d) => Coming(e)
    BY <1>2, <1>5 DEF Coming, Open
<1>13. ~ StrandedIn(e, i)
    <2>1. CASE Claimant(d, i, b) = {}
        BY <1>4, <2>1 DEF StrandedIn
    <2>2. CASE Claimant(d, i, b) # {}
        BY <1>2, <2>2 DEF StrandedIn, Claimant, Assigned, Open
    <2> QED
        BY <2>1, <2>2
<1> QED
    BY <1>2, <1>4, <1>5, <1>10, <1>11, <1>12, <1>13

LEMMA DispatchFields ==
    ASSUME NEW d \in Database, NEW i \in Item, NEW b, NEW k,
           NEW e, e = Dispatch(d, i, b, k)
    PROVE  /\ e.at = d.at /\ e.archived = d.archived
           /\ e.loan = d.loan /\ e.resolved = d.resolved
           /\ e.state = d.state /\ e.susp = d.susp /\ e.prio = d.prio
           /\ e.copy = d.copy /\ e.pos = d.pos /\ e.shelf = d.shelf
           /\ e.ok = (d.ok /\ ~ InVan(d, i))
           /\ e.van = [d.van EXCEPT ![i] = [to |-> b, hold |-> k]]
           /\ e.status = [d.status EXCEPT ![i] = "in_transit"]
BY Zenon DEF Dispatch, Database

\* A copy is put in a van.
LEMMA DispatchKeeps ==
    ASSUME NEW d, Sound(d), NEW i \in Item, NEW b \in Branch,
           NEW k \in Hold \cup {None}, NEW e, e = Dispatch(d, i, b, k)
    PROVE  /\ Sound(e) /\ Follows(d, e)
           /\ e.state = d.state /\ e.copy = d.copy /\ e.shelf = d.shelf
           /\ e.at = d.at /\ e.resolved = d.resolved
           /\ e.ok = (d.ok /\ ~ InVan(d, i))
           /\ e.status[i] = "in_transit"
           /\ \A j \in Item \ {i} : e.status[j] = d.status[j]
           /\ e.van[i] = [to |-> b, hold |-> k]
           /\ \A j \in Item \ {i} : e.van[j] = d.van[j]
<1>1. d \in Database /\ QueuesSound(d.pos) /\ RowsSound(d) /\ LoansSound(d)
    BY DEF Sound
<1>2. /\ e.at = d.at /\ e.archived = d.archived
      /\ e.loan = d.loan /\ e.resolved = d.resolved
      /\ e.state = d.state /\ e.susp = d.susp /\ e.prio = d.prio
      /\ e.copy = d.copy /\ e.pos = d.pos /\ e.shelf = d.shelf
      /\ e.ok = (d.ok /\ ~ InVan(d, i))
      /\ e.van = [d.van EXCEPT ![i] = [to |-> b, hold |-> k]]
      /\ e.status = [d.status EXCEPT ![i] = "in_transit"]
    BY <1>1, DispatchFields
<1>3. /\ d.status \in [Item -> ItemStatus] /\ d.pos \in [Hold -> Nat]
      /\ d.van \in [Item -> [to : Branch, hold : Hold \cup {None}] \cup {None}]
    BY <1>1, DbFields
<1>4. /\ e.status[i] = "in_transit" /\ e.van[i] = [to |-> b, hold |-> k]
      /\ \A j \in Item \ {i} : e.status[j] = d.status[j] /\ e.van[j] = d.van[j]
    BY <1>2, <1>3
<1>5. e \in Database
    <2>1. e.status \in [Item -> ItemStatus]
        BY <1>2, <1>3 DEF ItemStatus
    <2>2. [to |-> b, hold |-> k] \in [to : Branch, hold : Hold \cup {None}]
        OBVIOUS
    <2>3. e.van \in [Item -> [to : Branch, hold : Hold \cup {None}] \cup {None}]
        BY <1>2, <1>3, <2>2
    <2>4. e.ok \in BOOLEAN
        BY <1>2
    <2> QED
        BY <1>1, <1>2, <2>1, <2>3, <2>4, Zenon DEF Database, Dispatch
<1>6. RowsSound(e)
    BY <1>1, <1>2 DEF RowsSound, Open
<1>7. LoansSound(e)
    BY <1>1, <1>2, <1>4 DEF LoansSound
<1>8. Sound(e)
    BY <1>1, <1>2, <1>5, <1>6, <1>7 DEF Sound
<1>9. Follows(d, e)
    <2>1. e.ok => d.ok
        BY <1>2
    <2> QED
        BY <1>1, <1>2, <2>1, FollowsItself DEF Follows, HoldsFollow, Open
<1> QED
    BY <1>2, <1>4, <1>8, <1>9

WithStatus(d, i, s) == [d EXCEPT !.status[i] = s]

LEMMA StatusFields ==
    ASSUME NEW d \in Database, NEW i \in Item, NEW s,
           NEW e, e = WithStatus(d, i, s)
    PROVE  /\ e.at = d.at /\ e.archived = d.archived /\ e.van = d.van
           /\ e.loan = d.loan /\ e.resolved = d.resolved /\ e.ok = d.ok
           /\ e.state = d.state /\ e.susp = d.susp /\ e.prio = d.prio
           /\ e.copy = d.copy /\ e.pos = d.pos /\ e.shelf = d.shelf
           /\ e.status = [d.status EXCEPT ![i] = s]
BY Zenon DEF Database, WithStatus

\* A copy that is not lent is given a status.
LEMMA StatusKeeps ==
    ASSUME NEW d, Sound(d), NEW i \in Item, NEW s \in ItemStatus, s # "on_loan",
           NEW e, e = WithStatus(d, i, s)
    PROVE  /\ Sound(e) /\ Follows(d, e) /\ (Coming(d) => Coming(e))
           /\ e.van = d.van /\ e.state = d.state /\ e.copy = d.copy
           /\ e.at = d.at /\ e.resolved = d.resolved /\ e.ok = d.ok
           /\ e.shelf = d.shelf /\ e.status[i] = s
           /\ \A j \in Item \ {i} : e.status[j] = d.status[j]
<1>1. d \in Database /\ QueuesSound(d.pos) /\ RowsSound(d) /\ LoansSound(d)
    BY DEF Sound
<1>2. /\ e.at = d.at /\ e.archived = d.archived /\ e.van = d.van
      /\ e.loan = d.loan /\ e.resolved = d.resolved /\ e.ok = d.ok
      /\ e.state = d.state /\ e.susp = d.susp /\ e.prio = d.prio
      /\ e.copy = d.copy /\ e.pos = d.pos /\ e.shelf = d.shelf
      /\ e.status = [d.status EXCEPT ![i] = s]
    BY <1>1, StatusFields
<1>3. d.status \in [Item -> ItemStatus]
    BY <1>1, DbFields
<1>4. e.status[i] = s /\ \A j \in Item \ {i} : e.status[j] = d.status[j]
    BY <1>2, <1>3
<1>5. e \in Database
    <2>1. e.status \in [Item -> ItemStatus]
        BY <1>2, <1>3
    <2> QED
        BY <1>1, <1>2, <2>1, Zenon DEF Database, WithStatus
<1>6. RowsSound(e) /\ LoansSound(e)
    BY <1>1, <1>2, <1>4 DEF RowsSound, Open, LoansSound
<1>7. Sound(e)
    BY <1>1, <1>2, <1>5, <1>6 DEF Sound
<1>8. Follows(d, e)
    BY <1>1, <1>2, FollowsItself DEF Follows, HoldsFollow, Open
<1>9. Coming(d) => Coming(e)
    BY <1>2 DEF Coming, Open
<1> QED
    BY <1>2, <1>4, <1>7, <1>8, <1>9

\* A free copy goes to the first reader who can have it, or to the shelf.
LEMMA SettleKeeps ==
    ASSUME NEW d, Sound(d), NEW i \in Item, NEW b,
           NEW e, e = Settle(d, i, b)
    PROVE  /\ Sound(e) /\ Follows(d, e) /\ (e.ok /\ Coming(d) => Coming(e))
           /\ e.state = d.state /\ e.at = d.at /\ e.resolved = d.resolved
           /\ e.status[i] # "on_loan"
           /\ \A j \in Item \ {i} : e.status[j] = d.status[j]
           /\ ~ StrandedIn(e, i)
           /\ \A j \in Item : StrandedIn(e, j) => StrandedIn(d, j)
           /\ Leaves(d, e, {i})
<1>1. d \in Database /\ QueuesSound(d.pos) /\ RowsSound(d)
    BY DEF Sound
<1>2. CASE Candidates(d, i) = {}
    <2>1. e = WithStatus(d, i, "available")
        BY <1>2 DEF Settle, WithStatus
    <2>2. "available" \in ItemStatus /\ "available" # "on_loan"
        BY DEF ItemStatus
    <2>3. /\ Sound(e) /\ Follows(d, e) /\ (Coming(d) => Coming(e))
          /\ e.van = d.van /\ e.state = d.state /\ e.copy = d.copy
          /\ e.at = d.at /\ e.resolved = d.resolved /\ e.ok = d.ok
          /\ e.shelf = d.shelf /\ e.status[i] = "available"
          /\ \A j \in Item \ {i} : e.status[j] = d.status[j]
        BY <2>1, <2>2, StatusKeeps
    <2>4. \A j \in Item : Assigned(e, j) = Assigned(d, j)
        BY <2>3 DEF Assigned, Open
    <2>5. Leaves(d, e, {i})
        BY <2>3 DEF Leaves
    <2> QED
        BY <2>3, <2>4, <2>5 DEF StrandedIn
<1>3. CASE Candidates(d, i) # {}
    <2> DEFINE h == Winner(d, i)
               p == promoteForItem(d, i, h)
    <2>1. h \in Candidates(d, i)
        BY <1>1, <1>3, WinnerIsCandidate
    <2>2. e = IF Request[h].pickup = b
              THEN claimOnArrival(p, i, b) ELSE Dispatch(p, i, Request[h].pickup, h)
        BY <1>3 DEF Settle
    <2> HIDE DEF h
    <2>3. /\ Sound(p) /\ Follows(d, p)
          /\ p.status = d.status /\ p.van = d.van /\ p.state = d.state
          /\ p.at = d.at /\ p.resolved = d.resolved /\ p.shelf = d.shelf
          /\ p.ok = (d.ok /\ Assigned(d, i) = {})
          /\ p.copy = [d.copy EXCEPT ![h] = i]
          /\ h \in Hold /\ Open(d, h) /\ d.copy[h] = None
        BY <2>1, PromoteKeeps
    <2> HIDE DEF p
    <2>4. p \in Database /\ d.copy \in [Hold -> Item \cup {None}]
        BY <1>1, <2>3, DbFields DEF Sound
    <2>5. p.copy[h] = i /\ \A g \in Hold \ {h} : p.copy[g] = d.copy[g]
        BY <2>3, <2>4
    <2>6. i # None
        BY NoneAssumption
    <2>7. \A j \in Item : Assigned(d, j) \subseteq Assigned(p, j)
        BY <2>3, <2>5, NoneAssumption DEF Assigned, Open
    <2>8. h \in Assigned(p, i)
        BY <2>3, <2>5 DEF Assigned, Open
    <2>9. p.ok => d.ok /\ \A g \in Hold : Open(d, g) => d.copy[g] # i
        BY <2>3 DEF Assigned
    <2>l. Leaves(d, p, {i})
        BY <2>3, <2>5, NoneAssumption DEF Leaves
    <2>10. CASE Request[h].pickup = b
        <3>1. e = claimOnArrival(p, i, b)
            BY <2>2, <2>10
        <3>2. /\ Sound(e) /\ Follows(p, e)
              /\ e.van = p.van /\ e.state = p.state /\ e.copy = p.copy
              /\ e.at = p.at /\ e.resolved = p.resolved /\ e.ok = p.ok
              /\ e.status[i] # "on_loan" /\ ~ StrandedIn(e, i)
              /\ \A j \in Item \ {i} : e.status[j] = p.status[j]
              /\ \A g \in Hold : e.shelf[g] = IF g \in Claimant(p, i, b) THEN "waiting"
                                                                         ELSE p.shelf[g]
            BY <2>3, <3>1, ClaimKeeps
        <3>3. Follows(d, e)
            BY <1>1, <2>3, <2>4, <3>2, FollowsOn DEF Sound
        <3>4. h \in Claimant(p, i, b)
            BY <2>8, <2>10 DEF Claimant
        <3>5. Coming(d) => Coming(e)
            <4> SUFFICES ASSUME Coming(d), NEW g \in Hold,
                                Open(e, g), e.copy[g] # None, e.shelf[g] = "no"
                         PROVE  e.van[e.copy[g]] = [to |-> Request[g].pickup, hold |-> g]
                BY DEF Coming
            <4>1. g # h /\ d.shelf[g] = "no"
                BY <2>3, <3>2, <3>4
            <4>2. d.copy[g] = e.copy[g] /\ Open(d, g)
                BY <2>3, <2>5, <3>2, <4>1 DEF Open
            <4> QED
                BY <2>3, <3>2, <4>1, <4>2 DEF Coming
        <3>6. \A j \in Item : Assigned(e, j) = Assigned(p, j)
            BY <3>2 DEF Assigned, Open
        <3>7. \A j \in Item \ {i} : StrandedIn(e, j) => StrandedIn(d, j)
            BY <2>3, <2>7, <3>2, <3>6 DEF StrandedIn
        <3>8. Leaves(d, e, {i})
            BY <2>l, <3>2 DEF Leaves
        <3> QED
            BY <2>3, <3>2, <3>3, <3>5, <3>7, <3>8
    <2>11. CASE Request[h].pickup # b
        <3>1. e = Dispatch(p, i, Request[h].pickup, h)
            BY <2>2, <2>11
        <3>2. Request[h].pickup \in Branch
            BY <2>3, RequestAssumption DEF RequestType
        <3>3. /\ Sound(e) /\ Follows(p, e)
              /\ e.state = p.state /\ e.copy = p.copy /\ e.shelf = p.shelf
              /\ e.at = p.at /\ e.resolved = p.resolved
              /\ e.ok = (p.ok /\ ~ InVan(p, i))
              /\ e.status[i] = "in_transit"
              /\ \A j \in Item \ {i} : e.status[j] = p.status[j]
              /\ e.van[i] = [to |-> Request[h].pickup, hold |-> h]
              /\ \A j \in Item \ {i} : e.van[j] = p.van[j]
            BY <2>3, <3>1, <3>2, DispatchKeeps
        <3>4. Follows(d, e)
            BY <1>1, <2>3, <2>4, <3>3, FollowsOn DEF Sound
        <3>5. e.ok /\ Coming(d) => Coming(e)
            <4> SUFFICES ASSUME e.ok, Coming(d), NEW g \in Hold,
                                Open(e, g), e.copy[g] # None, e.shelf[g] = "no"
                         PROVE  e.van[e.copy[g]] = [to |-> Request[g].pickup, hold |-> g]
                BY DEF Coming
            <4>1. CASE g = h
                BY <2>5, <3>3, <4>1
            <4>2. CASE g # h
                <5>1. d.copy[g] = e.copy[g] /\ Open(d, g) /\ d.shelf[g] = "no"
                    BY <2>3, <2>5, <3>3, <4>2 DEF Open
                <5>2. d.copy[g] # i /\ d.copy[g] \in Item
                    BY <2>4, <2>9, <3>3, <5>1
                <5>3. d.van[d.copy[g]] = [to |-> Request[g].pickup, hold |-> g]
                    BY <5>1 DEF Coming
                <5> QED
                    BY <2>3, <3>3, <5>1, <5>2, <5>3
            <4> QED
                BY <4>1, <4>2
        <3>6. \A j \in Item : Assigned(e, j) = Assigned(p, j)
            BY <3>3 DEF Assigned, Open
        <3>7. \A j \in Item : StrandedIn(e, j) => StrandedIn(d, j)
            BY <2>3, <2>7, <3>3, <3>6 DEF StrandedIn
        <3>8. ~ StrandedIn(e, i)
            BY <3>3 DEF StrandedIn
        <3>9. Leaves(d, e, {i})
            BY <2>l, <3>3 DEF Leaves
        <3> QED
            BY <2>3, <3>3, <3>4, <3>5, <3>7, <3>8, <3>9
    <2> QED
        BY <2>10, <2>11
<1> QED
    BY <1>2, <1>3

\* The copy of a hold that ended is released.
LEMMA ReleaseKeeps ==
    ASSUME NEW d, Sound(d), NEW i \in Item, NEW e, e = releaseSetAsideCopy(d, i)
    PROVE  /\ Sound(e) /\ Follows(d, e) /\ (e.ok /\ Coming(d) => Coming(e))
           /\ e.state = d.state /\ e.at = d.at /\ e.resolved = d.resolved
           /\ ~ StrandedIn(e, i)
           /\ \A j \in Item : StrandedIn(e, j) => StrandedIn(d, j)
           /\ Leaves(d, e, {i})
<1>1. CASE d.status[i] = "awaiting_pickup"
    <2>1. e = Settle(d, i, d.at[i])
        BY <1>1 DEF releaseSetAsideCopy
    <2> QED
        BY <2>1, SettleKeeps
<1>2. CASE d.status[i] # "awaiting_pickup"
    <2>1. e = d
        BY <1>2 DEF releaseSetAsideCopy
    <2>2. Follows(d, d)
        BY FollowsItself DEF Sound
    <2> QED
        BY <1>2, <2>1, <2>2 DEF StrandedIn, Leaves
<1> QED
    BY <1>1, <1>2

-----------------------------------------------------------------------------
(* The loops of a checkout.                                                *)

SoundDb == {d \in Database : Sound(d)}

\* e is d once the holds of S have ended.
HasEnded(d, S, how, e) ==
    /\ Sound(e) /\ Follows(d, e) /\ (Coming(d) => Coming(e))
    /\ e.status = d.status /\ e.van = d.van /\ e.at = d.at
    /\ e.resolved = d.resolved /\ e.ok = d.ok
    /\ \A h \in Hold :
        /\ e.state[h] = (IF h \in S THEN how ELSE d.state[h])
        /\ e.copy[h] = (IF h \in S THEN None ELSE d.copy[h])
        /\ e.shelf[h] = (IF h \in S THEN "no" ELSE d.shelf[h])

LEMMA HasEndedNone ==
    ASSUME NEW d, Sound(d), NEW how
    PROVE  HasEnded(d, {}, how, d)
BY FollowsItself DEF HasEnded, Sound

LEMMA HasEndedOneMore ==
    ASSUME NEW d, Sound(d), NEW s \in SUBSET Hold, NEW how \in Ended,
           NEW h \in s, NEW e, HasEnded(d, s \ {h}, how, e),
           NEW f, f = End(e, h, how)
    PROVE  HasEnded(d, s, how, f)
<1>1. Sound(e) /\ h \in Hold
    BY DEF HasEnded
<1>2. /\ Sound(f) /\ Follows(e, f) /\ (Coming(e) => Coming(f))
      /\ f.status = e.status /\ f.van = e.van /\ f.at = e.at
      /\ f.resolved = e.resolved /\ f.ok = e.ok
      /\ f.state = [e.state EXCEPT ![h] = how]
      /\ f.copy = [e.copy EXCEPT ![h] = None]
      /\ f.shelf = [e.shelf EXCEPT ![h] = "no"]
    BY <1>1, EndKeeps
<1>3. d \in Database /\ e \in Database /\ f \in Database /\ RowsSound(f)
    BY <1>1, <1>2 DEF Sound
<1>4. Follows(d, f)
    BY <1>2, <1>3, FollowsOn DEF HasEnded
<1>5. /\ e.state \in [Hold -> {"unplaced", "open"} \cup Ended]
      /\ e.copy \in [Hold -> Item \cup {None}]
      /\ e.shelf \in [Hold -> {"no", "waiting", "lapsed"}]
    BY <1>3, DbFields
<1>6. ASSUME NEW g \in Hold
      PROVE  /\ f.state[g] = (IF g \in s THEN how ELSE d.state[g])
             /\ f.copy[g] = (IF g \in s THEN None ELSE d.copy[g])
             /\ f.shelf[g] = (IF g \in s THEN "no" ELSE d.shelf[g])
    <2>1. CASE g = h
        BY <1>2, <1>5, <2>1
    <2>2. CASE g # h
        <3>1. f.state[g] = e.state[g] /\ f.copy[g] = e.copy[g] /\ f.shelf[g] = e.shelf[g]
            BY <1>2, <1>5, <2>2
        <3>2. g \in s <=> g \in s \ {h}
            BY <2>2
        <3> QED
            BY <3>1, <3>2 DEF HasEnded
    <2> QED
        BY <2>1, <2>2
<1> QED
    BY <1>2, <1>4, <1>6 DEF HasEnded

LEMMA EndAllKeeps ==
    ASSUME NEW d, Sound(d), NEW S \in SUBSET Hold, NEW how \in Ended
    PROVE  HasEnded(d, S, how, EndAll(d, S, how))
<1> DEFINE D == [s \in SUBSET S |-> {e \in SoundDb : HasEnded(d, s, how, e)}]
<1>1. IsFiniteSet(S)
    BY BoundsAssumption, FS_Subset
<1>2. D \in [SUBSET S -> SUBSET SoundDb]
    OBVIOUS
<1>3. d \in D[{}]
    BY HasEndedNone DEF SoundDb, Sound
<1>4. ASSUME NEW h \in S, NEW e \in SoundDb PROVE End(e, h, how) \in SoundDb
    <2>1. Sound(e) /\ h \in Hold
        BY DEF SoundDb
    <2>2. Sound(End(e, h, how))
        BY <2>1, EndKeeps
    <2> QED
        BY <2>2 DEF SoundDb, Sound
<1>5. ASSUME NEW s \in SUBSET S, s # {}, NEW e \in D[s \ {Pick(s)}]
      PROVE  End(e, Pick(s), how) \in D[s]
    <2>1. Pick(s) \in s /\ s \in SUBSET Hold /\ s \ {Pick(s)} \in SUBSET S
        BY <1>5 DEF Pick
    <2>2. HasEnded(d, s \ {Pick(s)}, how, e)
        BY <1>5, <2>1
    <2>3. HasEnded(d, s, how, End(e, Pick(s), how))
        BY <2>1, <2>2, HasEndedOneMore
    <2>4. End(e, Pick(s), how) \in SoundDb
        BY <2>3 DEF HasEnded, SoundDb, Sound
    <2> QED
        BY <2>3, <2>4
<1> HIDE DEF D
<1>6. EndAll(d, S, how) \in D[S]
    BY <1>1, <1>2, <1>3, <1>4, <1>5, EndAllWithin
<1> QED
    BY <1>6 DEF D

\* e is d once the copies of S have been released.
HasReleased(d, S, e) ==
    /\ Sound(e) /\ Follows(d, e) /\ (e.ok /\ Coming(d) => Coming(e))
    /\ e.state = d.state /\ e.at = d.at /\ e.resolved = d.resolved
    /\ \A i \in Item : StrandedIn(e, i) => (StrandedIn(d, i) /\ i \notin S)
    /\ Leaves(d, e, S)

LEMMA HasReleasedOneMore ==
    ASSUME NEW d, Sound(d), NEW s \in SUBSET Item, NEW i \in s,
           NEW e, HasReleased(d, s \ {i}, e),
           NEW f, f = releaseSetAsideCopy(e, i)
    PROVE  HasReleased(d, s, f)
<1>1. Sound(e) /\ i \in Item
    BY DEF HasReleased
<1>2. /\ Sound(f) /\ Follows(e, f) /\ (f.ok /\ Coming(e) => Coming(f))
      /\ f.state = e.state /\ f.at = e.at /\ f.resolved = e.resolved
      /\ ~ StrandedIn(f, i)
      /\ \A j \in Item : StrandedIn(f, j) => StrandedIn(e, j)
      /\ Leaves(e, f, {i})
    BY <1>1, ReleaseKeeps
<1>3. d \in Database /\ e \in Database /\ f \in Database /\ RowsSound(f)
    BY <1>1, <1>2 DEF Sound
<1>4. Follows(d, f)
    BY <1>2, <1>3, FollowsOn DEF HasReleased
<1>5. f.ok => e.ok
    BY <1>2 DEF Follows, HoldsFollow
<1>6. Leaves(d, f, s)
    BY <1>2 DEF HasReleased, Leaves
<1> QED
    BY <1>2, <1>4, <1>5, <1>6 DEF HasReleased

LEMMA ReleaseAllKeeps ==
    ASSUME NEW d, Sound(d), NEW S \in SUBSET Item, IsFiniteSet(S)
    PROVE  HasReleased(d, S, releaseAll(d, S))
<1> DEFINE D == [s \in SUBSET S |-> {e \in SoundDb : HasReleased(d, s, e)}]
<1>1. D \in [SUBSET S -> SUBSET SoundDb]
    OBVIOUS
<1>2. HasReleased(d, {}, d)
    BY FollowsItself DEF HasReleased, Sound, Leaves
<1>3. d \in D[{}]
    BY <1>2 DEF SoundDb, Sound
<1>4. ASSUME NEW i \in S, NEW e \in SoundDb PROVE releaseSetAsideCopy(e, i) \in SoundDb
    <2>1. Sound(e) /\ i \in Item
        BY DEF SoundDb
    <2>2. Sound(releaseSetAsideCopy(e, i))
        BY <2>1, ReleaseKeeps
    <2> QED
        BY <2>2 DEF SoundDb, Sound
<1>5. ASSUME NEW s \in SUBSET S, s # {}, NEW e \in D[s \ {Pick(s)}]
      PROVE  releaseSetAsideCopy(e, Pick(s)) \in D[s]
    <2>1. Pick(s) \in s /\ s \in SUBSET Item /\ s \ {Pick(s)} \in SUBSET S
        BY <1>5 DEF Pick
    <2>2. HasReleased(d, s \ {Pick(s)}, e)
        BY <1>5, <2>1
    <2>3. HasReleased(d, s, releaseSetAsideCopy(e, Pick(s)))
        BY <2>1, <2>2, HasReleasedOneMore
    <2>4. releaseSetAsideCopy(e, Pick(s)) \in SoundDb
        BY <2>3 DEF HasReleased, SoundDb, Sound
    <2> QED
        BY <2>3, <2>4
<1> HIDE DEF D
<1>6. releaseAll(d, S) \in D[S]
    BY <1>1, <1>3, <1>4, <1>5, ReleaseAllWithin
<1> QED
    BY <1>6 DEF D

LentDb(d, r) == [d EXCEPT !.loan[r.item] = r.patron, !.status[r.item] = "on_loan"]

LEMMA LentKeeps ==
    ASSUME NEW d, Sound(d), NEW r, r.item \in Item, r.patron \in Patron,
           NEW e, e = LentDb(d, r)
    PROVE  /\ Sound(e) /\ HoldsFollow(d, e) /\ (Coming(d) => Coming(e))
           /\ e.state = d.state /\ e.copy = d.copy /\ e.resolved = d.resolved
           /\ e.pos = d.pos /\ e.susp = d.susp /\ e.ok = d.ok
           /\ e.shelf = d.shelf /\ e.van = d.van
           /\ e.loan = [d.loan EXCEPT ![r.item] = r.patron]
           /\ e.status[r.item] = "on_loan"
           /\ \A i \in Item \ {r.item} : e.status[i] = d.status[i]
<1>1. d \in Database /\ QueuesSound(d.pos) /\ RowsSound(d) /\ LoansSound(d)
    BY DEF Sound
<1>2. /\ e.at = d.at /\ e.archived = d.archived /\ e.van = d.van
      /\ e.resolved = d.resolved /\ e.ok = d.ok
      /\ e.state = d.state /\ e.susp = d.susp /\ e.prio = d.prio
      /\ e.copy = d.copy /\ e.pos = d.pos /\ e.shelf = d.shelf
      /\ e.loan = [d.loan EXCEPT ![r.item] = r.patron]
      /\ e.status = [d.status EXCEPT ![r.item] = "on_loan"]
    BY <1>1, Zenon DEF LentDb, Database
<1>3. /\ d.status \in [Item -> ItemStatus] /\ d.pos \in [Hold -> Nat]
      /\ d.loan \in [Item -> Patron \cup {None}]
    BY <1>1, DbFields
<1>4. /\ e.status[r.item] = "on_loan" /\ e.loan[r.item] = r.patron
      /\ \A i \in Item \ {r.item} : e.status[i] = d.status[i] /\ e.loan[i] = d.loan[i]
    BY <1>2, <1>3
<1>5. e \in Database
    <2>1. e.status \in [Item -> ItemStatus]
        BY <1>2, <1>3 DEF ItemStatus
    <2>2. e.loan \in [Item -> Patron \cup {None}]
        BY <1>2, <1>3
    <2> QED
        BY <1>1, <1>2, <2>1, <2>2, Zenon DEF Database, LentDb
<1>6. r.patron # None
    BY NoneAssumption
<1>7. RowsSound(e)
    BY <1>1, <1>2 DEF RowsSound, Open
<1>8. LoansSound(e)
    BY <1>1, <1>4, <1>6 DEF LoansSound
<1>9. Sound(e)
    BY <1>1, <1>2, <1>5, <1>7, <1>8 DEF Sound
<1>10. HoldsFollow(d, e)
    BY <1>1, <1>2, FollowsItself DEF Follows, HoldsFollow, Open
<1>11. Coming(d) => Coming(e)
    BY <1>2 DEF Coming, Open
<1> QED
    BY <1>2, <1>4, <1>9, <1>10, <1>11

Closed(d, own) ==
    [d EXCEPT !.resolved = @ \cup ({Request[h].group : h \in own} \ {None})]

LEMMA ClosedKeeps ==
    ASSUME NEW d, Sound(d), NEW own \in SUBSET Hold, NEW e, e = Closed(d, own)
    PROVE  /\ Sound(e) /\ Follows(d, e) /\ (Coming(d) => Coming(e))
           /\ e.status = d.status /\ e.van = d.van /\ e.ok = d.ok
           /\ e.loan = d.loan
           /\ e.state = d.state /\ e.copy = d.copy /\ e.shelf = d.shelf
           /\ e.resolved = d.resolved \cup ({Request[h].group : h \in own} \ {None})
<1>1. d \in Database /\ QueuesSound(d.pos) /\ RowsSound(d) /\ LoansSound(d)
    BY DEF Sound
<1>2. /\ e.at = d.at /\ e.archived = d.archived /\ e.van = d.van
      /\ e.status = d.status /\ e.loan = d.loan /\ e.ok = d.ok
      /\ e.state = d.state /\ e.susp = d.susp /\ e.prio = d.prio
      /\ e.copy = d.copy /\ e.pos = d.pos /\ e.shelf = d.shelf
      /\ e.resolved = d.resolved \cup ({Request[h].group : h \in own} \ {None})
    BY <1>1, Zenon DEF Closed, Database
<1>3. e \in Database
    <2>1. \A h \in own : Request[h].group \in Group \cup {None}
        BY RequestAssumption DEF RequestType
    <2>2. d.resolved \in SUBSET Group
        BY <1>1, DbFields
    <2>3. e.resolved \in SUBSET Group
        BY <1>2, <2>1, <2>2
    <2> QED
        BY <1>1, <1>2, <2>3, Zenon DEF Database, Closed
<1>4. RowsSound(e) /\ LoansSound(e)
    BY <1>1, <1>2 DEF RowsSound, Open, LoansSound
<1>5. Sound(e)
    BY <1>1, <1>2, <1>3, <1>4 DEF Sound
<1>6. Follows(d, e)
    BY <1>1, <1>2, FollowsItself DEF Follows, HoldsFollow, Open
<1>7. Coming(d) => Coming(e)
    BY <1>2 DEF Coming, Open
<1> QED
    BY <1>2, <1>5, <1>6, <1>7

\* The copies a set of holds has.
LEMMA CopiesFinite ==
    ASSUME NEW d \in Database, NEW S \in SUBSET Hold
    PROVE  /\ {d.copy[g] : g \in S} \ {None} \in SUBSET Item
           /\ IsFiniteSet({d.copy[g] : g \in S} \ {None})
           /\ IsFiniteSet({d.copy[g] : g \in S})
<1>1. d.copy \in [Hold -> Item \cup {None}]
    BY DbFields
<1>2. IsFiniteSet(S)
    BY BoundsAssumption, FS_Subset
<1>3. IsFiniteSet({d.copy[g] : g \in S})
    <2> DEFINE T == {d.copy[g] : g \in S}
               f == [g \in S |-> d.copy[g]]
    <2>1. f \in Surjection(S, T)
        BY DEF Surjection
    <2> HIDE DEF f, T
    <2>2. IsFiniteSet(T)
        BY <1>2, <2>1, FS_Surjection
    <2> QED
        BY <2>2 DEF T
<1>4. {d.copy[g] : g \in S} \ {None} \subseteq {d.copy[g] : g \in S}
    OBVIOUS
<1>5. IsFiniteSet({d.copy[g] : g \in S} \ {None})
    BY <1>3, <1>4, FS_Subset
<1> QED
    BY <1>1, <1>3, <1>5

\* A checkout, loops and all: what it does to the loan, to the requests it fills
\* and cancels, to the group and to the copies it frees.
LEMMA LendKeeps ==
    ASSUME NEW d, Sound(d), NEW r, r.item \in Item, r.patron \in Patron,
           r.own \in SUBSET Item,
           NEW own, own = OwnHold(d, r.patron, r.item),
           NEW sib, sib = Siblings(d, own),
           NEW e, e = Lend(d, r)
    PROVE  /\ Sound(e) /\ HoldsFollow(d, e) /\ (e.ok /\ Coming(d) => Coming(e))
           /\ e.loan = [d.loan EXCEPT ![r.item] = r.patron]
           /\ e.resolved = d.resolved \cup ({Request[h].group : h \in own} \ {None})
           /\ \A h \in Hold : e.state[h] = IF h \in sib THEN "cancelled"
                                           ELSE IF h \in own THEN "fulfilled"
                                           ELSE d.state[h]
           /\ \A i \in Item : StrandedIn(e, i) =>
                \/ StrandedIn(d, i)
                \/ i # r.item /\ i \notin r.own
           /\ (\A g \in sib : d.copy[g] \in {None, r.item} \cup r.items)
                => Touches(d, e, {r.item} \cup r.own \cup r.items)
<1> DEFINE lent == LentDb(d, r)
           filled == EndAll(lent, own, "fulfilled")
           spare == ({d.copy[h] : h \in own} \ {r.item}) \cap r.own
           freed == releaseAll(filled, spare)
           ended == EndAll(freed, sib, "cancelled")
           closed == Closed(ended, own)
           copies == {freed.copy[g] : g \in sib} \ {None}
<1>1. e = releaseAll(closed, copies)
    BY DEF Lend, resolveGroup, LentDb, Closed
<1>2. own \in SUBSET Hold /\ sib \in SUBSET Hold /\ own \cap sib = {}
    BY DEF OwnHold, Siblings
<1>3. "fulfilled" \in Ended /\ "cancelled" \in Ended
    BY DEF Ended
<1>4. /\ Sound(lent) /\ HoldsFollow(d, lent) /\ (Coming(d) => Coming(lent))
      /\ lent.state = d.state /\ lent.copy = d.copy /\ lent.resolved = d.resolved
      /\ lent.pos = d.pos /\ lent.susp = d.susp /\ lent.ok = d.ok
      /\ lent.van = d.van
      /\ lent.loan = [d.loan EXCEPT ![r.item] = r.patron]
      /\ lent.status[r.item] = "on_loan"
      /\ \A i \in Item \ {r.item} : lent.status[i] = d.status[i]
    <2> HIDE DEF lent
    <2> QED
        BY LentKeeps DEF lent
<1> HIDE DEF lent
<1>5. HasEnded(lent, own, "fulfilled", filled)
    BY <1>2, <1>3, <1>4, EndAllKeeps
<1> HIDE DEF filled
<1>6. spare \in SUBSET Item /\ IsFiniteSet(spare)
    <2>1. IsFiniteSet({d.copy[h] : h \in own})
        BY <1>2, CopiesFinite DEF Sound
    <2>2. spare \subseteq {d.copy[h] : h \in own} /\ spare \subseteq r.own
        OBVIOUS
    <2> HIDE DEF spare
    <2> QED
        BY <2>1, <2>2, FS_Subset
<1>7. \A i \in Item : (\E h \in own : d.copy[h] = i) /\ i # r.item /\ i \notin spare
            => i \notin r.own
    OBVIOUS
<1>s. spare \subseteq r.own
    OBVIOUS
<1> HIDE DEF spare
<1>8. Sound(filled)
    BY <1>5 DEF HasEnded
<1>9. HasReleased(filled, spare, freed)
    BY <1>6, <1>8, ReleaseAllKeeps
<1> HIDE DEF freed
<1>10. Sound(freed)
    BY <1>9 DEF HasReleased
<1>11. HasEnded(freed, sib, "cancelled", ended)
    BY <1>2, <1>3, <1>10, EndAllKeeps
<1> HIDE DEF ended
<1>12. Sound(ended)
    BY <1>11 DEF HasEnded
<1>13. /\ Sound(closed) /\ Follows(ended, closed) /\ (Coming(ended) => Coming(closed))
       /\ closed.status = ended.status /\ closed.ok = ended.ok
       /\ closed.van = ended.van
       /\ closed.state = ended.state /\ closed.copy = ended.copy
       /\ closed.resolved = ended.resolved \cup ({Request[h].group : h \in own} \ {None})
    BY <1>2, <1>12, ClosedKeeps
<1> HIDE DEF closed
<1>14. copies \in SUBSET Item /\ IsFiniteSet(copies)
    BY <1>2, <1>10, CopiesFinite DEF Sound
<1>15. \A g \in sib : \A i \in Item : freed.copy[g] = i => i \in copies
    BY NoneAssumption
<1>c. \A i \in copies : \E g \in sib : freed.copy[g] = i
    OBVIOUS
<1> HIDE DEF copies
<1>16. HasReleased(closed, copies, e)
    BY <1>1, <1>13, <1>14, ReleaseAllKeeps
<1>17. Sound(e)
    BY <1>16 DEF HasReleased
<1>18. Follows(lent, e)
    <2>1. /\ lent \in Database /\ filled \in Database /\ freed \in Database
          /\ ended \in Database /\ closed \in Database /\ e \in Database
          /\ RowsSound(freed) /\ RowsSound(ended) /\ RowsSound(closed) /\ RowsSound(e)
        BY <1>4, <1>8, <1>10, <1>12, <1>13, <1>17 DEF Sound
    <2>2. Follows(lent, freed)
        <3>1. Follows(lent, filled) /\ Follows(filled, freed)
            BY <1>5, <1>9 DEF HasEnded, HasReleased
        <3> QED
            BY <2>1, <3>1, FollowsOn
    <2>3. Follows(freed, closed)
        <3>1. Follows(freed, ended)
            BY <1>11 DEF HasEnded
        <3> QED
            BY <1>13, <2>1, <3>1, FollowsOn
    <2>4. Follows(closed, e)
        BY <1>16 DEF HasReleased
    <2>5. Follows(lent, closed)
        BY <2>1, <2>2, <2>3, FollowsOn
    <2> QED
        BY <2>1, <2>4, <2>5, FollowsOn
<1>19. e.loan = [d.loan EXCEPT ![r.item] = r.patron]
    BY <1>4, <1>18 DEF Follows
<1>20. HoldsFollow(d, e)
    BY <1>4, <1>18 DEF Follows, HoldsFollow, Open
<1>21. e.ok /\ Coming(d) => Coming(e)
    <2>1. e.ok => closed.ok
        BY <1>16 DEF HasReleased, Follows, HoldsFollow
    <2>2. closed.ok = freed.ok
        BY <1>11, <1>13 DEF HasEnded
    <2>3. Coming(d) => Coming(filled)
        BY <1>4, <1>5 DEF HasEnded
    <2>4. freed.ok /\ Coming(filled) => Coming(freed)
        BY <1>9 DEF HasReleased
    <2>5. Coming(freed) => Coming(closed)
        BY <1>11, <1>13 DEF HasEnded
    <2>6. e.ok /\ Coming(closed) => Coming(e)
        BY <1>16 DEF HasReleased
    <2> QED
        BY <2>1, <2>2, <2>3, <2>4, <2>5, <2>6
<1>22. e.resolved = d.resolved \cup ({Request[h].group : h \in own} \ {None})
    <2>1. filled.resolved = lent.resolved /\ ended.resolved = freed.resolved
        BY <1>5, <1>11 DEF HasEnded
    <2>2. freed.resolved = filled.resolved /\ e.resolved = closed.resolved
        BY <1>9, <1>16 DEF HasReleased
    <2> QED
        BY <1>4, <1>13, <2>1, <2>2
<1>23. ASSUME NEW h \in Hold
       PROVE  e.state[h] = IF h \in sib THEN "cancelled"
                           ELSE IF h \in own THEN "fulfilled" ELSE d.state[h]
    <2>1. filled.state[h] = IF h \in own THEN "fulfilled" ELSE lent.state[h]
        BY <1>5 DEF HasEnded
    <2>2. ended.state[h] = IF h \in sib THEN "cancelled" ELSE freed.state[h]
        BY <1>11 DEF HasEnded
    <2>3. freed.state = filled.state /\ e.state = closed.state
        BY <1>9, <1>16 DEF HasReleased
    <2> QED
        BY <1>4, <1>13, <2>1, <2>2, <2>3
<1>24. ASSUME NEW i \in Item, StrandedIn(e, i), ~ StrandedIn(d, i)
       PROVE  i # r.item /\ i \notin r.own
    <2>1. StrandedIn(closed, i) /\ i \notin copies
        BY <1>16, <1>24 DEF HasReleased
    <2>2. StrandedIn(freed, i)
        <3>1. ended.status = freed.status /\ Assigned(ended, i) = {}
            BY <1>11, <1>13, <2>1 DEF HasEnded, StrandedIn, Assigned, Open
        <3>2. ASSUME NEW g \in Assigned(freed, i) PROVE FALSE
            <4>1. g \in Hold /\ Open(freed, g) /\ freed.copy[g] = i
                BY DEF Assigned
            <4>2. g \notin sib
                BY <1>15, <2>1, <4>1
            <4>3. ended.state[g] = freed.state[g] /\ ended.copy[g] = freed.copy[g]
                BY <1>11, <4>1, <4>2 DEF HasEnded
            <4>4. g \in Assigned(ended, i)
                BY <4>1, <4>3 DEF Assigned, Open
            <4> QED
                BY <3>1, <4>4
        <3> QED
            BY <1>13, <2>1, <3>1, <3>2 DEF StrandedIn
    <2>3. StrandedIn(filled, i) /\ i \notin spare
        BY <1>9, <2>2 DEF HasReleased
    <2>4. filled.status = lent.status
        BY <1>5 DEF HasEnded
    <2>5. i # r.item
        BY <1>4, <2>3, <2>4 DEF StrandedIn
    <2>6. \E h \in own : d.copy[h] = i
        <3>1. d.status[i] = "awaiting_pickup"
            BY <1>4, <2>3, <2>4, <2>5 DEF StrandedIn
        <3>2. PICK g \in Assigned(d, i) : TRUE
            BY <1>24, <3>1 DEF StrandedIn
        <3>3. g \in Hold /\ Open(d, g) /\ d.copy[g] = i
            BY <3>2 DEF Assigned
        <3>4. CASE g \notin own
            <4>1. filled.state[g] = lent.state[g] /\ filled.copy[g] = lent.copy[g]
                BY <1>5, <3>3, <3>4 DEF HasEnded
            <4>2. g \in Assigned(filled, i)
                BY <1>4, <3>3, <4>1 DEF Assigned, Open
            <4> QED
                BY <2>3, <4>2 DEF StrandedIn
        <3> QED
            BY <3>3, <3>4
    <2> QED
        BY <1>7, <2>3, <2>5, <2>6
<1>25. ASSUME \A g \in sib : d.copy[g] \in {None, r.item} \cup r.items
       PROVE  Touches(d, e, {r.item} \cup r.own \cup r.items)
    <2> DEFINE L == {r.item} \cup r.own \cup r.items
    <2>1. ASSUME NEW i \in Item \ L
          PROVE  i \notin spare /\ i \notin copies /\ \A g \in sib : d.copy[g] # i
        <3>1. i \notin spare /\ i # None /\ \A g \in sib : d.copy[g] # i
            BY <1>s, <1>25, <2>1, NoneAssumption
        <3>2. ASSUME NEW g \in sib PROVE freed.copy[g] # i
            <4>1. g \in Hold /\ g \notin own
                BY <1>2
            <4>2. filled.copy[g] = d.copy[g]
                BY <1>4, <1>5, <4>1 DEF HasEnded
            <4> QED
                BY <1>9, <2>1, <3>1, <4>1, <4>2 DEF HasReleased, Leaves
        <3> QED
            BY <1>c, <3>1, <3>2
    <2> HIDE DEF L
    <2>2. ASSUME NEW i \in Item \ L PROVE e.van[i] = d.van[i]
        <3>1. filled.van = d.van /\ closed.van = freed.van
            BY <1>4, <1>5, <1>11, <1>13 DEF HasEnded
        <3>2. freed.van[i] = filled.van[i] /\ e.van[i] = closed.van[i]
            BY <1>9, <1>16, <2>1 DEF HasReleased, Leaves
        <3> QED
            BY <3>1, <3>2
    <2>3. ASSUME NEW i \in Item \ L, NEW h \in Hold
          PROVE  /\ e.copy[h] = i => d.copy[h] = i
                 /\ d.copy[h] = i => e.copy[h] = i \/ e.state[h] = "fulfilled"
        <3>1. i # None /\ i \notin spare /\ i \notin copies /\ (h \in sib => d.copy[h] # i)
            BY <2>1, NoneAssumption
        <3>2. filled.copy[h] = IF h \in own THEN None ELSE d.copy[h]
            BY <1>4, <1>5 DEF HasEnded
        <3>3. freed.copy[h] = i <=> filled.copy[h] = i
            BY <1>9, <3>1 DEF HasReleased, Leaves
        <3>4. closed.copy[h] = IF h \in sib THEN None ELSE freed.copy[h]
            BY <1>11, <1>13 DEF HasEnded
        <3>5. e.copy[h] = i <=> closed.copy[h] = i
            BY <1>16, <3>1 DEF HasReleased, Leaves
        <3>6. h \in own => e.state[h] = "fulfilled"
            BY <1>2, <1>23
        <3> QED
            BY <3>1, <3>2, <3>3, <3>4, <3>5, <3>6
    <2>4. ASSUME NEW h \in Hold, d.state[h] = "fulfilled" PROVE e.state[h] = "fulfilled"
        <3>1. h \notin own /\ h \notin sib
            BY <2>4 DEF OwnHold, Siblings, Open
        <3> QED
            BY <1>23, <2>4, <3>1
    <2>5. Touches(d, e, L)
        BY <2>2, <2>3, <2>4 DEF Touches
    <2> QED
        BY <2>5 DEF L
<1> QED
    BY <1>17, <1>19, <1>20, <1>21, <1>22, <1>23, <1>24, <1>25

-----------------------------------------------------------------------------
(* What a transaction does to the database, in the terms the properties    *)
(* are about.                                                              *)

Good(d) == Sound(d) /\ Coming(d) /\ d.ok

\* The columns of a state are functions on all rows.
LoansFall(d, e) == \A i \in Item : e.loan[i] = d.loan[i] \/ e.loan[i] = None

StrandsNone(d, e) == \A i \in Item : StrandedIn(e, i) => StrandedIn(d, i)

\* Nobody who is suspended to a date is given a copy, and an open-ended
\* suspension is one that somebody asked for.
Skips(d, e) ==
    \A h \in Hold :
        /\ (e.copy[h] # None =>
                \/ e.copy[h] = d.copy[h]
                \/ d.pos[h] > 0 /\ d.susp[h] # "dated"
                \/ d.state[h] = "unplaced")
        /\ (e.susp[h] = "open" => d.susp[h] = "open" \/ "open" \in Suspensions)

Joins(d, e, h) == d.pos[h] = 0 /\ e.pos = Enqueue(d.pos, Queue(h), h)

KeepsLine(d, e) == SameOrder(d.pos, e.pos) \/ \E h \in Hold : Joins(d, e, h)

\* No hold is opened and none is filled.
OpensNone(d, e) ==
    /\ e.resolved = d.resolved
    /\ \A h \in Hold : /\ (Open(e, h) => Open(d, h))
                       /\ (e.state[h] = "fulfilled" => d.state[h] = "fulfilled")

\* One hold is placed, where its reader has no live hold and its group wants one.
Opens(d, e, h) ==
    /\ e.resolved = d.resolved
    /\ d.state[h] = "unplaced"
    /\ Request[h].group \notin d.resolved
    /\ \A g \in Hold : Bib(g) = Bib(h) /\ Request[g].patron = Request[h].patron
                            => ~ Open(d, g)
    /\ \A g \in Hold : e.state[g] = IF g = h THEN "open" ELSE d.state[g]

PlainStep(d, e) ==
    /\ Good(e) /\ LoansFall(d, e) /\ StrandsNone(d, e) /\ Skips(d, e)
    /\ KeepsLine(d, e) /\ (OpensNone(d, e) \/ \E h \in Hold : Opens(d, e, h))

\* A receipt: no loan and no request but for the time on the shelf, and no copy's
\* status but that of copy i.
QuietStep(d, e, i) ==
    /\ Good(e) /\ e.loan = d.loan /\ HoldsFollow(d, e)
    /\ e.resolved = d.resolved /\ e.state = d.state /\ e.copy = d.copy
    /\ \A j \in Item \ {i} : e.status[j] = d.status[j] /\ e.van[j] = d.van[j]

\* What the helpers give is a plain step when it commits.
LEMMA FollowingIsPlain ==
    ASSUME NEW d, Sound(d), NEW e, Good(e), HoldsFollow(d, e), LoansFall(d, e),
           StrandsNone(d, e), e.resolved = d.resolved,
           \A h \in Hold : e.state[h] = "fulfilled" => d.state[h] = "fulfilled"
    PROVE  PlainStep(d, e)
<1>1. OpensNone(d, e)
    BY DEF OpensNone, HoldsFollow
<1>2. Skips(d, e)
    BY DEF Skips, HoldsFollow
<1>3. KeepsLine(d, e)
    BY DEF KeepsLine, HoldsFollow
<1> QED
    BY <1>1, <1>2, <1>3 DEF PlainStep

\* The same where no hold's row changes but for what is said.
LEMMA SamePositions ==
    ASSUME NEW d, Sound(d), NEW e, e.pos = d.pos
    PROVE  KeepsLine(d, e)
BY FollowsItself DEF KeepsLine, Sound, Follows, HoldsFollow

LEMMA SameLoans ==
    ASSUME NEW d, NEW e, e.loan = d.loan
    PROVE  LoansFall(d, e)
BY DEF LoansFall

WithSusp(d, h, v) == [d EXCEPT !.susp[h] = v]

LEMMA SuspIsPlain ==
    ASSUME NEW d, Good(d), NEW h \in Hold, NEW v \in {"no", "dated", "open"},
           v = "open" => "open" \in Suspensions,
           NEW e, e = WithSusp(d, h, v)
    PROVE  PlainStep(d, e)
<1>1. /\ d \in Database /\ QueuesSound(d.pos) /\ RowsSound(d) /\ LoansSound(d)
      /\ Coming(d) /\ d.ok
    BY DEF Good, Sound
<1>2. /\ e.at = d.at /\ e.archived = d.archived /\ e.van = d.van
      /\ e.loan = d.loan /\ e.resolved = d.resolved /\ e.ok = d.ok
      /\ e.state = d.state /\ e.status = d.status /\ e.prio = d.prio
      /\ e.copy = d.copy /\ e.pos = d.pos /\ e.shelf = d.shelf
      /\ e.susp = [d.susp EXCEPT ![h] = v]
    BY <1>1, Zenon DEF WithSusp, Database
<1>3. d.susp \in [Hold -> {"no", "dated", "open"}]
    BY <1>1, DbFields
<1>4. e \in Database
    <2>1. e.susp \in [Hold -> {"no", "dated", "open"}]
        BY <1>2, <1>3
    <2> QED
        BY <1>1, <1>2, <2>1, Zenon DEF Database, WithSusp
<1>5. RowsSound(e) /\ LoansSound(e) /\ Coming(e)
    BY <1>1, <1>2 DEF RowsSound, LoansSound, Coming, Open
<1>6. Good(e)
    BY <1>1, <1>2, <1>4, <1>5 DEF Good, Sound
<1>7. OpensNone(d, e) /\ StrandsNone(d, e)
    BY <1>2 DEF OpensNone, StrandsNone, StrandedIn, Assigned, Open
<1>8. Skips(d, e)
    BY <1>2, <1>3 DEF Skips
<1>9. KeepsLine(d, e) /\ LoansFall(d, e)
    BY <1>2, SamePositions, SameLoans DEF Good
<1> QED
    BY <1>6, <1>7, <1>8, <1>9 DEF PlainStep

WithPrio(d, h, n) == [d EXCEPT !.prio[h] = n]

LEMMA PrioIsPlain ==
    ASSUME NEW d, Good(d), NEW h \in Hold, NEW n \in Nat,
           NEW e, e = WithPrio(d, h, n)
    PROVE  PlainStep(d, e)
<1>1. /\ d \in Database /\ QueuesSound(d.pos) /\ RowsSound(d) /\ LoansSound(d)
      /\ Coming(d) /\ d.ok
    BY DEF Good, Sound
<1>2. /\ e.at = d.at /\ e.archived = d.archived /\ e.van = d.van
      /\ e.loan = d.loan /\ e.resolved = d.resolved /\ e.ok = d.ok
      /\ e.state = d.state /\ e.status = d.status /\ e.susp = d.susp
      /\ e.copy = d.copy /\ e.pos = d.pos /\ e.shelf = d.shelf
      /\ e.prio = [d.prio EXCEPT ![h] = n]
    BY <1>1, Zenon DEF WithPrio, Database
<1>3. e \in Database
    <2>1. e.prio \in [Hold -> Nat]
        BY <1>1, <1>2, DbFields
    <2> QED
        BY <1>1, <1>2, <2>1, Zenon DEF Database, WithPrio
<1>4. RowsSound(e) /\ LoansSound(e) /\ Coming(e)
    BY <1>1, <1>2 DEF RowsSound, LoansSound, Coming, Open
<1>5. Good(e)
    BY <1>1, <1>2, <1>3, <1>4 DEF Good, Sound
<1>6. OpensNone(d, e) /\ StrandsNone(d, e) /\ Skips(d, e)
    BY <1>2 DEF OpensNone, StrandsNone, StrandedIn, Assigned, Open, Skips
<1>7. KeepsLine(d, e) /\ LoansFall(d, e)
    BY <1>2, SamePositions, SameLoans DEF Good
<1> QED
    BY <1>5, <1>6, <1>7 DEF PlainStep

Lapsed(d, h) == [d EXCEPT !.shelf[h] = "lapsed"]

LEMMA LapsedIsPlain ==
    ASSUME NEW d, Good(d), NEW h \in Hold, d.shelf[h] = "waiting",
           NEW e, e = Lapsed(d, h)
    PROVE  PlainStep(d, e)
<1>1. /\ d \in Database /\ QueuesSound(d.pos) /\ RowsSound(d) /\ LoansSound(d)
      /\ Coming(d) /\ d.ok
    BY DEF Good, Sound
<1>2. /\ e.at = d.at /\ e.archived = d.archived /\ e.van = d.van
      /\ e.loan = d.loan /\ e.resolved = d.resolved /\ e.ok = d.ok
      /\ e.state = d.state /\ e.status = d.status /\ e.susp = d.susp
      /\ e.copy = d.copy /\ e.pos = d.pos /\ e.prio = d.prio
      /\ e.shelf = [d.shelf EXCEPT ![h] = "lapsed"]
    BY <1>1, Zenon DEF Lapsed, Database
<1>3. d.shelf \in [Hold -> {"no", "waiting", "lapsed"}]
    BY <1>1, DbFields
<1>4. e \in Database
    <2>1. e.shelf \in [Hold -> {"no", "waiting", "lapsed"}]
        BY <1>2, <1>3
    <2> QED
        BY <1>1, <1>2, <2>1, Zenon DEF Database, Lapsed
<1>5. \A g \in Hold : e.shelf[g] = "no" <=> d.shelf[g] = "no"
    BY <1>2, <1>3
<1>6. RowsSound(e) /\ LoansSound(e) /\ Coming(e)
    BY <1>1, <1>2, <1>5 DEF RowsSound, LoansSound, Coming, Open
<1>7. Good(e)
    BY <1>1, <1>2, <1>4, <1>6 DEF Good, Sound
<1>8. OpensNone(d, e) /\ StrandsNone(d, e) /\ Skips(d, e)
    BY <1>2 DEF OpensNone, StrandsNone, StrandedIn, Assigned, Open, Skips
<1>9. KeepsLine(d, e) /\ LoansFall(d, e)
    BY <1>2, SamePositions, SameLoans DEF Good
<1> QED
    BY <1>7, <1>8, <1>9 DEF PlainStep

\* A hold is placed at the back of its queue.
LEMMA JoiningIsPlain ==
    ASSUME NEW d, Good(d), NEW h \in Hold, NEW e \in Database,
           e.status = d.status, e.at = d.at, e.loan = d.loan, e.van = d.van,
           e.copy = d.copy, e.shelf = d.shelf, e.resolved = d.resolved, e.ok = d.ok,
           e.state = [d.state EXCEPT ![h] = "open"],
           e.pos = Enqueue(d.pos, Queue(h), h),
           \A g \in Hold : e.susp[g] = "open" => d.susp[g] = "open",
           d.state[h] = "unplaced", Request[h].group \notin d.resolved,
           \A g \in Hold : Bib(g) = Bib(h) /\ Request[g].patron = Request[h].patron
                            => ~ Open(d, g)
    PROVE  PlainStep(d, e)
<1>1. /\ d \in Database /\ QueuesSound(d.pos) /\ RowsSound(d) /\ LoansSound(d)
      /\ Coming(d) /\ d.ok
    BY DEF Good, Sound
<1>2. /\ d.pos \in [Hold -> Nat] /\ d.state \in [Hold -> {"unplaced", "open"} \cup Ended]
    BY <1>1, DbFields
<1>3. d.pos[h] = 0 /\ d.copy[h] = None
    BY <1>1, <1>2 DEF RowsSound, Open
<1>4. /\ e.pos \in [Hold -> Nat] /\ QueuesSound(e.pos)
      /\ e.pos[h] > 0 /\ \A g \in Hold \ {h} : e.pos[g] = d.pos[g]
    BY <1>1, <1>2, <1>3, EnqueueKeeps
<1>5. \A g \in Hold : e.state[g] = IF g = h THEN "open" ELSE d.state[g]
    BY <1>2
<1>6. RowsSound(e)
    BY <1>1, <1>3, <1>4, <1>5 DEF RowsSound, Open
<1>7. LoansSound(e)
    BY <1>1 DEF LoansSound
<1>8. Coming(e)
    BY <1>1, <1>3, <1>5 DEF Coming, Open
<1>9. Good(e)
    BY <1>1, <1>4, <1>6, <1>7, <1>8 DEF Good, Sound
<1>10. Opens(d, e, h)
    BY <1>5 DEF Opens
<1>11. \A i \in Item : Assigned(d, i) \subseteq Assigned(e, i)
    BY <1>5 DEF Assigned, Open
<1>12. StrandsNone(d, e)
    BY <1>11 DEF StrandsNone, StrandedIn
<1>13. KeepsLine(d, e)
    BY <1>3 DEF KeepsLine, Joins
<1> QED
    BY <1>9, <1>10, <1>12, <1>13, SameLoans DEF PlainStep, Skips

PlacedDb(d, h, susp, prio) ==
    [Placed(d, h) EXCEPT !.pos = Enqueue(@, Queue(h), h),
                         !.susp[h] = susp,
                         !.prio[h] = prio]

LEMMA PlaceIsPlain ==
    ASSUME NEW d, Good(d), NEW h \in Hold, NEW s \in {"no", "dated"}, NEW n \in Nat,
           NEW e, e = PlacedDb(d, h, s, n),
           d.state[h] = "unplaced", Request[h].group \notin d.resolved,
           \A g \in Hold : Bib(g) = Bib(h) /\ Request[g].patron = Request[h].patron
                            => ~ Open(d, g)
    PROVE  PlainStep(d, e)
<1>1. d \in Database /\ QueuesSound(d.pos) /\ RowsSound(d)
    BY DEF Good, Sound
<1>2. /\ e.at = d.at /\ e.archived = d.archived /\ e.van = d.van
      /\ e.loan = d.loan /\ e.resolved = d.resolved /\ e.ok = d.ok
      /\ e.status = d.status /\ e.copy = d.copy /\ e.shelf = d.shelf
      /\ e.state = [d.state EXCEPT ![h] = "open"]
      /\ e.pos = Enqueue(d.pos, Queue(h), h)
      /\ e.susp = [d.susp EXCEPT ![h] = s]
      /\ e.prio = [d.prio EXCEPT ![h] = n]
    BY <1>1, Zenon DEF PlacedDb, Placed, Database
<1>3. /\ d.pos \in [Hold -> Nat] /\ d.susp \in [Hold -> {"no", "dated", "open"}]
      /\ d.prio \in [Hold -> Nat]
      /\ d.state \in [Hold -> {"unplaced", "open"} \cup Ended]
    BY <1>1, DbFields
<1>4. d.pos[h] = 0
    BY <1>1, <1>3 DEF RowsSound, Open
<1>5. e.pos \in [Hold -> Nat]
    BY <1>1, <1>2, <1>3, <1>4, EnqueueKeeps
<1>6. e \in Database
    <2>1. /\ e.susp \in [Hold -> {"no", "dated", "open"}] /\ e.prio \in [Hold -> Nat]
        BY <1>2, <1>3
    <2>2. e.state \in [Hold -> {"unplaced", "open", "fulfilled", "cancelled", "expired"}]
        BY <1>2, <1>3 DEF Ended
    <2> QED
        BY <1>1, <1>2, <1>5, <2>1, <2>2, Zenon DEF Database, PlacedDb, Placed
<1>7. \A g \in Hold : e.susp[g] = "open" => d.susp[g] = "open"
    BY <1>2, <1>3
<1> QED
    BY <1>2, <1>6, <1>7, JoiningIsPlain

ImportedDb(d, h) == [Placed(d, h) EXCEPT !.pos = Enqueue(@, Queue(h), h)]

LEMMA ImportIsPlain ==
    ASSUME NEW d, Good(d), NEW h \in Hold, NEW e, e = ImportedDb(d, h),
           d.state[h] = "unplaced", Request[h].group \notin d.resolved,
           \A g \in Hold : Bib(g) = Bib(h) /\ Request[g].patron = Request[h].patron
                            => ~ Open(d, g)
    PROVE  PlainStep(d, e)
<1>1. d \in Database /\ QueuesSound(d.pos) /\ RowsSound(d)
    BY DEF Good, Sound
<1>2. /\ e.at = d.at /\ e.archived = d.archived /\ e.van = d.van
      /\ e.loan = d.loan /\ e.resolved = d.resolved /\ e.ok = d.ok
      /\ e.status = d.status /\ e.copy = d.copy /\ e.shelf = d.shelf
      /\ e.state = [d.state EXCEPT ![h] = "open"]
      /\ e.pos = Enqueue(d.pos, Queue(h), h)
      /\ e.susp = d.susp /\ e.prio = d.prio
    BY <1>1, Zenon DEF ImportedDb, Placed, Database
<1>3. /\ d.pos \in [Hold -> Nat]
      /\ d.state \in [Hold -> {"unplaced", "open"} \cup Ended]
    BY <1>1, DbFields
<1>4. d.pos[h] = 0
    BY <1>1, <1>3 DEF RowsSound, Open
<1>5. e.pos \in [Hold -> Nat]
    BY <1>1, <1>2, <1>3, <1>4, EnqueueKeeps
<1>6. e \in Database
    <2>1. e.state \in [Hold -> {"unplaced", "open", "fulfilled", "cancelled", "expired"}]
        BY <1>2, <1>3 DEF Ended
    <2> QED
        BY <1>1, <1>2, <1>5, <2>1, Zenon DEF Database, ImportedDb, Placed
<1>7. \A g \in Hold : e.susp[g] = "open" => d.susp[g] = "open"
    BY <1>2
<1> QED
    BY <1>2, <1>6, <1>7, JoiningIsPlain

ImportedReady(d, h, i) ==
    [Placed(d, h) EXCEPT !.copy[h] = i,
                         !.shelf[h] = "waiting",
                         !.status[i] = "awaiting_pickup",
                         !.ok = Assigned(d, i) = {}]

LEMMA ImportReadyIsPlain ==
    ASSUME NEW d, Good(d), NEW h \in Hold, NEW i \in Item, BibOfItem[i] = Bib(h),
           NEW e, e = ImportedReady(d, h, i), e.ok,
           d.state[h] = "unplaced", Request[h].group \notin d.resolved,
           \A g \in Hold : Bib(g) = Bib(h) /\ Request[g].patron = Request[h].patron
                            => ~ Open(d, g)
    PROVE  PlainStep(d, e)
<1>1. /\ d \in Database /\ QueuesSound(d.pos) /\ RowsSound(d) /\ LoansSound(d)
      /\ Coming(d) /\ d.ok
    BY DEF Good, Sound
<1>2. /\ e.at = d.at /\ e.archived = d.archived /\ e.van = d.van
      /\ e.loan = d.loan /\ e.resolved = d.resolved
      /\ e.ok = (Assigned(d, i) = {})
      /\ e.susp = d.susp /\ e.prio = d.prio /\ e.pos = d.pos
      /\ e.state = [d.state EXCEPT ![h] = "open"]
      /\ e.copy = [d.copy EXCEPT ![h] = i]
      /\ e.shelf = [d.shelf EXCEPT ![h] = "waiting"]
      /\ e.status = [d.status EXCEPT ![i] = "awaiting_pickup"]
    BY <1>1, Zenon DEF ImportedReady, Placed, Database
<1>3. /\ d.status \in [Item -> ItemStatus] /\ d.pos \in [Hold -> Nat]
      /\ d.state \in [Hold -> {"unplaced", "open"} \cup Ended]
      /\ d.copy \in [Hold -> Item \cup {None}]
      /\ d.shelf \in [Hold -> {"no", "waiting", "lapsed"}]
    BY <1>1, DbFields
<1>4. d.pos[h] = 0 /\ d.copy[h] = None /\ i # None
    BY <1>1, <1>3, NoneAssumption DEF RowsSound, Open
<1>5. e \in Database
    <2>1. e.state \in [Hold -> {"unplaced", "open", "fulfilled", "cancelled", "expired"}]
        BY <1>2, <1>3 DEF Ended
    <2>2. /\ e.copy \in [Hold -> Item \cup {None}]
          /\ e.shelf \in [Hold -> {"no", "waiting", "lapsed"}]
        BY <1>2, <1>3
    <2>3. e.status \in [Item -> ItemStatus]
        BY <1>2, <1>3 DEF ItemStatus
    <2>4. e.ok \in BOOLEAN
        BY <1>2
    <2> QED
        BY <1>1, <1>2, <2>1, <2>2, <2>3, <2>4, Zenon DEF Database, ImportedReady, Placed
<1>6. \A g \in Hold : /\ e.state[g] = IF g = h THEN "open" ELSE d.state[g]
                      /\ e.copy[g] = IF g = h THEN i ELSE d.copy[g]
                      /\ e.shelf[g] = IF g = h THEN "waiting" ELSE d.shelf[g]
    BY <1>2, <1>3
<1>7. \A j \in Item : e.status[j] = IF j = i THEN "awaiting_pickup" ELSE d.status[j]
    BY <1>2, <1>3
<1>8. RowsSound(e)
    BY <1>1, <1>2, <1>3, <1>4, <1>6 DEF RowsSound, Open
<1>9. LoansSound(e)
    BY <1>1, <1>2, <1>7 DEF LoansSound
<1>10. Coming(e)
    BY <1>1, <1>2, <1>6 DEF Coming, Open
<1>11. Good(e)
    BY <1>1, <1>2, <1>5, <1>8, <1>9, <1>10 DEF Good, Sound
<1>12. Opens(d, e, h)
    BY <1>2, <1>6 DEF Opens
<1>13. h \in Assigned(e, i) /\ \A j \in Item : Assigned(d, j) \subseteq Assigned(e, j)
    BY <1>4, <1>6, NoneAssumption DEF Assigned, Open
<1>14. StrandsNone(d, e)
    BY <1>7, <1>13 DEF StrandsNone, StrandedIn
<1>15. Skips(d, e)
    BY <1>2, <1>6 DEF Skips
<1>16. KeepsLine(d, e)
    BY <1>2, SamePositions DEF Good
<1> QED
    BY <1>2, <1>11, <1>12, <1>14, <1>15, <1>16, SameLoans DEF PlainStep

\* A hold ends, and the copy it had is released.
LEMMA EndReleaseIsPlain ==
    ASSUME NEW d, Good(d), NEW h \in Hold, NEW how \in {"cancelled", "expired"},
           NEW i \in Item, d.copy[h] = i,
           NEW e, e = releaseSetAsideCopy(End(d, h, how), i), e.ok
    PROVE  PlainStep(d, e)
<1> DEFINE f == End(d, h, how)
<1>1. Sound(d) /\ Coming(d) /\ d \in Database /\ how \in Ended
    BY DEF Good, Sound, Ended
<1>2. /\ Sound(f) /\ Follows(d, f) /\ (Coming(d) => Coming(f))
      /\ f.status = d.status /\ f.van = d.van /\ f.at = d.at
      /\ f.resolved = d.resolved /\ f.ok = d.ok
      /\ f.state = [d.state EXCEPT ![h] = how]
      /\ f.copy = [d.copy EXCEPT ![h] = None]
      /\ f.shelf = [d.shelf EXCEPT ![h] = "no"]
    BY <1>1, EndKeeps
<1> HIDE DEF f
<1>3. e = releaseSetAsideCopy(f, i)
    BY DEF f
<1>4. /\ Sound(e) /\ Follows(f, e) /\ (e.ok /\ Coming(f) => Coming(e))
      /\ e.state = f.state /\ e.resolved = f.resolved
      /\ ~ StrandedIn(e, i)
      /\ \A j \in Item : StrandedIn(e, j) => StrandedIn(f, j)
      /\ Leaves(f, e, {i})
    BY ONLY <1>2, <1>3, i \in Item, ReleaseKeeps
<1>5. f \in Database /\ e \in Database /\ RowsSound(e)
    BY <1>2, <1>4 DEF Sound
<1>6. Follows(d, e)
    BY <1>1, <1>2, <1>4, <1>5, FollowsOn
<1>7. /\ d.state \in [Hold -> {"unplaced", "open"} \cup Ended]
      /\ d.copy \in [Hold -> Item \cup {None}]
    BY <1>1, DbFields
<1>8. \A g \in Hold : e.state[g] = "fulfilled" => d.state[g] = "fulfilled"
    BY <1>2, <1>4, <1>7
<1>9. \A j \in Item \ {i} : StrandedIn(f, j) => StrandedIn(d, j)
    <2>1. \A j \in Item \ {i} : Assigned(d, j) \subseteq Assigned(f, j)
        BY <1>2, <1>7 DEF Assigned, Open
    <2> QED
        BY <1>2, <2>1 DEF StrandedIn
<1>10. StrandsNone(d, e)
    BY <1>4, <1>9 DEF StrandsNone
<1>11. Good(e)
    BY <1>2, <1>4 DEF Good
<1>12. LoansFall(d, e) /\ HoldsFollow(d, e) /\ e.resolved = d.resolved
    BY <1>2, <1>4, <1>6, SameLoans DEF Follows
<1> QED
    BY <1>1, <1>8, <1>10, <1>11, <1>12, FollowingIsPlain

\* A hold with no copy ends.
LEMMA EndIsPlain ==
    ASSUME NEW d, Good(d), NEW h \in Hold, NEW how \in {"cancelled", "expired"},
           d.copy[h] = None, NEW e, e = End(d, h, how)
    PROVE  PlainStep(d, e)
<1>1. Sound(d) /\ Coming(d) /\ d \in Database /\ how \in Ended
    BY DEF Good, Sound, Ended
<1>ok. d.ok
    BY DEF Good
<1>2. /\ Sound(e) /\ Follows(d, e) /\ (Coming(d) => Coming(e))
      /\ e.status = d.status /\ e.van = d.van /\ e.at = d.at
      /\ e.resolved = d.resolved /\ e.ok = d.ok
      /\ e.state = [d.state EXCEPT ![h] = how]
      /\ e.copy = [d.copy EXCEPT ![h] = None]
      /\ e.shelf = [d.shelf EXCEPT ![h] = "no"]
    BY ONLY <1>1, h \in Hold, e = End(d, h, how), EndKeeps
<1>3. /\ d.state \in [Hold -> {"unplaced", "open"} \cup Ended]
      /\ d.copy \in [Hold -> Item \cup {None}]
    BY <1>1, DbFields
<1>4. \A g \in Hold : e.state[g] = "fulfilled" => d.state[g] = "fulfilled"
    BY <1>2, <1>3
<1>5. \A i \in Item : Assigned(d, i) \subseteq Assigned(e, i)
    BY <1>2, <1>3, NoneAssumption DEF Assigned, Open
<1>6. StrandsNone(d, e)
    BY <1>2, <1>5 DEF StrandsNone, StrandedIn
<1>7. Good(e)
    BY <1>1, <1>2, <1>ok DEF Good
<1>8. LoansFall(d, e) /\ HoldsFollow(d, e) /\ e.resolved = d.resolved
    BY <1>2, SameLoans DEF Follows
<1> QED
    BY <1>1, <1>4, <1>6, <1>7, <1>8, FollowingIsPlain

LEMMA SettleIsPlain ==
    ASSUME NEW d, Good(d), NEW i \in Item, NEW b, NEW e, e = Settle(d, i, b), e.ok
    PROVE  PlainStep(d, e)
<1>1. Sound(d) /\ Coming(d)
    BY DEF Good
<1>2. /\ Sound(e) /\ Follows(d, e) /\ (e.ok /\ Coming(d) => Coming(e))
      /\ e.state = d.state /\ e.resolved = d.resolved
      /\ \A j \in Item : StrandedIn(e, j) => StrandedIn(d, j)
    BY <1>1, SettleKeeps
<1>3. Good(e) /\ StrandsNone(d, e)
    BY <1>1, <1>2 DEF Good, StrandsNone
<1> QED
    BY <1>1, <1>2, <1>3, FollowingIsPlain, SameLoans DEF Follows

LoanClosed(d, i) == [d EXCEPT !.loan[i] = None]

LEMMA LoanClosedKeeps ==
    ASSUME NEW d, Sound(d), NEW i \in Item, d.status[i] # "on_loan",
           NEW e, e = LoanClosed(d, i)
    PROVE  /\ Sound(e) /\ HoldsFollow(d, e) /\ (Coming(d) => Coming(e))
           /\ e.state = d.state /\ e.resolved = d.resolved /\ e.ok = d.ok
           /\ e.status = d.status /\ e.copy = d.copy /\ e.van = d.van
           /\ e.shelf = d.shelf
           /\ e.loan = [d.loan EXCEPT ![i] = None]
           /\ LoansFall(d, e)
<1>1. d \in Database /\ QueuesSound(d.pos) /\ RowsSound(d) /\ LoansSound(d)
    BY DEF Sound
<1>2. /\ e.at = d.at /\ e.archived = d.archived /\ e.van = d.van
      /\ e.resolved = d.resolved /\ e.ok = d.ok /\ e.status = d.status
      /\ e.state = d.state /\ e.susp = d.susp /\ e.prio = d.prio
      /\ e.copy = d.copy /\ e.pos = d.pos /\ e.shelf = d.shelf
      /\ e.loan = [d.loan EXCEPT ![i] = None]
    BY <1>1, Zenon DEF LoanClosed, Database
<1>3. d.loan \in [Item -> Patron \cup {None}]
    BY <1>1, DbFields
<1>4. \A j \in Item : e.loan[j] = IF j = i THEN None ELSE d.loan[j]
    BY <1>2, <1>3
<1>5. e \in Database
    <2>1. e.loan \in [Item -> Patron \cup {None}]
        BY <1>2, <1>3
    <2> QED
        BY <1>1, <1>2, <2>1, Zenon DEF Database, LoanClosed
<1>6. RowsSound(e) /\ LoansSound(e)
    BY <1>1, <1>2, <1>4 DEF RowsSound, Open, LoansSound
<1>7. Sound(e)
    BY <1>1, <1>2, <1>5, <1>6 DEF Sound
<1>8. HoldsFollow(d, e)
    BY <1>1, <1>2, FollowsItself DEF Follows, HoldsFollow, Open
<1>9. Coming(d) => Coming(e)
    BY <1>2 DEF Coming, Open
<1> QED
    BY <1>2, <1>4, <1>7, <1>8, <1>9 DEF LoansFall

\* A return.
LEMMA ReturnIsPlain ==
    ASSUME NEW d, Good(d), NEW i \in Item, NEW b, NEW e, e = Returned(d, i, b), e.ok
    PROVE  PlainStep(d, e)
<1> DEFINE f == Settle(d, i, b)
<1>1. Sound(d) /\ Coming(d) /\ d \in Database
    BY DEF Good, Sound
<1>2. /\ Sound(f) /\ Follows(d, f) /\ (f.ok /\ Coming(d) => Coming(f))
      /\ f.state = d.state /\ f.resolved = d.resolved
      /\ f.status[i] # "on_loan"
      /\ \A j \in Item : StrandedIn(f, j) => StrandedIn(d, j)
    BY <1>1, SettleKeeps
<1>3. e = LoanClosed(f, i)
    BY DEF Returned, LoanClosed
<1> HIDE DEF f
<1>4. /\ Sound(e) /\ HoldsFollow(f, e) /\ (Coming(f) => Coming(e))
      /\ e.state = f.state /\ e.resolved = f.resolved /\ e.ok = f.ok
      /\ e.status = f.status /\ e.copy = f.copy /\ e.van = f.van
      /\ e.shelf = f.shelf
      /\ e.loan = [f.loan EXCEPT ![i] = None]
      /\ LoansFall(f, e)
    BY <1>2, <1>3, LoanClosedKeeps
<1>5. HoldsFollow(d, e)
    <2>1. f \in Database /\ e \in Database /\ RowsSound(e)
        BY <1>2, <1>4 DEF Sound
    <2>2. e.pos \in [Hold -> Nat] /\ f.pos \in [Hold -> Nat] /\ d.pos \in [Hold -> Nat]
        BY <1>1, <2>1, DbFields
    <2>3. SameOrder(d.pos, e.pos)
        BY <1>2, <1>4, <2>2 DEF Follows, HoldsFollow, SameOrder
    <2>4. \A h \in Hold : e.copy[h] # None => Open(e, h)
        BY <2>1 DEF RowsSound
    <2>5. \A h \in Hold : f.pos[h] > 0 => d.pos[h] > 0
        BY <1>2 DEF Follows, HoldsFollow, SameOrder
    <2>6. ASSUME NEW h \in Hold
          PROVE  /\ (Open(e, h) => (Open(d, h) /\ e.susp[h] = d.susp[h]))
                 /\ (e.susp[h] = d.susp[h] \/ e.susp[h] = "no")
                 /\ (e.copy[h] # None =>
                        (e.copy[h] = d.copy[h] \/ (d.pos[h] > 0 /\ d.susp[h] # "dated")))
        <3>1. /\ (Open(f, h) => (Open(d, h) /\ f.susp[h] = d.susp[h]))
              /\ (f.susp[h] = d.susp[h] \/ f.susp[h] = "no")
              /\ (f.copy[h] # None =>
                    (f.copy[h] = d.copy[h] \/ (d.pos[h] > 0 /\ d.susp[h] # "dated")))
            BY <1>2 DEF Follows, HoldsFollow
        <3>2. /\ (Open(e, h) => (Open(f, h) /\ e.susp[h] = f.susp[h]))
              /\ (e.susp[h] = f.susp[h] \/ e.susp[h] = "no")
            BY <1>4 DEF HoldsFollow
        <3> QED
            BY <1>4, <3>1, <3>2
    <2>7. e.ok => d.ok
        BY <1>2, <1>4 DEF Follows, HoldsFollow
    <2> QED
        BY <2>3, <2>6, <2>7 DEF HoldsFollow
<1>6. StrandsNone(d, e)
    BY <1>2, <1>4 DEF StrandsNone, StrandedIn, Assigned, Open
<1>7. LoansFall(d, e)
    BY <1>2, <1>4 DEF Follows, LoansFall
<1>8. Good(e)
    BY <1>1, <1>2, <1>4 DEF Good
<1> QED
    BY <1>1, <1>2, <1>4, <1>5, <1>6, <1>7, <1>8, FollowingIsPlain

LEMMA StatusIsPlain ==
    ASSUME NEW d, Good(d), NEW i \in Item,
           NEW s \in {"available", "missing", "in_process"},
           NEW e, e = WithStatus(d, i, s)
    PROVE  PlainStep(d, e)
<1>1. /\ Sound(d) /\ Coming(d)
      /\ s \in ItemStatus /\ s # "on_loan" /\ s # "awaiting_pickup"
    BY DEF Good, ItemStatus
<1>ok. d.ok
    BY DEF Good
<1>2. /\ Sound(e) /\ Follows(d, e) /\ (Coming(d) => Coming(e))
      /\ e.van = d.van /\ e.state = d.state /\ e.copy = d.copy
      /\ e.at = d.at /\ e.resolved = d.resolved /\ e.ok = d.ok
      /\ e.shelf = d.shelf /\ e.status[i] = s
      /\ \A j \in Item \ {i} : e.status[j] = d.status[j]
    BY <1>1, StatusKeeps
<1>3. StrandsNone(d, e)
    BY <1>1, <1>2 DEF StrandsNone, StrandedIn, Assigned, Open
<1>4. Good(e)
    BY <1>1, <1>2, <1>ok DEF Good
<1> QED
    BY <1>1, <1>2, <1>3, <1>4, FollowingIsPlain, SameLoans DEF Follows

LostDb(d, i) == [d EXCEPT !.loan[i] = None, !.status[i] = "missing"]

LEMMA LostIsPlain ==
    ASSUME NEW d, Good(d), NEW i \in Item, NEW e, e = LostDb(d, i)
    PROVE  PlainStep(d, e)
<1> DEFINE f == WithStatus(d, i, "missing")
<1>1. Sound(d) /\ Coming(d) /\ d \in Database
    BY DEF Good, Sound
<1>ok. d.ok
    BY DEF Good
<1>2. "missing" \in ItemStatus /\ "missing" # "on_loan"
    BY DEF ItemStatus
<1>3. /\ Sound(f) /\ Follows(d, f) /\ (Coming(d) => Coming(f))
      /\ f.van = d.van /\ f.state = d.state /\ f.copy = d.copy
      /\ f.at = d.at /\ f.resolved = d.resolved /\ f.ok = d.ok
      /\ f.shelf = d.shelf /\ f.status[i] = "missing"
      /\ \A j \in Item \ {i} : f.status[j] = d.status[j]
    BY <1>1, <1>2, StatusKeeps
<1>4. e = LoanClosed(f, i)
    BY <1>1, Zenon DEF LostDb, LoanClosed, WithStatus, Database
<1> HIDE DEF f
<1>5. /\ Sound(e) /\ HoldsFollow(f, e) /\ (Coming(f) => Coming(e))
      /\ e.state = f.state /\ e.resolved = f.resolved /\ e.ok = f.ok
      /\ e.status = f.status /\ e.copy = f.copy /\ e.van = f.van
      /\ e.shelf = f.shelf
      /\ e.loan = [f.loan EXCEPT ![i] = None]
      /\ LoansFall(f, e)
    BY <1>2, <1>3, <1>4, LoanClosedKeeps
<1>6. StrandsNone(d, e)
    BY <1>3, <1>5 DEF StrandsNone, StrandedIn, Assigned, Open
<1>7. LoansFall(d, e)
    BY <1>3, <1>5 DEF Follows, LoansFall
<1>8. Good(e)
    BY <1>1, <1>3, <1>5, <1>ok DEF Good
<1>9. KeepsLine(d, e)
    <2>1. e.pos \in [Hold -> Nat] /\ f.pos \in [Hold -> Nat] /\ d.pos \in [Hold -> Nat]
        BY <1>1, <1>3, <1>5, DbFields DEF Sound
    <2>2. SameOrder(d.pos, e.pos)
        BY <1>3, <1>5, <2>1 DEF Follows, HoldsFollow, SameOrder
    <2> QED
        BY <2>2 DEF KeepsLine
<1>10. OpensNone(d, e)
    BY <1>3, <1>5 DEF OpensNone, Open
<1>11. Skips(d, e)
    BY <1>3, <1>5 DEF Skips, Follows, HoldsFollow
<1> QED
    BY <1>6, <1>7, <1>8, <1>9, <1>10, <1>11 DEF PlainStep

ArchivedDb(d, i) == [d EXCEPT !.archived = @ \cup {i}]

LEMMA ArchiveIsPlain ==
    ASSUME NEW d, Good(d), NEW i \in Item, NEW e, e = ArchivedDb(d, i)
    PROVE  PlainStep(d, e)
<1>1. /\ d \in Database /\ QueuesSound(d.pos) /\ RowsSound(d) /\ LoansSound(d)
      /\ Coming(d) /\ d.ok
    BY DEF Good, Sound
<1>2. /\ e.at = d.at /\ e.van = d.van
      /\ e.loan = d.loan /\ e.resolved = d.resolved /\ e.ok = d.ok
      /\ e.state = d.state /\ e.status = d.status /\ e.susp = d.susp
      /\ e.copy = d.copy /\ e.pos = d.pos /\ e.prio = d.prio
      /\ e.shelf = d.shelf /\ e.archived = d.archived \cup {i}
    BY <1>1, Zenon DEF ArchivedDb, Database
<1>3. e \in Database
    <2>1. e.archived \in SUBSET Item
        BY <1>1, <1>2, DbFields
    <2> QED
        BY <1>1, <1>2, <2>1, Zenon DEF Database, ArchivedDb
<1>4. RowsSound(e) /\ LoansSound(e) /\ Coming(e)
    BY <1>1, <1>2 DEF RowsSound, LoansSound, Coming, Open
<1>5. Good(e)
    BY <1>1, <1>2, <1>3, <1>4 DEF Good, Sound
<1>6. OpensNone(d, e) /\ StrandsNone(d, e) /\ Skips(d, e)
    BY <1>2 DEF OpensNone, StrandsNone, StrandedIn, Assigned, Open, Skips
<1>7. KeepsLine(d, e) /\ LoansFall(d, e)
    BY <1>2, SamePositions, SameLoans DEF Good
<1> QED
    BY <1>5, <1>6, <1>7 DEF PlainStep

\* A copy an assigned request is waiting for is in a van, so a second van for it
\* is what item_transfers_one_open_per_item refuses.
LEMMA SendIsPlain ==
    ASSUME NEW d, Good(d), NEW i \in Item, NEW b \in Branch,
           NEW k \in Hold \cup {None}, NEW e, e = Dispatch(d, i, b, k), e.ok
    PROVE  PlainStep(d, e)
<1>1. Sound(d) /\ Coming(d) /\ d \in Database
    BY DEF Good, Sound
<1>2. /\ Sound(e) /\ Follows(d, e)
      /\ e.state = d.state /\ e.copy = d.copy /\ e.shelf = d.shelf
      /\ e.at = d.at /\ e.resolved = d.resolved
      /\ e.ok = (d.ok /\ ~ InVan(d, i))
      /\ e.status[i] = "in_transit"
      /\ \A j \in Item \ {i} : e.status[j] = d.status[j]
      /\ e.van[i] = [to |-> b, hold |-> k]
      /\ \A j \in Item \ {i} : e.van[j] = d.van[j]
    BY ONLY <1>1, i \in Item, b \in Branch, k \in Hold \cup {None},
            e = Dispatch(d, i, b, k), DispatchKeeps
<1>3. d.van[i] = None
    BY <1>2 DEF InVan
<1>4. d.copy \in [Hold -> Item \cup {None}]
    BY <1>1, DbFields
<1>5. Coming(e)
    <2> SUFFICES ASSUME NEW g \in Hold, Open(e, g), e.copy[g] # None, e.shelf[g] = "no"
                 PROVE  e.van[e.copy[g]] = [to |-> Request[g].pickup, hold |-> g]
        BY DEF Coming
    <2>1. d.van[d.copy[g]] = [to |-> Request[g].pickup, hold |-> g]
        BY <1>1, <1>2 DEF Coming, Open
    <2>2. Request[g].pickup \in Branch
        BY RequestAssumption DEF RequestType
    <2>3. [to |-> Request[g].pickup, hold |-> g] \in [to : Branch, hold : Hold \cup {None}]
        BY <2>2
    <2>4. d.copy[g] # i
        BY <1>3, <2>1, <2>3, NoneAssumption
    <2> QED
        BY <1>2, <1>4, <2>1, <2>4
<1>6. StrandsNone(d, e)
    BY <1>2 DEF StrandsNone, StrandedIn, Assigned, Open
<1>7. Good(e)
    BY <1>2, <1>5 DEF Good
<1>8. LoansFall(d, e) /\ HoldsFollow(d, e)
    BY <1>2, SameLoans DEF Follows
<1> QED
    BY <1>1, <1>2, <1>6, <1>7, <1>8, FollowingIsPlain

Unloaded(d, i, b) == [d EXCEPT !.van[i] = None, !.at[i] = b]

LEMMA UnloadedKeeps ==
    ASSUME NEW d, Sound(d), NEW i \in Item, NEW b \in Branch,
           NEW e, e = Unloaded(d, i, b)
    PROVE  /\ Sound(e) /\ Follows(d, e)
           /\ e.state = d.state /\ e.copy = d.copy /\ e.shelf = d.shelf
           /\ e.status = d.status /\ e.resolved = d.resolved /\ e.ok = d.ok
           /\ e.van[i] = None /\ \A j \in Item \ {i} : e.van[j] = d.van[j]
<1>1. d \in Database /\ QueuesSound(d.pos) /\ RowsSound(d) /\ LoansSound(d)
    BY DEF Sound
<1>2. /\ e.archived = d.archived /\ e.status = d.status
      /\ e.loan = d.loan /\ e.resolved = d.resolved /\ e.ok = d.ok
      /\ e.state = d.state /\ e.susp = d.susp /\ e.prio = d.prio
      /\ e.copy = d.copy /\ e.pos = d.pos /\ e.shelf = d.shelf
      /\ e.van = [d.van EXCEPT ![i] = None] /\ e.at = [d.at EXCEPT ![i] = b]
    BY <1>1, Zenon DEF Unloaded, Database
<1>3. /\ d.van \in [Item -> [to : Branch, hold : Hold \cup {None}] \cup {None}]
      /\ d.at \in [Item -> Branch]
    BY <1>1, DbFields
<1>4. e \in Database
    <2>1. /\ e.van \in [Item -> [to : Branch, hold : Hold \cup {None}] \cup {None}]
          /\ e.at \in [Item -> Branch]
        BY <1>2, <1>3
    <2> QED
        BY <1>1, <1>2, <2>1, Zenon DEF Database, Unloaded
<1>5. RowsSound(e) /\ LoansSound(e)
    BY <1>1, <1>2 DEF RowsSound, Open, LoansSound
<1>6. Sound(e)
    BY <1>1, <1>2, <1>4, <1>5 DEF Sound
<1>7. Follows(d, e)
    BY <1>1, <1>2, FollowsItself DEF Follows, HoldsFollow, Open
<1>8. e.van[i] = None /\ \A j \in Item \ {i} : e.van[j] = d.van[j]
    BY <1>2, <1>3
<1> QED
    BY <1>2, <1>6, <1>7, <1>8

\* The request a van was for is collectable when the van arrives: the van was
\* going to the branch it is collected at. The status is what the receipt had read.
LEMMA ReceiveIsQuiet ==
    ASSUME NEW d, Good(d), NEW i \in Item, d.van[i] # None,
           NEW s \in {"available", "awaiting_pickup"},
           NEW c, c = claimOnArrival(Unloaded(d, i, d.van[i].to), i, d.van[i].to),
           NEW e, e = WithStatus(c, i, s)
    PROVE  QuietStep(d, e, i) /\ e.status[i] = s
<1> DEFINE b == d.van[i].to
           f == Unloaded(d, i, b)
<1>1. Sound(d) /\ Coming(d) /\ d \in Database
    BY DEF Good, Sound
<1>ok. d.ok
    BY DEF Good
<1>2. d.van \in [Item -> [to : Branch, hold : Hold \cup {None}] \cup {None}]
    BY <1>1, DbFields
<1>3. d.van[i] \in [to : Branch, hold : Hold \cup {None}]
    BY <1>2
<1>4. b \in Branch /\ c = claimOnArrival(f, i, b)
    BY <1>3
<1>5. \A g \in Hold : d.van[i] = [to |-> Request[g].pickup, hold |-> g]
            => Request[g].pickup = b
    OBVIOUS
<1> HIDE DEF b
<1>6. /\ Sound(f) /\ Follows(d, f)
      /\ f.state = d.state /\ f.copy = d.copy /\ f.shelf = d.shelf
      /\ f.status = d.status /\ f.resolved = d.resolved /\ f.ok = d.ok
      /\ f.van[i] = None /\ \A j \in Item \ {i} : f.van[j] = d.van[j]
    BY ONLY <1>1, <1>4, i \in Item, UnloadedKeeps
<1> HIDE DEF f
<1>7. /\ Sound(c) /\ Follows(f, c)
      /\ c.van = f.van /\ c.state = f.state /\ c.copy = f.copy
      /\ c.resolved = f.resolved /\ c.ok = f.ok
      /\ \A j \in Item \ {i} : c.status[j] = f.status[j]
      /\ \A h \in Hold : c.shelf[h] = IF h \in Claimant(f, i, b) THEN "waiting"
                                                                 ELSE f.shelf[h]
    BY ONLY <1>4, <1>6, i \in Item, ClaimKeeps
<1>s. s \in ItemStatus /\ s # "on_loan"
    BY DEF ItemStatus
<1>8. /\ Sound(e) /\ Follows(c, e) /\ (Coming(c) => Coming(e))
      /\ e.van = c.van /\ e.state = c.state /\ e.copy = c.copy
      /\ e.at = c.at /\ e.resolved = c.resolved /\ e.ok = c.ok
      /\ e.shelf = c.shelf /\ e.status[i] = s
      /\ \A j \in Item \ {i} : e.status[j] = c.status[j]
    BY ONLY <1>7, <1>s, i \in Item, e = WithStatus(c, i, s), StatusKeeps
<1>9. Follows(d, e)
    <2>1. /\ f \in Database /\ c \in Database /\ e \in Database
          /\ RowsSound(c) /\ RowsSound(e)
        BY <1>6, <1>7, <1>8 DEF Sound
    <2>2. Follows(d, c)
        BY <1>1, <1>6, <1>7, <2>1, FollowsOn
    <2> QED
        BY <1>1, <1>8, <2>1, <2>2, FollowsOn
<1>10. d.copy \in [Hold -> Item \cup {None}]
    BY <1>1, DbFields
<1>11. Coming(c)
    <2> SUFFICES ASSUME NEW g \in Hold, Open(c, g), c.copy[g] # None, c.shelf[g] = "no"
                 PROVE  c.van[c.copy[g]] = [to |-> Request[g].pickup, hold |-> g]
        BY DEF Coming
    <2>1. g \notin Claimant(f, i, b) /\ Open(f, g) /\ Open(d, g)
          /\ d.copy[g] = c.copy[g] /\ f.copy[g] = c.copy[g] /\ d.shelf[g] = "no"
        BY <1>6, <1>7 DEF Open
    <2>2. d.van[d.copy[g]] = [to |-> Request[g].pickup, hold |-> g]
        BY <1>1, <2>1 DEF Coming
    <2>3. CASE d.copy[g] = i
        <3>1. Request[g].pickup = b
            BY <1>5, <2>2, <2>3
        <3>2. g \in Claimant(f, i, b)
            BY <2>1, <2>3, <3>1 DEF Claimant, Assigned
        <3> QED
            BY <2>1, <3>2
    <2>4. CASE d.copy[g] # i
        BY <1>6, <1>7, <1>10, <2>1, <2>2, <2>4
    <2> QED
        BY <2>3, <2>4
<1>12. Good(e)
    BY <1>6, <1>7, <1>8, <1>11, <1>ok DEF Good
<1>13. e.loan = d.loan /\ HoldsFollow(d, e)
    BY <1>9 DEF Follows
<1>14. e.resolved = d.resolved /\ e.state = d.state /\ e.copy = d.copy
    BY ONLY <1>6, <1>7, <1>8
<1>15. ASSUME NEW j \in Item \ {i}
       PROVE  e.status[j] = d.status[j] /\ e.van[j] = d.van[j]
    <2>1. e.status[j] = c.status[j]
        BY ONLY <1>8, j \in Item \ {i}
    <2>2. c.status[j] = f.status[j]
        BY ONLY <1>7, j \in Item \ {i}
    <2>3. f.status[j] = d.status[j]
        BY ONLY <1>6, j \in Item \ {i}
    <2>4. e.van = c.van /\ c.van = f.van
        BY ONLY <1>7, <1>8
    <2>5. f.van[j] = d.van[j]
        BY ONLY <1>6, j \in Item \ {i}
    <2> QED
        BY ONLY <2>1, <2>2, <2>3, <2>4, <2>5
<1> QED
    BY <1>8, <1>12, <1>13, <1>14, <1>15 DEF QuietStep

Stopped(d, i) == [d EXCEPT !.van[i] = None, !.status[i] = "available"]

LEMMA StoppedKeeps ==
    ASSUME NEW d, Sound(d), NEW i \in Item, NEW e, e = Stopped(d, i)
    PROVE  /\ Sound(e) /\ Follows(d, e)
           /\ e.state = d.state /\ e.copy = d.copy /\ e.shelf = d.shelf
           /\ e.pos = d.pos /\ e.susp = d.susp
           /\ e.resolved = d.resolved /\ e.ok = d.ok
           /\ e.van[i] = None /\ \A j \in Item \ {i} : e.van[j] = d.van[j]
           /\ e.status[i] = "available"
           /\ \A j \in Item \ {i} : e.status[j] = d.status[j]
<1>1. d \in Database /\ QueuesSound(d.pos) /\ RowsSound(d) /\ LoansSound(d)
    BY DEF Sound
<1>2. /\ e.archived = d.archived /\ e.at = d.at
      /\ e.loan = d.loan /\ e.resolved = d.resolved /\ e.ok = d.ok
      /\ e.state = d.state /\ e.susp = d.susp /\ e.prio = d.prio
      /\ e.copy = d.copy /\ e.pos = d.pos /\ e.shelf = d.shelf
      /\ e.van = [d.van EXCEPT ![i] = None]
      /\ e.status = [d.status EXCEPT ![i] = "available"]
    BY <1>1, Zenon DEF Stopped, Database
<1>3. /\ d.van \in [Item -> [to : Branch, hold : Hold \cup {None}] \cup {None}]
      /\ d.status \in [Item -> ItemStatus]
    BY <1>1, DbFields
<1>4. e \in Database
    <2>1. e.van \in [Item -> [to : Branch, hold : Hold \cup {None}] \cup {None}]
        BY <1>2, <1>3
    <2>2. e.status \in [Item -> ItemStatus]
        BY <1>2, <1>3 DEF ItemStatus
    <2> QED
        BY <1>1, <1>2, <2>1, <2>2, Zenon DEF Database, Stopped
<1>5. /\ e.status[i] = "available"
      /\ \A j \in Item \ {i} : e.status[j] = d.status[j]
    BY <1>2, <1>3
<1>6. RowsSound(e) /\ LoansSound(e)
    BY <1>1, <1>2, <1>5 DEF RowsSound, Open, LoansSound
<1>7. Sound(e)
    BY <1>1, <1>2, <1>4, <1>6 DEF Sound
<1>8. Follows(d, e)
    BY <1>1, <1>2, FollowsItself DEF Follows, HoldsFollow, Open
<1>9. e.van[i] = None /\ \A j \in Item \ {i} : e.van[j] = d.van[j]
    BY <1>2, <1>3
<1> QED
    BY <1>2, <1>5, <1>7, <1>8, <1>9

\* The van is called back and nobody was waiting for it.
LEMMA StopIsPlain ==
    ASSUME NEW d, Good(d), NEW i \in Item, d.van[i].hold \notin Assigned(d, i),
           NEW e, e = Stopped(d, i)
    PROVE  PlainStep(d, e)
<1>1. Sound(d) /\ Coming(d) /\ d \in Database
    BY DEF Good, Sound
<1>ok. d.ok
    BY DEF Good
<1>2. /\ Sound(e) /\ Follows(d, e)
      /\ e.state = d.state /\ e.copy = d.copy /\ e.shelf = d.shelf
      /\ e.pos = d.pos /\ e.susp = d.susp
      /\ e.resolved = d.resolved /\ e.ok = d.ok
      /\ e.van[i] = None /\ \A j \in Item \ {i} : e.van[j] = d.van[j]
      /\ e.status[i] = "available"
      /\ \A j \in Item \ {i} : e.status[j] = d.status[j]
    BY ONLY <1>1, i \in Item, e = Stopped(d, i), StoppedKeeps
<1>3. d.copy \in [Hold -> Item \cup {None}]
    BY <1>1, DbFields
<1>4. Coming(e)
    <2> SUFFICES ASSUME NEW g \in Hold, Open(e, g), e.copy[g] # None, e.shelf[g] = "no"
                 PROVE  e.van[e.copy[g]] = [to |-> Request[g].pickup, hold |-> g]
        BY DEF Coming
    <2>1. d.van[d.copy[g]] = [to |-> Request[g].pickup, hold |-> g] /\ Open(d, g)
        BY <1>1, <1>2 DEF Coming, Open
    <2>2. d.copy[g] # i
        BY <2>1 DEF Assigned
    <2> QED
        BY <1>2, <1>3, <2>1, <2>2
<1>5. StrandsNone(d, e)
    BY <1>2 DEF StrandsNone, StrandedIn, Assigned, Open
<1>6. Good(e)
    BY <1>2, <1>4, <1>ok DEF Good
<1>7. LoansFall(d, e) /\ HoldsFollow(d, e)
    BY <1>2, SameLoans DEF Follows
<1> QED
    BY <1>1, <1>2, <1>5, <1>6, <1>7, FollowingIsPlain

LEMMA RequeueFields ==
    ASSUME NEW d \in Database, NEW h \in Hold, NEW e, e = requeue(d, h)
    PROVE  /\ e.at = d.at /\ e.archived = d.archived /\ e.status = d.status
           /\ e.loan = d.loan /\ e.van = d.van /\ e.resolved = d.resolved
           /\ e.state = d.state /\ e.susp = d.susp /\ e.prio = d.prio
           /\ e.ok = d.ok
           /\ e.copy = [d.copy EXCEPT ![h] = None]
           /\ e.shelf = [d.shelf EXCEPT ![h] = "no"]
           /\ e.pos = Enqueue(d.pos, Queue(h), h)
BY Zenon DEF requeue, Database

\* The van is called back and its reader goes to the back of the queue.
LEMMA RequeueIsPlain ==
    ASSUME NEW d, Good(d), NEW i \in Item, NEW h \in Assigned(d, i),
           d.van[i].hold = h,
           NEW e, e = requeue(Stopped(d, i), h)
    PROVE  PlainStep(d, e)
<1> DEFINE f == Stopped(d, i)
<1>1. Sound(d) /\ Coming(d) /\ d \in Database
    BY DEF Good, Sound
<1>ok. d.ok
    BY DEF Good
<1>2. /\ Sound(f) /\ Follows(d, f)
      /\ f.state = d.state /\ f.copy = d.copy /\ f.shelf = d.shelf
      /\ f.pos = d.pos /\ f.susp = d.susp
      /\ f.resolved = d.resolved /\ f.ok = d.ok
      /\ f.van[i] = None /\ \A j \in Item \ {i} : f.van[j] = d.van[j]
      /\ f.status[i] = "available"
      /\ \A j \in Item \ {i} : f.status[j] = d.status[j]
    BY ONLY <1>1, i \in Item, StoppedKeeps
<1>h. h \in Hold /\ Open(d, h) /\ d.copy[h] = i
    BY DEF Assigned
<1>e. e = requeue(f, h)
    OBVIOUS
<1> HIDE DEF f
<1>3. /\ f \in Database /\ QueuesSound(f.pos) /\ RowsSound(f) /\ LoansSound(f)
    BY <1>2 DEF Sound
<1>4. /\ e.at = f.at /\ e.archived = f.archived /\ e.status = f.status
      /\ e.loan = f.loan /\ e.van = f.van /\ e.resolved = f.resolved
      /\ e.state = f.state /\ e.susp = f.susp /\ e.prio = f.prio
      /\ e.ok = f.ok
      /\ e.copy = [f.copy EXCEPT ![h] = None]
      /\ e.shelf = [f.shelf EXCEPT ![h] = "no"]
      /\ e.pos = Enqueue(f.pos, Queue(h), h)
    BY ONLY <1>3, <1>h, <1>e, RequeueFields
<1>5. /\ f.copy \in [Hold -> Item \cup {None}] /\ f.pos \in [Hold -> Nat]
      /\ f.shelf \in [Hold -> {"no", "waiting", "lapsed"}]
    BY <1>3, DbFields
<1>6. f.pos[h] = 0
    <2>1. f.copy[h] # None
        BY <1>2, <1>h, NoneAssumption
    <2> QED
        BY <1>3, <1>5, <1>h, <2>1 DEF RowsSound
<1>7. /\ e.pos \in [Hold -> Nat] /\ QueuesSound(e.pos)
      /\ e.pos[h] > 0 /\ \A g \in Hold \ {h} : e.pos[g] = f.pos[g]
    BY <1>3, <1>4, <1>5, <1>6, <1>h, EnqueueKeeps
<1>8. /\ \A g \in Hold : e.copy[g] = IF g = h THEN None ELSE f.copy[g]
      /\ \A g \in Hold : e.shelf[g] = IF g = h THEN "no" ELSE f.shelf[g]
      /\ e.copy \in [Hold -> Item \cup {None}]
      /\ e.shelf \in [Hold -> {"no", "waiting", "lapsed"}]
    BY ONLY <1>4, <1>5, <1>h
<1>9. e \in Database
    BY <1>3, <1>4, <1>7, <1>8, <1>e, Zenon DEF Database, requeue
<1>10. RowsSound(e)
    BY <1>2, <1>3, <1>4, <1>7, <1>8, <1>h DEF RowsSound, Open
<1>11. LoansSound(e)
    BY <1>3, <1>4 DEF LoansSound
<1>12. Coming(e)
    <2> SUFFICES ASSUME NEW g \in Hold, Open(e, g), e.copy[g] # None, e.shelf[g] = "no"
                 PROVE  e.van[e.copy[g]] = [to |-> Request[g].pickup, hold |-> g]
        BY DEF Coming
    <2>1. g # h /\ d.copy[g] = e.copy[g] /\ d.shelf[g] = "no" /\ Open(d, g)
        BY <1>2, <1>4, <1>8 DEF Open
    <2>2. d.van[d.copy[g]] = [to |-> Request[g].pickup, hold |-> g]
        BY <1>1, <2>1 DEF Coming
    <2>3. d.copy[g] # i
        BY <2>1, <2>2
    <2> QED
        BY <1>2, <1>4, <1>5, <2>1, <2>2, <2>3
<1>13. Good(e)
    BY <1>2, <1>4, <1>7, <1>9, <1>10, <1>11, <1>12, <1>ok DEF Good, Sound
<1>14. StrandsNone(d, e)
    <2>1. \A j \in Item \ {i} : Assigned(e, j) = Assigned(d, j)
        BY <1>2, <1>4, <1>8, <1>h, NoneAssumption DEF Assigned, Open
    <2> QED
        BY <1>2, <1>4, <2>1 DEF StrandsNone, StrandedIn
<1>15. OpensNone(d, e)
    BY <1>2, <1>4 DEF OpensNone, Open
<1>16. Skips(d, e)
    BY <1>2, <1>4, <1>8 DEF Skips
<1>17. KeepsLine(d, e)
    <2>1. Joins(d, e, h)
        BY <1>2, <1>4, <1>6 DEF Joins
    <2> QED
        BY <1>h, <2>1 DEF KeepsLine
<1>18. LoansFall(d, e)
    BY <1>2, <1>4, SameLoans DEF Follows
<1> QED
    BY <1>13, <1>14, <1>15, <1>16, <1>17, <1>18 DEF PlainStep

-----------------------------------------------------------------------------
(* The inductive invariant.                                                *)

\* holds_one_live_per_patron_bib, which NoLiveHold asks before a hold is placed.
OneLive(d) ==
    \A g, h \in Hold :
        Open(d, g) /\ Open(d, h) /\ Bib(g) = Bib(h)
            /\ Request[g].patron = Request[h].patron => g = h

\* A group is resolved by its one fulfilled member, and has no open ones then.
GroupsSound(d) ==
    /\ \A h \in Hold : Request[h].group \in d.resolved => ~ Open(d, h)
    /\ \A h \in Hold : d.state[h] = "fulfilled" /\ Request[h].group # None
                            => Request[h].group \in d.resolved
    /\ \A g, h \in Hold :
        d.state[g] = "fulfilled" /\ d.state[h] = "fulfilled"
            /\ Request[g].group # None /\ Request[g].group = Request[h].group => g = h

\* What a probe hands to the transaction that follows it.
CheckoutSeen ==
    [op : {"checkout"}, patron : Patron, item : Item, own : SUBSET Item,
     bibs : SUBSET {BibOfItem[i] : i \in Item}, items : SUBSET Item]

CancelSeen == [op : {"cancel"}, hold : Hold, item : Item \cup {None}]

Pending ==
    /\ req \in [Desk -> CheckoutSeen \cup CancelSeen \cup {None}]
    /\ due \in SUBSET [hold : Hold, item : Item]

\* The requests S that a running receipt of copy i has read: every one that has the
\* copy and is to be collected where the van goes; and those that were filled since,
\* by checkouts of other copies.
ReadOf(d, i, S) ==
    /\ d.van[i] # None
    /\ \A h \in Hold : d.copy[h] = i /\ Request[h].pickup = d.van[i].to => h \in S
    /\ \A h \in S : h \in Hold /\ (d.copy[h] = i \/ d.state[h] = "fulfilled")

Receipts ==
    /\ receipt \in [Item -> SUBSET SUBSET Hold]
    /\ \A i \in Item : \A S \in receipt[i] : ReadOf(db, i, S)

CircInv == Good(db) /\ OneLive(db) /\ GroupsSound(db) /\ Pending /\ Receipts

LEMMA InitInv == Init => CircInv
<1> SUFFICES ASSUME Init PROVE CircInv
    OBVIOUS
<1>1. /\ db.status = [i \in Item |-> "available"] /\ db.at = Home
      /\ db.archived = {} /\ db.loan = [i \in Item |-> None]
      /\ db.van = [i \in Item |-> None] /\ db.state = [h \in Hold |-> "unplaced"]
      /\ db.pos = [h \in Hold |-> 0] /\ db.copy = [h \in Hold |-> None]
      /\ db.shelf = [h \in Hold |-> "no"] /\ db.susp = [h \in Hold |-> "no"]
      /\ db.prio = [h \in Hold |-> 0] /\ db.resolved = {} /\ db.ok = TRUE
    BY DEF Init
<1>2. db \in Database
    <2>1. /\ db.status \in [Item -> ItemStatus] /\ db.at \in [Item -> Branch]
          /\ db.archived \in SUBSET Item /\ db.resolved \in SUBSET Group
        BY <1>1, BoundsAssumption DEF ItemStatus
    <2>2. /\ db.loan \in [Item -> Patron \cup {None}]
          /\ db.van \in [Item -> [to : Branch, hold : Hold \cup {None}] \cup {None}]
          /\ db.copy \in [Hold -> Item \cup {None}]
        BY <1>1
    <2>3. /\ db.state \in [Hold -> {"unplaced", "open", "fulfilled", "cancelled", "expired"}]
          /\ db.pos \in [Hold -> Nat] /\ db.prio \in [Hold -> Nat]
          /\ db.shelf \in [Hold -> {"no", "waiting", "lapsed"}]
          /\ db.susp \in [Hold -> {"no", "dated", "open"}]
        BY <1>1
    <2>4. db = [status |-> db.status, at |-> db.at, archived |-> db.archived,
                loan |-> db.loan, van |-> db.van, state |-> db.state, pos |-> db.pos,
                copy |-> db.copy, shelf |-> db.shelf, susp |-> db.susp,
                prio |-> db.prio, resolved |-> db.resolved, ok |-> db.ok]
        BY DEF Init
    <2>5. db.ok \in BOOLEAN
        BY <1>1
    <2> QED
        BY ONLY <2>1, <2>2, <2>3, <2>4, <2>5 DEF Database
<1>3. QueuesSound(db.pos)
    <2>1. \A h \in Hold : db.pos[h] = 0
        BY <1>1
    <2>2. \A h \in Hold : Contiguous(db.pos, Queue(h))
        BY <2>1 DEF Contiguous, Queue
    <2>3. \E n \in Nat : \A h \in Hold : db.pos[h] <= n
        BY <2>1
    <2> QED
        BY <2>2, <2>3 DEF QueuesSound
<1>4. \A h \in Hold : /\ db.state[h] = "unplaced" /\ db.pos[h] = 0
                      /\ db.copy[h] = None /\ db.shelf[h] = "no"
    BY <1>1
<1>5. RowsSound(db) /\ LoansSound(db) /\ Coming(db)
    BY <1>1, <1>4 DEF RowsSound, LoansSound, Coming, Open
<1>6. OneLive(db) /\ GroupsSound(db)
    BY <1>1, <1>4 DEF OneLive, GroupsSound, Open
<1>7. Pending
    BY DEF Init, Pending
<1>8. Good(db)
    BY <1>1, <1>2, <1>3, <1>5 DEF Good, Sound
<1>9. Receipts
    BY DEF Init, Receipts
<1> QED
    BY <1>6, <1>7, <1>8, <1>9 DEF CircInv

-----------------------------------------------------------------------------
(* Every step is a plain one, a checkout, or no step of the database.      *)

LEMMA HoldStepIsPlain ==
    ASSUME CircInv, NEW h \in Hold, HoldStep(h)
    PROVE  PlainStep(db, db') /\ UNCHANGED <<req, due>>
<1>1. Good(db) /\ db \in Database /\ RowsSound(db)
    BY DEF CircInv, Good, Sound
<1>l. \A g \in Hold : NoLiveHold(g) =>
        \A x \in Hold : Bib(x) = Bib(g) /\ Request[x].patron = Request[g].patron
                            => ~ Open(db, x)
    BY DEF NoLiveHold, Queue
<1>2. ASSUME NEW s \in {"no"} \cup (Suspensions \cap {"dated"}), NEW n \in Priorities,
             PlaceHold(h, s, n)
      PROVE  PlainStep(db, db') /\ UNCHANGED <<req, due>>
    <2>1. /\ db.state[h] = "unplaced" /\ NoLiveHold(h)
          /\ Request[h].group \notin db.resolved
          /\ db' = PlacedDb(db, h, s, n) /\ UNCHANGED <<req, due>>
        BY <1>2 DEF PlaceHold, assertGroup, Commit, PlacedDb
    <2>2. s \in {"no", "dated"} /\ n \in Nat
        BY BoundsAssumption
    <2>3. PlainStep(db, db')
        BY ONLY <1>1, <1>l, <2>1, <2>2, h \in Hold, PlaceIsPlain
    <2> QED
        BY <2>1, <2>3
<1>3. ASSUME ImportReadyHold(h)
      PROVE  PlainStep(db, db') /\ UNCHANGED <<req, due>>
    <2> DEFINE copies == {i \in Item : BibOfItem[i] = Bib(h)}
               free == {i \in copies : db.status[i] = "available" /\ i \notin db.archived}
    <2>1. /\ db.state[h] = "unplaced" /\ NoLiveHold(h) /\ Request[h].group = None
          /\ UNCHANGED <<req, due>>
          /\ \/ db' = ImportedDb(db, h)
             \/ free # {} /\ db' = ImportedReady(db, h, Min(free)) /\ db'.ok
        BY <1>3 DEF ImportReadyHold, CommitCopy, Commit, ImportedDb, ImportedReady
    <2>2. Request[h].group \notin db.resolved
        BY <1>1, <2>1, DbFields, NoneAssumption
    <2>3. CASE db' = ImportedDb(db, h)
        <3>1. PlainStep(db, db')
            BY ONLY <1>1, <1>l, <2>1, <2>2, <2>3, h \in Hold, ImportIsPlain
        <3> QED
            BY <2>1, <3>1
    <2>4. CASE free # {} /\ db' = ImportedReady(db, h, Min(free)) /\ db'.ok
        <3>1. Min(free) \in free
            BY <2>4, BoundsAssumption, NatMin
        <3>2. Min(free) \in Item /\ BibOfItem[Min(free)] = Bib(h)
            BY <3>1
        <3> HIDE DEF free
        <3>3. PlainStep(db, db')
            BY ONLY <1>1, <1>l, <2>1, <2>2, <2>4, <3>2, h \in Hold, ImportReadyIsPlain
        <3> QED
            BY <2>1, <3>3
    <2> QED
        BY <2>1, <2>3, <2>4
<1>4. ASSUME NEW s \in Suspensions, SuspendHold(h, s)
      PROVE  PlainStep(db, db') /\ UNCHANGED <<req, due>>
    <2>1. db' = WithSusp(db, h, s) /\ UNCHANGED <<req, due>>
        BY <1>4 DEF SuspendHold, Commit, WithSusp
    <2>2. s \in {"no", "dated", "open"} /\ (s = "open" => "open" \in Suspensions)
        BY BoundsAssumption
    <2>3. PlainStep(db, db')
        BY ONLY <1>1, <2>1, <2>2, h \in Hold, SuspIsPlain
    <2> QED
        BY <2>1, <2>3
<1>5. ASSUME ResumeHold(h) \/ SuspensionEnds(h)
      PROVE  PlainStep(db, db') /\ UNCHANGED <<req, due>>
    <2>1. db' = WithSusp(db, h, "no") /\ UNCHANGED <<req, due>>
        BY <1>5 DEF ResumeHold, SuspensionEnds, Commit, WithSusp
    <2>2. "no" \in {"no", "dated", "open"} /\ ("no" = "open" => "open" \in Suspensions)
        OBVIOUS
    <2>3. PlainStep(db, db')
        BY ONLY <1>1, <2>1, <2>2, h \in Hold, SuspIsPlain
    <2> QED
        BY <2>1, <2>3
<1>6. ASSUME NEW n \in Priorities, Prioritise(h, n)
      PROVE  PlainStep(db, db') /\ UNCHANGED <<req, due>>
    <2>1. db' = WithPrio(db, h, n) /\ UNCHANGED <<req, due>>
        BY <1>6 DEF Prioritise, Commit, WithPrio
    <2>2. n \in Nat
        BY BoundsAssumption
    <2>3. PlainStep(db, db')
        BY ONLY <1>1, <2>1, <2>2, h \in Hold, PrioIsPlain
    <2> QED
        BY <2>1, <2>3
<1>7. ASSUME ShelfTimeUp(h)
      PROVE  PlainStep(db, db') /\ UNCHANGED <<req, due>>
    <2>1. db' = Lapsed(db, h) /\ db.shelf[h] = "waiting" /\ UNCHANGED <<req, due>>
        BY <1>7 DEF ShelfTimeUp, Commit, Lapsed
    <2>2. PlainStep(db, db')
        BY ONLY <1>1, <2>1, h \in Hold, LapsedIsPlain
    <2> QED
        BY <2>1, <2>2
<1>8. ASSUME ExpireRequest(h)
      PROVE  PlainStep(db, db') /\ UNCHANGED <<req, due>>
    <2>1. db' = End(db, h, "expired") /\ db.copy[h] = None /\ UNCHANGED <<req, due>>
        BY <1>8 DEF ExpireRequest, Commit
    <2>2. PlainStep(db, db')
        BY ONLY <1>1, <2>1, h \in Hold, EndIsPlain
    <2> QED
        BY <2>1, <2>2
<1> QED
    BY <1>2, <1>3, <1>4, <1>5, <1>6, <1>7, <1>8 DEF HoldStep

LEMMA ItemStepIsPlain ==
    ASSUME CircInv, NEW i \in Item, ItemStep(i), ~ ReceiveTransfer(i)
    PROVE  (PlainStep(db, db') \/ db' = db) /\ UNCHANGED <<req, due>>
<1>1. Good(db) /\ db \in Database /\ RowsSound(db)
    BY DEF CircInv, Good, Sound
<1>2. ASSUME Fetch(i)
      PROVE  PlainStep(db, db') /\ UNCHANGED <<req, due>>
    <2>1. db' = Settle(db, i, db.at[i]) /\ db'.ok /\ UNCHANGED <<req, due>>
        BY <1>2 DEF Fetch, CommitCopy, Commit
    <2>2. PlainStep(db, db')
        BY ONLY <1>1, <2>1, i \in Item, SettleIsPlain
    <2> QED
        BY <2>1, <2>2
<1>3. ASSUME NEW b \in Branch, Checkin(i, b)
      PROVE  PlainStep(db, db') /\ UNCHANGED <<req, due>>
    <2>1. db' = Returned(db, i, b) /\ db'.ok /\ UNCHANGED <<req, due>>
        BY <1>3 DEF Checkin, CommitCopy, Commit
    <2>2. PlainStep(db, db')
        BY ONLY <1>1, <2>1, i \in Item, ReturnIsPlain
    <2> QED
        BY <2>1, <2>2
<1>4. ASSUME DeclareLost(i)
      PROVE  PlainStep(db, db') /\ UNCHANGED <<req, due>>
    <2>1. db' = LostDb(db, i) /\ UNCHANGED <<req, due>>
        BY <1>4 DEF DeclareLost, CommitCopy, Commit, LostDb
    <2>2. PlainStep(db, db')
        BY ONLY <1>1, <2>1, i \in Item, LostIsPlain
    <2> QED
        BY <2>1, <2>2
<1>5. ASSUME NEW s \in DeskStatuses, SetStatus(i, s)
      PROVE  PlainStep(db, db') /\ UNCHANGED <<req, due>>
    <2>1. db' = WithStatus(db, i, s) /\ UNCHANGED <<req, due>>
        BY <1>5 DEF SetStatus, CommitCopy, Commit, WithStatus
    <2>2. s \in {"available", "missing", "in_process"}
        BY BoundsAssumption
    <2>3. PlainStep(db, db')
        BY ONLY <1>1, <2>1, <2>2, i \in Item, StatusIsPlain
    <2> QED
        BY <2>1, <2>3
<1>6. ASSUME ArchiveItem(i)
      PROVE  PlainStep(db, db') /\ UNCHANGED <<req, due>>
    <2>1. db' = ArchivedDb(db, i) /\ UNCHANGED <<req, due>>
        BY <1>6 DEF ArchiveItem, CommitCopy, Commit, ArchivedDb
    <2>2. PlainStep(db, db')
        BY ONLY <1>1, <2>1, i \in Item, ArchiveIsPlain
    <2> QED
        BY <2>1, <2>2
<1>7. ASSUME NEW b \in SendTo, NEW k \in Hold \cup {None}, SendTransfer(i, b, k)
      PROVE  PlainStep(db, db') /\ UNCHANGED <<req, due>>
    <2>1. db' = Dispatch(db, i, b, k) /\ db'.ok /\ UNCHANGED <<req, due>>
        BY <1>7 DEF SendTransfer, CommitCopy, Commit
    <2>2. b \in Branch
        BY BoundsAssumption
    <2>3. PlainStep(db, db')
        BY ONLY <1>1, <2>1, <2>2, i \in Item, k \in Hold \cup {None}, SendIsPlain
    <2> QED
        BY <2>1, <2>3
<1>8. ASSUME BeginReceipt(i)
      PROVE  db' = db /\ UNCHANGED <<req, due>>
    BY <1>8 DEF BeginReceipt
<1>9. ASSUME CancelTransfer(i)
      PROVE  PlainStep(db, db') /\ UNCHANGED <<req, due>>
    <2>1. /\ db' = (IF db.van[i].hold \in Assigned(db, i)
                    THEN requeue(Stopped(db, i), db.van[i].hold) ELSE Stopped(db, i))
          /\ UNCHANGED <<req, due>>
        BY <1>9 DEF CancelTransfer, CommitCopy, Commit, Stopped
    <2>2. CASE db.van[i].hold \in Assigned(db, i)
        <3>1. db' = requeue(Stopped(db, i), db.van[i].hold)
            BY <2>1, <2>2
        <3>2. PlainStep(db, db')
            BY ONLY <1>1, <2>2, <3>1, i \in Item, RequeueIsPlain
        <3> QED
            BY <2>1, <3>2
    <2>3. CASE db.van[i].hold \notin Assigned(db, i)
        <3>1. db' = Stopped(db, i)
            BY <2>1, <2>3
        <3>2. PlainStep(db, db')
            BY ONLY <1>1, <2>3, <3>1, i \in Item, StopIsPlain
        <3> QED
            BY <2>1, <3>2
    <2> QED
        BY <2>2, <2>3
<1> QED
    BY <1>2, <1>3, <1>4, <1>5, <1>6, <1>7, <1>8, <1>9 DEF ItemStep

LEMMA SweepStepIsPlain ==
    ASSUME CircInv, SweepStep
    PROVE  (PlainStep(db, db') \/ db' = db) /\ req' = req /\ Pending'
<1>1. Good(db) /\ db \in Database /\ RowsSound(db) /\ Pending
    BY DEF CircInv, Good, Sound
<1>2. ASSUME ScanShelf
      PROVE  db' = db /\ req' = req /\ Pending'
    <2>1. db.copy \in [Hold -> Item \cup {None}]
        BY <1>1, DbFields
    <2>2. /\ due' = {[hold |-> h, item |-> db.copy[h]] :
                        h \in {g \in Hold : Open(db, g) /\ db.shelf[g] = "lapsed"}}
          /\ db' = db /\ req' = req
        BY <1>2 DEF ScanShelf
    <2>3. \A h \in Hold : db.shelf[h] = "lapsed" => db.copy[h] \in Item
        BY <1>1, <2>1 DEF RowsSound
    <2>4. due' \in SUBSET [hold : Hold, item : Item]
        BY <2>2, <2>3
    <2> QED
        BY <1>1, <2>2, <2>4 DEF Pending
<1>3. ASSUME NEW row \in due, ExpireShelf(row)
      PROVE  PlainStep(db, db') /\ req' = req /\ Pending'
    <2>1. row.hold \in Hold /\ row.item \in Item
        BY <1>1 DEF Pending
    <2>2. /\ db.copy[row.hold] = row.item /\ db'.ok
          /\ db' = releaseSetAsideCopy(End(db, row.hold, "expired"), row.item)
          /\ due' = due \ {row} /\ req' = req
        BY <1>3 DEF ExpireShelf, StillAssigned, ShelfRow
    <2>3. PlainStep(db, db')
        BY ONLY <1>1, <2>1, <2>2, EndReleaseIsPlain
    <2> QED
        BY <1>1, <2>2, <2>3 DEF Pending
<1>4. ASSUME NEW row \in due, SkipShelfRow(row) \/ SweepFails(row)
      PROVE  db' = db /\ req' = req /\ Pending'
    BY <1>1, <1>4 DEF SkipShelfRow, SweepFails, Pending
<1> QED
    BY <1>2, <1>3, <1>4 DEF SweepStep

\* A checkout is the one step that opens a loan, and the only one that is not plain.
LEMMA DeskStepKinds ==
    ASSUME CircInv, NEW k \in Desk, DeskStep(k)
    PROVE  (PlainStep(db, db') \/ db' = db \/ Checkout(k)) /\ Pending'
<1>1. Good(db) /\ db \in Database /\ RowsSound(db) /\ Pending
    BY DEF CircInv, Good, Sound
<1>c. db.copy \in [Hold -> Item \cup {None}]
    BY <1>1, DbFields
<1>p. req \in [Desk -> CheckoutSeen \cup CancelSeen \cup {None}]
    BY <1>1 DEF Pending
<1>2. ASSUME NEW p \in Patron, NEW i \in Item, ProbeCheckout(k, p, i)
      PROVE  db' = db /\ Pending'
    <2> DEFINE own == OwnHold(db, p, i)
               members == own \cup Siblings(db, own)
               r == [op |-> "checkout", patron |-> p, item |-> i,
                     own   |-> {db.copy[h] : h \in own} \ {i, None},
                     bibs  |-> {Bib(h) : h \in members},
                     items |-> {db.copy[h] : h \in members} \ {None}]
    <2>1. req' = [req EXCEPT ![k] = r] /\ UNCHANGED <<db, due>>
        BY <1>2 DEF ProbeCheckout
    <2>2. own \in SUBSET Hold /\ members \in SUBSET Hold
        BY DEF OwnHold, Siblings
    <2>3. \A h \in Hold : Bib(h) \in {BibOfItem[j] : j \in Item}
        BY RequestAssumption DEF RequestType, Bib
    <2>4. r \in CheckoutSeen
        <3> HIDE DEF own, members
        <3>1. {db.copy[h] : h \in own} \ {i, None} \in SUBSET Item
            BY <1>c, <2>2
        <3>2. {db.copy[h] : h \in members} \ {None} \in SUBSET Item
            BY <1>c, <2>2
        <3>3. {Bib(h) : h \in members} \in SUBSET {BibOfItem[j] : j \in Item}
            BY <2>2, <2>3
        <3> QED
            BY <3>1, <3>2, <3>3 DEF CheckoutSeen
    <2> HIDE DEF r
    <2> QED
        BY <1>1, <1>p, <2>1, <2>4 DEF Pending
<1>3. ASSUME NEW h \in Hold, ProbeCancel(k, h)
      PROVE  db' = db /\ Pending'
    <2> DEFINE r == [op |-> "cancel", hold |-> h, item |-> db.copy[h]]
    <2>1. req' = [req EXCEPT ![k] = r] /\ UNCHANGED <<db, due>>
        BY <1>3 DEF ProbeCancel
    <2>2. r \in CancelSeen
        BY <1>c DEF CancelSeen
    <2> HIDE DEF r
    <2> QED
        BY <1>1, <1>p, <2>1, <2>2 DEF Pending
<1>4. ASSUME Checkout(k) \/ CancelHold(k) \/ Refuse(k)
      PROVE  Pending'
    <2>1. req' = [req EXCEPT ![k] = None] /\ due' = due
        BY <1>4 DEF Checkout, CancelHold, Refuse
    <2> QED
        BY <1>1, <1>p, <2>1 DEF Pending
<1>5. ASSUME CancelHold(k)
      PROVE  PlainStep(db, db')
    <2>1. req[k] # None /\ req[k].op = "cancel" /\ db.copy[req[k].hold] = req[k].item
        BY <1>5 DEF CancelHold
    <2>2. req[k] \in CancelSeen
        BY <1>p, <2>1 DEF CheckoutSeen
    <2>3. req[k].hold \in Hold /\ req[k].item \in Item \cup {None}
        BY <2>2 DEF CancelSeen
    <2>4. CASE req[k].item = None
        <3>1. db' = End(db, req[k].hold, "cancelled") /\ db.copy[req[k].hold] = None
            BY <1>5, <2>1, <2>4 DEF CancelHold
        <3> QED
            BY ONLY <1>1, <2>3, <3>1, EndIsPlain
    <2>5. CASE req[k].item # None
        <3>1. /\ db' = releaseSetAsideCopy(End(db, req[k].hold, "cancelled"), req[k].item)
              /\ db'.ok /\ req[k].item \in Item
            BY <1>5, <2>3, <2>5 DEF CancelHold
        <3> QED
            BY ONLY <1>1, <2>1, <2>3, <3>1, EndReleaseIsPlain
    <2> QED
        BY <2>4, <2>5
<1>6. Refuse(k) => db' = db
    BY DEF Refuse
<1> QED
    BY <1>2, <1>3, <1>4, <1>5, <1>6 DEF DeskStep

\* A checkout that commits, and the request it served.
LEMMA CheckoutLends ==
    ASSUME CircInv, NEW k \in Desk, Checkout(k),
           NEW r, r = req[k], NEW own, own = OwnHold(db, r.patron, r.item),
           NEW sib, sib = Siblings(db, own)
    PROVE  /\ r \in CheckoutSeen /\ r # None /\ r.op = "checkout" /\ req'[k] = None
           /\ CanLend(db, r.patron, r.item)
           /\ Good(db') /\ HoldsFollow(db, db')
           /\ db'.loan = [db.loan EXCEPT ![r.item] = r.patron]
           /\ db'.resolved = db.resolved \cup ({Request[h].group : h \in own} \ {None})
           /\ \A h \in Hold : db'.state[h] = IF h \in sib THEN "cancelled"
                                             ELSE IF h \in own THEN "fulfilled"
                                             ELSE db.state[h]
           /\ \A i \in Item : StrandedIn(db', i) =>
                \/ StrandedIn(db, i)
                \/ i # r.item /\ i \notin r.own
           /\ Touches(db, db', {r.item} \cup r.own \cup r.items)
<1>1. Sound(db) /\ Coming(db) /\ Pending
    BY DEF CircInv, Good
<1>g. \A g \in sib : db.copy[g] \in {None, r.item} \cup r.items
    BY DEF Checkout, GroupRaced
<1>2. /\ r # None /\ r.op = "checkout" /\ CanLend(db, r.patron, r.item)
      /\ db' = Lend(db, r) /\ db'.ok /\ req' = [req EXCEPT ![k] = None]
    BY DEF Checkout
<1>3. r \in CheckoutSeen /\ req'[k] = None
    BY <1>1, <1>2 DEF Pending, CancelSeen
<1>4. r.item \in Item /\ r.patron \in Patron /\ r.own \in SUBSET Item
    BY <1>3 DEF CheckoutSeen
<1>5. /\ Sound(db') /\ HoldsFollow(db, db') /\ (db'.ok /\ Coming(db) => Coming(db'))
      /\ db'.loan = [db.loan EXCEPT ![r.item] = r.patron]
      /\ db'.resolved = db.resolved \cup ({Request[h].group : h \in own} \ {None})
      /\ \A h \in Hold : db'.state[h] = IF h \in sib THEN "cancelled"
                                        ELSE IF h \in own THEN "fulfilled"
                                        ELSE db.state[h]
      /\ \A i \in Item : StrandedIn(db', i) =>
           \/ StrandedIn(db, i)
           \/ i # r.item /\ i \notin r.own
      /\ (\A g \in sib : db.copy[g] \in {None, r.item} \cup r.items)
            => Touches(db, db', {r.item} \cup r.own \cup r.items)
    BY ONLY <1>1, <1>2, <1>4, own = OwnHold(db, r.patron, r.item),
            sib = Siblings(db, own), LendKeeps, SMTT(60)
<1> QED
    BY <1>1, <1>2, <1>3, <1>5, <1>g DEF Good

-----------------------------------------------------------------------------
(* What a running receipt has read stays what it read.                     *)

LEMMA ReadStays ==
    ASSUME NEW d, NEW e, NEW L, Touches(d, e, L), NEW i \in Item \ L, NEW S, ReadOf(d, i, S)
    PROVE  ReadOf(e, i, S)
BY DEF Touches, ReadOf

\* No step of the database touches a copy that a receipt has locked.
TouchesUnlocked == \E L : Unlocked(L \cap Item) /\ Touches(db, db', L)

LEMMA LeavingTouches ==
    ASSUME NEW d, NEW e, NEW S, Leaves(d, e, S),
           \A h \in Hold : d.state[h] = "fulfilled" => e.state[h] = "fulfilled"
    PROVE  Touches(d, e, S)
BY DEF Leaves, Touches

\* Every operation but a checkout that ends a request has its copy's lock, and
\* releases that copy alone.
LEMMA EndReleaseTouches ==
    ASSUME NEW d, Sound(d), NEW h \in Hold, NEW how \in Ended, Open(d, h),
           NEW i \in Item, d.copy[h] = i,
           NEW e, e = releaseSetAsideCopy(End(d, h, how), i)
    PROVE  Touches(d, e, {i})
<1> DEFINE f == End(d, h, how)
<1>1. /\ Sound(f) /\ Follows(d, f) /\ (Coming(d) => Coming(f))
      /\ f.status = d.status /\ f.van = d.van /\ f.at = d.at
      /\ f.resolved = d.resolved /\ f.ok = d.ok
      /\ f.state = [d.state EXCEPT ![h] = how]
      /\ f.copy = [d.copy EXCEPT ![h] = None]
      /\ f.shelf = [d.shelf EXCEPT ![h] = "no"]
    BY EndKeeps
<1>2. /\ d.state \in [Hold -> {"unplaced", "open"} \cup Ended]
      /\ d.copy \in [Hold -> Item \cup {None}]
    BY DbFields DEF Sound
<1> HIDE DEF f
<1>3. e = releaseSetAsideCopy(f, i)
    BY DEF f
<1>4. e.state = f.state /\ Leaves(f, e, {i})
    BY ONLY <1>1, <1>3, i \in Item, ReleaseKeeps
<1>5. Leaves(d, f, {i})
    BY <1>1, <1>2, NoneAssumption DEF Leaves
<1>6. Leaves(d, e, {i})
    BY <1>4, <1>5 DEF Leaves
<1>7. \A g \in Hold : d.state[g] = "fulfilled" => e.state[g] = "fulfilled"
    BY <1>1, <1>2, <1>4 DEF Open
<1> QED
    BY <1>6, <1>7, LeavingTouches

\* A request with no copy ends.
LEMMA EndTouches ==
    ASSUME NEW d, Sound(d), NEW h \in Hold, NEW how \in Ended, Open(d, h),
           d.copy[h] = None, NEW e, e = End(d, h, how)
    PROVE  Touches(d, e, {})
<1>1. /\ Sound(e) /\ Follows(d, e) /\ (Coming(d) => Coming(e))
      /\ e.status = d.status /\ e.van = d.van /\ e.at = d.at
      /\ e.resolved = d.resolved /\ e.ok = d.ok
      /\ e.state = [d.state EXCEPT ![h] = how]
      /\ e.copy = [d.copy EXCEPT ![h] = None]
      /\ e.shelf = [d.shelf EXCEPT ![h] = "no"]
    BY EndKeeps
<1>2. /\ d.state \in [Hold -> {"unplaced", "open"} \cup Ended]
      /\ d.copy \in [Hold -> Item \cup {None}]
    BY DbFields DEF Sound
<1>3. Leaves(d, e, {})
    BY <1>1, <1>2 DEF Leaves
<1>4. \A g \in Hold : d.state[g] = "fulfilled" => e.state[g] = "fulfilled"
    BY <1>1, <1>2 DEF Open
<1> QED
    BY <1>3, <1>4, LeavingTouches

LEMMA SameTouches ==
    ASSUME NEW d, NEW e, e.van = d.van, e.copy = d.copy, e.state = d.state
    PROVE  Touches(d, e, {})
BY DEF Touches

LEMMA HoldStepTouches ==
    ASSUME CircInv, NEW h \in Hold, HoldStep(h)
    PROVE  receipt' = receipt /\ TouchesUnlocked
<1>1. db \in Database /\ Sound(db)
    BY DEF CircInv, Good, Sound
<1>2. /\ db.state \in [Hold -> {"unplaced", "open"} \cup Ended]
      /\ db.copy \in [Hold -> Item \cup {None}]
    BY <1>1, DbFields
<1>3. ASSUME Touches(db, db', {}) PROVE TouchesUnlocked
    <2>1. Unlocked({} \cap Item)
        BY DEF Unlocked
    <2> QED
        BY <1>3, <2>1 DEF TouchesUnlocked
<1>4. ASSUME NEW s, NEW n, PlaceHold(h, s, n)
      PROVE  receipt' = receipt /\ TouchesUnlocked
    <2>1. db' = PlacedDb(db, h, s, n) /\ receipt' = receipt /\ db.state[h] = "unplaced"
        BY <1>4 DEF PlaceHold, Commit, PlacedDb
    <2>2. /\ db'.van = db.van /\ db'.copy = db.copy
          /\ db'.state = [db.state EXCEPT ![h] = "open"]
        BY <1>1, <2>1, Zenon DEF PlacedDb, Placed, Database
    <2>3. Touches(db, db', {})
        BY <1>2, <2>1, <2>2 DEF Touches
    <2> QED
        BY <1>3, <2>1, <2>3
<1>5. ASSUME ImportReadyHold(h)
      PROVE  receipt' = receipt /\ TouchesUnlocked
    <2> DEFINE copies == {i \in Item : BibOfItem[i] = Bib(h)}
               free == {i \in copies : db.status[i] = "available" /\ i \notin db.archived}
    <2>1. /\ db.state[h] = "unplaced" /\ receipt' = receipt
          /\ \/ db' = ImportedDb(db, h)
             \/ /\ db' = ImportedReady(db, h, Min(free))
                /\ Unlocked({Min(free)})
        BY <1>5 DEF ImportReadyHold, CommitCopy, Commit, ImportedDb, ImportedReady
    <2> HIDE DEF free
    <2>2. CASE db' = ImportedDb(db, h)
        <3>1. /\ db'.van = db.van /\ db'.copy = db.copy
              /\ db'.state = [db.state EXCEPT ![h] = "open"]
            BY <1>1, <2>2, Zenon DEF ImportedDb, Placed, Database
        <3>2. Touches(db, db', {})
            BY <1>2, <2>1, <3>1 DEF Touches
        <3> QED
            BY <1>3, <2>1, <3>2
    <2>3. CASE db' = ImportedReady(db, h, Min(free)) /\ Unlocked({Min(free)})
        <3> PICK i : i = Min(free)
            OBVIOUS
        <3>1. /\ db'.van = db.van /\ db'.copy = [db.copy EXCEPT ![h] = i]
              /\ db'.state = [db.state EXCEPT ![h] = "open"]
            BY <1>1, <2>3, Zenon DEF ImportedReady, Placed, Database
        <3>2. db.copy[h] = None
            BY <1>1, <2>1 DEF Sound, RowsSound, Open
        <3>3. Touches(db, db', {i})
            BY <1>2, <2>1, <3>1, <3>2, NoneAssumption DEF Touches
        <3>4. Unlocked({i} \cap Item)
            BY <2>3 DEF Unlocked
        <3> QED
            BY <2>1, <3>3, <3>4 DEF TouchesUnlocked
    <2> QED
        BY <2>1, <2>2, <2>3
<1>6. ASSUME NEW s, \/ SuspendHold(h, s)
                    \/ s = "no" /\ (ResumeHold(h) \/ SuspensionEnds(h))
      PROVE  receipt' = receipt /\ TouchesUnlocked
    <2>1. db' = WithSusp(db, h, s) /\ receipt' = receipt
        BY <1>6 DEF SuspendHold, ResumeHold, SuspensionEnds, Commit, WithSusp
    <2>2. db'.van = db.van /\ db'.copy = db.copy /\ db'.state = db.state
        BY <1>1, <2>1, Zenon DEF WithSusp, Database
    <2> QED
        BY <1>3, <2>1, <2>2, SameTouches
<1>7. ASSUME NEW n, Prioritise(h, n)
      PROVE  receipt' = receipt /\ TouchesUnlocked
    <2>1. db' = WithPrio(db, h, n) /\ receipt' = receipt
        BY <1>7 DEF Prioritise, Commit, WithPrio
    <2>2. db'.van = db.van /\ db'.copy = db.copy /\ db'.state = db.state
        BY <1>1, <2>1, Zenon DEF WithPrio, Database
    <2> QED
        BY <1>3, <2>1, <2>2, SameTouches
<1>8. ASSUME ShelfTimeUp(h)
      PROVE  receipt' = receipt /\ TouchesUnlocked
    <2>1. db' = Lapsed(db, h) /\ receipt' = receipt
        BY <1>8 DEF ShelfTimeUp, Commit, Lapsed
    <2>2. db'.van = db.van /\ db'.copy = db.copy /\ db'.state = db.state
        BY <1>1, <2>1, Zenon DEF Lapsed, Database
    <2> QED
        BY <1>3, <2>1, <2>2, SameTouches
<1>9. ASSUME ExpireRequest(h)
      PROVE  receipt' = receipt /\ TouchesUnlocked
    <2>1. /\ db' = End(db, h, "expired") /\ receipt' = receipt
          /\ Open(db, h) /\ db.copy[h] = None /\ "expired" \in Ended
        BY <1>9 DEF ExpireRequest, Commit, Ended
    <2>2. Touches(db, db', {})
        BY ONLY <1>1, <2>1, h \in Hold, EndTouches
    <2> QED
        BY <1>3, <2>1, <2>2
<1> QED
    BY <1>4, <1>5, <1>6, <1>7, <1>8, <1>9 DEF HoldStep

LEMMA SettleLeaves ==
    ASSUME NEW d, Sound(d), NEW i \in Item, NEW b, NEW e, e = Settle(d, i, b)
    PROVE  e.state = d.state /\ Leaves(d, e, {i}) /\ e \in Database
<1>1. Sound(e) /\ e.state = d.state /\ Leaves(d, e, {i})
    BY SettleKeeps
<1> QED
    BY <1>1 DEF Sound

\* What is done to one copy under its lock.
LEMMA ItemStepTouches ==
    ASSUME CircInv, NEW i \in Item, ItemStep(i), ~ BeginReceipt(i), ~ ReceiveTransfer(i)
    PROVE  receipt' = receipt /\ TouchesUnlocked
<1>1. db \in Database /\ Sound(db)
    BY DEF CircInv, Good, Sound
<1>2. /\ db.copy \in [Hold -> Item \cup {None}]
      /\ db.van \in [Item -> [to : Branch, hold : Hold \cup {None}] \cup {None}]
    BY <1>1, DbFields
<1>3. ASSUME Leaves(db, db', {i}), db'.state = db.state, Unlocked({i})
      PROVE  TouchesUnlocked
    <2>1. Touches(db, db', {i})
        BY <1>3, LeavingTouches
    <2>2. Unlocked({i} \cap Item)
        BY <1>3 DEF Unlocked
    <2> QED
        BY <2>1, <2>2 DEF TouchesUnlocked
<1>4. ASSUME db'.van = db.van, db'.copy = db.copy
      PROVE  Leaves(db, db', {i})
    BY <1>4 DEF Leaves
<1>5. ASSUME NEW b, NEW e, e = Settle(db, i, b)
      PROVE  e.state = db.state /\ Leaves(db, e, {i}) /\ e \in Database
    BY <1>1, <1>5, SettleLeaves
<1>6. ASSUME Fetch(i)
      PROVE  receipt' = receipt /\ TouchesUnlocked
    <2>1. db' = Settle(db, i, db.at[i]) /\ receipt' = receipt /\ Unlocked({i})
        BY <1>6 DEF Fetch, CommitCopy, Commit
    <2> QED
        BY <1>3, <1>5, <2>1
<1>7. ASSUME NEW b, Checkin(i, b)
      PROVE  receipt' = receipt /\ TouchesUnlocked
    <2> PICK e : e = Settle(db, i, b)
        OBVIOUS
    <2>1. db' = LoanClosed(e, i) /\ receipt' = receipt /\ Unlocked({i})
        BY <1>7 DEF Checkin, CommitCopy, Commit, Returned, LoanClosed
    <2>2. e.state = db.state /\ Leaves(db, e, {i}) /\ e \in Database
        BY <1>5
    <2>3. db'.van = e.van /\ db'.copy = e.copy /\ db'.state = e.state
        BY <2>1, <2>2, Zenon DEF LoanClosed, Database
    <2>4. Leaves(db, db', {i}) /\ db'.state = db.state
        BY <2>2, <2>3 DEF Leaves
    <2> QED
        BY <1>3, <2>1, <2>4
<1>8. ASSUME DeclareLost(i)
      PROVE  receipt' = receipt /\ TouchesUnlocked
    <2>1. db' = LostDb(db, i) /\ receipt' = receipt /\ Unlocked({i})
        BY <1>8 DEF DeclareLost, CommitCopy, Commit, LostDb
    <2>2. db'.van = db.van /\ db'.copy = db.copy /\ db'.state = db.state
        BY <1>1, <2>1, Zenon DEF LostDb, Database
    <2> QED
        BY <1>3, <1>4, <2>1, <2>2
<1>9. ASSUME NEW s, SetStatus(i, s)
      PROVE  receipt' = receipt /\ TouchesUnlocked
    <2>1. db' = WithStatus(db, i, s) /\ receipt' = receipt /\ Unlocked({i})
        BY <1>9 DEF SetStatus, CommitCopy, Commit, WithStatus
    <2>2. db'.van = db.van /\ db'.copy = db.copy /\ db'.state = db.state
        BY <1>1, <2>1, Zenon DEF WithStatus, Database
    <2> QED
        BY <1>3, <1>4, <2>1, <2>2
<1>10. ASSUME ArchiveItem(i)
       PROVE  receipt' = receipt /\ TouchesUnlocked
    <2>1. db' = ArchivedDb(db, i) /\ receipt' = receipt /\ Unlocked({i})
        BY <1>10 DEF ArchiveItem, CommitCopy, Commit, ArchivedDb
    <2>2. db'.van = db.van /\ db'.copy = db.copy /\ db'.state = db.state
        BY <1>1, <2>1, Zenon DEF ArchivedDb, Database
    <2> QED
        BY <1>3, <1>4, <2>1, <2>2
<1>11. ASSUME NEW b, NEW k, SendTransfer(i, b, k)
       PROVE  receipt' = receipt /\ TouchesUnlocked
    <2>1. db' = Dispatch(db, i, b, k) /\ receipt' = receipt /\ Unlocked({i})
        BY <1>11 DEF SendTransfer, CommitCopy, Commit
    <2>2. /\ db'.van = [db.van EXCEPT ![i] = [to |-> b, hold |-> k]]
          /\ db'.copy = db.copy /\ db'.state = db.state
        BY <1>1, <2>1, Zenon DEF Dispatch, Database
    <2>3. Leaves(db, db', {i})
        BY <1>2, <2>2 DEF Leaves
    <2> QED
        BY <1>3, <2>1, <2>2, <2>3
<1>12. ASSUME CancelTransfer(i)
       PROVE  receipt' = receipt /\ TouchesUnlocked
    <2> PICK f : f = Stopped(db, i)
        OBVIOUS
    <2> PICK h : h = db.van[i].hold
        OBVIOUS
    <2>1. /\ db' = IF h \in Assigned(db, i) THEN requeue(f, h) ELSE f
          /\ receipt' = receipt /\ Unlocked({i})
        BY <1>12 DEF CancelTransfer, CommitCopy, Commit, Stopped
    <2>2. /\ f.van = [db.van EXCEPT ![i] = None]
          /\ f.copy = db.copy /\ f.state = db.state
        BY <1>1, Zenon DEF Stopped, Database
    <2>s. Sound(f)
        BY <1>1, StoppedKeeps
    <2>3. CASE h \notin Assigned(db, i)
        <3>1. Leaves(db, db', {i}) /\ db'.state = db.state
            BY <1>2, <2>1, <2>2, <2>3 DEF Leaves
        <3> QED
            BY <1>3, <2>1, <3>1
    <2>4. CASE h \in Assigned(db, i)
        <3>1. h \in Hold /\ db.copy[h] = i /\ f \in Database /\ db' = requeue(f, h)
            BY <2>1, <2>4, <2>s DEF Assigned, Sound
        <3>2. /\ db'.van = f.van /\ db'.state = f.state
              /\ db'.copy = [f.copy EXCEPT ![h] = None]
            BY <3>1, Zenon DEF requeue, Database
        <3>3. Leaves(db, db', {i}) /\ db'.state = db.state
            BY <1>2, <2>2, <3>1, <3>2, NoneAssumption DEF Leaves
        <3> QED
            BY <1>3, <2>1, <3>3
    <2> QED
        BY <2>3, <2>4
<1> QED
    BY <1>6, <1>7, <1>8, <1>9, <1>10, <1>11, <1>12 DEF ItemStep

LEMMA SweepStepTouches ==
    ASSUME CircInv, SweepStep
    PROVE  receipt' = receipt /\ (db' = db \/ TouchesUnlocked)
<1>1. Sound(db) /\ Pending
    BY DEF CircInv, Good
<1>2. ASSUME NEW row \in due, ExpireShelf(row)
      PROVE  receipt' = receipt /\ TouchesUnlocked
    <2>1. row.hold \in Hold /\ row.item \in Item /\ "expired" \in Ended
        BY <1>1 DEF Pending, Ended
    <2>2. /\ Open(db, row.hold) /\ db.copy[row.hold] = row.item
          /\ db' = releaseSetAsideCopy(End(db, row.hold, "expired"), row.item)
          /\ Unlocked({row.item}) /\ receipt' = receipt
        BY <1>2 DEF ExpireShelf, StillAssigned, ShelfRow
    <2>3. Touches(db, db', {row.item})
        BY ONLY <1>1, <2>1, <2>2, EndReleaseTouches
    <2>4. Unlocked({row.item} \cap Item)
        BY <2>2 DEF Unlocked
    <2> QED
        BY <2>2, <2>3, <2>4 DEF TouchesUnlocked
<1> QED
    BY <1>2 DEF SweepStep, ScanShelf, SkipShelfRow, SweepFails

LEMMA DeskStepTouches ==
    ASSUME CircInv, NEW k \in Desk, DeskStep(k)
    PROVE  receipt' = receipt /\ (db' = db \/ TouchesUnlocked)
<1>1. Sound(db) /\ Pending
    BY DEF CircInv, Good
<1>2. ASSUME Checkout(k)
      PROVE  receipt' = receipt /\ TouchesUnlocked
    <2> PICK r : r = req[k]
        OBVIOUS
    <2> PICK own : own = OwnHold(db, r.patron, r.item)
        OBVIOUS
    <2> PICK sib : sib = Siblings(db, own)
        OBVIOUS
    <2>1. /\ Unlocked({r.item} \cup r.own \cup r.items) /\ receipt' = receipt
          /\ Checkout(k)
        BY <1>2 DEF Checkout
    <2>2. /\ r \in CheckoutSeen /\ r # None /\ r.op = "checkout" /\ req'[k] = None
          /\ CanLend(db, r.patron, r.item)
          /\ Good(db') /\ HoldsFollow(db, db')
          /\ db'.loan = [db.loan EXCEPT ![r.item] = r.patron]
          /\ db'.resolved = db.resolved \cup ({Request[h].group : h \in own} \ {None})
          /\ \A h \in Hold : db'.state[h] = IF h \in sib THEN "cancelled"
                                            ELSE IF h \in own THEN "fulfilled"
                                            ELSE db.state[h]
          /\ \A i \in Item : StrandedIn(db', i) =>
               \/ StrandedIn(db, i)
               \/ i # r.item /\ i \notin r.own
          /\ Touches(db, db', {r.item} \cup r.own \cup r.items)
        BY ONLY CircInv, k \in Desk, <2>1, r = req[k],
                own = OwnHold(db, r.patron, r.item), sib = Siblings(db, own), CheckoutLends, SMTT(60)
    <2> PICK L : L = {r.item} \cup r.own \cup r.items
        OBVIOUS
    <2>3. Unlocked(L \cap Item) /\ Touches(db, db', L)
        BY <2>1, <2>2 DEF Unlocked
    <2> QED
        BY <2>1, <2>3 DEF TouchesUnlocked
<1>3. ASSUME CancelHold(k)
      PROVE  receipt' = receipt /\ TouchesUnlocked
    <2> PICK r : r = req[k]
        OBVIOUS
    <2>1. /\ r # None /\ r.op = "cancel" /\ Open(db, r.hold) /\ db.copy[r.hold] = r.item
          /\ Unlocked({r.item} \ {None}) /\ receipt' = receipt
          /\ db' = IF r.item = None THEN End(db, r.hold, "cancelled")
                   ELSE releaseSetAsideCopy(End(db, r.hold, "cancelled"), r.item)
        BY <1>3 DEF CancelHold
    <2>2. r \in CancelSeen
        BY <1>1, <2>1 DEF Pending, CheckoutSeen
    <2>3. r.hold \in Hold /\ r.item \in Item \cup {None} /\ "cancelled" \in Ended
        BY <2>2 DEF CancelSeen, Ended
    <2>4. CASE r.item = None
        <3>1. Touches(db, db', {})
            BY ONLY <1>1, <2>1, <2>3, <2>4, EndTouches
        <3>2. Unlocked({} \cap Item)
            BY DEF Unlocked
        <3> QED
            BY <2>1, <3>1, <3>2 DEF TouchesUnlocked
    <2>5. CASE r.item # None
        <3>1. /\ db' = releaseSetAsideCopy(End(db, r.hold, "cancelled"), r.item)
              /\ r.item \in Item
            BY <2>1, <2>3, <2>5
        <3>2. Touches(db, db', {r.item})
            BY ONLY <1>1, <2>1, <2>3, <3>1, EndReleaseTouches
        <3>3. Unlocked({r.item} \cap Item)
            BY <2>1, <2>5 DEF Unlocked
        <3> QED
            BY <2>1, <3>2, <3>3 DEF TouchesUnlocked
    <2> QED
        BY <2>4, <2>5
<1> QED
    BY <1>2, <1>3 DEF DeskStep, ProbeCheckout, ProbeCancel, Refuse

\* A receipt that commits: what it had read tells the copy's status.
LEMMA ReceiptIsQuiet ==
    ASSUME CircInv, NEW i \in Item, ReceiveTransfer(i)
    PROVE  /\ QuietStep(db, db', i) /\ UNCHANGED <<req, due>>
           /\ receipt' = [receipt EXCEPT ![i] = {}]
           /\ db'.status[i] = IF {} \in receipt[i] THEN "available" ELSE "awaiting_pickup"
           /\ \E S \in receipt[i] : ReadOf(db, i, S)
<1>1. Good(db) /\ Receipts
    BY DEF CircInv
<1> PICK c : c = claimOnArrival(Unloaded(db, i, db.van[i].to), i, db.van[i].to)
    OBVIOUS
<1> PICK s : s = IF {} \in receipt[i] THEN "available" ELSE "awaiting_pickup"
    OBVIOUS
<1>2. /\ db' = WithStatus(c, i, s) /\ UNCHANGED <<req, due>>
      /\ receipt' = [receipt EXCEPT ![i] = {}] /\ receipt[i] # {}
    BY DEF ReceiveTransfer, WithStatus, Unloaded
<1>3. PICK S \in receipt[i] : ReadOf(db, i, S)
    BY <1>1, <1>2 DEF Receipts
<1>4. db.van[i] # None
    BY <1>3 DEF ReadOf
<1>5. s \in {"available", "awaiting_pickup"}
    OBVIOUS
<1>6. QuietStep(db, db', i) /\ db'.status[i] = s
    BY ONLY <1>1, <1>2, <1>4, <1>5, i \in Item,
            c = claimOnArrival(Unloaded(db, i, db.van[i].to), i, db.van[i].to),
            ReceiveIsQuiet
<1> QED
    BY <1>2, <1>3, <1>6

LEMMA ReceiptsKept ==
    ASSUME CircInv, [Next]_vars
    PROVE  Receipts'
<1>1. Receipts /\ db \in Database
    BY DEF CircInv, Good, Sound
<1>2. ASSUME receipt' = receipt, db' = db
      PROVE  Receipts'
    BY <1>1, <1>2 DEF Receipts
<1>3. ASSUME receipt' = receipt, TouchesUnlocked
      PROVE  Receipts'
    <2> PICK L : Unlocked(L \cap Item) /\ Touches(db, db', L)
        BY <1>3 DEF TouchesUnlocked
    <2>1. ASSUME NEW i \in Item, NEW S \in receipt'[i] PROVE ReadOf(db', i, S)
        <3>1. S \in receipt[i] /\ i \in Item \ L
            BY <1>3, <2>1 DEF Unlocked
        <3>2. ReadOf(db, i, S)
            BY <1>1, <3>1 DEF Receipts
        <3> QED
            BY <3>1, <3>2, ReadStays
    <2> QED
        BY <1>1, <1>3, <2>1 DEF Receipts
<1>4. ASSUME NEW i \in Item, BeginReceipt(i)
      PROVE  Receipts'
    <2>1. /\ db.van[i] # None /\ db' = db
          /\ receipt' = [receipt EXCEPT ![i] = {Claimant(db, i, db.van[i].to)}]
        BY <1>4 DEF BeginReceipt, InVan
    <2>2. Claimant(db, i, db.van[i].to) \in SUBSET Hold
        BY DEF Claimant, Assigned
    <2>3. ReadOf(db, i, Claimant(db, i, db.van[i].to))
        <3>1. \A h \in Hold : db.copy[h] = i => Open(db, h)
            BY NoneAssumption DEF CircInv, Good, Sound, RowsSound
        <3> QED
            BY <2>1, <3>1 DEF ReadOf, Claimant, Assigned
    <2>4. receipt' \in [Item -> SUBSET SUBSET Hold]
        BY <1>1, <2>1, <2>2 DEF Receipts
    <2>5. ASSUME NEW j \in Item, NEW S \in receipt'[j] PROVE ReadOf(db', j, S)
        <3>1. CASE j = i
            BY <1>1, <2>1, <2>3, <2>5, <3>1 DEF Receipts
        <3>2. CASE j # i
            BY <1>1, <2>1, <2>5, <3>2 DEF Receipts
        <3> QED
            BY <3>1, <3>2
    <2> QED
        BY <2>4, <2>5 DEF Receipts
<1>5. ASSUME NEW i \in Item, ReceiveTransfer(i)
      PROVE  Receipts'
    <2>1. QuietStep(db, db', i) /\ receipt' = [receipt EXCEPT ![i] = {}]
        BY <1>5, ReceiptIsQuiet
    <2>2. Touches(db, db', {i})
        BY <2>1 DEF QuietStep, Touches
    <2>3. receipt' \in [Item -> SUBSET SUBSET Hold]
        BY <1>1, <2>1 DEF Receipts
    <2>4. ASSUME NEW j \in Item, NEW S \in receipt'[j] PROVE ReadOf(db', j, S)
        <3>1. j \in Item \ {i} /\ S \in receipt[j]
            BY <1>1, <2>1, <2>4 DEF Receipts
        <3>2. ReadOf(db, j, S)
            BY <1>1, <3>1 DEF Receipts
        <3> QED
            BY <2>2, <3>1, <3>2, ReadStays
    <2> QED
        BY <2>3, <2>4 DEF Receipts
<1>6. CASE UNCHANGED vars
    BY <1>2, <1>6 DEF vars
<1>7. ASSUME NEW k \in Desk, DeskStep(k) PROVE Receipts'
    BY <1>2, <1>3, <1>7, DeskStepTouches
<1>8. ASSUME NEW h \in Hold, HoldStep(h) PROVE Receipts'
    BY <1>3, <1>8, HoldStepTouches
<1>9. ASSUME NEW i \in Item, ItemStep(i) PROVE Receipts'
    BY <1>3, <1>4, <1>5, <1>9, ItemStepTouches
<1>10. SweepStep => Receipts'
    BY <1>2, <1>3, SweepStepTouches
<1> QED
    BY <1>6, <1>7, <1>8, <1>9, <1>10 DEF Next

-----------------------------------------------------------------------------
(* The invariant holds in every state.                                     *)

LEMMA PlainKeepsGroups ==
    ASSUME NEW d, NEW e, OneLive(d), GroupsSound(d), PlainStep(d, e)
    PROVE  OneLive(e) /\ GroupsSound(e)
<1>1. CASE OpensNone(d, e)
    BY <1>1 DEF OpensNone, OneLive, GroupsSound
<1>2. CASE \E h \in Hold : Opens(d, e, h)
    <2> PICK h \in Hold : Opens(d, e, h)
        BY <1>2
    <2>1. OneLive(e)
        BY DEF Opens, OneLive, Open
    <2>2. GroupsSound(e)
        BY DEF Opens, GroupsSound, Open
    <2> QED
        BY <2>1, <2>2
<1> QED
    BY <1>1, <1>2 DEF PlainStep

\* The reader's own request is the only one of its group that is filled: it was
\* open, so the group was not resolved before; and the others are cancelled with it.
LEMMA LendKeepsGroups ==
    ASSUME CircInv, NEW k \in Desk, Checkout(k)
    PROVE  OneLive(db') /\ GroupsSound(db')
<1> PICK r : r = req[k]
    OBVIOUS
<1> PICK own : own = OwnHold(db, r.patron, r.item)
    OBVIOUS
<1> PICK sib : sib = Siblings(db, own)
    OBVIOUS
<1>k. Checkout(k)
    OBVIOUS
<1>1. /\ r \in CheckoutSeen /\ r # None /\ r.op = "checkout" /\ req'[k] = None
      /\ CanLend(db, r.patron, r.item)
      /\ Good(db') /\ HoldsFollow(db, db')
      /\ db'.loan = [db.loan EXCEPT ![r.item] = r.patron]
      /\ db'.resolved = db.resolved \cup ({Request[h].group : h \in own} \ {None})
      /\ \A h \in Hold : db'.state[h] = IF h \in sib THEN "cancelled"
                                        ELSE IF h \in own THEN "fulfilled"
                                        ELSE db.state[h]
      /\ \A i \in Item : StrandedIn(db', i) =>
           \/ StrandedIn(db, i)
           \/ i # r.item /\ i \notin r.own
      /\ Touches(db, db', {r.item} \cup r.own \cup r.items)
    BY ONLY CircInv, k \in Desk, <1>k, r = req[k],
            own = OwnHold(db, r.patron, r.item), sib = Siblings(db, own), CheckoutLends, SMTT(60)
<1>2. OneLive(db) /\ GroupsSound(db)
    BY DEF CircInv
<1>3. OneLive(db')
    BY <1>1, <1>2 DEF OneLive, HoldsFollow
<1>4. /\ \A h \in own : h \in Hold /\ Open(db, h)
      /\ \A g, h \in own : g = h
    BY <1>2 DEF OwnHold, OneLive
<1>5. \A g \in Hold : g \notin own /\ Open(db, g) /\ Request[g].group # None
            /\ (\E h \in own : Request[h].group = Request[g].group) => g \in sib
    BY DEF Siblings
<1>6. ASSUME NEW h \in Hold, Request[h].group \in db'.resolved
      PROVE  ~ Open(db', h)
    <2>1. Open(db', h) => Open(db, h) /\ h \notin own /\ h \notin sib
        BY <1>1 DEF Open
    <2>2. CASE Request[h].group \in db.resolved
        BY <1>2, <2>1, <2>2 DEF GroupsSound
    <2>3. CASE Request[h].group \in {Request[g].group : g \in own} \ {None}
        BY <1>5, <2>1, <2>3
    <2> QED
        BY <1>1, <1>6, <2>2, <2>3
<1>7. ASSUME NEW h \in Hold, db'.state[h] = "fulfilled", Request[h].group # None
      PROVE  Request[h].group \in db'.resolved
    <2>1. CASE h \in own
        BY <1>1, <1>7, <2>1
    <2>2. CASE h \notin own
        BY <1>1, <1>2, <1>7, <2>2 DEF GroupsSound
    <2> QED
        BY <2>1, <2>2
<1>8. ASSUME NEW g \in Hold, NEW h \in Hold,
             db'.state[g] = "fulfilled", db'.state[h] = "fulfilled",
             Request[g].group # None, Request[g].group = Request[h].group
      PROVE  g = h
    <2>1. \A x \in {g, h} : x \in own \/ db.state[x] = "fulfilled"
        BY <1>1, <1>8
    <2>2. \A x \in {g, h} : db.state[x] = "fulfilled" => Request[g].group \in db.resolved
        BY <1>2, <1>8 DEF GroupsSound
    <2>3. \A x \in {g, h} : x \in own => Request[g].group \notin db.resolved
        BY <1>2, <1>4, <1>8 DEF GroupsSound
    <2>4. CASE g \in own /\ h \in own
        BY <1>4, <2>4
    <2>5. CASE db.state[g] = "fulfilled" /\ db.state[h] = "fulfilled"
        BY <1>2, <1>8, <2>5 DEF GroupsSound
    <2> QED
        BY <2>1, <2>2, <2>3, <2>4, <2>5
<1> QED
    BY <1>3, <1>6, <1>7, <1>8 DEF GroupsSound

LEMMA StepKinds ==
    ASSUME CircInv, [Next]_vars
    PROVE  /\ Pending'
           /\ \/ db' = db \/ PlainStep(db, db')
              \/ \E k \in Desk : Checkout(k)
              \/ \E i \in Item : ReceiveTransfer(i)
<1>1. CASE Next
    <2>1. ASSUME NEW k \in Desk, DeskStep(k)
          PROVE  (db' = db \/ PlainStep(db, db') \/ Checkout(k)) /\ Pending'
        BY <2>1, DeskStepKinds
    <2>2. ASSUME NEW h \in Hold, HoldStep(h)
          PROVE  PlainStep(db, db') /\ Pending'
        BY <2>2, HoldStepIsPlain DEF CircInv, Pending
    <2>3. ASSUME NEW i \in Item, ItemStep(i)
          PROVE  (db' = db \/ PlainStep(db, db') \/ ReceiveTransfer(i)) /\ Pending'
        <3>1. UNCHANGED <<req, due>> => Pending'
            BY DEF CircInv, Pending
        <3>2. CASE ReceiveTransfer(i)
            BY <3>1, <3>2 DEF ReceiveTransfer
        <3>3. CASE ~ ReceiveTransfer(i)
            BY <2>3, <3>1, <3>3, ItemStepIsPlain
        <3> QED
            BY <3>2, <3>3
    <2>4. SweepStep => (db' = db \/ PlainStep(db, db')) /\ Pending'
        BY SweepStepIsPlain
    <2> QED
        BY <1>1, <2>1, <2>2, <2>3, <2>4 DEF Next
<1>2. CASE UNCHANGED vars
    BY <1>2 DEF vars, CircInv, Pending
<1> QED
    BY <1>1, <1>2

LEMMA QuietKeepsGroups ==
    ASSUME NEW d, NEW e, NEW i, OneLive(d), GroupsSound(d), QuietStep(d, e, i)
    PROVE  OneLive(e) /\ GroupsSound(e)
BY DEF QuietStep, OneLive, GroupsSound, Open

LEMMA NextInv == CircInv /\ [Next]_vars => CircInv'
<1> SUFFICES ASSUME CircInv, [Next]_vars PROVE CircInv'
    OBVIOUS
<1>1. Pending' /\ Receipts'
    BY StepKinds, ReceiptsKept
<1>2. CASE db' = db
    <2>1. Good(db') /\ OneLive(db') /\ GroupsSound(db')
        BY <1>2 DEF CircInv
    <2> QED
        BY <1>1, <2>1 DEF CircInv
<1>3. CASE PlainStep(db, db')
    <2>1. OneLive(db) /\ GroupsSound(db)
        BY DEF CircInv
    <2>2. Good(db') /\ OneLive(db') /\ GroupsSound(db')
        BY <1>3, <2>1, PlainKeepsGroups DEF PlainStep
    <2> QED
        BY <1>1, <2>2 DEF CircInv
<1>4. ASSUME NEW k \in Desk, Checkout(k)
      PROVE  CircInv'
    <2>1. Good(db')
        BY <1>4, CheckoutLends
    <2>2. OneLive(db') /\ GroupsSound(db')
        BY <1>4, LendKeepsGroups
    <2> QED
        BY <1>1, <2>1, <2>2 DEF CircInv
<1>5. ASSUME NEW i \in Item, ReceiveTransfer(i)
      PROVE  CircInv'
    <2>1. OneLive(db) /\ GroupsSound(db)
        BY DEF CircInv
    <2>2. QuietStep(db, db', i)
        BY <1>5, ReceiptIsQuiet
    <2>3. Good(db')
        BY <2>2 DEF QuietStep
    <2>4. OneLive(db') /\ GroupsSound(db')
        BY <2>1, <2>2, QuietKeepsGroups
    <2> QED
        BY <1>1, <2>3, <2>4 DEF CircInv
<1> QED
    BY <1>2, <1>3, <1>4, <1>5, StepKinds

LEMMA AlwaysInv == Spec => []CircInv
BY InitInv, NextInv, PTL DEF Spec

LEMMA InvImplies ==
    CircInv => TablesAreSound /\ OnLoanHasLoan /\ AssignedIsComing /\ GroupOnce
<1> SUFFICES ASSUME CircInv PROVE TablesAreSound /\ OnLoanHasLoan /\ AssignedIsComing /\ GroupOnce
    OBVIOUS
<1>1. /\ db \in Database /\ db.ok /\ QueuesSound(db.pos) /\ RowsSound(db)
      /\ LoansSound(db) /\ Coming(db) /\ GroupsSound(db) /\ Pending /\ Receipts
    BY DEF CircInv, Good, Sound
<1>2. TypeOK /\ QueueIntegrity
    BY <1>1 DEF TypeOK, Pending, Receipts, QueuesSound, QueueIntegrity
<1>3. RowChecksHold
    BY <1>1 DEF RowsSound, RowChecksHold
<1>4. OnLoanHasLoan /\ AssignedIsComing
    BY <1>1 DEF LoansSound, OnLoanHasLoan, Coming, AssignedIsComing
<1>5. GroupOnce
    <2>1. \A g \in Group : g # None
        BY NoneAssumption
    <2> QED
        BY <1>1, <2>1 DEF GroupsSound, GroupOnce
<1> QED
    BY <1>2, <1>3, <1>4, <1>5 DEF TablesAreSound

\* What the schema and queueIntegrity ask of the tables holds after every
\* transaction of every desk, sweep and librarian: the types, every queue
\* contiguous and 1-based, a position exactly while a request waits, and only a
\* request with a copy collectable (hold-queue.ts, hold-promotion.ts, checkout,
\* checkin, cancellation, sweeps, transfers and import).
THEOREM TablesAlwaysSound == Spec => []TablesAreSound
BY AlwaysInv, InvImplies, PTL

\* A copy is never on loan with no loan behind it, whatever a librarian sets.
THEOREM LoansBehindCopies == Spec => []OnLoanHasLoan
BY AlwaysInv, InvImplies, PTL

\* A request that has a copy it cannot collect is always the one a van is taking
\* that copy to its pickup branch for: whoever sends, receives or calls back vans,
\* and however many releases one checkout makes.
THEOREM AssignedAlwaysComing == Spec => []AssignedIsComing
BY AlwaysInv, InvImplies, PTL

\* At most one request of a group is ever filled and none stays open then, however
\* probes and checkouts interleave.
THEOREM GroupsFilledOnce == Spec => []GroupOnce
BY AlwaysInv, InvImplies, PTL

-----------------------------------------------------------------------------
(* What no step does.                                                      *)

\* A copy set aside for one reader is lent to that reader and to nobody else, and
\* the request is filled by it: a loan is opened by a checkout alone, which asks
\* whom every open request on the copy is for, and a request that has the copy is
\* one of the copy's record, so it is the request the checkout fills.
THEOREM LentOnlyToItsReader == Spec => LentToItsReader
<1> DEFINE A == \A i \in Item, h \in Hold :
                    h \in Assigned(db, i) /\ db.loan[i] = None /\ db.loan'[i] # None
                        => db.loan'[i] = Request[h].patron /\ db.state'[h] = "fulfilled"
<1>1. CircInv /\ [Next]_vars => A
    <2> SUFFICES ASSUME CircInv, [Next]_vars, NEW i \in Item, NEW h \in Assigned(db, i),
                        db.loan[i] = None, db.loan'[i] # None
                 PROVE  db.loan'[i] = Request[h].patron /\ db.state'[h] = "fulfilled"
        OBVIOUS
    <2>1. ~ PlainStep(db, db') /\ db' # db
        BY DEF PlainStep, LoansFall
    <2>q. ASSUME NEW j \in Item, ReceiveTransfer(j) PROVE FALSE
        <3>1. QuietStep(db, db', j)
            BY <2>q, ReceiptIsQuiet
        <3> QED
            BY <3>1 DEF QuietStep
    <2>2. PICK k \in Desk : Checkout(k)
        BY <2>1, <2>q, StepKinds
    <2> PICK r : r = req[k]
        OBVIOUS
    <2> PICK own : own = OwnHold(db, r.patron, r.item)
        OBVIOUS
    <2> PICK sib : sib = Siblings(db, own)
        OBVIOUS
    <2>3. /\ r \in CheckoutSeen /\ r # None /\ r.op = "checkout" /\ req'[k] = None
          /\ CanLend(db, r.patron, r.item)
          /\ Good(db') /\ HoldsFollow(db, db')
          /\ db'.loan = [db.loan EXCEPT ![r.item] = r.patron]
          /\ db'.resolved = db.resolved \cup ({Request[x].group : x \in own} \ {None})
          /\ \A x \in Hold : db'.state[x] = IF x \in sib THEN "cancelled"
                                            ELSE IF x \in own THEN "fulfilled"
                                            ELSE db.state[x]
          /\ \A j \in Item : StrandedIn(db', j) =>
               \/ StrandedIn(db, j)
               \/ j # r.item /\ j \notin r.own
          /\ Touches(db, db', {r.item} \cup r.own \cup r.items)
        BY ONLY CircInv, k \in Desk, <2>2, r = req[k],
                own = OwnHold(db, r.patron, r.item), sib = Siblings(db, own), CheckoutLends, SMTT(60)
    <2>4. db \in Database /\ RowsSound(db)
        BY DEF CircInv, Good, Sound
    <2>5. db.loan \in [Item -> Patron \cup {None}]
        BY <2>4, DbFields
    <2>6. i = r.item /\ db'.loan[i] = r.patron
        BY <2>3, <2>5 DEF CheckoutSeen
    <2>7. h \in Hold /\ Open(db, h) /\ db.copy[h] = i /\ Request[h].patron = r.patron
        BY <2>3, <2>6 DEF Assigned, CanLend
    <2>8. BibOfItem[i] = Bib(h)
        BY <2>4, <2>7, NoneAssumption DEF RowsSound
    <2>9. h \in own /\ h \notin sib
        BY <2>6, <2>7, <2>8 DEF OwnHold, Siblings
    <2> QED
        BY <2>3, <2>6, <2>7, <2>9
<1> QED
    BY <1>1, AlwaysInv, PTL DEF Spec, LentToItsReader

\* A copy is left on the hold shelf with nobody to collect it only by a checkout of
\* another copy whose probe did not see this one set aside, or by the receipt of this
\* one that had read the request such a checkout filled: every other operation that
\* ends a request has its copy's lock and releases the copy (hold-release.ts), for
\* any number of desks, copies and requests.
THEOREM OnlyStaleReadsStrandAlways == Spec => OnlyStaleReadsStrand
<1> DEFINE A == \A i \in Item : Stranded(i)' /\ ~ Stranded(i) =>
                    \/ \E k \in Desk : /\ req[k] # None /\ req[k].op = "checkout"
                                       /\ req[k].item # i
                                       /\ i \notin req[k].own
                                       /\ req'[k] = None
                    \/ /\ receipt'[i] = {}
                       /\ \E read \in receipt[i] :
                            /\ read # {}
                            /\ \A h \in read : db.state[h] = "fulfilled"
<1>1. CircInv /\ [Next]_vars => A
    <2> SUFFICES ASSUME CircInv, [Next]_vars, NEW i \in Item, Stranded(i)', ~ Stranded(i)
                 PROVE  \/ \E k \in Desk : /\ req[k] # None /\ req[k].op = "checkout"
                                           /\ req[k].item # i
                                           /\ i \notin req[k].own
                                           /\ req'[k] = None
                        \/ /\ receipt'[i] = {}
                           /\ \E read \in receipt[i] :
                                /\ read # {}
                                /\ \A h \in read : db.state[h] = "fulfilled"
        OBVIOUS
    <2>1. StrandedIn(db', i) /\ ~ StrandedIn(db, i)
        BY DEF Stranded, StrandedIn, Assigned, Open
    <2>2. ~ PlainStep(db, db') /\ db' # db
        BY <2>1 DEF PlainStep, StrandsNone
    <2>3. ASSUME NEW k \in Desk, Checkout(k)
          PROVE  /\ req[k] # None /\ req[k].op = "checkout"
                 /\ req[k].item # i /\ i \notin req[k].own /\ req'[k] = None
        <3> PICK r : r = req[k]
            OBVIOUS
        <3> PICK own : own = OwnHold(db, r.patron, r.item)
            OBVIOUS
        <3> PICK sib : sib = Siblings(db, own)
            OBVIOUS
        <3>1. /\ r \in CheckoutSeen /\ r # None /\ r.op = "checkout" /\ req'[k] = None
              /\ CanLend(db, r.patron, r.item)
              /\ Good(db') /\ HoldsFollow(db, db')
              /\ db'.loan = [db.loan EXCEPT ![r.item] = r.patron]
              /\ db'.resolved = db.resolved \cup ({Request[x].group : x \in own} \ {None})
              /\ \A x \in Hold : db'.state[x] = IF x \in sib THEN "cancelled"
                                                ELSE IF x \in own THEN "fulfilled"
                                                ELSE db.state[x]
              /\ \A j \in Item : StrandedIn(db', j) =>
                   \/ StrandedIn(db, j)
                   \/ j # r.item /\ j \notin r.own
              /\ Touches(db, db', {r.item} \cup r.own \cup r.items)
            BY ONLY CircInv, k \in Desk, <2>3, r = req[k],
                    own = OwnHold(db, r.patron, r.item), sib = Siblings(db, own), CheckoutLends, SMTT(60)
        <3> QED
            BY <2>1, <3>1
    <2>4. ASSUME NEW j \in Item, ReceiveTransfer(j)
          PROVE  /\ receipt'[i] = {}
                 /\ \E read \in receipt[i] :
                      /\ read # {}
                      /\ \A h \in read : db.state[h] = "fulfilled"
        <3>1. /\ QuietStep(db, db', j) /\ UNCHANGED <<req, due>>
              /\ receipt' = [receipt EXCEPT ![j] = {}]
              /\ db'.status[j] = IF {} \in receipt[j] THEN "available" ELSE "awaiting_pickup"
              /\ \E S \in receipt[j] : ReadOf(db, j, S)
            BY <2>4, ReceiptIsQuiet
        <3>2. db'.state = db.state /\ db'.copy = db.copy
              /\ \A x \in Item \ {j} : db'.status[x] = db.status[x]
            BY <3>1 DEF QuietStep
        <3>3. Assigned(db, i) = {} /\ i = j /\ db'.status[i] = "awaiting_pickup"
            BY <2>1, <3>2 DEF StrandedIn, Assigned, Open
        <3>4. PICK S \in receipt[i] : ReadOf(db, i, S)
            BY <3>1, <3>3
        <3>5. S # {}
            BY <3>1, <3>3
        <3>6. ASSUME NEW h \in S PROVE db.state[h] = "fulfilled"
            <4>1. h \in Hold /\ (db.copy[h] = i \/ db.state[h] = "fulfilled")
                BY <3>4 DEF ReadOf
            <4>2. db.copy[h] = i => Open(db, h)
                BY <4>1, NoneAssumption DEF CircInv, Good, Sound, RowsSound
            <4> QED
                BY <3>3, <4>1, <4>2 DEF Assigned
        <3>7. receipt'[i] = {}
            BY <3>1, <3>3 DEF CircInv, Receipts
        <3> QED
            BY <3>5, <3>6, <3>7
    <2> QED
        BY <2>2, <2>3, <2>4, StepKinds
<1> QED
    BY <1>1, AlwaysInv, PTL DEF Spec, OnlyStaleReadsStrand

NoneOpenEnded == \A h \in Hold : db.susp[h] # "open"

\* While no suspension is open-ended, a suspended request is never given a copy:
\* by a return, a fetch, a cancellation, a sweep or the releases of a checkout
\* (hold-promotion.ts: the candidates of promoteForItem). An open-ended suspension
\* is not skipped, which CirculationOpenEnded.cfg shows.
THEOREM SuspendedAlwaysSkipped ==
    ASSUME "open" \notin Suspensions
    PROVE  Spec => SuspendedIsSkipped
<1> DEFINE A == \A h \in Hold :
                    db.pos[h] > 0 /\ db.susp[h] # "no" => db.copy'[h] = None
<1>1. Init => NoneOpenEnded
    BY DEF Init, NoneOpenEnded
<1>2. CircInv /\ NoneOpenEnded /\ [Next]_vars => NoneOpenEnded' /\ A
    <2> SUFFICES ASSUME CircInv, NoneOpenEnded, [Next]_vars
                 PROVE  NoneOpenEnded' /\ A
        OBVIOUS
    <2>1. db \in Database /\ RowsSound(db)
        BY DEF CircInv, Good, Sound
    <2>2. /\ db.susp \in [Hold -> {"no", "dated", "open"}] /\ db.pos \in [Hold -> Nat]
        BY <2>1, DbFields
    <2>3. \A h \in Hold : db.pos[h] > 0 /\ db.susp[h] # "no" =>
                /\ db.susp[h] = "dated" /\ db.copy[h] = None /\ db.state[h] = "open"
        BY <2>1, <2>2 DEF NoneOpenEnded, RowsSound, Open
    <2>4. CASE db' = db
        BY <2>3, <2>4 DEF NoneOpenEnded
    <2>5. CASE PlainStep(db, db')
        <3>1. Skips(db, db')
            BY <2>5 DEF PlainStep
        <3> QED
            BY <2>3, <3>1 DEF NoneOpenEnded, Skips
    <2>6. ASSUME NEW k \in Desk, Checkout(k)
          PROVE  NoneOpenEnded' /\ A
        <3>1. HoldsFollow(db, db')
            BY <2>6, CheckoutLends
        <3> QED
            BY <2>3, <3>1 DEF NoneOpenEnded, HoldsFollow
    <2>7. ASSUME NEW i \in Item, ReceiveTransfer(i)
          PROVE  NoneOpenEnded' /\ A
        <3>1. HoldsFollow(db, db')
            BY <2>7, ReceiptIsQuiet DEF QuietStep
        <3> QED
            BY <2>3, <3>1 DEF NoneOpenEnded, HoldsFollow
    <2> QED
        BY <2>4, <2>5, <2>6, <2>7, StepKinds
<1> QED
    BY <1>1, <1>2, AlwaysInv, PTL DEF Spec, SuspendedIsSkipped

-----------------------------------------------------------------------------
(* The transactions implement the line of HoldLine.                        *)

LEMMA JoiningRefines ==
    ASSUME CircInv, NEW h \in Hold, Joins(db, db', h)
    PROVE  Line!Join(h)
<1>1. db \in Database /\ QueuesSound(db.pos)
    BY DEF CircInv, Good, Sound
<1>2. db.pos \in [Hold -> Nat] /\ db.pos[h] = 0
    BY <1>1, DbFields DEF Joins
<1>3. /\ db'.pos[h] > 0 /\ \A g \in Hold \ {h} : db'.pos[g] = db.pos[g]
      /\ \A g \in Queue(h) \ {h} : db'.pos[g] < db'.pos[h]
      /\ db'.pos \in [Hold -> Nat]
    BY <1>1, <1>2, EnqueueKeeps DEF Joins
<1>4. h \notin waitingHolds /\ waitingHolds' = waitingHolds \cup {h}
    BY <1>2, <1>3 DEF waitingHolds
<1>5. aheadPairs' = aheadPairs \cup
            {<<g, h>> : g \in {x \in waitingHolds : Bib(x) = Bib(h)}}
    <2>1. ASSUME NEW f \in Hold, NEW g \in Hold
          PROVE  <<f, g>> \in aheadPairs' <=>
                    \/ <<f, g>> \in aheadPairs
                    \/ g = h /\ f \in waitingHolds /\ Bib(f) = Bib(h)
        BY <1>2, <1>3, <1>4 DEF aheadPairs, waitingHolds, Queue
    <2>2. /\ aheadPairs' \subseteq Hold \X Hold
          /\ aheadPairs \subseteq Hold \X Hold
          /\ waitingHolds \subseteq Hold
        BY DEF aheadPairs, waitingHolds
    <2> QED
        BY <2>1, <2>2
<1> QED
    BY <1>4, <1>5 DEF Line!Join

\* Whoever a transaction takes out of the queues, those who stay keep their order.
LEMMA LeavingRefines ==
    ASSUME CircInv, Good(db'), SameOrder(db.pos, db'.pos)
    PROVE  Line!Leave(waitingHolds \ waitingHolds')
<1>1. db \in Database /\ db' \in Database
    BY DEF CircInv, Good, Sound
<1>2. db.pos \in [Hold -> Nat] /\ db'.pos \in [Hold -> Nat]
    BY <1>1, DbFields
<1>3. waitingHolds' \subseteq waitingHolds
    BY DEF waitingHolds, SameOrder
<1>4. ASSUME NEW f \in Hold, NEW g \in Hold
      PROVE  <<f, g>> \in aheadPairs' <=>
                /\ <<f, g>> \in aheadPairs
                /\ f \in waitingHolds' /\ g \in waitingHolds'
    BY <1>2, <1>3 DEF aheadPairs, waitingHolds, SameOrder
<1>5. /\ aheadPairs' \subseteq Hold \X Hold
      /\ aheadPairs \subseteq waitingHolds \X waitingHolds
      /\ waitingHolds \subseteq Hold
    BY DEF aheadPairs, waitingHolds
<1>6. aheadPairs' = {p \in aheadPairs : /\ p[1] \notin waitingHolds \ waitingHolds'
                                        /\ p[2] \notin waitingHolds \ waitingHolds'}
    BY <1>3, <1>4, <1>5
<1> QED
    BY <1>3, <1>6 DEF Line!Leave

\* Every step of the desks, the sweeps and the librarians, the loops of a checkout
\* included, is one newcomer at the back of a line, some departures, or no change
\* of the lines: no operation lets one waiting reader pass another
\* (hold-queue.ts as its callers use it).
THEOREM TransactionsKeepTheLine == Spec => KeepsTheLine
<1>1. Init => Line!LineInit
    <2> SUFFICES ASSUME Init PROVE Line!LineInit
        OBVIOUS
    <2>1. \A h \in Hold : db.pos[h] = 0
        BY DEF Init
    <2>2. waitingHolds = {}
        BY <2>1 DEF waitingHolds
    <2> QED
        BY <2>2 DEF aheadPairs, Line!LineInit
<1>2. CircInv /\ [Next]_vars => [Line!LineNext]_(Line!lineVars)
    <2> SUFFICES ASSUME CircInv, [Next]_vars
                 PROVE  [Line!LineNext]_(Line!lineVars)
        OBVIOUS
    <2>1. CASE db' = db
        BY <2>1 DEF Line!lineVars, waitingHolds, aheadPairs
    <2>2. ASSUME Good(db'), SameOrder(db.pos, db'.pos)
          PROVE  Line!LineNext
        <3>1. waitingHolds \ waitingHolds' \in SUBSET Hold
            BY DEF waitingHolds
        <3>2. Line!Leave(waitingHolds \ waitingHolds')
            BY <2>2, LeavingRefines
        <3> QED
            BY <3>1, <3>2 DEF Line!LineNext
    <2>3. CASE PlainStep(db, db')
        <3>1. ASSUME NEW h \in Hold, Joins(db, db', h)
              PROVE  Line!LineNext
            BY <3>1, JoiningRefines DEF Line!LineNext
        <3> QED
            BY <2>2, <2>3, <3>1 DEF PlainStep, KeepsLine
    <2>4. ASSUME NEW k \in Desk, Checkout(k)
          PROVE  Line!LineNext
        <3>1. Good(db') /\ HoldsFollow(db, db')
            BY <2>4, CheckoutLends
        <3> QED
            BY <2>2, <3>1 DEF HoldsFollow
    <2>5. ASSUME NEW i \in Item, ReceiveTransfer(i)
          PROVE  Line!LineNext
        <3>1. Good(db') /\ HoldsFollow(db, db')
            BY <2>5, ReceiptIsQuiet DEF QuietStep
        <3> QED
            BY <2>2, <3>1 DEF HoldsFollow
    <2> QED
        BY <2>1, <2>3, <2>4, <2>5, StepKinds
<1> QED
    BY <1>1, <1>2, AlwaysInv, PTL DEF Spec, KeepsTheLine, Line!LineSpec

-----------------------------------------------------------------------------
(* While nobody sets a status or sends a copy by hand.                     *)

\* A request's copy is on the hold shelf or in a van.
Shelved(d) ==
    \A h \in Hold : d.copy[h] # None =>
        \/ /\ d.shelf[h] # "no" /\ d.status[d.copy[h]] = "awaiting_pickup"
           /\ ~ InVan(d, d.copy[h])
        \/ /\ d.shelf[h] = "no" /\ d.status[d.copy[h]] = "in_transit"
           /\ InVan(d, d.copy[h])

Driven(d) == \A i \in Item : InVan(d, i) => d.status[i] = "in_transit"

LentBut(d, S) == \A i \in Item \ S : d.loan[i] # None => d.status[i] = "on_loan"

Single(d) == \A g, h \in Hold : d.copy[g] # None /\ d.copy[g] = d.copy[h] => g = h

TidyBut(d, S) == Shelved(d) /\ Driven(d) /\ LentBut(d, S) /\ Single(d)

Tidy(d) == TidyBut(d, {})

\* A copy that nobody has and no van carries is given to the first reader: no index
\* refuses it.
LEMMA SettleTidies ==
    ASSUME NEW d, Sound(d), NEW i \in Item, TidyBut(d, {i}),
           \A g \in Hold : d.copy[g] # i, d.van[i] = None,
           NEW b, NEW e, e = Settle(d, i, b)
    PROVE  /\ TidyBut(e, {i}) /\ e.ok = d.ok /\ e.loan = d.loan
           /\ \A g \in Hold : e.copy[g] = d.copy[g] \/ e.copy[g] = i
<1>1. d \in Database /\ QueuesSound(d.pos) /\ RowsSound(d)
    BY DEF Sound
<1>2. /\ d.status \in [Item -> ItemStatus] /\ d.copy \in [Hold -> Item \cup {None}]
      /\ d.van \in [Item -> [to : Branch, hold : Hold \cup {None}] \cup {None}]
      /\ d.shelf \in [Hold -> {"no", "waiting", "lapsed"}] /\ d.ok \in BOOLEAN
    BY <1>1, DbFields
<1>3. i # None
    BY NoneAssumption
<1>4. CASE Candidates(d, i) = {}
    <2>1. e = WithStatus(d, i, "available")
        BY <1>4 DEF Settle, WithStatus
    <2>2. /\ e.van = d.van /\ e.loan = d.loan /\ e.ok = d.ok
          /\ e.copy = d.copy /\ e.shelf = d.shelf
          /\ e.status = [d.status EXCEPT ![i] = "available"]
        BY ONLY <1>1, <2>1, i \in Item, StatusFields
    <2>3. \A j \in Item \ {i} : e.status[j] = d.status[j]
        BY <1>2, <2>2
    <2>4. Shelved(e)
        BY <1>2, <2>2, <2>3 DEF TidyBut, Shelved, InVan
    <2>5. Driven(e) /\ LentBut(e, {i}) /\ Single(e)
        BY <2>2, <2>3 DEF TidyBut, Driven, LentBut, Single, InVan
    <2> QED
        BY <2>2, <2>4, <2>5 DEF TidyBut
<1>5. CASE Candidates(d, i) # {}
    <2> DEFINE h == Winner(d, i)
               p == promoteForItem(d, i, h)
    <2>1. h \in Candidates(d, i)
        BY <1>1, <1>5, WinnerIsCandidate
    <2>2. h \in Hold /\ d.pos[h] > 0
        BY <2>1 DEF Candidates
    <2>3. e = IF Request[h].pickup = b THEN claimOnArrival(p, i, b)
                                       ELSE Dispatch(p, i, Request[h].pickup, h)
        BY <1>5 DEF Settle
    <2> HIDE DEF h
    <2>4. /\ p.status = d.status /\ p.loan = d.loan /\ p.van = d.van
          /\ p.state = d.state /\ p.shelf = d.shelf
          /\ p.ok = (d.ok /\ Assigned(d, i) = {})
          /\ p.copy = [d.copy EXCEPT ![h] = i]
        BY <1>1, <2>2, PromoteFields
    <2>5. p \in Database
        <3>1. Sound(p)
            BY <2>1, PromoteKeeps
        <3> QED
            BY <3>1 DEF Sound
    <2> HIDE DEF p
    <2>6. Open(d, h) /\ d.copy[h] = None /\ d.shelf[h] = "no"
        BY <1>1, <1>2, <2>2 DEF RowsSound
    <2>7. Assigned(d, i) = {} /\ p.ok = d.ok
        BY <1>2, <2>4 DEF Assigned
    <2>8. \A g \in Hold : p.copy[g] = IF g = h THEN i ELSE d.copy[g]
        BY <1>2, <2>4
    <2>9. CASE Request[h].pickup = b
        <3>1. e = claimOnArrival(p, i, b)
            BY <2>3, <2>9
        <3>2. /\ e.loan = p.loan /\ e.van = p.van /\ e.ok = p.ok /\ e.copy = p.copy
              /\ e.shelf = [g \in Hold |->
                            IF g \in Claimant(p, i, b) THEN "waiting" ELSE p.shelf[g]]
              /\ e.status = [p.status EXCEPT ![i] =
                            IF Claimant(p, i, b) = {} THEN "available"
                                                      ELSE "awaiting_pickup"]
            BY ONLY <2>5, <3>1, i \in Item, ClaimFields
        <3>3. \A g \in Hold : g \in Claimant(p, i, b) <=> g = h
            BY <2>2, <2>4, <2>6, <2>8, <2>9 DEF Claimant, Assigned, Open
        <3>4. /\ e.status[i] = "awaiting_pickup"
              /\ \A j \in Item \ {i} : e.status[j] = d.status[j]
              /\ \A g \in Hold : e.shelf[g] = IF g = h THEN "waiting" ELSE d.shelf[g]
            BY <1>2, <2>2, <2>4, <3>2, <3>3
        <3>5. Shelved(e)
            BY <1>2, <1>3, <2>4, <2>8, <3>2, <3>4 DEF TidyBut, Shelved, InVan
        <3>6. Driven(e) /\ LentBut(e, {i}) /\ Single(e)
            BY <2>4, <2>8, <3>2, <3>4 DEF TidyBut, Driven, LentBut, Single, InVan
        <3> QED
            BY <2>4, <2>7, <2>8, <3>2, <3>5, <3>6 DEF TidyBut
    <2>10. CASE Request[h].pickup # b
        <3>1. e = Dispatch(p, i, Request[h].pickup, h)
            BY <2>3, <2>10
        <3>2. /\ e.loan = p.loan /\ e.copy = p.copy /\ e.shelf = p.shelf
              /\ e.ok = (p.ok /\ ~ InVan(p, i))
              /\ e.van = [p.van EXCEPT ![i] = [to |-> Request[h].pickup, hold |-> h]]
              /\ e.status = [p.status EXCEPT ![i] = "in_transit"]
            BY ONLY <2>5, <3>1, i \in Item, DispatchFields
        <3>3. e.ok = d.ok
            BY <1>2, <2>4, <2>7, <3>2 DEF InVan
        <3>4. Request[h].pickup \in Branch
            BY <2>2, RequestAssumption DEF RequestType
        <3>5. [to |-> Request[h].pickup, hold |-> h] # None
            BY <2>2, <3>4, NoneAssumption
        <3>6. /\ e.status[i] = "in_transit" /\ InVan(e, i)
              /\ \A j \in Item \ {i} : e.status[j] = d.status[j] /\ e.van[j] = d.van[j]
            BY <1>2, <2>4, <3>2, <3>5 DEF InVan
        <3>7. Shelved(e)
            BY <1>2, <1>3, <2>4, <2>6, <2>8, <3>2, <3>6 DEF TidyBut, Shelved, InVan
        <3>8. Driven(e) /\ LentBut(e, {i}) /\ Single(e)
            BY <2>4, <2>8, <3>2, <3>6 DEF TidyBut, Driven, LentBut, Single, InVan
        <3> QED
            BY <2>4, <2>8, <3>2, <3>3, <3>7, <3>8 DEF TidyBut
    <2> QED
        BY <2>9, <2>10
<1> QED
    BY <1>4, <1>5

\* A copy on the hold shelf that nobody has any more is released.
LEMMA ReleaseTidies ==
    ASSUME NEW d, Sound(d), Tidy(d), NEW i \in Item, \A g \in Hold : d.copy[g] # i,
           NEW e, e = releaseSetAsideCopy(d, i)
    PROVE  /\ Tidy(e) /\ \A g \in Hold : e.copy[g] = d.copy[g] \/ e.copy[g] = i
<1>1. CASE d.status[i] = "awaiting_pickup"
    <2>1. e = Settle(d, i, d.at[i])
        BY <1>1 DEF releaseSetAsideCopy
    <2>2. d.van[i] = None /\ TidyBut(d, {i}) /\ d.loan[i] = None
        BY <1>1 DEF Tidy, TidyBut, Driven, LentBut, InVan
    <2>3. /\ TidyBut(e, {i}) /\ e.ok = d.ok /\ e.loan = d.loan
          /\ \A g \in Hold : e.copy[g] = d.copy[g] \/ e.copy[g] = i
        <3>1. d.van[i] = None /\ TidyBut(d, {i})
            BY <2>2
        <3> QED
            BY ONLY <2>1, <3>1, Sound(d), i \in Item, \A g \in Hold : d.copy[g] # i,
                    SettleTidies
    <2>4. Tidy(e)
        BY <2>2, <2>3 DEF Tidy, TidyBut, LentBut
    <2> QED
        BY <2>3, <2>4
<1>2. CASE d.status[i] # "awaiting_pickup"
    BY <1>2 DEF releaseSetAsideCopy
<1> QED
    BY <1>1, <1>2

LEMMA ReleaseAllTidies ==
    ASSUME NEW d, Sound(d), Tidy(d), NEW S \in SUBSET Item, IsFiniteSet(S),
           \A i \in S : \A g \in Hold : d.copy[g] # i
    PROVE  Tidy(releaseAll(d, S))
<1> DEFINE Free(s, e) == Tidy(e) /\ \A i \in S \ s : \A g \in Hold : e.copy[g] # i
           D == [s \in SUBSET S |-> {e \in SoundDb : Free(s, e)}]
<1>1. D \in [SUBSET S -> SUBSET SoundDb]
    OBVIOUS
<1>2. d \in D[{}]
    BY DEF SoundDb, Sound
<1>3. ASSUME NEW i \in S, NEW e \in SoundDb PROVE releaseSetAsideCopy(e, i) \in SoundDb
    <2>1. Sound(e) /\ i \in Item
        BY DEF SoundDb
    <2>2. Sound(releaseSetAsideCopy(e, i))
        BY <2>1, ReleaseKeeps
    <2> QED
        BY <2>2 DEF SoundDb, Sound
<1>4. ASSUME NEW s \in SUBSET S, s # {}, NEW e \in D[s \ {Pick(s)}]
      PROVE  releaseSetAsideCopy(e, Pick(s)) \in D[s]
    <2> DEFINE i == Pick(s)
               f == releaseSetAsideCopy(e, i)
    <2>1. i \in s /\ i \in Item /\ s \ {i} \in SUBSET S
        BY <1>4 DEF Pick
    <2>2. e \in SoundDb /\ Free(s \ {i}, e)
        BY <1>4, <2>1
    <2> HIDE DEF i, D
    <2>3. Sound(e) /\ Tidy(e) /\ \A g \in Hold : e.copy[g] # i
        BY <2>1, <2>2 DEF SoundDb
    <2>4. Tidy(f) /\ \A g \in Hold : f.copy[g] = e.copy[g] \/ f.copy[g] = i
        BY <2>1, <2>3, ReleaseTidies
    <2>5. f \in SoundDb
        BY <1>3, <2>1, <2>2
    <2> HIDE DEF f
    <2>6. Free(s, f)
        BY <2>1, <2>2, <2>4
    <2>7. f \in D[s]
        BY <2>5, <2>6 DEF D
    <2> QED
        BY <2>7 DEF f, i
<1> HIDE DEF D
<1>5. releaseAll(d, S) \in D[S]
    BY <1>1, <1>2, <1>3, <1>4, ReleaseAllWithin
<1> QED
    BY <1>5 DEF D

LEMMA EndTidies ==
    ASSUME NEW d, Sound(d), Tidy(d), NEW h \in Hold, NEW how \in Ended,
           NEW e, e = End(d, h, how)
    PROVE  Tidy(e) /\ \A g \in Hold : e.copy[g] = IF g = h THEN None ELSE d.copy[g]
<1>1. d \in Database
    BY DEF Sound
<1>2. /\ e.status = d.status /\ e.loan = d.loan /\ e.van = d.van
      /\ e.copy = [d.copy EXCEPT ![h] = None]
      /\ e.shelf = [d.shelf EXCEPT ![h] = "no"]
    <2>1. /\ e.status = d.status /\ e.at = d.at /\ e.archived = d.archived
          /\ e.loan = d.loan /\ e.van = d.van /\ e.resolved = d.resolved
          /\ e.ok = d.ok
          /\ e.state = [d.state EXCEPT ![h] = how]
          /\ e.copy = [d.copy EXCEPT ![h] = None]
          /\ e.shelf = [d.shelf EXCEPT ![h] = "no"]
          /\ e.susp = [d.susp EXCEPT ![h] = "no"]
          /\ e.prio = [d.prio EXCEPT ![h] = 0]
          /\ e.pos = IF d.pos[h] > 0 THEN Dequeue(d.pos, Queue(h), h) ELSE d.pos
        BY ONLY <1>1, h \in Hold, how \in Ended, e = End(d, h, how), EndFields
    <2> QED
        BY <2>1
<1>3. /\ d.copy \in [Hold -> Item \cup {None}]
      /\ d.shelf \in [Hold -> {"no", "waiting", "lapsed"}]
    BY <1>1, DbFields
<1>4. /\ \A g \in Hold : e.copy[g] = IF g = h THEN None ELSE d.copy[g]
      /\ \A g \in Hold \ {h} : e.shelf[g] = d.shelf[g]
    BY <1>2, <1>3
<1>5. Shelved(e)
    BY <1>2, <1>4 DEF Tidy, TidyBut, Shelved, InVan
<1>6. Driven(e) /\ LentBut(e, {}) /\ Single(e)
    BY <1>2, <1>4 DEF Tidy, TidyBut, Driven, LentBut, Single, InVan
<1> QED
    BY <1>4, <1>5, <1>6 DEF Tidy, TidyBut

LEMMA EndReleaseTidies ==
    ASSUME NEW d, Sound(d), Tidy(d), NEW h \in Hold, NEW how \in Ended,
           NEW i \in Item, d.copy[h] = i,
           NEW e, e = releaseSetAsideCopy(End(d, h, how), i)
    PROVE  Tidy(e)
<1> DEFINE f == End(d, h, how)
<1>1. Tidy(f) /\ \A g \in Hold : f.copy[g] = IF g = h THEN None ELSE d.copy[g]
    BY EndTidies
<1>2. Sound(f)
    BY EndKeeps
<1>3. e = releaseSetAsideCopy(f, i)
    OBVIOUS
<1> HIDE DEF f
<1>4. i # None
    BY NoneAssumption
<1>5. \A g \in Hold : f.copy[g] # i
    BY <1>1, <1>4 DEF Tidy, TidyBut, Single
<1> QED
    BY <1>1, <1>2, <1>3, <1>5, ReleaseTidies

\* Steps that change nothing of this.
LEMMA SameTidy ==
    ASSUME NEW d, Tidy(d), NEW e,
           e.status = d.status, e.van = d.van, e.loan = d.loan, e.copy = d.copy,
           \A h \in Hold : e.shelf[h] = "no" <=> d.shelf[h] = "no"
    PROVE  Tidy(e)
BY DEF Tidy, TidyBut, Shelved, Driven, LentBut, Single, InVan

LEMMA LendTidies ==
    ASSUME NEW d, Sound(d), Tidy(d), NEW r, r.item \in Item, r.patron \in Patron,
           r.own \in SUBSET Item, CanLend(d, r.patron, r.item),
           NEW e, e = Lend(d, r)
    PROVE  Tidy(e)
<1> DEFINE own == OwnHold(d, r.patron, r.item)
           sib == Siblings(d, own)
           lent == LentDb(d, r)
           filled == EndAll(lent, own, "fulfilled")
           spare == ({d.copy[h] : h \in own} \ {r.item}) \cap r.own
           freed == releaseAll(filled, spare)
           ended == EndAll(freed, sib, "cancelled")
           closed == Closed(ended, own)
           copies == {freed.copy[g] : g \in sib} \ {None}
<1>1. e = releaseAll(closed, copies)
    BY DEF Lend, resolveGroup, LentDb, Closed
<1>2. own \in SUBSET Hold /\ sib \in SUBSET Hold
    BY DEF OwnHold, Siblings
<1>3. "fulfilled" \in Ended /\ "cancelled" \in Ended
    BY DEF Ended
<1>d. d \in Database /\ RowsSound(d)
    BY DEF Sound
<1>n. r.item # None
    BY NoneAssumption
\* Whoever had the copy is the reader who takes it.
<1>o. \A g \in Hold : d.copy[g] = r.item => g \in own
    <2> SUFFICES ASSUME NEW g \in Hold, d.copy[g] = r.item PROVE g \in own
        OBVIOUS
    <2>1. Open(d, g) /\ BibOfItem[r.item] = Bib(g)
        BY <1>d, <1>n DEF RowsSound
    <2>2. Request[g].patron = r.patron
        BY <2>1 DEF CanLend, Assigned
    <2> QED
        BY <2>1, <2>2 DEF OwnHold
<1> HIDE DEF own, sib
<1>4. /\ Sound(lent) /\ HoldsFollow(d, lent) /\ (Coming(d) => Coming(lent))
      /\ lent.state = d.state /\ lent.copy = d.copy /\ lent.resolved = d.resolved
      /\ lent.pos = d.pos /\ lent.susp = d.susp /\ lent.ok = d.ok
      /\ lent.shelf = d.shelf /\ lent.van = d.van
      /\ lent.loan = [d.loan EXCEPT ![r.item] = r.patron]
      /\ lent.status[r.item] = "on_loan"
      /\ \A i \in Item \ {r.item} : lent.status[i] = d.status[i]
    <2> HIDE DEF lent
    <2> QED
        BY LentKeeps DEF lent
<1> HIDE DEF lent
<1>5. HasEnded(lent, own, "fulfilled", filled)
    BY <1>2, <1>3, <1>4, EndAllKeeps
<1> HIDE DEF filled
<1>6. /\ Sound(filled) /\ filled.status = lent.status /\ filled.van = d.van
      /\ filled.loan = lent.loan
      /\ \A h \in Hold : /\ filled.copy[h] = (IF h \in own THEN None ELSE d.copy[h])
                         /\ filled.shelf[h] = (IF h \in own THEN "no" ELSE d.shelf[h])
    BY <1>4, <1>5 DEF HasEnded, Follows
<1>7. Tidy(filled)
    <2>1. /\ d.copy \in [Hold -> Item \cup {None}]
          /\ d.loan \in [Item -> Patron \cup {None}]
        BY <1>d, DbFields
    <2>2. d.status[r.item] \in {"available", "awaiting_pickup"} /\ d.van[r.item] = None
        BY DEF CanLend, Tidy, TidyBut, Driven, InVan
    <2>3. Shelved(filled)
        <3> SUFFICES ASSUME NEW h \in Hold, filled.copy[h] # None
                     PROVE  /\ filled.copy[h] = d.copy[h] /\ filled.shelf[h] = d.shelf[h]
                            /\ d.copy[h] \in Item \ {r.item}
            BY <1>4, <1>6 DEF Tidy, TidyBut, Shelved, InVan
        <3>1. h \notin own
            BY <1>6
        <3> QED
            BY <1>6, <1>o, <2>1, <3>1
    <2>4. Driven(filled)
        BY <1>4, <1>6, <2>2 DEF Tidy, TidyBut, Driven, InVan
    <2>5. LentBut(filled, {})
        BY <1>4, <1>6, <2>1 DEF Tidy, TidyBut, LentBut
    <2>6. Single(filled)
        BY <1>6 DEF Tidy, TidyBut, Single
    <2> QED
        BY <2>3, <2>4, <2>5, <2>6 DEF Tidy, TidyBut
<1>8. spare \in SUBSET Item /\ IsFiniteSet(spare)
    <2>1. IsFiniteSet({d.copy[h] : h \in own})
        BY <1>2, CopiesFinite DEF Sound
    <2>2. spare \subseteq {d.copy[h] : h \in own} /\ spare \subseteq r.own
        OBVIOUS
    <2> HIDE DEF spare
    <2> QED
        BY <2>1, <2>2, FS_Subset
<1>9. \A i \in spare : \E h \in own : d.copy[h] = i
    OBVIOUS
<1> HIDE DEF spare
<1>10. ASSUME NEW i \in spare, NEW g \in Hold PROVE filled.copy[g] # i
    <2>1. PICK h \in own : d.copy[h] = i
        BY <1>9
    <2>2. i # None /\ h \in Hold
        BY <1>2, <1>8, NoneAssumption
    <2>3. d.copy[g] = i => g = h
        BY <2>1, <2>2 DEF Tidy, TidyBut, Single
    <2> QED
        BY <1>6, <2>2, <2>3
<1>11. Tidy(freed)
    BY <1>6, <1>7, <1>8, <1>10, ReleaseAllTidies
<1>12. HasReleased(filled, spare, freed)
    BY <1>6, <1>8, ReleaseAllKeeps
<1> HIDE DEF freed
<1>13. Sound(freed) /\ freed \in Database
    BY <1>12 DEF HasReleased, Sound
<1>14. HasEnded(freed, sib, "cancelled", ended)
    BY <1>2, <1>3, <1>13, EndAllKeeps
<1> HIDE DEF ended
<1>15. /\ Sound(ended) /\ ended.status = freed.status /\ ended.van = freed.van
       /\ ended.loan = freed.loan
       /\ \A h \in Hold : /\ ended.copy[h] = (IF h \in sib THEN None ELSE freed.copy[h])
                          /\ ended.shelf[h] = (IF h \in sib THEN "no" ELSE freed.shelf[h])
    BY <1>14 DEF HasEnded, Follows
<1>16. Tidy(ended)
    <2>1. Shelved(ended)
        BY <1>11, <1>15 DEF Tidy, TidyBut, Shelved, InVan
    <2>2. Driven(ended) /\ LentBut(ended, {})
        BY <1>11, <1>15 DEF Tidy, TidyBut, Driven, LentBut, InVan
    <2>3. Single(ended)
        BY <1>11, <1>15 DEF Tidy, TidyBut, Single
    <2> QED
        BY <2>1, <2>2, <2>3 DEF Tidy, TidyBut
<1>17. /\ Sound(closed) /\ closed.status = ended.status /\ closed.van = ended.van
       /\ closed.loan = ended.loan
       /\ closed.copy = ended.copy /\ closed.shelf = ended.shelf
    <2> HIDE DEF closed
    <2> QED
        BY <1>2, <1>15, ClosedKeeps DEF closed
<1> HIDE DEF closed
<1>18. Tidy(closed)
    BY <1>16, <1>17, SameTidy
<1>19. copies \in SUBSET Item /\ IsFiniteSet(copies)
    BY <1>2, <1>13, CopiesFinite
<1>20. \A i \in copies : i # None /\ \E h \in sib : freed.copy[h] = i
    OBVIOUS
<1> HIDE DEF copies
<1>21. ASSUME NEW i \in copies, NEW g \in Hold PROVE closed.copy[g] # i
    <2>1. PICK h \in sib : freed.copy[h] = i
        BY <1>20
    <2>2. i # None /\ h \in Hold
        BY <1>2, <1>20
    <2>3. freed.copy[g] = i => g = h
        BY <1>11, <2>1, <2>2 DEF Tidy, TidyBut, Single
    <2> QED
        BY <1>15, <1>17, <2>2, <2>3
<1> QED
    BY <1>1, <1>17, <1>18, <1>19, <1>21, ReleaseAllTidies

\* A van that arrives puts the copy of whoever it was for on the hold shelf.
LEMMA ReceiveTidies ==
    ASSUME NEW d, Good(d), Tidy(d), NEW i \in Item, d.van[i] # None,
           NEW s, \A g \in Hold : d.copy[g] = i => s = "awaiting_pickup",
           NEW c, c = claimOnArrival(Unloaded(d, i, d.van[i].to), i, d.van[i].to),
           NEW e, e = WithStatus(c, i, s)
    PROVE  Tidy(e)
<1> DEFINE b == d.van[i].to
           f == Unloaded(d, i, b)
<1>1. Sound(d) /\ Coming(d) /\ d \in Database /\ RowsSound(d)
    BY DEF Good, Sound
<1>2. /\ d.van \in [Item -> [to : Branch, hold : Hold \cup {None}] \cup {None}]
      /\ d.copy \in [Hold -> Item \cup {None}]
    BY <1>1, DbFields
<1>3. d.van[i] \in [to : Branch, hold : Hold \cup {None}]
    BY <1>2
<1>4. b \in Branch /\ c = claimOnArrival(f, i, b)
    BY <1>3
<1>5. \A g \in Hold : d.van[i] = [to |-> Request[g].pickup, hold |-> g]
            => Request[g].pickup = b /\ d.van[i].hold = g
    OBVIOUS
<1>l. d.status[i] = "in_transit"
    BY DEF Tidy, TidyBut, Driven, InVan
<1> HIDE DEF b
<1>6. /\ Sound(f) /\ Follows(d, f)
      /\ f.state = d.state /\ f.copy = d.copy /\ f.shelf = d.shelf
      /\ f.status = d.status /\ f.resolved = d.resolved /\ f.ok = d.ok
      /\ f.van[i] = None /\ \A j \in Item \ {i} : f.van[j] = d.van[j]
    BY ONLY <1>1, <1>4, i \in Item, UnloadedKeeps
<1> HIDE DEF f
<1>7. f \in Database /\ f.loan = d.loan
    BY <1>6 DEF Sound, Follows
<1>8. /\ e.loan = d.loan /\ e.van = f.van /\ e.copy = d.copy
      /\ e.shelf = [h \in Hold |->
                       IF h \in Claimant(f, i, b) THEN "waiting" ELSE f.shelf[h]]
      /\ e.status[i] = s /\ \A j \in Item \ {i} : e.status[j] = d.status[j]
    <2>1. /\ c.loan = f.loan /\ c.van = f.van /\ c.copy = f.copy
          /\ c.shelf = [h \in Hold |->
                           IF h \in Claimant(f, i, b) THEN "waiting" ELSE f.shelf[h]]
          /\ c.status = [f.status EXCEPT ![i] =
                           IF Claimant(f, i, b) = {} THEN "available"
                                                     ELSE "awaiting_pickup"]
        BY ONLY <1>4, <1>7, i \in Item, ClaimFields
    <2>2. c \in Database
        BY <1>4, <1>6, ClaimKeeps DEF Sound
    <2>3. /\ e.loan = c.loan /\ e.van = c.van /\ e.copy = c.copy /\ e.shelf = c.shelf
          /\ e.status = [c.status EXCEPT ![i] = s]
        BY <2>2, Zenon DEF WithStatus, Database
    <2>4. f.status \in [Item -> ItemStatus]
        BY <1>7, DbFields
    <2> QED
        BY <1>6, <1>7, <2>1, <2>3, <2>4
<1>10. \A j \in Item \ {i} : e.status[j] = d.status[j] /\ e.van[j] = d.van[j]
    BY <1>6, <1>8
\* Whoever has the copy in the van is the one the van is for.
<1>11. ASSUME NEW g \in Hold, d.copy[g] = i
       PROVE  g \in Claimant(f, i, b)
    <2>1. Open(d, g) /\ d.copy[g] # None /\ d.shelf[g] = "no"
        BY <1>1, <1>11, <1>l, NoneAssumption DEF RowsSound, Tidy, TidyBut, Shelved, InVan
    <2>2. Request[g].pickup = b
        <3>1. d.van[d.copy[g]] = [to |-> Request[g].pickup, hold |-> g]
            BY <1>1, <2>1 DEF Coming
        <3>2. d.van[i] = [to |-> Request[g].pickup, hold |-> g]
            BY ONLY <1>11, <3>1
        <3> QED
            BY ONLY <1>5, <3>2, g \in Hold
    <2> QED
        BY <1>6, <1>11, <2>1, <2>2 DEF Claimant, Assigned, Open
<1>12. \A g \in Hold : g \in Claimant(f, i, b) => d.copy[g] = i
    BY <1>6 DEF Claimant, Assigned
<1>13. Shelved(e)
    <2> SUFFICES ASSUME NEW h \in Hold, e.copy[h] # None
                 PROVE  \/ /\ e.shelf[h] # "no" /\ e.status[e.copy[h]] = "awaiting_pickup"
                           /\ ~ InVan(e, e.copy[h])
                        \/ /\ e.shelf[h] = "no" /\ e.status[e.copy[h]] = "in_transit"
                           /\ InVan(e, e.copy[h])
        BY Zenon DEF Shelved
    <2>1. e.copy[h] = d.copy[h] /\ d.copy[h] \in Item
        BY <1>2, <1>8
    <2>2. CASE d.copy[h] = i
        <3>1. h \in Claimant(f, i, b)
            BY <1>11, <2>2
        <3>2. e.shelf[h] = "waiting" /\ e.status[i] = "awaiting_pickup"
            BY <1>8, <2>2, <3>1
        <3>3. e.van[i] = None
            BY <1>6, <1>8
        <3> QED
            BY <2>1, <2>2, <3>2, <3>3 DEF InVan
    <2>3. CASE d.copy[h] # i
        <3>1. e.shelf[h] = d.shelf[h]
            BY <1>6, <1>8, <1>12, <2>3
        <3> QED
            BY <1>10, <2>1, <2>3, <3>1 DEF Tidy, TidyBut, Shelved, InVan
    <2> QED
        BY <2>2, <2>3, Zenon
<1>14. Driven(e)
    BY <1>6, <1>8, <1>10 DEF Tidy, TidyBut, Driven, InVan
<1>15. LentBut(e, {})
    BY <1>7, <1>8, <1>10, <1>l DEF Tidy, TidyBut, LentBut
<1>16. Single(e)
    BY <1>6, <1>8 DEF Tidy, TidyBut, Single
<1> QED
    BY <1>13, <1>14, <1>15, <1>16 DEF Tidy, TidyBut

\* A van that is called back leaves its copy to nobody.
LEMMA StopTidies ==
    ASSUME NEW d, Good(d), Tidy(d), NEW i \in Item, d.van[i] # None,
           NEW e, e = IF d.van[i].hold \in Assigned(d, i)
                      THEN requeue(Stopped(d, i), d.van[i].hold) ELSE Stopped(d, i)
    PROVE  Tidy(e)
<1> DEFINE f == Stopped(d, i)
           h == d.van[i].hold
<1>1. Sound(d) /\ Coming(d) /\ d \in Database /\ RowsSound(d)
    BY DEF Good, Sound
<1>2. /\ d.copy \in [Hold -> Item \cup {None}]
      /\ d.shelf \in [Hold -> {"no", "waiting", "lapsed"}]
    BY <1>1, DbFields
<1>l. d.status[i] = "in_transit"
    BY DEF Tidy, TidyBut, Driven, InVan
<1>3. \A g \in Hold : d.copy[g] = i => g \in Assigned(d, i) /\ g = h
    <2> SUFFICES ASSUME NEW g \in Hold, d.copy[g] = i
                 PROVE  g \in Assigned(d, i) /\ g = h
        OBVIOUS
    <2>1. Open(d, g) /\ d.copy[g] # None /\ d.shelf[g] = "no"
        BY <1>1, <1>l, NoneAssumption DEF RowsSound, Tidy, TidyBut, Shelved, InVan
    <2>2. d.van[i] = [to |-> Request[g].pickup, hold |-> g]
        BY <1>1, <2>1 DEF Coming
    <2> QED
        BY <2>1, <2>2 DEF Assigned
<1>4. /\ Sound(f) /\ Follows(d, f)
      /\ f.state = d.state /\ f.copy = d.copy /\ f.shelf = d.shelf
      /\ f.pos = d.pos /\ f.susp = d.susp
      /\ f.resolved = d.resolved /\ f.ok = d.ok
      /\ f.van[i] = None /\ \A j \in Item \ {i} : f.van[j] = d.van[j]
      /\ f.status[i] = "available"
      /\ \A j \in Item \ {i} : f.status[j] = d.status[j]
    BY ONLY <1>1, i \in Item, StoppedKeeps
<1>e. e = IF h \in Assigned(d, i) THEN requeue(f, h) ELSE f
    OBVIOUS
<1> HIDE DEF f, h
<1>5. f \in Database /\ f.loan = d.loan
    BY <1>4 DEF Sound, Follows
\* Either way the copy is nobody's and the other rows are as they were.
<1>6. /\ e.status = f.status /\ e.van = f.van /\ e.loan = f.loan
      /\ \A g \in Hold : /\ e.copy[g] = (IF d.copy[g] = i THEN None ELSE d.copy[g])
                         /\ (d.copy[g] # i => e.shelf[g] = d.shelf[g])
    <2>1. CASE h \in Assigned(d, i)
        <3>1. h \in Hold /\ d.copy[h] = i /\ e = requeue(f, h)
            BY <1>e, <2>1 DEF Assigned
        <3>2. /\ e.at = f.at /\ e.archived = f.archived /\ e.status = f.status
              /\ e.loan = f.loan /\ e.van = f.van /\ e.resolved = f.resolved
              /\ e.state = f.state /\ e.susp = f.susp /\ e.prio = f.prio
              /\ e.ok = f.ok
              /\ e.copy = [f.copy EXCEPT ![h] = None]
              /\ e.shelf = [f.shelf EXCEPT ![h] = "no"]
              /\ e.pos = Enqueue(f.pos, Queue(h), h)
            BY ONLY <1>5, <3>1, RequeueFields
        <3>3. \A g \in Hold : /\ e.copy[g] = (IF g = h THEN None ELSE d.copy[g])
                              /\ (g # h => e.shelf[g] = d.shelf[g])
            BY ONLY <1>2, <1>4, <3>1, <3>2
        <3> QED
            BY <1>3, <3>1, <3>2, <3>3
    <2>2. CASE h \notin Assigned(d, i)
        <3>1. e = f /\ \A g \in Hold : d.copy[g] # i
            BY <1>3, <1>e, <2>2
        <3> QED
            BY <1>4, <3>1
    <2> QED
        BY <2>1, <2>2
<1>7. Shelved(e)
    <2> SUFFICES ASSUME NEW g \in Hold, e.copy[g] # None
                 PROVE  /\ e.copy[g] = d.copy[g] /\ e.shelf[g] = d.shelf[g]
                        /\ d.copy[g] \in Item \ {i}
        BY <1>4, <1>6 DEF Tidy, TidyBut, Shelved, InVan
    <2> QED
        BY <1>2, <1>6
<1>8. Driven(e)
    BY <1>4, <1>6 DEF Tidy, TidyBut, Driven, InVan
<1>9. LentBut(e, {})
    BY <1>4, <1>5, <1>6, <1>l DEF Tidy, TidyBut, LentBut
<1>10. Single(e)
    BY <1>6 DEF Tidy, TidyBut, Single
<1> QED
    BY <1>7, <1>8, <1>9, <1>10 DEF Tidy, TidyBut

\* The copy of a loan is in no van and nobody's: it is settled like a free one.
LEMMA ReturnTidies ==
    ASSUME NEW d, Good(d), Tidy(d), NEW i \in Item, d.loan[i] # None,
           NEW b, NEW e, e = Returned(d, i, b)
    PROVE  Tidy(e) /\ e.ok
<1> DEFINE f == Settle(d, i, b)
<1>1. Sound(d) /\ d \in Database
    BY DEF Good, Sound
<1>ok. d.ok
    BY DEF Good
<1>2. d.status[i] = "on_loan"
    BY DEF Tidy, TidyBut, LentBut
<1>3. d.van[i] = None /\ TidyBut(d, {i}) /\ \A g \in Hold : d.copy[g] # i
    BY <1>2, NoneAssumption DEF Tidy, TidyBut, Driven, LentBut, Shelved, InVan
<1>4. /\ TidyBut(f, {i}) /\ f.ok = d.ok /\ f.loan = d.loan
      /\ \A g \in Hold : f.copy[g] = d.copy[g] \/ f.copy[g] = i
    BY ONLY <1>1, <1>3, i \in Item, SettleTidies
<1>5. f \in Database
    <2>1. Sound(f)
        BY ONLY <1>1, i \in Item, SettleKeeps
    <2> QED
        BY <2>1 DEF Sound
<1>6. e = LoanClosed(f, i)
    BY DEF Returned, LoanClosed
<1> HIDE DEF f
<1>7. /\ e.status = f.status /\ e.van = f.van /\ e.copy = f.copy /\ e.shelf = f.shelf
      /\ e.ok = f.ok /\ e.loan = [f.loan EXCEPT ![i] = None]
    BY <1>5, <1>6, Zenon DEF LoanClosed, Database
<1>8. f.loan \in [Item -> Patron \cup {None}]
    BY <1>5, DbFields
<1>9. Shelved(e) /\ Driven(e) /\ Single(e)
    BY <1>4, <1>7 DEF TidyBut, Shelved, Driven, Single, InVan
<1>10. LentBut(e, {})
    BY <1>4, <1>7, <1>8 DEF TidyBut, LentBut
<1> QED
    BY <1>4, <1>7, <1>9, <1>10, <1>ok DEF Tidy, TidyBut

LEMMA LostTidies ==
    ASSUME NEW d, Good(d), Tidy(d), NEW i \in Item, d.loan[i] # None,
           NEW e, e = LostDb(d, i)
    PROVE  Tidy(e)
<1>1. d \in Database
    BY DEF Good, Sound
<1>2. d.status[i] = "on_loan"
    BY DEF Tidy, TidyBut, LentBut
<1>3. d.van[i] = None /\ \A g \in Hold : d.copy[g] # i
    BY <1>2, NoneAssumption DEF Tidy, TidyBut, Driven, Shelved, InVan
<1>4. /\ e.van = d.van /\ e.copy = d.copy /\ e.shelf = d.shelf
      /\ e.loan = [d.loan EXCEPT ![i] = None]
      /\ e.status = [d.status EXCEPT ![i] = "missing"]
    BY <1>1, Zenon DEF LostDb, Database
<1>5. /\ d.loan \in [Item -> Patron \cup {None}] /\ d.status \in [Item -> ItemStatus]
      /\ d.copy \in [Hold -> Item \cup {None}]
    BY <1>1, DbFields
<1>6. /\ e.loan[i] = None
      /\ \A j \in Item \ {i} : e.loan[j] = d.loan[j] /\ e.status[j] = d.status[j]
    BY <1>4, <1>5
<1>7. Shelved(e)
    BY <1>3, <1>4, <1>5, <1>6 DEF Tidy, TidyBut, Shelved, InVan
<1>8. Driven(e) /\ LentBut(e, {}) /\ Single(e)
    BY <1>3, <1>4, <1>6 DEF Tidy, TidyBut, Driven, LentBut, Single, InVan
<1> QED
    BY <1>7, <1>8 DEF Tidy, TidyBut

\* An imported request takes a copy from the open shelf.
LEMMA ImportTidies ==
    ASSUME NEW d, Good(d), Tidy(d), NEW h \in Hold, NEW i \in Item,
           d.status[i] = "available", NEW e, e = ImportedReady(d, h, i)
    PROVE  Tidy(e)
<1>1. d \in Database
    BY DEF Good, Sound
<1>2. /\ d.van[i] = None /\ d.loan[i] = None /\ \A g \in Hold : d.copy[g] # i
    BY NoneAssumption DEF Tidy, TidyBut, Driven, LentBut, Shelved, InVan
<1>3. /\ e.van = d.van /\ e.loan = d.loan
      /\ e.copy = [d.copy EXCEPT ![h] = i]
      /\ e.shelf = [d.shelf EXCEPT ![h] = "waiting"]
      /\ e.status = [d.status EXCEPT ![i] = "awaiting_pickup"]
    BY <1>1, Zenon DEF ImportedReady, Placed, Database
<1>4. /\ d.status \in [Item -> ItemStatus] /\ d.copy \in [Hold -> Item \cup {None}]
      /\ d.shelf \in [Hold -> {"no", "waiting", "lapsed"}]
    BY <1>1, DbFields
<1>5. /\ \A g \in Hold : e.copy[g] = IF g = h THEN i ELSE d.copy[g]
      /\ \A g \in Hold : e.shelf[g] = IF g = h THEN "waiting" ELSE d.shelf[g]
      /\ e.status[i] = "awaiting_pickup"
      /\ \A j \in Item \ {i} : e.status[j] = d.status[j]
    BY ONLY <1>3, <1>4, h \in Hold, i \in Item
<1>6. Shelved(e)
    BY <1>2, <1>3, <1>4, <1>5 DEF Tidy, TidyBut, Shelved, InVan
<1>7. Driven(e) /\ LentBut(e, {}) /\ Single(e)
    BY <1>2, <1>3, <1>5 DEF Tidy, TidyBut, Driven, LentBut, Single, InVan
<1> QED
    BY <1>6, <1>7 DEF Tidy, TidyBut

LEMMA HoldStepTidies ==
    ASSUME CircInv, Tidy(db), NEW h \in Hold, HoldStep(h)
    PROVE  Tidy(db')
<1>1. Good(db) /\ db \in Database /\ Sound(db) /\ RowsSound(db)
    BY DEF CircInv, Good, Sound
<1>2. ASSUME NEW s, NEW n, PlaceHold(h, s, n) PROVE Tidy(db')
    <2>1. db' = PlacedDb(db, h, s, n)
        BY <1>2 DEF PlaceHold, Commit, PlacedDb
    <2>2. /\ db'.status = db.status /\ db'.van = db.van /\ db'.loan = db.loan
          /\ db'.copy = db.copy /\ db'.shelf = db.shelf
        BY <1>1, <2>1, Zenon DEF PlacedDb, Placed, Database
    <2> QED
        BY <2>2, SameTidy
<1>3. ASSUME ImportReadyHold(h) PROVE Tidy(db')
    <2> DEFINE copies == {i \in Item : BibOfItem[i] = Bib(h)}
               free == {i \in copies : db.status[i] = "available" /\ i \notin db.archived}
    <2>1. \/ db' = ImportedDb(db, h)
          \/ free # {} /\ db' = ImportedReady(db, h, Min(free))
        BY <1>3 DEF ImportReadyHold, CommitCopy, Commit, ImportedDb, ImportedReady
    <2>2. CASE db' = ImportedDb(db, h)
        <3>1. /\ db'.status = db.status /\ db'.van = db.van /\ db'.loan = db.loan
              /\ db'.copy = db.copy /\ db'.shelf = db.shelf
            BY <1>1, <2>2, Zenon DEF ImportedDb, Placed, Database
        <3> QED
            BY <3>1, SameTidy
    <2>3. CASE free # {} /\ db' = ImportedReady(db, h, Min(free))
        <3>1. Min(free) \in free
            BY <2>3, BoundsAssumption, NatMin
        <3>2. Min(free) \in Item /\ db.status[Min(free)] = "available"
            BY <3>1
        <3> HIDE DEF free
        <3> QED
            BY ONLY <1>1, <2>3, <3>2, h \in Hold, Tidy(db), ImportTidies
    <2> QED
        BY <2>1, <2>2, <2>3
<1>4. ASSUME NEW s, db' = WithSusp(db, h, s) PROVE Tidy(db')
    <2>1. /\ db'.status = db.status /\ db'.van = db.van /\ db'.loan = db.loan
          /\ db'.copy = db.copy /\ db'.shelf = db.shelf
        BY <1>1, <1>4, Zenon DEF WithSusp, Database
    <2> QED
        BY <2>1, SameTidy
<1>5. ASSUME NEW s, SuspendHold(h, s) PROVE Tidy(db')
    BY <1>4, <1>5 DEF SuspendHold, Commit, WithSusp
<1>6. ASSUME ResumeHold(h) \/ SuspensionEnds(h) PROVE Tidy(db')
    BY <1>4, <1>6 DEF ResumeHold, SuspensionEnds, Commit, WithSusp
<1>7. ASSUME NEW n, Prioritise(h, n) PROVE Tidy(db')
    <2>1. db' = WithPrio(db, h, n)
        BY <1>7 DEF Prioritise, Commit, WithPrio
    <2>2. /\ db'.status = db.status /\ db'.van = db.van /\ db'.loan = db.loan
          /\ db'.copy = db.copy /\ db'.shelf = db.shelf
        BY <1>1, <2>1, Zenon DEF WithPrio, Database
    <2> QED
        BY <2>2, SameTidy
<1>8. ASSUME ShelfTimeUp(h) PROVE Tidy(db')
    <2>1. db' = Lapsed(db, h) /\ db.shelf[h] = "waiting"
        BY <1>8 DEF ShelfTimeUp, Commit, Lapsed
    <2>2. /\ db'.status = db.status /\ db'.van = db.van /\ db'.loan = db.loan
          /\ db'.copy = db.copy /\ db'.shelf = [db.shelf EXCEPT ![h] = "lapsed"]
        BY <1>1, <2>1, Zenon DEF Lapsed, Database
    <2>3. db.shelf \in [Hold -> {"no", "waiting", "lapsed"}]
        BY <1>1, DbFields
    <2>4. \A g \in Hold : db'.shelf[g] = "no" <=> db.shelf[g] = "no"
        BY <2>1, <2>2, <2>3
    <2> QED
        BY <2>2, <2>4, SameTidy
<1>9. ASSUME ExpireRequest(h) PROVE Tidy(db')
    <2>1. db' = End(db, h, "expired") /\ "expired" \in Ended
        BY <1>9 DEF ExpireRequest, Commit, Ended
    <2> QED
        BY ONLY <1>1, <2>1, Tidy(db), h \in Hold, EndTidies
<1> QED
    BY <1>2, <1>3, <1>5, <1>6, <1>7, <1>8, <1>9 DEF HoldStep

LEMMA ItemStepTidies ==
    ASSUME CircInv, Tidy(db), DeskStatuses = {}, SendTo = {}, NEW i \in Item, ItemStep(i)
    PROVE  Tidy(db')
<1>1. Good(db) /\ db \in Database /\ Sound(db)
    BY DEF CircInv, Good, Sound
<1>2. ASSUME Fetch(i) PROVE Tidy(db')
    <2>1. db' = Settle(db, i, db.at[i]) /\ db.status[i] = "available"
        BY <1>2 DEF Fetch, CommitCopy, Commit
    <2>2. /\ db.van[i] = None /\ TidyBut(db, {i}) /\ \A g \in Hold : db.copy[g] # i
        BY <2>1, NoneAssumption DEF Tidy, TidyBut, Driven, LentBut, Shelved, InVan
    <2>3. db.loan[i] = None
        BY <2>1 DEF Tidy, TidyBut, LentBut
    <2>4. /\ TidyBut(db', {i}) /\ db'.ok = db.ok /\ db'.loan = db.loan
          /\ \A g \in Hold : db'.copy[g] = db.copy[g] \/ db'.copy[g] = i
        <3>1. Sound(db) /\ db' = Settle(db, i, db.at[i])
            BY <1>1, <2>1
        <3> QED
            BY ONLY <3>1, <2>2, i \in Item, SettleTidies
    <2> QED
        BY <2>3, <2>4 DEF Tidy, TidyBut, LentBut
<1>3. ASSUME NEW b \in Branch, Checkin(i, b) PROVE Tidy(db')
    <2>1. db' = Returned(db, i, b) /\ db.loan[i] # None
        BY <1>3 DEF Checkin, CommitCopy, Commit
    <2> QED
        BY ONLY <1>1, <2>1, Tidy(db), i \in Item, ReturnTidies
<1>4. ASSUME DeclareLost(i) PROVE Tidy(db')
    <2>1. db' = LostDb(db, i) /\ db.loan[i] # None
        BY <1>4 DEF DeclareLost, CommitCopy, Commit, LostDb
    <2> QED
        BY ONLY <1>1, <2>1, Tidy(db), i \in Item, LostTidies
<1>5. ASSUME ArchiveItem(i) PROVE Tidy(db')
    <2>1. db' = ArchivedDb(db, i)
        BY <1>5 DEF ArchiveItem, CommitCopy, Commit, ArchivedDb
    <2>2. /\ db'.status = db.status /\ db'.van = db.van /\ db'.loan = db.loan
          /\ db'.copy = db.copy /\ db'.shelf = db.shelf
        BY <1>1, <2>1, Zenon DEF ArchivedDb, Database
    <2> QED
        BY <2>2, SameTidy
<1>6. ASSUME ReceiveTransfer(i) PROVE Tidy(db')
    <2> PICK c : c = claimOnArrival(Unloaded(db, i, db.van[i].to), i, db.van[i].to)
        OBVIOUS
    <2> PICK s : s = IF {} \in receipt[i] THEN "available" ELSE "awaiting_pickup"
        OBVIOUS
    <2>1. db' = WithStatus(c, i, s)
        BY <1>6 DEF ReceiveTransfer, WithStatus, Unloaded
    <2>2. db.van[i] # None
        BY <1>6, ReceiptIsQuiet DEF ReadOf
    <2>3. ASSUME NEW g \in Hold, db.copy[g] = i PROVE s = "awaiting_pickup"
        <3>1. db.status[i] = "in_transit"
            BY <2>2 DEF Tidy, TidyBut, Driven, InVan
        <3>2. Open(db, g) /\ db.copy[g] # None /\ db.shelf[g] = "no"
            BY <1>1, <2>3, <3>1, NoneAssumption DEF Sound, RowsSound, Tidy, TidyBut, Shelved
        <3>3. db.van[i] = [to |-> Request[g].pickup, hold |-> g]
            BY <1>1, <2>3, <3>2 DEF Good, Coming
        <3>4. Request[g].pickup = db.van[i].to
            BY <3>3
        <3>5. ~ ReadOf(db, i, {})
            BY <2>3, <3>4 DEF ReadOf
        <3>6. {} \notin receipt[i]
            BY <3>5 DEF CircInv, Receipts
        <3> QED
            BY <3>6
    <2> QED
        BY ONLY <1>1, <2>1, <2>2, <2>3, Tidy(db), i \in Item,
                c = claimOnArrival(Unloaded(db, i, db.van[i].to), i, db.van[i].to),
                ReceiveTidies
<1>7. ASSUME CancelTransfer(i) PROVE Tidy(db')
    <2>1. /\ db' = IF db.van[i].hold \in Assigned(db, i)
                   THEN requeue(Stopped(db, i), db.van[i].hold) ELSE Stopped(db, i)
          /\ db.van[i] # None
        BY <1>7 DEF CancelTransfer, CommitCopy, Commit, Stopped, InVan
    <2> QED
        BY ONLY <1>1, <2>1, Tidy(db), i \in Item, StopTidies
<1>8. ASSUME BeginReceipt(i) PROVE Tidy(db')
    BY <1>8 DEF BeginReceipt
<1> QED
    BY <1>2, <1>3, <1>4, <1>5, <1>6, <1>7, <1>8 DEF ItemStep

LEMMA NextTidies ==
    ASSUME CircInv, Tidy(db), DeskStatuses = {}, SendTo = {}, [Next]_vars
    PROVE  Tidy(db')
<1>1. Good(db) /\ db \in Database /\ Sound(db) /\ Pending
    BY DEF CircInv, Good, Sound
<1>2. "cancelled" \in Ended /\ "expired" \in Ended
    BY DEF Ended
<1>3. ASSUME NEW k \in Desk, Checkout(k) PROVE Tidy(db')
    <2> PICK r : r = req[k]
        OBVIOUS
    <2>1. /\ r # None /\ r.op = "checkout" /\ CanLend(db, r.patron, r.item)
          /\ db' = Lend(db, r)
        BY <1>3 DEF Checkout
    <2>2. r \in CheckoutSeen
        BY <1>1, <2>1 DEF Pending, CancelSeen
    <2>3. r.item \in Item /\ r.patron \in Patron /\ r.own \in SUBSET Item
        BY <2>2 DEF CheckoutSeen
    <2> QED
        BY ONLY <1>1, <2>1, <2>3, Tidy(db), LendTidies
<1>4. ASSUME NEW k \in Desk, CancelHold(k) PROVE Tidy(db')
    <2> PICK r : r = req[k]
        OBVIOUS
    <2>1. r # None /\ r.op = "cancel" /\ db.copy[r.hold] = r.item
        BY <1>4 DEF CancelHold
    <2>2. r \in CancelSeen
        BY <1>1, <2>1 DEF Pending, CheckoutSeen
    <2>3. r.hold \in Hold /\ r.item \in Item \cup {None}
        BY <2>2 DEF CancelSeen
    <2>4. CASE r.item = None
        <3>1. db' = End(db, r.hold, "cancelled")
            BY <1>4, <2>4 DEF CancelHold
        <3> QED
            BY ONLY <1>1, <1>2, <2>3, <3>1, Tidy(db), EndTidies
    <2>5. CASE r.item # None
        <3>1. /\ db' = releaseSetAsideCopy(End(db, r.hold, "cancelled"), r.item)
              /\ r.item \in Item
            BY <1>4, <2>3, <2>5 DEF CancelHold
        <3> QED
            BY ONLY <1>1, <1>2, <2>1, <2>3, <3>1, Tidy(db), EndReleaseTidies
    <2> QED
        BY <2>4, <2>5
<1>5. ASSUME NEW row \in due, ExpireShelf(row) PROVE Tidy(db')
    <2>1. row.hold \in Hold /\ row.item \in Item
        BY <1>1 DEF Pending
    <2>2. /\ db.copy[row.hold] = row.item
          /\ db' = releaseSetAsideCopy(End(db, row.hold, "expired"), row.item)
        BY <1>5 DEF ExpireShelf, StillAssigned, ShelfRow
    <2> QED
        BY ONLY <1>1, <1>2, <2>1, <2>2, Tidy(db), EndReleaseTidies
<1>6. ASSUME NEW k \in Desk, DeskStep(k) PROVE Tidy(db')
    BY <1>3, <1>4, <1>6 DEF DeskStep, ProbeCheckout, ProbeCancel, Refuse
<1>7. ASSUME SweepStep PROVE Tidy(db')
    BY <1>5, <1>7 DEF SweepStep, ScanShelf, SkipShelfRow, SweepFails
<1>8. CASE UNCHANGED vars
    BY <1>8 DEF vars
<1> QED
    BY <1>6, <1>7, <1>8, HoldStepTidies, ItemStepTidies DEF Next

LEMMA TidyAlways ==
    ASSUME DeskStatuses = {}, SendTo = {}
    PROVE  Spec => [](CircInv /\ Tidy(db))
<1>1. Init => Tidy(db)
    <2> SUFFICES ASSUME Init PROVE Tidy(db)
        OBVIOUS
    <2>1. /\ \A i \in Item : db.van[i] = None /\ db.loan[i] = None
          /\ \A h \in Hold : db.copy[h] = None
        BY DEF Init
    <2> QED
        BY <2>1 DEF Tidy, TidyBut, Shelved, Driven, LentBut, Single, InVan
<1>2. CircInv /\ Tidy(db) /\ [Next]_vars => CircInv' /\ Tidy(db)'
    BY NextInv, NextTidies
<1> QED
    BY <1>1, <1>2, InitInv, PTL DEF Spec

\* While nobody sets a status or sends a copy by hand, a request that has a copy is
\* collectable exactly when the copy is on the hold shelf, and is not for the whole
\* of a transit (checkin.service.ts, hold-settlement.ts, item-transfers.service.ts).
THEOREM CollectableOnArrival ==
    ASSUME DeskStatuses = {}, SendTo = {}
    PROVE  Spec => []CollectableIffArrived
<1>1. CircInv /\ Tidy(db) => CollectableIffArrived
    BY DEF Tidy, TidyBut, Shelved, CollectableIffArrived
<1> QED
    BY <1>1, TidyAlways, PTL

\* While nobody sets a status or sends a copy by hand, taking back a copy that is on
\* loan, at any branch and with any queue, violates no index: the copy is nobody's
\* and in no van (checkin.service.ts: "A return is never refused").
THEOREM ReturnsAreTaken ==
    ASSUME DeskStatuses = {}, SendTo = {}
    PROVE  Spec => []ReturnNeverRefused
<1>1. CircInv /\ Tidy(db) => ReturnNeverRefused
    <2> SUFFICES ASSUME CircInv, Tidy(db), NEW i \in Item, NEW b \in Branch,
                        db.loan[i] # None
                 PROVE  Returned(db, i, b).ok
        BY DEF ReturnNeverRefused
    <2>1. Good(db)
        BY DEF CircInv
    <2> QED
        BY ONLY <2>1, Tidy(db), i \in Item, db.loan[i] # None, ReturnTidies
<1> QED
    BY <1>1, TidyAlways, PTL
=============================================================================
