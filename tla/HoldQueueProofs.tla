--------------------------- MODULE HoldQueueProofs ---------------------------
(***************************************************************************)
(* Lemmas about the queue arithmetic of hold-queue.ts, and the theorems    *)
(* about QueueMachine they give for every set of holds and records: each   *)
(* queue stays contiguous, and the positions implement HoldLine.  Then     *)
(* GapUpdate: executed row by row, the transactions implement QueueMachine.*)
(***************************************************************************)
EXTENDS GapUpdate, WellFoundedInduction, TLAPS

\* Any non-empty set of naturals below a bound has a greatest element.
LEMMA BoundedMax ==
    ASSUME NEW B \in Nat, NEW S \in SUBSET (0..B), S # {}
    PROVE  Max(S) \in S /\ \A n \in S : n <= Max(S)
<1> DEFINE D == {d \in Nat : \E n \in S : n = B - d}
           R == OpToRel(<, Nat)
<1>1. PICK n0 : n0 \in S
    OBVIOUS
<1>2. n0 \in 0..B
    BY <1>1
<1>3. B - n0 \in Nat /\ n0 = B - (B - n0)
    BY <1>2
<1>4. D \subseteq Nat /\ D # {}
    BY <1>1, <1>3
<1>5. PICK d \in D : \A e \in D : ~ (<<e, d>> \in R)
    <2>1. IsWellFoundedOn(R, Nat)
        BY NatLessThanWellFounded
    <2> HIDE DEF D, R
    <2> QED
        BY <1>4, <2>1, WFMin
<1>6. d \in Nat /\ \A e \in D : d <= e
    <2>1. \A e \in D : e \in Nat
        BY <1>4
    <2> HIDE DEF D
    <2>2. \A e \in D : ~ (e < d)
        BY <1>5, <2>1 DEF OpToRel
    <2> QED
        BY <2>1, <2>2
<1>7. PICK m \in S : m = B - d
    BY <1>5
<1>8. ASSUME NEW n \in S PROVE m >= n
    <2>1. n \in 0..B
        OBVIOUS
    <2>2. B - n \in Nat /\ n = B - (B - n)
        BY <2>1
    <2>3. d <= B - n
        BY <1>6, <2>2
    <2> QED
        BY <1>6, <1>7, <2>1, <2>3
<1>9. \A x \in S : x \in Int
    OBVIOUS
<1> HIDE DEF D, R
<1>10. /\ Max(S) \in S
       /\ \A y \in S : Max(S) >= y
    BY <1>8 DEF Max
<1> QED
    BY <1>9, <1>10

\* nextQueuePosition is a free position right behind the last one in use.
LEMMA NextQueuePositionIsFree ==
    ASSUME NEW p \in [Hold -> Nat], NEW n \in Nat,
           \A h \in Hold : p[h] <= n,
           NEW Q \in SUBSET Hold
    PROVE  /\ NextQueuePosition(p, Q) \in 1..(n + 1)
           /\ \A h \in Q : p[h] < NextQueuePosition(p, Q)
           /\ \/ NextQueuePosition(p, Q) = 1
              \/ \E g \in Q : p[g] = NextQueuePosition(p, Q) - 1
<1> DEFINE S == {0} \cup {p[h] : h \in Q}
<1>1. S \in SUBSET (0..n) /\ S # {}
    OBVIOUS
<1>2. Max(S) \in S /\ \A x \in S : x <= Max(S)
    <2> HIDE DEF S
    <2> QED
        BY <1>1, BoundedMax
<1>3. Max(S) \in 0..n
    BY <1>1, <1>2
<1>4. NextQueuePosition(p, Q) = Max(S) + 1
    BY DEF NextQueuePosition
<1>5. \A h \in Q : p[h] <= Max(S)
    BY <1>2
<1>6. Max(S) = 0 \/ \E g \in Q : p[g] = Max(S)
    BY <1>2
<1> HIDE DEF S
<1> QED
    BY <1>3, <1>4, <1>5, <1>6

\* Joining keeps a queue contiguous.
LEMMA EnqueueContiguous ==
    ASSUME NEW p \in [Hold -> Nat], NEW n \in Nat,
           \A h \in Hold : p[h] <= n,
           NEW Q \in SUBSET Hold, Contiguous(p, Q),
           NEW h \in Q, p[h] = 0
    PROVE  /\ Enqueue(p, Q, h) \in [Hold -> Nat]
           /\ \A g \in Hold : Enqueue(p, Q, h)[g] <= n + 1
           /\ Contiguous(Enqueue(p, Q, h), Q)
<1> DEFINE k == NextQueuePosition(p, Q)
           q == Enqueue(p, Q, h)
<1>1. /\ k \in 1..(n + 1)
      /\ \A g \in Q : p[g] < k
      /\ k = 1 \/ \E g \in Q : p[g] = k - 1
    BY NextQueuePositionIsFree
<1>2. q = [p EXCEPT ![h] = k]
    BY DEF Enqueue
<1> HIDE DEF k, q
<1>3. /\ q \in [Hold -> Nat]
      /\ \A g \in Hold : q[g] <= n + 1
    BY <1>1, <1>2
<1>4. q[h] = k /\ \A g \in Hold \ {h} : q[g] = p[g]
    BY <1>2
<1>5. Contiguous(q, Q)
    <2>1. \A g \in Q : q[g] >= 0
        BY <1>3
    <2>2. \A f, g \in Q : q[f] > 0 /\ q[f] = q[g] => f = g
        BY <1>1, <1>4 DEF Contiguous
    <2>3. ASSUME NEW g \in Q, q[g] > 1 PROVE \E f \in Q : q[f] = q[g] - 1
        <3>1. CASE g = h
            <4>1. PICK f \in Q : p[f] = k - 1
                BY <1>1, <1>4, <2>3, <3>1
            <4>2. f # h
                BY <1>1, <1>4, <2>3, <3>1, <4>1
            <4> QED
                BY <1>4, <3>1, <4>1, <4>2
        <3>2. CASE g # h
            <4>1. PICK f \in Q : p[f] = p[g] - 1
                BY <1>4, <2>3, <3>2 DEF Contiguous
            <4>2. f # h
                BY <1>4, <2>3, <3>2, <4>1
            <4> QED
                BY <1>4, <3>2, <4>1, <4>2
        <3> QED
            BY <3>1, <3>2
    <2> QED
        BY <2>1, <2>2, <2>3 DEF Contiguous
<1> QED
    BY <1>3, <1>5 DEF q

\* What leaving does to each row.
LEMMA DequeueRows ==
    ASSUME NEW p \in [Hold -> Nat], NEW Q \in SUBSET Hold,
           NEW h \in Q, p[h] > 0
    PROVE  /\ Dequeue(p, Q, h) \in [Hold -> Nat]
           /\ Dequeue(p, Q, h)[h] = 0
           /\ \A g \in Hold \ {h} :
                Dequeue(p, Q, h)[g] =
                    IF g \in Q /\ p[g] > p[h] THEN p[g] - 1 ELSE p[g]
<1> DEFINE z == [p EXCEPT ![h] = 0]
<1>1. z \in [Hold -> Nat] /\ z[h] = 0 /\ \A g \in Hold \ {h} : z[g] = p[g]
    OBVIOUS
<1>2. Dequeue(p, Q, h) =
        [g \in Hold |-> IF g \in Q /\ z[g] > p[h] THEN z[g] - 1 ELSE z[g]]
    BY DEF Dequeue, CloseQueueGap
<1> HIDE DEF z
<1> QED
    BY <1>1, <1>2

\* Leaving keeps a queue contiguous, wherever in it the hold was.
LEMMA DequeueContiguous ==
    ASSUME NEW p \in [Hold -> Nat],
           NEW Q \in SUBSET Hold, Contiguous(p, Q),
           NEW h \in Q, p[h] > 0
    PROVE  Contiguous(Dequeue(p, Q, h), Q)
<1> DEFINE q == Dequeue(p, Q, h)
<1>1. /\ q \in [Hold -> Nat]
      /\ q[h] = 0
      /\ \A g \in Hold \ {h} :
            q[g] = IF g \in Q /\ p[g] > p[h] THEN p[g] - 1 ELSE p[g]
    BY DequeueRows
<1> HIDE DEF q
<1>2. \A g \in Q : g # h => q[g] = IF p[g] > p[h] THEN p[g] - 1 ELSE p[g]
    BY <1>1
<1>3. \A g \in Q : g # h => p[g] # p[h]
    BY DEF Contiguous
<1>4. \A g \in Q : q[g] >= 0
    BY <1>1
<1>5. \A f, g \in Q : q[f] > 0 /\ q[f] = q[g] => f = g
    BY <1>1, <1>2, <1>3 DEF Contiguous
<1>6. ASSUME NEW g \in Q, q[g] > 1 PROVE \E f \in Q : q[f] = q[g] - 1
    <2>1. g # h
        BY <1>1, <1>6
    <2>2. p[g] > 1
        BY <1>2, <1>6, <2>1
    <2>3. PICK f \in Q : p[f] = p[g] - 1
        BY <2>2 DEF Contiguous
    <2>4. CASE f # h
        BY <1>2, <1>3, <1>6, <2>1, <2>3, <2>4
    <2>5. CASE f = h
        <3>1. q[g] = p[h]
            BY <1>2, <2>1, <2>3, <2>5
        <3>2. PICK e \in Q : p[e] = p[h] - 1
            BY <1>6, <3>1 DEF Contiguous
        <3>3. e # h /\ q[e] = p[e]
            BY <1>2, <3>2
        <3> QED
            BY <3>1, <3>2, <3>3
    <2> QED
        BY <2>4, <2>5
<1> QED
    BY <1>4, <1>5, <1>6 DEF Contiguous, q

-----------------------------------------------------------------------------
\* The inductive invariant. That some natural bounds every position is what
\* makes max(queue_position) defined.
Bounded == \E n \in Nat : \A h \in Hold : pos[h] <= n

QueueInv == pos \in [Hold -> Nat] /\ Bounded /\ QueueIntegrity

LEMMA InitQueueInv == Init => QueueInv
<1> SUFFICES ASSUME Init PROVE QueueInv
    OBVIOUS
<1>1. pos \in [Hold -> Nat] /\ \A h \in Hold : pos[h] = 0
    BY DEF Init
<1>2. Bounded
    BY <1>1 DEF Bounded
<1>3. QueueIntegrity
    BY <1>1 DEF QueueIntegrity, Contiguous, Queue
<1> QED
    BY <1>1, <1>2, <1>3 DEF QueueInv

\* A queue no row of which moves stays contiguous.
LEMMA OtherQueues ==
    ASSUME NEW p \in [Hold -> Nat], NEW q \in [Hold -> Nat],
           NEW Q \in SUBSET Hold, \A g \in Q : q[g] = p[g],
           Contiguous(p, Q)
    PROVE  Contiguous(q, Q)
BY DEF Contiguous

LEMMA NextQueueInv == QueueInv /\ [Next]_pos => QueueInv'
<1> SUFFICES ASSUME QueueInv, [Next]_pos PROVE QueueInv'
    OBVIOUS
<1>1. pos \in [Hold -> Nat]
    BY DEF QueueInv
<1>2. \A h \in Hold : Queue(h) \in SUBSET Hold /\ h \in Queue(h)
    BY DEF Queue
<1>3. \A h \in Hold : Contiguous(pos, Queue(h))
    BY DEF QueueInv, QueueIntegrity
<1>4. PICK n \in Nat : \A h \in Hold : pos[h] <= n
    BY DEF QueueInv, Bounded
<1>5. \A g, h \in Hold : Queue(g) = Queue(h) \/ Queue(g) \cap Queue(h) = {}
    BY DEF Queue
<1>6. ASSUME NEW h \in Hold, Join(h) PROVE QueueInv'
    <2>1. pos' = Enqueue(pos, Queue(h), h) /\ pos[h] = 0
        BY <1>6 DEF Join
    <2>2. /\ pos' \in [Hold -> Nat]
          /\ \A g \in Hold : pos'[g] <= n + 1
          /\ Contiguous(pos', Queue(h))
        BY <1>1, <1>2, <1>3, <1>4, <2>1, EnqueueContiguous
    <2>3. \A g \in Hold : g # h => pos'[g] = pos[g]
        BY <1>1, <2>1 DEF Enqueue
    <2>4. ASSUME NEW g \in Hold PROVE Contiguous(pos', Queue(g))
        <3>1. CASE Queue(g) = Queue(h)
            BY <2>2, <3>1
        <3>2. CASE Queue(g) \cap Queue(h) = {}
            <4>1. \A f \in Queue(g) : pos'[f] = pos[f]
                BY <1>2, <2>3, <3>2
            <4> QED
                BY <1>1, <1>2, <1>3, <2>2, <4>1, OtherQueues
        <3> QED
            BY <1>5, <3>1, <3>2
    <2>5. QueueIntegrity'
        BY <2>4 DEF QueueIntegrity, Queue
    <2>6. Bounded'
        BY <2>2 DEF Bounded
    <2> QED
        BY <2>2, <2>5, <2>6 DEF QueueInv
<1>7. ASSUME NEW h \in Hold, Leave(h) PROVE QueueInv'
    <2>1. pos' = Dequeue(pos, Queue(h), h) /\ pos[h] > 0
        BY <1>7 DEF Leave
    <2>2. /\ pos' \in [Hold -> Nat]
          /\ pos'[h] = 0
          /\ \A g \in Hold \ {h} :
                pos'[g] = IF g \in Queue(h) /\ pos[g] > pos[h]
                          THEN pos[g] - 1 ELSE pos[g]
        BY <1>1, <1>2, <2>1, DequeueRows
    <2>3. Contiguous(pos', Queue(h))
        BY <1>1, <1>2, <1>3, <2>1, DequeueContiguous
    <2>4. ASSUME NEW g \in Hold PROVE Contiguous(pos', Queue(g))
        <3>1. CASE Queue(g) = Queue(h)
            BY <2>3, <3>1
        <3>2. CASE Queue(g) \cap Queue(h) = {}
            <4>1. \A f \in Queue(g) : pos'[f] = pos[f]
                BY <1>2, <2>2, <3>2
            <4> QED
                BY <1>1, <1>2, <1>3, <2>2, <4>1, OtherQueues
        <3> QED
            BY <1>5, <3>1, <3>2
    <2>5. QueueIntegrity'
        BY <2>4 DEF QueueIntegrity, Queue
    <2>6. \A g \in Hold : pos'[g] <= n
        BY <1>1, <1>4, <2>2
    <2>7. Bounded'
        BY <2>6 DEF Bounded
    <2> QED
        BY <2>2, <2>5, <2>7 DEF QueueInv
<1>8. CASE UNCHANGED pos
    BY <1>8 DEF QueueInv, Bounded, QueueIntegrity, Queue
<1> QED
    BY <1>6, <1>7, <1>8 DEF Next

\* Every queue of every record is contiguous and 1-based after every
\* transaction, for any number of holds and records and whichever holds leave
\* from wherever in the queue (hold-queue.ts: nextQueuePosition, closeQueueGap).
THEOREM QueuesStayContiguous == Spec => []QueueIntegrity
<1>1. QueueInv => QueueIntegrity
    BY DEF QueueInv
<1> QED
    BY <1>1, InitQueueInv, NextQueueInv, PTL DEF Spec

-----------------------------------------------------------------------------
\* A join is a join of the line.
LEMMA JoinRefines ==
    ASSUME QueueInv, NEW h \in Hold, Join(h)
    PROVE  Line!Join(h)
<1>1. pos \in [Hold -> Nat] /\ pos[h] = 0
    BY DEF QueueInv, Join
<1>2. PICK n \in Nat : \A g \in Hold : pos[g] <= n
    BY DEF QueueInv, Bounded
<1> DEFINE k == NextQueuePosition(pos, Queue(h))
<1>3. Queue(h) \in SUBSET Hold /\ h \in Queue(h)
    BY DEF Queue
<1>4. k \in 1..(n + 1) /\ \A g \in Queue(h) : pos[g] < k
    BY <1>1, <1>2, <1>3, NextQueuePositionIsFree
<1>5. pos' = [pos EXCEPT ![h] = k]
    BY DEF Join, Enqueue
<1> HIDE DEF k
<1>6. pos'[h] = k /\ \A g \in Hold : g # h => pos'[g] = pos[g]
    BY <1>1, <1>5
<1>7. h \notin waitingHolds /\ waitingHolds' = waitingHolds \cup {h}
    BY <1>1, <1>4, <1>6 DEF waitingHolds
<1>8. aheadPairs' = aheadPairs \cup
            {<<g, h>> : g \in {x \in waitingHolds : BibOf(x) = BibOf(h)}}
    <2>1. ASSUME NEW f \in Hold, NEW g \in Hold
          PROVE  <<f, g>> \in aheadPairs' <=>
                    \/ <<f, g>> \in aheadPairs
                    \/ g = h /\ f \in waitingHolds /\ BibOf(f) = BibOf(h)
        BY <1>1, <1>4, <1>6, <1>7 DEF aheadPairs, waitingHolds, Queue
    <2>2. /\ aheadPairs' \subseteq Hold \X Hold
          /\ aheadPairs \subseteq Hold \X Hold
          /\ waitingHolds \subseteq Hold
        BY DEF aheadPairs, waitingHolds
    <2> QED
        BY <2>1, <2>2
<1> QED
    BY <1>7, <1>8 DEF Line!Join

\* A departure is a departure from the line.
LEMMA LeaveRefines ==
    ASSUME QueueInv, NEW h \in Hold, Leave(h)
    PROVE  Line!Leave({h})
<1>1. pos \in [Hold -> Nat] /\ pos[h] > 0
    BY DEF QueueInv, Leave
<1>2. Queue(h) \in SUBSET Hold /\ h \in Queue(h)
    BY DEF Queue
<1>3. /\ pos' \in [Hold -> Nat]
      /\ pos'[h] = 0
      /\ \A g \in Hold \ {h} :
            pos'[g] = IF g \in Queue(h) /\ pos[g] > pos[h]
                      THEN pos[g] - 1 ELSE pos[g]
    BY <1>1, <1>2, DequeueRows DEF Leave
<1>4. waitingHolds' = waitingHolds \ {h} /\ h \in waitingHolds
    BY <1>1, <1>3 DEF waitingHolds
<1>5. \A f, g \in Hold : BibOf(f) = BibOf(h) /\ pos[f] > 0 /\ pos[f] = pos[g]
                            /\ BibOf(g) = BibOf(h) => f = g
    BY <1>2 DEF QueueInv, QueueIntegrity, Contiguous, Queue
<1>6. aheadPairs' = {p \in aheadPairs : p[1] \notin {h} /\ p[2] \notin {h}}
    <2>1. ASSUME NEW f \in Hold, NEW g \in Hold
          PROVE  <<f, g>> \in aheadPairs' <=>
                    <<f, g>> \in aheadPairs /\ f # h /\ g # h
        BY <1>1, <1>3, <1>4, <1>5 DEF aheadPairs, waitingHolds, Queue
    <2>2. aheadPairs' \subseteq Hold \X Hold /\ aheadPairs \subseteq Hold \X Hold
        BY DEF aheadPairs, waitingHolds
    <2> QED
        BY <2>1, <2>2
<1> QED
    BY <1>4, <1>6 DEF Line!Leave

\* The positions implement the line of HoldLine for every set of holds and
\* records: nobody who stays is passed when a gap is closed
\* (hold-queue.ts: closeQueueGap).
THEOREM PositionsImplementTheLine == Spec => KeepsTheLine
<1>1. Init => Line!LineInit
    BY DEF Init, Line!LineInit, waitingHolds, aheadPairs
<1>2. QueueInv /\ [Next]_pos => [Line!LineNext]_(Line!lineVars)
    <2> SUFFICES ASSUME QueueInv, [Next]_pos
                 PROVE  [Line!LineNext]_(Line!lineVars)
        OBVIOUS
    <2>1. ASSUME NEW h \in Hold, Join(h) PROVE Line!LineNext
        BY <2>1, JoinRefines DEF Line!LineNext
    <2>2. ASSUME NEW h \in Hold, Leave(h) PROVE Line!LineNext
        <3>1. {h} \in SUBSET Hold
            OBVIOUS
        <3> QED
            BY <2>2, <3>1, LeaveRefines DEF Line!LineNext
    <2>3. CASE UNCHANGED pos
        BY <2>3 DEF Line!lineVars, waitingHolds, aheadPairs
    <2> QED
        BY <2>1, <2>2, <2>3 DEF Next
<1> QED
    BY <1>1, <1>2, InitQueueInv, NextQueueInv, PTL
        DEF Spec, KeepsTheLine, Line!LineSpec

-----------------------------------------------------------------------------
(* The row by row UPDATE of GapUpdate.                                     *)

Behind(h) == {g \in Queue(h) : pos[g] > pos[h]}

\* Hold h has given its position up and the UPDATE has visited the rows behind
\* it that are not in todo.
Closing(h) ==
    /\ pos[h] > 0 /\ work[h] = 0
    /\ todo \subseteq Behind(h)
    /\ \A g \in Hold \ {h} : work[g] = IF g \in Behind(h) \ todo THEN pos[g] - 1 ELSE pos[g]

RowInv ==
    /\ QueueInv
    /\ work \in [Hold -> Nat]
    /\ scan \in {"index", "heap"}
    /\ todo = {} => work = pos
    /\ todo # {} => \E h \in Hold : Closing(h)
    /\ OrderedScanCloses

\* When the last row has been visited, the column is what closeQueueGap computes.
LEMMA ClosedIsDequeued ==
    ASSUME NEW p \in [Hold -> Nat], NEW w \in [Hold -> Nat], NEW h \in Hold, p[h] > 0,
           w[h] = 0,
           \A g \in Hold \ {h} : w[g] = IF g \in Queue(h) /\ p[g] > p[h] THEN p[g] - 1 ELSE p[g]
    PROVE  w = Dequeue(p, Queue(h), h)
<1>1. Queue(h) \in SUBSET Hold /\ h \in Queue(h)
    BY DEF Queue
<1>2. /\ Dequeue(p, Queue(h), h) \in [Hold -> Nat]
      /\ Dequeue(p, Queue(h), h)[h] = 0
      /\ \A g \in Hold \ {h} :
            Dequeue(p, Queue(h), h)[g] = IF g \in Queue(h) /\ p[g] > p[h] THEN p[g] - 1 ELSE p[g]
    BY <1>1, DequeueRows
<1> DEFINE d == Dequeue(p, Queue(h), h)
<1>3. \A g \in Hold : w[g] = d[g]
    BY <1>2
<1>4. d \in [Hold -> Nat]
    BY <1>2
<1> HIDE DEF d
<1>5. w = d
    BY <1>3, <1>4
<1> QED
    BY <1>5 DEF d

LEMMA LeaveRowKeeps ==
    ASSUME RowInv, NEW h \in Hold, NEW s \in {"index", "heap"}, LeaveRow(h, s)
    PROVE  RowInv' /\ (Leave(h) \/ UNCHANGED pos)
<1>1. pos \in [Hold -> Nat] /\ QueueInv
    BY DEF RowInv, QueueInv
<1>2. /\ pos[h] > 0 /\ work' = [pos EXCEPT ![h] = 0]
      /\ todo' = Behind(h)
      /\ pos' = IF todo' = {} THEN work' ELSE pos
      /\ refused' = FALSE /\ scan' \in {"index", "heap"}
    BY DEF LeaveRow, Behind
<1>3. /\ work' \in [Hold -> Nat] /\ work'[h] = 0
      /\ \A g \in Hold \ {h} : work'[g] = pos[g]
    BY <1>1, <1>2
<1>4. OrderedScanCloses'
    BY <1>2 DEF OrderedScanCloses
<1>5. CASE todo' = {}
    <2>1. \A g \in Hold \ {h} :
             work'[g] = IF g \in Queue(h) /\ pos[g] > pos[h] THEN pos[g] - 1 ELSE pos[g]
        BY <1>2, <1>3, <1>5 DEF Behind
    <2>2. work' = Dequeue(pos, Queue(h), h)
        BY <1>1, <1>2, <1>3, <2>1, ClosedIsDequeued
    <2>3. Leave(h)
        BY <1>2, <1>5, <2>2 DEF Leave
    <2>4. QueueInv'
        BY <1>1, <2>3, NextQueueInv DEF Next
    <2> QED
        BY <1>2, <1>3, <1>4, <1>5, <2>3, <2>4 DEF RowInv
<1>6. CASE todo' # {}
    <2>1. pos' = pos
        BY <1>2, <1>6
    <2>2. Behind(h)' = Behind(h)
        BY <2>1 DEF Behind, Queue
    <2>3. Closing(h)'
        BY <1>2, <1>3, <2>1, <2>2 DEF Closing
    <2>4. QueueInv'
        BY <1>1, <2>1, NextQueueInv
    <2> QED
        BY <1>2, <1>3, <1>4, <1>6, <2>1, <2>3, <2>4 DEF RowInv
<1> QED
    BY <1>5, <1>6

LEMMA MoveRowKeeps ==
    ASSUME RowInv, NEW f \in Hold, MoveRow(f)
    PROVE  RowInv' /\ ((\E h \in Hold : Leave(h)) \/ UNCHANGED pos)
<1>1. pos \in [Hold -> Nat] /\ QueueInv /\ work \in [Hold -> Nat]
    BY DEF RowInv, QueueInv
<1>2. /\ f \in todo /\ work' = [work EXCEPT ![f] = @ - 1]
      /\ todo' = todo \ {f}
      /\ pos' = IF todo' = {} THEN work' ELSE pos
      /\ refused' = refused /\ scan' = scan
    BY DEF MoveRow, Delivers
<1>3. PICK h \in Hold : Closing(h)
    BY <1>2 DEF RowInv
<1>4. /\ f # h /\ f \in Behind(h) /\ work[f] = pos[f] /\ pos[f] > pos[h] /\ pos[h] > 0
    BY <1>1, <1>2, <1>3 DEF Closing, Behind, Queue
<1>5. work'[f] = work[f] - 1 /\ \A g \in Hold \ {f} : work'[g] = work[g]
    BY <1>1, <1>2
<1>6. work'[f] \in Nat
    BY <1>1, <1>4, <1>5
<1>7. work' \in [Hold -> Nat]
    BY <1>1, <1>2, <1>5, <1>6
<1>8. /\ work'[h] = 0
      /\ \A g \in Hold \ {h} : work'[g] = IF g \in Behind(h) \ todo' THEN pos[g] - 1 ELSE pos[g]
    BY <1>2, <1>3, <1>4, <1>5 DEF Closing
<1>9. OrderedScanCloses'
    BY <1>2 DEF RowInv, OrderedScanCloses
<1>10. CASE todo' = {}
    <2>1. \A g \in Hold \ {h} :
             work'[g] = IF g \in Queue(h) /\ pos[g] > pos[h] THEN pos[g] - 1 ELSE pos[g]
        BY <1>8, <1>10 DEF Behind
    <2>2. work' = Dequeue(pos, Queue(h), h)
        BY <1>1, <1>4, <1>7, <1>8, <2>1, ClosedIsDequeued
    <2>3. Leave(h)
        BY <1>2, <1>4, <1>10, <2>2 DEF Leave
    <2>4. QueueInv'
        BY <1>1, <2>3, NextQueueInv DEF Next
    <2> QED
        BY <1>2, <1>7, <1>9, <1>10, <2>3, <2>4 DEF RowInv
<1>11. CASE todo' # {}
    <2>1. pos' = pos
        BY <1>2, <1>11
    <2>2. Behind(h)' = Behind(h)
        BY <2>1 DEF Behind, Queue
    <2>3. Closing(h)'
        BY <1>2, <1>3, <1>8, <2>1, <2>2 DEF Closing
    <2>4. QueueInv'
        BY <1>1, <2>1, NextQueueInv
    <2> QED
        BY <1>2, <1>7, <1>9, <1>11, <2>1, <2>3, <2>4 DEF RowInv
<1> QED
    BY <1>10, <1>11

\* A row delivered in position order finds the position ahead of it free: it was
\* the leaver's, or the row that had it has moved.
LEMMA OrderedRowIsFree ==
    ASSUME RowInv, NEW f \in Hold, Delivers(f), scan = "index"
    PROVE  ~Collides(f)
<1>1. pos \in [Hold -> Nat] /\ \A h \in Hold : Contiguous(pos, Queue(h))
    BY DEF RowInv, QueueInv, QueueIntegrity
<1>2. f \in todo /\ \A g \in todo : work[f] <= work[g]
    BY DEF Delivers
<1>3. PICK h \in Hold : Closing(h)
    BY <1>2 DEF RowInv
<1>4. /\ f # h /\ f \in Queue(h) /\ work[f] = pos[f] /\ pos[f] > pos[h] /\ pos[h] > 0
    BY <1>1, <1>2, <1>3 DEF Closing, Behind, Queue
<1> SUFFICES ASSUME NEW g \in Queue(f), work[g] = work[f] - 1
             PROVE  FALSE
    BY DEF Collides
<1>5. g \in Hold /\ g \in Queue(h)
    BY <1>4 DEF Queue
<1>6. g # h
    BY <1>1, <1>3, <1>4 DEF Closing
<1>7. g \notin todo
    <2>1. work[f] \in Nat
        BY <1>1, <1>4
    <2> QED
        BY <1>2, <2>1
<1>8. CASE g \in Behind(h)
    <2>1. work[g] = pos[g] - 1
        BY <1>3, <1>5, <1>6, <1>7, <1>8 DEF Closing
    <2>2. pos[g] = pos[f] /\ pos[f] > 0
        BY <1>1, <1>4, <1>5, <2>1
    <2>3. g = f
        BY <1>1, <1>4, <1>5, <2>2 DEF Contiguous
    <2> QED
        BY <1>2, <1>7, <2>3
<1>9. CASE g \notin Behind(h)
    <2>1. work[g] = pos[g] /\ pos[g] <= pos[h]
        BY <1>1, <1>3, <1>5, <1>6, <1>9 DEF Closing, Behind
    <2>2. pos[g] = pos[h]
        BY <1>1, <1>4, <1>5, <2>1
    <2>3. h \in Queue(h)
        BY DEF Queue
    <2> QED
        BY <1>1, <1>4, <1>5, <1>6, <2>2, <2>3 DEF Contiguous
<1> QED
    BY <1>8, <1>9

LEMMA RowNextKeeps ==
    ASSUME RowInv, [RowNext]_rowVars
    PROVE  RowInv' /\ [Next]_pos
<1>1. QueueInv
    BY DEF RowInv
<1>2. ASSUME NEW h \in Hold, JoinRow(h) PROVE RowInv' /\ [Next]_pos
    <2>1. /\ Join(h) /\ todo = {} /\ todo' = {} /\ work' = pos'
          /\ refused' = FALSE /\ scan' = scan
        BY <1>2 DEF JoinRow, Join
    <2>2. Next
        BY <2>1 DEF Next
    <2>3. QueueInv'
        BY <1>1, <2>2, NextQueueInv
    <2>4. work' \in [Hold -> Nat]
        BY <2>1, <2>3 DEF QueueInv
    <2> QED
        BY <2>1, <2>2, <2>3, <2>4 DEF RowInv, OrderedScanCloses
<1>3. ASSUME NEW h \in Hold, NEW s \in {"index", "heap"}, LeaveRow(h, s)
      PROVE  RowInv' /\ [Next]_pos
    BY <1>3, LeaveRowKeeps DEF Next
<1>4. ASSUME NEW h \in Hold, MoveRow(h) PROVE RowInv' /\ [Next]_pos
    BY <1>4, MoveRowKeeps DEF Next
<1>5. ASSUME NEW h \in Hold, Abort(h) PROVE RowInv' /\ [Next]_pos
    <2>1. /\ Delivers(h) /\ Collides(h) /\ work' = pos /\ todo' = {}
          /\ pos' = pos /\ scan' = scan
        BY <1>5 DEF Abort
    <2>2. scan # "index"
        BY <2>1, OrderedRowIsFree
    <2>3. QueueInv'
        BY <1>1, <2>1, NextQueueInv
    <2>4. work' \in [Hold -> Nat]
        BY <1>1, <2>1 DEF QueueInv
    <2> QED
        BY <2>1, <2>2, <2>3, <2>4 DEF RowInv, OrderedScanCloses
<1>6. CASE UNCHANGED rowVars
    <2>1. UNCHANGED <<pos, work, todo, scan, refused>>
        BY <1>6 DEF rowVars
    <2>2. QueueInv'
        BY <1>1, <2>1, NextQueueInv
    <2> QED
        BY <2>1, <2>2 DEF RowInv, Closing, Behind, Queue, OrderedScanCloses
<1> QED
    BY <1>2, <1>3, <1>4, <1>5, <1>6 DEF RowNext

LEMMA RowInvAlways == RowSpec => []RowInv
<1>1. RowInit => RowInv
    <2> SUFFICES ASSUME RowInit PROVE RowInv
        OBVIOUS
    <2>1. QueueInv
        BY InitQueueInv DEF RowInit
    <2> QED
        BY <2>1 DEF RowInit, RowInv, QueueInv, OrderedScanCloses
<1>2. RowInv /\ [RowNext]_rowVars => RowInv'
    BY RowNextKeeps
<1> QED
    BY <1>1, <1>2, PTL DEF RowSpec

\* The UPDATE of closeQueueGap is never refused when its rows come in position
\* order, however long the queue: each row finds the position ahead of it free
\* (hold-queue.ts: closeQueueGap).
THEOREM OrderedScanClosesAlways == RowSpec => []OrderedScanCloses
<1>1. RowInv => OrderedScanCloses
    BY DEF RowInv
<1> QED
    BY <1>1, RowInvAlways, PTL

\* Row by row and in whatever order, a transaction commits the whole shift that
\* closeQueueGap computes or nothing (hold-queue.ts: closeQueueGap).
THEOREM RowsImplementTheShift == RowSpec => CommitsTheWholeShift
<1>1. RowInit => Init
    BY DEF RowInit
<1>2. RowInv /\ [RowNext]_rowVars => [Next]_pos
    BY RowNextKeeps
<1> QED
    BY <1>1, <1>2, RowInvAlways, PTL DEF RowSpec, CommitsTheWholeShift, Spec

\* So what is proved of the atomic transactions holds of the row by row ones.
COROLLARY RowsKeepTheQueues == RowSpec => []QueueIntegrity /\ KeepsTheLine
BY RowsImplementTheShift, QueuesStayContiguous, PositionsImplementTheLine, PTL
   DEF CommitsTheWholeShift
=============================================================================
