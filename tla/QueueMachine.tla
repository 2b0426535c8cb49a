---------------------------- MODULE QueueMachine ----------------------------
(***************************************************************************)
(* The queue_position column as a state machine: every caller of           *)
(* hold-queue.ts holds the bib lock for its whole transaction, so joining  *)
(* and leaving are atomic. Shown to keep each queue contiguous and to      *)
(* implement HoldLine.                                                     *)
(***************************************************************************)
EXTENDS HoldQueue

CONSTANTS Hold, BibOf(_)

VARIABLE pos

Queue(h) == {g \in Hold : BibOf(g) = BibOf(h)}

Init == pos = [h \in Hold |-> 0]

\* A request is placed, or a hold whose copy was taken from it goes to the back.
Join(h) ==
    /\ pos[h] = 0
    /\ pos' = Enqueue(pos, Queue(h), h)

\* A waiting hold is given a copy, fulfilled, cancelled or expired.
Leave(h) ==
    /\ pos[h] > 0
    /\ pos' = Dequeue(pos, Queue(h), h)

Next == \E h \in Hold : Join(h) \/ Leave(h)

Spec == Init /\ [][Next]_pos

-----------------------------------------------------------------------------
\* Every record's queue is contiguous and 1-based after every transaction,
\* whichever hold leaves it: what queueIntegrity checks.
QueueIntegrity == \A h \in Hold : Contiguous(pos, Queue(h))

waitingHolds == {h \in Hold : pos[h] > 0}

aheadPairs ==
    {p \in waitingHolds \X waitingHolds :
        BibOf(p[1]) = BibOf(p[2]) /\ pos[p[1]] < pos[p[2]]}

Line == INSTANCE HoldLine WITH waiting <- waitingHolds, ahead <- aheadPairs

\* The positions implement the line: closing a gap never lets one reader pass
\* another, and a newcomer is behind everybody.
KeepsTheLine == Line!LineSpec
=============================================================================
