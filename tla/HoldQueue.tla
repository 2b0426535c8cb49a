------------------------------ MODULE HoldQueue ------------------------------
(***************************************************************************)
(* The queue arithmetic of apps/api/src/holds/hold-queue.ts, as functions  *)
(* on the queue_position column. pos maps every hold to its position, with *)
(* 0 for NULL; Q is the set of holds of one bibliographic record.          *)
(***************************************************************************)
EXTENDS Integers, FiniteSetsExt

\* A mutant: the newcomer shares the last position.
SharedQueuePosition(pos, Q) ==
    LET last == Max({0} \cup {pos[h] : h \in Q})
    IN  IF last = 0 THEN 1 ELSE last

\* SELECT COALESCE(max(queue_position), 0) + 1 ... WHERE bib_id = ...
NextQueuePosition(pos, Q) == Max({0} \cup {pos[h] : h \in Q}) + 1

\* A mutant: the 1.0 decrement, WHERE queue_position > 0.
BlanketCloseQueueGap(pos, Q, vacated) ==
    [h \in DOMAIN pos |->
        IF h \in Q /\ pos[h] > 0 THEN pos[h] - 1 ELSE pos[h]]

\* UPDATE holds SET queue_position = queue_position - 1
\*  WHERE bib_id = ... AND queue_position > vacated
CloseQueueGap(pos, Q, vacated) ==
    [h \in DOMAIN pos |->
        IF h \in Q /\ pos[h] > vacated THEN pos[h] - 1 ELSE pos[h]]

\* A hold takes the back of the queue, and a hold gives its position back: the
\* two ways every caller changes the column.
Enqueue(pos, Q, h) == [pos EXCEPT ![h] = NextQueuePosition(pos, Q)]

Dequeue(pos, Q, h) == CloseQueueGap([pos EXCEPT ![h] = 0], Q, pos[h])

\* queueIntegrity: the positions in use, in order, are 1, 2, 3 ... . Said of the
\* rows: no position is negative or taken twice, and each but the first has a
\* predecessor.
Contiguous(pos, Q) ==
    /\ \A h \in Q : pos[h] >= 0
    /\ \A g, h \in Q : pos[g] > 0 /\ pos[g] = pos[h] => g = h
    /\ \A h \in Q : pos[h] > 1 => \E g \in Q : pos[g] = pos[h] - 1
=============================================================================
