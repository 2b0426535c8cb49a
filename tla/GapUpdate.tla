------------------------------ MODULE GapUpdate ------------------------------
(***************************************************************************)
(* The transactions of QueueMachine as PostgreSQL executes them. The       *)
(* UPDATE of closeQueueGap moves row by row, in the order of the scan the  *)
(* planner chose, with the unique index holds_one_hold_per_position (not a *)
(* deferrable constraint) checked at each row: a row whose new position is *)
(* still taken aborts the whole transaction with 23505.                    *)
(*                                                                         *)
(* pos, of QueueMachine, is the committed column. One transaction runs at  *)
(* a time: those of one record exclude each other by its bib lock, those   *)
(* of different records share no row.                                      *)
(***************************************************************************)
EXTENDS QueueMachine

VARIABLES
    work,       \* the column as the running transaction sees it
    todo,       \* the rows its UPDATE has still to visit
    scan,       \* "index": rows come in position order; "heap": in any order
    refused     \* whether the last transaction was aborted

rowVars == <<pos, work, todo, scan, refused>>

RowInit ==
    /\ Init
    /\ work = pos
    /\ todo = {}
    /\ scan = "index"
    /\ refused = FALSE

\* nextQueuePosition and the INSERT, or the re-queueing UPDATE of one row.
JoinRow(h) ==
    /\ todo = {} /\ pos[h] = 0
    /\ pos' = Enqueue(pos, Queue(h), h)
    /\ work' = pos'
    /\ refused' = FALSE
    /\ UNCHANGED <<todo, scan>>

\* The hold's own row gives its position up, and the UPDATE of the rows behind
\* it starts. With nobody behind it the transaction is done.
LeaveRow(h, s) ==
    /\ todo = {} /\ pos[h] > 0
    /\ work' = [pos EXCEPT ![h] = 0]
    /\ todo' = {g \in Queue(h) : pos[g] > pos[h]}
    /\ pos' = IF todo' = {} THEN work' ELSE pos
    /\ scan' = s
    /\ refused' = FALSE

\* A mutant: an index scan that is not ordered.
UnorderedDelivers(h) == h \in todo

\* The scan delivers row h.
Delivers(h) ==
    /\ h \in todo
    /\ scan = "index" => \A g \in todo : work[h] <= work[g]

Collides(h) == \E g \in Queue(h) : work[g] = work[h] - 1

MoveRow(h) ==
    /\ Delivers(h)
    /\ ~ Collides(h)
    /\ work' = [work EXCEPT ![h] = @ - 1]
    /\ todo' = todo \ {h}
    /\ pos' = IF todo' = {} THEN work' ELSE pos
    /\ UNCHANGED <<scan, refused>>

\* A mutant: the error is swallowed and the rows moved so far stay moved.
LeakyAbort(h) ==
    /\ Delivers(h)
    /\ Collides(h)
    /\ pos' = work
    /\ todo' = {}
    /\ refused' = TRUE
    /\ UNCHANGED <<work, scan>>

\* 23505: the transaction rolls back.
Abort(h) ==
    /\ Delivers(h)
    /\ Collides(h)
    /\ work' = pos
    /\ todo' = {}
    /\ refused' = TRUE
    /\ UNCHANGED <<pos, scan>>

RowNext ==
    \E h \in Hold :
        \/ JoinRow(h)
        \/ \E s \in {"index", "heap"} : LeaveRow(h, s)
        \/ MoveRow(h)
        \/ Abort(h)

RowSpec == RowInit /\ [][RowNext]_rowVars

-----------------------------------------------------------------------------
\* Whatever the scan's order, what the transaction commits is what the atomic
\* closeQueueGap of QueueMachine computes, or nothing at all.
CommitsTheWholeShift == Spec

\* The targeted rebalance of hold-queue.ts goes through whenever the rows come
\* in position order: only another order can meet a position still taken.
OrderedScanCloses == refused => scan = "heap"
=============================================================================
