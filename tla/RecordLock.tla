------------------------------ MODULE RecordLock ------------------------------
(***************************************************************************)
(* The record lock of the catalogue editor (bib-lock.service.ts and its    *)
(* sweep, marc-lock-expiry.job.ts): which browser tab has one record open. *)
(* There is at most one row per record.  Acquiring, renewing and taking    *)
(* over are one upsert, so every operation here is one step.  Time is the  *)
(* step that ends a tab's ten minutes; the tab learns its own end from the *)
(* answer that granted them.                                               *)
(***************************************************************************)
EXTENDS Naturals

CONSTANTS
    Tab,        \* editor sessions; a tab belongs to one user
    MaxLapses,  \* bound: locks that run out
    None

ASSUME TabAssumption == None \notin Tab /\ MaxLapses \in Nat

LockRow == [tab : Tab, live : BOOLEAN]

\* None stands for a row that is not there.
ASSUME LockRowAssumption == None \notin LockRow

VARIABLES
    lock,      \* the row: whose it is and whether it has run out; or None
    holders,   \* tabs whose last answer, still in its time, said they hold it
    displaced, \* those of them it was deliberately taken from since
    lapses,    \* history: locks that ran out
    reported   \* rows catalog.record.lock_expired in the audit log

lockVars == <<lock, holders, displaced, lapses, reported>>

LockInit ==
    /\ lock = None
    /\ holders = {}
    /\ displaced = {}
    /\ lapses = 0
    /\ reported = 0

Row(t) == [tab |-> t, live |-> TRUE]

\* The three ways the upsert's WHERE lets a tab have a row that is there: it has
\* run out, it is the tab's own, or the caller quotes the session that has it.
AnyQuote(t, seen) == ~lock.live \/ lock.tab = t \/ seen # None
Grants(t, seen) == ~lock.live \/ lock.tab = t \/ seen = lock.tab

\* A lapsed lock another tab held is reported by the acquire that finds it.
Acquire(t, seen) ==
    /\ lock # None => Grants(t, seen)
    /\ lock' = Row(t)
    /\ holders' = holders \cup {t}
    /\ displaced' = (displaced \cup (IF lock # None /\ lock.live THEN {lock.tab} \cap {seen}
                                   ELSE {})) \ {t}
    /\ reported' = IF lock # None /\ lock.tab # t /\ ~lock.live THEN reported + 1 ELSE reported
    /\ UNCHANGED lapses

\* Guarded on the tab and on its time; the answer to anybody else is 409.
Heartbeat(t) ==
    /\ lock # None /\ lock.tab = t /\ lock.live
    /\ holders' = holders \cup {t}
    /\ UNCHANGED <<lock, displaced, lapses, reported>>

\* The 409 of a heartbeat: the editor stops.
LockLost(t) ==
    /\ t \in holders
    /\ ~(lock # None /\ lock.tab = t /\ lock.live)
    /\ holders' = holders \ {t}
    /\ displaced' = displaced \ {t}
    /\ UNCHANGED <<lock, lapses, reported>>

\* Giving the record back asks whose the row is, not whether it has run out.
Release(t) ==
    /\ holders' = holders \ {t}
    /\ displaced' = displaced \ {t}
    /\ lock' = IF lock # None /\ lock.tab = t THEN None ELSE lock
    /\ UNCHANGED <<lapses, reported>>

\* Ten minutes after a tab's last answer.
TimeUp(t) ==
    /\ t \in holders
    /\ lapses < MaxLapses
    /\ holders' = holders \ {t}
    /\ displaced' = displaced \ {t}
    /\ IF lock # None /\ lock.tab = t
       THEN lock' = [lock EXCEPT !.live = FALSE] /\ lapses' = lapses + 1
       ELSE UNCHANGED <<lock, lapses>>
    /\ UNCHANGED reported

\* The sweep deletes what has run out and reports it. The report follows the
\* delete and may be lost with the process.
Sweep ==
    /\ lock # None /\ ~lock.live
    /\ lock' = None
    /\ reported' \in {reported, reported + 1}
    /\ UNCHANGED <<holders, displaced, lapses>>

LockTypeOK ==
    /\ lock \in LockRow \cup {None}
    /\ holders \subseteq Tab
    /\ displaced \subseteq holders
    /\ lapses \in Nat
    /\ reported \in Nat

-----------------------------------------------------------------------------
\* Two tabs think they hold the record only after one took it from the other by
\* naming it: nobody inherits, revives or sweeps away a lock that is in its time
\* (bib-lock.service.ts, acquire and heartbeat; marc-lock-expiry.job.ts).
HolderUnlessDisplaced ==
    \A t \in holders \ displaced : lock # None /\ lock.tab = t /\ lock.live

\* A lapse is reported once at most, by the sweep or by the acquire that finds
\* it, with no idempotency guard (marc-lock-expiry.job.ts).
ReportedOnce ==
    reported + (IF lock # None /\ ~lock.live THEN 1 ELSE 0) <= lapses

\* What the editor and the audit log are told of the lock is true.
LockIsAsTold == HolderUnlessDisplaced /\ ReportedOnce
=============================================================================
