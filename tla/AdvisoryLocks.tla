---------------------------- MODULE AdvisoryLocks ----------------------------
(***************************************************************************)
(* The tenant-plane advisory locks of apps/api/src/platform/locks.ts.      *)
(*                                                                         *)
(* A transaction names every key it needs in one call of acquireLocks,     *)
(* which sorts the keys by domain rank and then by id and takes them one   *)
(* after the other with pg_advisory_xact_lock: each may wait for another   *)
(* transaction, and all are released together when the transaction ends.  *)
(* A call in the same transaction may follow, as in the import of a ready  *)
(* hold, for keys of a later domain than any it holds.                     *)
(*                                                                         *)
(* A key is identified with its 64-bit hash: no two tokens collide.        *)
(***************************************************************************)
EXTENDS Integers

CONSTANTS
    Txn,    \* the database transactions in flight
    MaxId,  \* the row ids are 0..MaxId, in the order their strings compare
    Plans   \* the sets of keys the callers pass to acquireLocks

\* The acquisition rank of each lock domain.
LockDomainRank ==
    [policy |-> 0, patron |-> 1, bib |-> 2, item |-> 3, drawer |-> 4]

Id == 0..MaxId

LockDomain == {"policy", "patron", "bib", "item", "drawer"}

Key == [domain : LockDomain, id : Id]

lockKey(domain, id) == [domain |-> domain, id |-> id]

\* There are finitely many ids, and a plan is a set of keys: duplicates have
\* collapsed.
ASSUME MaxIdAssumption == MaxId \in Nat
ASSUME PlansAssumption == Plans \subseteq SUBSET Key

VARIABLES
    phase,  \* "idle", "locking" (inside acquireLocks) or "working"
    want,   \* the keys the running acquireLocks call has still to take
    held    \* the keys the transaction holds

vars == <<phase, want, held>>

Rank(k) == LockDomainRank[k.domain]

\* The order of orderLocks: by rank, then by id.
Before(a, b) ==
    \/ Rank(a) < Rank(b)
    \/ Rank(a) = Rank(b) /\ a.id < b.id

\* A mutant: the callers' order, whatever it is.
UnsortedIsNext(t, k) == k \in want[t]

\* k is the next key the statement of transaction t asks for.
IsNext(t, k) ==
    /\ k \in want[t]
    /\ \A j \in want[t] \ {k} : Before(k, j)

-----------------------------------------------------------------------------
Init ==
    /\ phase = [t \in Txn |-> "idle"]
    /\ want = [t \in Txn |-> {}]
    /\ held = [t \in Txn |-> {}]

\* The first statement of a transaction: acquireLocks(tx, ks).
Begin(t, ks) ==
    /\ phase[t] = "idle"
    /\ phase' = [phase EXCEPT ![t] = "locking"]
    /\ want' = [want EXCEPT ![t] = ks]
    /\ UNCHANGED held

\* pg_advisory_xact_lock returns for the next key once no other transaction
\* holds it.
Take(t) ==
    /\ phase[t] = "locking"
    /\ \E k \in Key :
        /\ IsNext(t, k)
        /\ \A u \in Txn \ {t} : k \notin held[u]
        /\ held' = [held EXCEPT ![t] = @ \cup {k}]
        /\ want' = [want EXCEPT ![t] = @ \ {k}]
    /\ UNCHANGED phase

\* The statement has taken every key and acquireLocks returns.
Acquired(t) ==
    /\ phase[t] = "locking"
    /\ want[t] = {}
    /\ phase' = [phase EXCEPT ![t] = "working"]
    /\ UNCHANGED <<want, held>>

\* A mutant: the second call may ask for any domain.
CarelessAcquireMore(t, ks) ==
    /\ phase[t] = "working"
    /\ phase' = [phase EXCEPT ![t] = "locking"]
    /\ want' = [want EXCEPT ![t] = ks]
    /\ UNCHANGED held

\* A second call in the same transaction, for keys that only the first
\* call's locks made known. Every caller asks for a later domain only.
AcquireMore(t, ks) ==
    /\ phase[t] = "working"
    /\ \A h \in held[t], k \in ks : Rank(h) < Rank(k)
    /\ phase' = [phase EXCEPT ![t] = "locking"]
    /\ want' = [want EXCEPT ![t] = ks]
    /\ UNCHANGED held

Release(t) ==
    /\ phase' = [phase EXCEPT ![t] = "idle"]
    /\ want' = [want EXCEPT ![t] = {}]
    /\ held' = [held EXCEPT ![t] = {}]

\* COMMIT, or the ROLLBACK of an exception the caller's code throws.
End(t) == phase[t] = "working" /\ Release(t)

\* The transaction is cancelled while it waits (its timeout, a lost
\* connection). Nothing relies on it happening.
Cancel(t) == phase[t] = "locking" /\ Release(t)

Next ==
    \E t \in Txn :
        \/ \E ks \in Plans : Begin(t, ks) \/ AcquireMore(t, ks)
        \/ Take(t)
        \/ Acquired(t)
        \/ End(t)
        \/ Cancel(t)

Spec == Init /\ [][Next]_vars

\* A transaction that has its locks runs to its end, and PostgreSQL grants a
\* lock in the order of its waiters, so a waiter whose key keeps becoming free
\* is served.
Fairness ==
    \A t \in Txn : WF_vars(End(t)) /\ WF_vars(Acquired(t)) /\ SF_vars(Take(t))

FairSpec == Spec /\ Fairness

-----------------------------------------------------------------------------
TypeOK ==
    /\ phase \in [Txn -> {"idle", "locking", "working"}]
    /\ want \in [Txn -> SUBSET Key]
    /\ held \in [Txn -> SUBSET Key]

\* What a transaction still waits for comes after everything it holds: the
\* total order of locks.ts kept across both calls.
HeldBeforeWanted ==
    \A t \in Txn : \A h \in held[t], k \in want[t] : Before(h, k)

\* t waits inside acquireLocks for a key that u holds.
WaitsFor(t, u) ==
    /\ phase[t] = "locking"
    /\ \E k \in Key : IsNext(t, k) /\ k \in held[u]

\* No set of transactions wait only for each other: PostgreSQL never has a
\* 40P01 deadlock to break among callers of acquireLocks.
NoDeadlock ==
    \A S \in (SUBSET Txn) \ {{}} :
        \E t \in S : \A u \in S : ~ WaitsFor(t, u)

\* Every call of acquireLocks eventually returns (or its transaction is
\* cancelled): no transaction waits for ever, however the others interleave.
EveryCallReturns ==
    \A t \in Txn : phase[t] = "locking" ~> phase[t] # "locking"
=============================================================================
