------------------------------ MODULE SyncReplay ------------------------------
(***************************************************************************)
(* The durable replay protection of apps/api/src/circulation/              *)
(* sync-replay.ts, as checkout, checkin and renew use it. A device queues  *)
(* changes offline, each under an id it minted, and flushes them until it  *)
(* has an answer: a lost answer or a second flush sends the same change    *)
(* again, and a faulty device sends another request under an old id.       *)
(*                                                                         *)
(* lookupReplay runs before the transaction and recordClaim is its last    *)
(* statement, so other requests come between the two. A claim is the pair  *)
(* of device id and change id, the primary key of sync_client_changes. A   *)
(* request is identified with its hash. The world is one copy.             *)
(***************************************************************************)
EXTENDS Integers

CONSTANTS
    Claim,          \* the (device, change id) pairs
    Handler,        \* the API requests served at one time
    MaxLoans,       \* bound: loans of the copy
    MaxRenewals,    \* bound: renewals of a loan
    None            \* no row, no request

ASSUME BoundsAssumption ==
    /\ MaxLoans \in Nat \ {0}
    /\ MaxRenewals \in Nat

\* What a change asks for: a renewal names its loan.
Body ==
    [op : {"checkout", "checkin"}, loan : {0}]
        \cup [op : {"renew"}, loan : 1..MaxLoans]

VARIABLES
    copy,       \* the copy: its loans so far, if the last one is open, its renewals
    log,        \* sync_client_changes: claim -> the request and its response
    running,    \* per handler, the fresh change whose transaction is to run
    effects,    \* history: how often each claim changed the copy
    told,       \* history: the successes answered, and to which request
    refused     \* history: the changes that were answered with a refusal

vars == <<copy, log, running, effects, told, refused>>

Copy == [loans : 0..MaxLoans, out : BOOLEAN, renewals : 0..MaxRenewals]

Result == [loan : 0..MaxLoans, renewals : 0..MaxRenewals]

\* A row of sync_client_changes, and a change in a handler.
Row == [body : Body, result : Result]
Change == [claim : Claim, body : Body]

ASSUME NoneAssumption == None \notin Row /\ None \notin Change

Init ==
    /\ copy = [loans |-> 0, out |-> FALSE, renewals |-> 0]
    /\ log = [c \in Claim |-> None]
    /\ running = [k \in Handler |-> None]
    /\ effects = [c \in Claim |-> 0]
    /\ told = {}
    /\ refused = {}

-----------------------------------------------------------------------------
\* The copy's state allows request b. The bounds cap what is counted.
Allowed(b) ==
    \/ b.op = "checkout" /\ ~ copy.out /\ copy.loans < MaxLoans
    \/ b.op = "checkin" /\ copy.out
    \/ /\ b.op = "renew" /\ copy.out /\ copy.loans = b.loan
       /\ copy.renewals < MaxRenewals

Changed(b) ==
    CASE b.op = "checkout" -> [loans |-> copy.loans + 1, out |-> TRUE, renewals |-> 0]
      [] b.op = "checkin"  -> [copy EXCEPT !.out = FALSE]
      [] b.op = "renew"    -> [copy EXCEPT !.renewals = @ + 1]

\* The response: the loan, and the renewal count a renewal reports.
Response(b) ==
    [loan |-> Changed(b).loans,
     renewals |-> IF b.op = "renew" THEN Changed(b).renewals ELSE 0]

\* A change made at a desk, with no claim: nothing is recorded.
AtTheDesk(b) ==
    /\ Allowed(b)
    /\ copy' = Changed(b)
    /\ UNCHANGED <<log, running, effects, told, refused>>

\* lookupReplay finds no row: the transaction will be opened.
LookupFresh(k, c, b) ==
    /\ running[k] = None
    /\ log[c] = None
    /\ running' = [running EXCEPT ![k] = [claim |-> c, body |-> b]]
    /\ UNCHANGED <<copy, log, effects, told, refused>>

\* A mutant: the stored response is returned whatever the request.
CarelessReplay(k, c, b) ==
    /\ running[k] = None
    /\ log[c] # None
    /\ told' = told \cup {[claim |-> c, body |-> b, result |-> log[c].result]}
    /\ UNCHANGED <<copy, log, running, effects, refused>>

\* lookupReplay finds the row of this request: the stored response is returned.
\* (With another request's hash it throws ReplayMismatchError and nothing
\* changes.)
LookupReplay(k, c, b) ==
    /\ running[k] = None
    /\ log[c] # None /\ log[c].body = b
    /\ told' = told \cup {[claim |-> c, body |-> b, result |-> log[c].result]}
    /\ UNCHANGED <<copy, log, running, effects, refused>>

Done(k) == running' = [running EXCEPT ![k] = None]

\* A mutant: recordClaim overwrites the row, as an upsert would.
UpsertApply(k) ==
    LET c == running[k].claim
        b == running[k].body
        row == [body |-> b, result |-> Response(b)]
    IN  /\ running[k] # None
        /\ Allowed(b)
        /\ copy' = Changed(b)
        /\ log' = [log EXCEPT ![c] = row]
        /\ effects' = [effects EXCEPT ![c] = @ + 1]
        /\ told' = told \cup {[claim |-> c, body |-> b, result |-> row.result]}
        /\ Done(k)
        /\ UNCHANGED refused

\* The transaction changes the copy and commits with recordClaim's row.
Apply(k) ==
    LET c == running[k].claim
        b == running[k].body
        row == [body |-> b, result |-> Response(b)]
    IN  /\ running[k] # None
        /\ Allowed(b)
        /\ log[c] = None
        /\ copy' = Changed(b)
        /\ log' = [log EXCEPT ![c] = row]
        /\ effects' = [effects EXCEPT ![c] = @ + 1]
        /\ told' = told \cup {[claim |-> c, body |-> b, result |-> row.result]}
        /\ Done(k)
        /\ UNCHANGED refused

\* Another flush of the claim committed since the lookup: the primary key
\* rolls the whole transaction back. The device gets an error and no answer.
LoseRace(k) ==
    /\ running[k] # None
    /\ Allowed(running[k].body)
    /\ log[running[k].claim] # None
    /\ Done(k)
    /\ UNCHANGED <<copy, log, effects, told, refused>>

\* The change is refused, by the state of the copy, a policy or a block. The
\* exception leaves the transaction before recordClaim.
Refuse(k) ==
    /\ running[k] # None
    /\ refused' = refused \cup {running[k]}
    /\ Done(k)
    /\ UNCHANGED <<copy, log, effects, told>>

Next ==
    \/ \E b \in Body : AtTheDesk(b)
    \/ \E k \in Handler :
        \/ \E c \in Claim, b \in Body : LookupFresh(k, c, b) \/ LookupReplay(k, c, b)
        \/ Apply(k)
        \/ LoseRace(k)
        \/ Refuse(k)

Spec == Init /\ [][Next]_vars

-----------------------------------------------------------------------------
TypeOK ==
    /\ copy \in Copy
    /\ log \in [Claim -> Row \cup {None}]
    /\ running \in [Handler -> Change \cup {None}]
    /\ effects \in [Claim -> Nat]
    /\ told \subseteq [claim : Claim, body : Body, result : Result]
    /\ refused \subseteq Change

\* However often a change is flushed and however the flushes interleave, it is
\* applied at most once, and "the change was applied" and "the change is
\* recorded as applied" are the same fact (sync-replay.ts: recordClaim).
AppliedOnce ==
    \A c \in Claim : effects[c] = IF log[c] = None THEN 0 ELSE 1

\* Every success a claim was ever answered with is the stored response, and was
\* given to the request that was applied: never another request's answer.
OneAnswer ==
    \A t \in told :
        /\ log[t.claim] # None
        /\ t.body = log[t.claim].body
        /\ t.result = log[t.claim].result

\* A change that was refused is never applied when it is flushed again
\* (sync-replay.ts: "a refusal is a stored response here").
RefusalSticks ==
    [][\A r \in refused :
        log[r.claim] = None /\ log'[r.claim] # None => log'[r.claim].body # r.body]_vars
=============================================================================
