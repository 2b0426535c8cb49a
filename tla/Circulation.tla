----------------------------- MODULE Circulation -----------------------------
(***************************************************************************)
(* Copies, loans, requests (holds) and transit of one library: the desk    *)
(* operations of apps/api/src/circulation, holds and items.                *)
(*                                                                         *)
(* db is the tenant's database. Every transaction takes the advisory locks *)
(* of the rows it decides on before it reads them (AdvisoryLocks), so a    *)
(* transaction is one action: an operator from db to db. What is read      *)
(* outside the transaction, the probe of a checkout or a cancellation and  *)
(* the scan of the shelf sweep, is kept in req and due until it is used.   *)
(* A receipt takes the copy's lock only, not its record's, so what it reads *)
(* of the request can be old when it writes: it is two actions, and receipt *)
(* says which copies are locked by one.                                    *)
(*                                                                         *)
(* A unique index that a transaction would violate aborts it: its operator *)
(* yields ok = FALSE and the action is not taken.                          *)
(***************************************************************************)
EXTENDS HoldQueue

CONSTANTS
    Item, Patron, Branch, Hold, Group, Desk,
    BibOfItem,      \* the record each copy belongs to (items.bib_id)
    Home,           \* the branch that owns each copy
    Request,        \* what each hold asks for; see RequestType
    None,           \* NULL
    DeskStatuses,   \* the statuses a librarian sets by hand
    Archivable,     \* the copies librarians archive
    SendTo,         \* the branches copies are sent to by hand
    Suspensions,    \* the suspensions readers ask for: "dated", "open"
    Priorities,     \* the priorities librarians give
    NoExpiry        \* the holds whose branch's calendar gives no shelf expiry

PickupPolicy ==
    {"any", "owningBranch", "holdingBranch", "patronHomeBranch", "explicitSet"}

\* wants: the copies of the record that the level filter accepts.
RequestType ==
    [patron : Patron, bib : {BibOfItem[i] : i \in Item}, pickup : Branch,
     level : {"title", "volume", "item"}, wants : SUBSET Item,
     policy : PickupPolicy, transit : BOOLEAN, home : Branch \cup {None},
     explicit : SUBSET Branch, group : Group \cup {None}]

ASSUME RequestAssumption ==
    /\ Request \in [Hold -> RequestType]
    /\ \A h \in Hold : \A i \in Request[h].wants : BibOfItem[i] = Request[h].bib
    /\ \A g, h \in Hold :
        Request[g].group # None /\ Request[g].group = Request[h].group
            => Request[g].patron = Request[h].patron

ASSUME NoneAssumption ==
    /\ None \notin Item /\ None \notin Patron /\ None \notin Branch
    /\ None \notin Hold /\ None \notin Group
    /\ None \notin [to : Branch, hold : Hold \cup {None}]    \* a row of transit

ASSUME BoundsAssumption ==
    /\ Item \subseteq Nat       \* the copies' ids, in their order
    /\ IsFiniteSet(Hold)        \* the rows the holds table will ever have
    /\ Home \in [Item -> Branch]
    /\ DeskStatuses \subseteq {"available", "missing", "in_process"}
    /\ Archivable \subseteq Item
    /\ SendTo \subseteq Branch
    /\ Suspensions \subseteq {"dated", "open"}
    /\ Priorities \subseteq Nat

VARIABLES
    db,     \* the database
    req,    \* per desk, what the request it is serving has read so far
    due,    \* the rows the running shelf sweep has scanned and not handled
    receipt \* per copy, what its running receipt has read: whom it arrived for

vars == <<db, req, due, receipt>>

ItemStatus ==
    {"available", "on_loan", "in_transit", "awaiting_pickup", "missing",
     "in_process"}

Database ==
    [status   : [Item -> ItemStatus],
     at       : [Item -> Branch],                   \* current_branch_id
     archived : SUBSET Item,
     loan     : [Item -> Patron \cup {None}],       \* whose open loan
     van      : [Item -> [to : Branch, hold : Hold \cup {None}] \cup {None}],
     state    : [Hold -> {"unplaced", "open", "fulfilled", "cancelled", "expired"}],
     pos      : [Hold -> Nat],                      \* queue_position
     copy     : [Hold -> Item \cup {None}],         \* assigned_item_id
     shelf    : [Hold -> {"no", "waiting", "lapsed"}],
     susp     : [Hold -> {"no", "dated", "open"}],
     prio     : [Hold -> Nat],
     resolved : SUBSET Group,
     ok       : BOOLEAN]

-----------------------------------------------------------------------------
(* The helpers the transactions are composed of.                           *)

Bib(h) == Request[h].bib
Queue(h) == {g \in Hold : Bib(g) = Bib(h)}

Open(d, h) == d.state[h] = "open"

\* holds_one_assignment_per_item, item_transfers_one_open_per_item
Assigned(d, i) == {h \in Hold : Open(d, h) /\ d.copy[h] = i}
InVan(d, i) == d.van[i] # None

\* A hold ends: its position, if it has one, goes back to the queue. What else
\* the row says is history that no query of an open hold reads.
End(d, h, how) ==
    [d EXCEPT !.state[h] = how,
              !.copy[h] = None,
              !.shelf[h] = "no",
              !.susp[h] = "no",
              !.prio[h] = 0,
              !.pos = IF d.pos[h] > 0 THEN Dequeue(d.pos, Queue(h), h) ELSE d.pos]

EndAll(d, S, how) == FoldSet(LAMBDA h, e : End(e, h, how), d, S)

\* The pinned pickup policy and, unless it moves copies between branches, the
\* branch the copy's record says it is at.
canCollectAt(d, h, i) ==
    LET r == Request[h]
        reachable == r.transit \/ d.at[i] = r.pickup
    IN  \/ r.policy = "any" /\ reachable
        \/ r.policy = "owningBranch" /\ Home[i] = r.pickup /\ reachable
        \/ r.policy = "holdingBranch" /\ d.at[i] = r.pickup
        \/ r.policy = "patronHomeBranch" /\ r.home = None
        \/ r.policy = "patronHomeBranch" /\ r.home = r.pickup /\ reachable
        \/ r.policy = "explicitSet" /\ r.pickup \in r.explicit /\ reachable

\* A mutant: suspended holds are candidates too.
SuspendedCandidates(d, i) ==
    {h \in Hold : /\ Open(d, h) /\ d.pos[h] > 0
                  /\ Bib(h) = BibOfItem[i]
                  /\ i \in Request[h].wants
                  /\ canCollectAt(d, h, i)}

\* The waiting holds that can use copy i. A suspension is a date that has not
\* passed: an open-ended one has none.
Candidates(d, i) ==
    {h \in Hold : /\ Open(d, h) /\ d.pos[h] > 0
                  /\ Bib(h) = BibOfItem[i]
                  /\ d.susp[h] # "dated"
                  /\ i \in Request[h].wants
                  /\ canCollectAt(d, h, i)}

\* ORDER BY priority DESC, queue_position ASC
Precedes(d, g, h) ==
    \/ d.prio[g] > d.prio[h]
    \/ d.prio[g] = d.prio[h] /\ d.pos[g] < d.pos[h]

Winner(d, i) ==
    CHOOSE h \in Candidates(d, i) :
        \A g \in Candidates(d, i) \ {h} : Precedes(d, h, g)

\* promoteForItem for a winner h: it takes the copy and leaves the queue.
promoteForItem(d, i, h) ==
    [d EXCEPT !.copy[h] = i,
              !.pos = Dequeue(d.pos, Queue(h), h),
              !.ok = @ /\ Assigned(d, i) = {}]

\* claimOnArrival: the copy's hold becomes collectable if this is where it is
\* to be collected. The hold and the status the copy is to have.
Claimant(d, i, b) == {h \in Assigned(d, i) : Request[h].pickup = b}

\* A mutant: the hold is not stamped, only the copy.
UnstampedArrival(d, i, b) ==
    [d EXCEPT !.status[i] = IF Claimant(d, i, b) = {}
                            THEN "available" ELSE "awaiting_pickup"]

claimOnArrival(d, i, b) ==
    [d EXCEPT !.shelf = [h \in Hold |->
                            IF h \in Claimant(d, i, b) THEN "waiting" ELSE @[h]],
              !.status[i] = IF Claimant(d, i, b) = {}
                            THEN "available" ELSE "awaiting_pickup"]

\* A mutant: the hold is collectable from the moment its copy is sent.
EagerDispatch(d, i, b, h) ==
    [d EXCEPT !.van[i] = [to |-> b, hold |-> h],
              !.status[i] = "in_transit",
              !.shelf = [g \in Hold |-> IF g = h THEN "waiting" ELSE @[g]],
              !.ok = @ /\ ~ InVan(d, i)]

\* openWithin, and the in_transit status its callers write.
Dispatch(d, i, b, h) ==
    [d EXCEPT !.van[i] = [to |-> b, hold |-> h],
              !.status[i] = "in_transit",
              !.ok = @ /\ ~ InVan(d, i)]

\* promoteForItem, settlePromotion and the status change: a copy that is at
\* branch b and free goes to the first reader who can have it, or to the shelf.
Settle(d, i, b) ==
    IF Candidates(d, i) = {}
    THEN [d EXCEPT !.status[i] = "available"]
    ELSE LET h == Winner(d, i)
             p == promoteForItem(d, i, h)
         IN  IF Request[h].pickup = b
             THEN claimOnArrival(p, i, b)
             ELSE Dispatch(p, i, Request[h].pickup, h)

releaseSetAsideCopy(d, i) ==
    IF d.status[i] = "awaiting_pickup" THEN Settle(d, i, d.at[i]) ELSE d

releaseAll(d, copies) ==
    FoldSet(LAMBDA i, e : releaseSetAsideCopy(e, i), d, copies)

-----------------------------------------------------------------------------
(* Checkout. The probe learns which rows to lock.                          *)

\* A receipt holds a copy's lock from its read to its commit.
Unlocked(copies) == \A i \in copies : receipt[i] = {}

OwnHold(d, p, i) ==
    {h \in Hold : Open(d, h) /\ Request[h].patron = p /\ Bib(h) = BibOfItem[i]}

\* The other open holds in the group of a hold of S.
Siblings(d, S) ==
    {g \in Hold \ S : /\ Open(d, g)
                      /\ Request[g].group # None
                      /\ \E h \in S : Request[h].group = Request[g].group}

ProbeCheckout(k, p, i) ==
    LET own == OwnHold(db, p, i)
        members == own \cup Siblings(db, own)
    IN  /\ req[k] = None
        /\ req' = [req EXCEPT ![k] =
                [op |-> "checkout", patron |-> p, item |-> i,
                 own   |-> {db.copy[h] : h \in own} \ {i, None},
                 bibs  |-> {Bib(h) : h \in members},
                 items |-> {db.copy[h] : h \in members} \ {None}]]
        /\ UNCHANGED <<db, due, receipt>>

\* A mutant: nobody asks whom the copy is set aside for.
LendToAnybody(d, p, i) ==
    /\ i \notin d.archived
    /\ d.status[i] \in {"available", "awaiting_pickup"}
    /\ d.loan[i] = None

\* The holds on the copy, refuseOnState, and loans_one_open_per_item.
CanLend(d, p, i) ==
    /\ \A h \in Assigned(d, i) : Request[h].patron = p
    /\ i \notin d.archived
    /\ \/ d.status[i] = "available"
       \/ d.status[i] = "awaiting_pickup" /\ Assigned(d, i) # {}
    /\ d.loan[i] = None

\* resolveGroupOnFulfilment refuses what the probe did not see, cancels the
\* siblings and closes the group; then each of their copies is released.
GroupRaced(d, r, own) ==
    \E g \in Siblings(d, own) :
        \/ Bib(g) \notin {BibOfItem[r.item]} \cup r.bibs
        \/ d.copy[g] \notin {None, r.item} \cup r.items

resolveGroup(d, siblings, own) ==
    LET ended == EndAll(d, siblings, "cancelled")
        closed == [ended EXCEPT !.resolved =
                        @ \cup ({Request[h].group : h \in own} \ {None})]
    IN  releaseAll(closed, {d.copy[g] : g \in siblings} \ {None})

Lend(d, r) ==
    LET own == OwnHold(d, r.patron, r.item)
        lent == [d EXCEPT !.loan[r.item] = r.patron, !.status[r.item] = "on_loan"]
        filled == EndAll(lent, own, "fulfilled")
        \* The copy set aside for the reader who takes another one, if it is
        \* the one the probe saw.
        spare == ({d.copy[h] : h \in own} \ {r.item}) \cap r.own
    IN  resolveGroup(releaseAll(filled, spare), Siblings(d, own), own)

Checkout(k) ==
    LET r == req[k] IN
    /\ r # None /\ r.op = "checkout"
    /\ Unlocked({r.item} \cup r.own \cup r.items)
    /\ CanLend(db, r.patron, r.item)
    /\ ~ GroupRaced(db, r, OwnHold(db, r.patron, r.item))
    /\ Lend(db, r).ok
    /\ db' = Lend(db, r)
    /\ req' = [req EXCEPT ![k] = None]
    /\ UNCHANGED <<due, receipt>>

\* A cancellation by the reader or a librarian.
ProbeCancel(k, h) ==
    /\ req[k] = None
    /\ Open(db, h)
    /\ req' = [req EXCEPT ![k] = [op |-> "cancel", hold |-> h, item |-> db.copy[h]]]
    /\ UNCHANGED <<db, due, receipt>>

\* A mutant: the copy set aside is forgotten.
ForgetfulCancelHold(k) ==
    LET r == req[k] IN
    /\ r # None /\ r.op = "cancel"
    /\ Open(db, r.hold)
    /\ db.copy[r.hold] = r.item
    /\ db' = End(db, r.hold, "cancelled")
    /\ req' = [req EXCEPT ![k] = None]
    /\ UNCHANGED <<due, receipt>>

CancelHold(k) ==
    LET r == req[k]
        ended == End(db, r.hold, "cancelled")
        after == IF r.item = None THEN ended ELSE releaseSetAsideCopy(ended, r.item)
    IN  /\ r # None /\ r.op = "cancel"
        /\ Open(db, r.hold)
        /\ db.copy[r.hold] = r.item
        /\ Unlocked({r.item} \ {None})
        /\ after.ok
        /\ db' = after
        /\ req' = [req EXCEPT ![k] = None]
        /\ UNCHANGED <<due, receipt>>

\* The request is refused, by a policy or a block, because the world moved
\* since the probe, or because its transaction was aborted.
Refuse(k) ==
    /\ req[k] # None
    /\ req' = [req EXCEPT ![k] = None]
    /\ UNCHANGED <<db, due, receipt>>

-----------------------------------------------------------------------------
(* The one-transaction operations. Commit(d) is a transaction that ends in *)
(* database d, unless an index aborted it.                                 *)

Commit(d) ==
    /\ d.ok
    /\ db' = d
    /\ UNCHANGED <<req, due, receipt>>

\* One that takes the lock of copy i.
CommitCopy(i, d) == Unlocked({i}) /\ Commit(d)

\* holds_one_live_per_patron_bib
NoLiveHold(h) == \A g \in Queue(h) :
                    Request[g].patron = Request[h].patron => ~ Open(db, g)

\* The group is the reader's own (RequestAssumption) and still wants a copy.
assertGroup(h) == Request[h].group \notin db.resolved

Placed(d, h) == [d EXCEPT !.state[h] = "open"]

\* A mutant: a resolved group still takes requests.
PlaceInAnyGroup(h, susp, prio) ==
    /\ db.state[h] = "unplaced"
    /\ NoLiveHold(h)
    /\ Commit([Placed(db, h) EXCEPT !.pos = Enqueue(@, Queue(h), h),
                                    !.susp[h] = susp,
                                    !.prio[h] = prio])

PlaceHold(h, susp, prio) ==
    /\ db.state[h] = "unplaced"
    /\ NoLiveHold(h)
    /\ Request[h].level = "item" => Request[h].wants \cap db.archived = {}
    /\ assertGroup(h)
    /\ Commit([Placed(db, h) EXCEPT !.pos = Enqueue(@, Queue(h), h),
                                    !.susp[h] = susp,
                                    !.prio[h] = prio])

\* A hold that was ready in the library's old system takes the first free copy,
\* or the back of the queue when there is none, or when the copy it found free
\* is gone once its lock is held: others take the copy's lock alone.
ImportReadyHold(h) ==
    LET copies == {i \in Item : BibOfItem[i] = Bib(h)}
        free == {i \in copies : db.status[i] = "available" /\ i \notin db.archived}
        raced == \E i \in copies : \/ i \in db.archived
                                    \/ db.status[i] \in {"in_transit", "missing", "in_process"}
    IN  /\ db.state[h] = "unplaced"
        /\ Request[h].level = "title" /\ Request[h].group = None
        /\ NoLiveHold(h)
        /\ \/ /\ free = {} \/ raced
              /\ Commit([Placed(db, h) EXCEPT !.pos = Enqueue(@, Queue(h), h)])
           \/ /\ free # {}
              /\ CommitCopy(Min(free),
                    [Placed(db, h) EXCEPT
                            !.copy[h] = Min(free),
                            !.shelf[h] = "waiting",
                            !.status[Min(free)] = "awaiting_pickup",
                            !.ok = Assigned(db, Min(free)) = {}])

SuspendHold(h, until) ==
    /\ Open(db, h) /\ db.copy[h] = None
    /\ Commit([db EXCEPT !.susp[h] = until])

ResumeHold(h) == Open(db, h) /\ Commit([db EXCEPT !.susp[h] = "no"])

Prioritise(h, prio) == Open(db, h) /\ Commit([db EXCEPT !.prio[h] = prio])

\* A mutant: a copy is fetched wherever it is.
FetchAnything(i) ==
    /\ i \notin db.archived
    /\ Candidates(db, i) # {}
    /\ CommitCopy(i, Settle(db, i, db.at[i]))

\* A librarian brings a copy off the open shelf for the first reader.
Fetch(i) ==
    /\ db.status[i] = "available" /\ i \notin db.archived
    /\ Candidates(db, i) # {}
    /\ CommitCopy(i, Settle(db, i, db.at[i]))

\* A copy comes back at the desk of branch b. Its record keeps the branch it
\* was lent from.
Returned(d, i, b) == [Settle(d, i, b) EXCEPT !.loan[i] = None]

Checkin(i, b) ==
    /\ db.loan[i] # None
    /\ CommitCopy(i, Returned(db, i, b))

\* A mutant: the loan is closed and the copy keeps its status.
LoseLoanOnly(i) ==
    /\ db.loan[i] # None
    /\ CommitCopy(i, [db EXCEPT !.loan[i] = None])

DeclareLost(i) ==
    /\ db.loan[i] # None
    /\ CommitCopy(i, [db EXCEPT !.loan[i] = None, !.status[i] = "missing"])

\* ItemStatusService.transition, for a librarian.
SetStatus(i, s) ==
    /\ db.status[i] # s
    /\ CommitCopy(i, [db EXCEPT !.status[i] = s])

ArchiveItem(i) ==
    /\ i \notin db.archived /\ ~ InVan(db, i)
    /\ CommitCopy(i, [db EXCEPT !.archived = @ \cup {i}])

\* ItemTransfersService: send, receive, cancel.
SendTransfer(i, b, h) ==
    /\ i \notin db.archived /\ db.at[i] # b
    /\ CommitCopy(i, Dispatch(db, i, b, h))

\* A receipt locks the copy and reads whom it has arrived for.
BeginReceipt(i) ==
    /\ InVan(db, i) /\ Unlocked({i})
    /\ receipt' = [receipt EXCEPT ![i] = {Claimant(db, i, db.van[i].to)}]
    /\ UNCHANGED <<db, req, due>>

\* Then it stamps that request, by its id, and gives the copy its status. If the
\* request has ended meanwhile the stamp is history, and the status is not.
ReceiveTransfer(i) ==
    LET to == db.van[i].to
        here == [db EXCEPT !.van[i] = None, !.at[i] = to]
    IN  /\ receipt[i] # {}
        /\ db' = [claimOnArrival(here, i, to) EXCEPT
                    !.status[i] = IF {} \in receipt[i] THEN "available"
                                                       ELSE "awaiting_pickup"]
        /\ receipt' = [receipt EXCEPT ![i] = {}]
        /\ UNCHANGED <<req, due>>

\* A mutant: the request keeps the copy that is not coming.
KeepsCopy(d, h) == d

requeue(d, h) ==
    [d EXCEPT !.copy[h] = None, !.shelf[h] = "no",
              !.pos = Enqueue(@, Queue(h), h)]

CancelTransfer(i) ==
    LET h == db.van[i].hold
        stopped == [db EXCEPT !.van[i] = None, !.status[i] = "available"]
    IN  /\ InVan(db, i)
        /\ CommitCopy(i, IF h \in Assigned(db, i) THEN requeue(stopped, h) ELSE stopped)

-----------------------------------------------------------------------------
(* Time, and the sweeps of the hold-expiry job.                            *)

SuspensionEnds(h) ==
    /\ db.susp[h] = "dated"
    /\ Commit([db EXCEPT !.susp[h] = "no"])

\* A shelf time that cannot be told from the branch's calendar never ends: the
\* column is NULL, and the sweep skips the row.
ShelfTimeUp(h) ==
    /\ db.shelf[h] = "waiting" /\ h \notin NoExpiry
    /\ Commit([db EXCEPT !.shelf[h] = "lapsed"])

\* One row of expireRequests, whose position is read again under the lock.
ExpireRequest(h) ==
    /\ Open(db, h) /\ db.copy[h] = None
    /\ Commit(End(db, h, "expired"))

\* expireShelf reads the lapsed rows, then handles each in a transaction.
ScanShelf ==
    /\ due = {}
    /\ due' = {[hold |-> h, item |-> db.copy[h]] :
                    h \in {g \in Hold : Open(db, g) /\ db.shelf[g] = "lapsed"}}
    /\ due' # {}
    /\ UNCHANGED <<db, req, receipt>>

ShelfRow(row) == releaseSetAsideCopy(End(db, row.hold, "expired"), row.item)

StillAssigned(row) == Open(db, row.hold) /\ db.copy[row.hold] = row.item

ExpireShelf(row) ==
    /\ row \in due
    /\ StillAssigned(row) /\ ShelfRow(row).ok
    /\ Unlocked({row.item})
    /\ db' = ShelfRow(row)
    /\ due' = due \ {row}
    /\ UNCHANGED <<req, receipt>>

SkipShelfRow(row) ==
    /\ row \in due
    /\ ~ StillAssigned(row)
    /\ Unlocked({row.item})
    /\ due' = due \ {row}
    /\ UNCHANGED <<db, req, receipt>>

\* An aborted row ends the tenant's sweep; the rows after it wait for the next.
SweepFails(row) ==
    /\ row \in due
    /\ StillAssigned(row) /\ ~ ShelfRow(row).ok
    /\ Unlocked({row.item})
    /\ due' = {}
    /\ UNCHANGED <<db, req, receipt>>

-----------------------------------------------------------------------------
Init ==
    /\ db = [status   |-> [i \in Item |-> "available"],
             at       |-> Home,
             archived |-> {},
             loan     |-> [i \in Item |-> None],
             van      |-> [i \in Item |-> None],
             state    |-> [h \in Hold |-> "unplaced"],
             pos      |-> [h \in Hold |-> 0],
             copy     |-> [h \in Hold |-> None],
             shelf    |-> [h \in Hold |-> "no"],
             susp     |-> [h \in Hold |-> "no"],
             prio     |-> [h \in Hold |-> 0],
             resolved |-> {},
             ok       |-> TRUE]
    /\ req = [k \in Desk |-> None]
    /\ due = {}
    /\ receipt = [i \in Item |-> {}]

DeskStep(k) ==
    \/ \E p \in Patron, i \in Item : ProbeCheckout(k, p, i)
    \/ \E h \in Hold : ProbeCancel(k, h)
    \/ Checkout(k)
    \/ CancelHold(k)
    \/ Refuse(k)

HoldStep(h) ==
    \/ \E s \in {"no"} \cup (Suspensions \cap {"dated"}), n \in Priorities :
            PlaceHold(h, s, n)
    \/ ImportReadyHold(h)
    \/ \E s \in Suspensions : SuspendHold(h, s)
    \/ ResumeHold(h)
    \/ \E n \in Priorities : Prioritise(h, n)
    \/ SuspensionEnds(h)
    \/ ShelfTimeUp(h)
    \/ ExpireRequest(h)

ItemStep(i) ==
    \/ Fetch(i)
    \/ \E b \in Branch : Checkin(i, b)
    \/ DeclareLost(i)
    \/ \E s \in DeskStatuses : SetStatus(i, s)
    \/ i \in Archivable /\ ArchiveItem(i)
    \/ \E b \in SendTo, h \in Hold \cup {None} : SendTransfer(i, b, h)
    \/ BeginReceipt(i)
    \/ ReceiveTransfer(i)
    \/ CancelTransfer(i)

SweepStep ==
    \/ ScanShelf
    \/ \E row \in due : ExpireShelf(row) \/ SkipShelfRow(row) \/ SweepFails(row)

Next ==
    \/ \E k \in Desk : DeskStep(k)
    \/ \E h \in Hold : HoldStep(h)
    \/ \E i \in Item : ItemStep(i)
    \/ SweepStep

Spec == Init /\ [][Next]_vars

\* The clock advances, the expiry job runs on its schedule and works through
\* what it scanned, a van that left arrives, and a receipt that began commits.
Fairness ==
    /\ WF_vars(SweepStep)
    /\ \A h \in Hold : WF_vars(ShelfTimeUp(h))
    /\ \A i \in Item : WF_vars(BeginReceipt(i)) /\ WF_vars(ReceiveTransfer(i))

FairSpec == Spec /\ Fairness

-----------------------------------------------------------------------------
TypeOK ==
    /\ db \in Database
    /\ db.ok
    /\ due \subseteq [hold : Hold, item : Item]
    /\ receipt \in [Item -> SUBSET SUBSET Hold]

\* Every queue is contiguous and 1-based whatever transactions interleave
\* (queueIntegrity in hold-queue.ts).
QueueIntegrity == \A h \in Hold : Contiguous(db.pos, Queue(h))

\* No transaction ever trips a CHECK of the holds table: a hold has a position
\* exactly while it waits, and only a hold with a copy is collectable
\* (holds_position_iff_waiting, holds_collectable_implies_assigned).
RowChecksHold ==
    \A h \in Hold :
        /\ db.pos[h] > 0 <=> Open(db, h) /\ db.copy[h] = None
        /\ db.shelf[h] # "no" => db.copy[h] # None

\* What the schema and queueIntegrity ask of the tables after every transaction,
\* whatever is done by hand.
TablesAreSound == TypeOK /\ QueueIntegrity /\ RowChecksHold

\* A copy is never left on loan with no loan behind it (items.dto.ts: why
\* on_loan is not a status a librarian may set).
OnLoanHasLoan ==
    \A i \in Item : db.status[i] = "on_loan" => db.loan[i] # None

\* A request that has a copy but cannot collect it is waiting for a van that
\* is bringing that copy to its pickup branch (item-transfers.service.ts: "the
\* request stays assigned to a copy that is not coming").
AssignedIsComing ==
    \A h \in Hold :
        Open(db, h) /\ db.copy[h] # None /\ db.shelf[h] = "no" =>
            db.van[db.copy[h]] = [to |-> Request[h].pickup, hold |-> h]

\* While nobody moves copies by hand, a request with a copy is collectable
\* exactly when the copy is on the hold shelf, and for the whole of a transit it
\* is not (checkin.service.ts: "a routed hold reaches awaiting_pickup only on
\* transit receipt").
CollectableIffArrived ==
    \A h \in Hold :
        Open(db, h) /\ db.copy[h] # None =>
            /\ db.shelf[h] # "no" <=> db.status[db.copy[h]] = "awaiting_pickup"
            /\ db.shelf[h] = "no" <=> InVan(db, db.copy[h])

\* At most one request of a group is ever filled, and none is left open once
\* the group is resolved (hold-groups.ts: resolveGroupOnFulfilment).
GroupOnce ==
    \A g \in Group :
        LET members == {h \in Hold : Request[h].group = g}
        IN  /\ \A h1, h2 \in members :
                    db.state[h1] = "fulfilled" /\ db.state[h2] = "fulfilled" => h1 = h2
            /\ g \in db.resolved => \A h \in members : ~ Open(db, h)

Stranded(i) == db.status[i] = "awaiting_pickup" /\ Assigned(db, i) = {}

\* A copy on the hold shelf is set aside for an open request: nothing else
\* would ever take it back (hold-release.ts: "a copy left awaiting_pickup ...
\* would sit there for ever, with a dead name on it").
SetAsideHasReader == \A i \in Item : ~ Stranded(i)

\* A copy is only ever stranded on the hold shelf by a checkout that did not know
\* of it: one of another copy whose probe did not see this one set aside, or the
\* receipt of this one that had read the request before a checkout filled it
\* (item-transfers.service.ts: receive holds the copy's lock, not its record's).
OnlyStaleReadsStrand ==
    [][\A i \in Item : Stranded(i)' /\ ~ Stranded(i) =>
        \/ \E k \in Desk : /\ req[k] # None /\ req[k].op = "checkout"
                           /\ req[k].item # i
                           /\ i \notin req[k].own
                           /\ req'[k] = None
        \/ /\ receipt'[i] = {}
           /\ \E read \in receipt[i] :
                /\ read # {}
                /\ \A h \in read : db.state[h] = "fulfilled"]_vars

\* A copy set aside for one reader is lent only to that reader
\* (checkout.service.ts: "a copy on the hold shelf is about to be handed to the
\* wrong reader, which is the one outcome a hold shelf exists to prevent").
LentToItsReader ==
    [][\A i \in Item, h \in Hold :
        h \in Assigned(db, i) /\ db.loan[i] = None /\ db.loan'[i] # None
            => db.loan'[i] = Request[h].patron /\ db.state'[h] = "fulfilled"]_vars

\* While no status is set by hand, taking a copy back from its borrower is never
\* aborted: no branch and no state of the queue makes it violate an index
\* (checkin.service.ts: "A return is never refused").
ReturnNeverRefused ==
    \A i \in Item, b \in Branch :
        db.loan[i] # None => Returned(db, i, b).ok

\* A suspended request is never given a copy (holds.service.ts: a suspended
\* hold keeps its place and is skipped by promoteForItem).
SuspendedIsSkipped ==
    [][\A h \in Hold :
        db.pos[h] > 0 /\ db.susp[h] # "no" => db.copy'[h] = None]_vars

\* A request whose policy does not move copies between branches never has one
\* put in a van for it (hold-pinning.ts: "`transitAllowed: false` is a library
\* that does not run a van").
NoVanWithoutTransit ==
    \A i \in Item : \A h \in Assigned(db, i) : InVan(db, i) => Request[h].transit

waitingHolds == {h \in Hold : db.pos[h] > 0}

aheadPairs ==
    {p \in waitingHolds \X waitingHolds :
        Bib(p[1]) = Bib(p[2]) /\ db.pos[p[1]] < db.pos[p[2]]}

Line == INSTANCE HoldLine
            WITH BibOf <- Bib, waiting <- waitingHolds, ahead <- aheadPairs

\* The queues the transactions keep implement HoldLine: no operation lets one
\* waiting reader pass another (a raised priority is not a place in the queue).
KeepsTheLine == Line!LineSpec

\* A request that has been given a copy does not keep it for ever: the reader
\* collects it, the shelf sweep takes it back, or the request ends or requeues.
\* One with no automatic shelf expiry is left to the librarians.
AssignmentEnds ==
    \A h \in Hold \ NoExpiry : db.copy[h] # None ~> db.copy[h] = None
=============================================================================
