# A TLA+ model of Libriant's core

Libriant is a multi-tenant library system: a NestJS API (`apps/api`), web, desktop and public
clients, and packages for circulation policy, MARC records and the two database planes. Each library
(tenant) has a PostgreSQL database of its own. This project models the parts where many desks,
devices, jobs and outside services change the same rows at once: the locks, the request (hold)
queue, copies, loans, requests, transit, the shelf sweep, the replay of changes a device made
offline, the fees ledger and the till, the catalogue record and its editing lock, the email outbox,
and the subscription row that Stripe's events move.

Every definition is translated from the code. `PROJECT.json` maps each to the lines it models.
Paths below are relative to `apps/api/src` unless they start with `packages/`.

## 1. Inventory

### Modelled

| Component | State it keeps | Operations that change it | What makes it correct |
|---|---|---|---|
| Advisory locks, `platform/locks.ts` | the transaction-scoped lock keys each transaction holds | `acquireLocks` (sorted by domain rank, then id), commit, rollback | no cycle of waiters; every call returns |
| Hold queue, `holds/hold-queue.ts` | `holds.queue_position`, one queue per record | `nextQueuePosition`, `closeQueueGap` | positions are 1..n; a rebalance never reorders readers; a shift happens whole or not at all |
| Promotion, settlement, release, `holds/hold-promotion.ts`, `hold-settlement.ts`, `hold-release.ts`, `hold-arrival.service.ts` | which copy a request has, if it may be collected | `promoteForItem`, `settlePromotion`, `releaseSetAsideCopy`, `claimOnArrival` | the first reader who can use the copy gets it; collectable exactly when it is there; no copy set aside for nobody |
| Requests, `holds/holds.service.ts`, `hold-groups.ts` | the holds table, groups | place, cancel, suspend, resume, prioritise, `resolveGroupOnFulfilment` | one live request per reader and record; a group is filled once; the suspended are skipped |
| Shelf and expiry, `holds/hold-shelf.service.ts`, `jobs/hold-expiry.job.ts` | shelf time, request expiry | fetch, `expireShelf`, `expireRequests` | an uncollected copy goes to the next reader; the scan's stale rows do no harm |
| Checkout, check-in, declare lost, `circulation/` | loans, copy status | the three services | a copy set aside is lent to its reader only; a return always works; no copy on loan without a loan |
| Items, `items/item-status.service.ts`, `item-transfers.service.ts`, `items.service.ts` | status, branch, open transfer, archived | status by hand, archive, send, receive, cancel | a request never stays assigned to a copy that is not coming |
| Device replay, `circulation/sync-replay.ts` | `sync_client_changes` | `lookupReplay`, `recordClaim` | a change is applied at most once; every answer under its id is the same answer |
| Ready-hold and fine import, `import/engine/import-engine-v2.ts` | the same tables, `fees` and the ledger | importing a hold that was ready, a fine that is owed or was settled, in the old system | it claims a free copy under the lock order; a fine settled elsewhere never touches the till |
| Fees, `fees/fees.service.ts`, `fee-settlement.ts`, `ledger.ts`, `fee-accrual.ts`, `overdue-accrual.service.ts` | `fees`, the journal, allocations, `patron_accounts` | charge, settle (payment, waiver, write-off), refund, the overdue sweep | journals balance; counters are their allocations; closed means settled; one growing fine per loan |
| Till, `fees/cash-drawer.service.ts` | `cash_drawer_sessions` | open, close | over and short on the books is what the closed tills say, but for a till closed twice |
| Catalogue record, `bib/bib-write.service.ts`, `bib-delete.service.ts`, `bib-projection.service.ts`, `scripts/catalog-verify.ts` | `marc_records`, its versions, the projected page, copies | save, restore, delete, undelete, repair, add and archive a copy | no edit is lost; the history has the record; the page is of the record |
| Editing lock, `bib/bib-lock.service.ts`, `jobs/marc-lock-expiry.job.ts` | `marc_record_locks`, one lease per record | acquire, take over, heartbeat, release, sweep | who believes to hold it does, or is told once that it is gone |
| Email outbox, `email/email.service.ts`, `email-worker.ts` | `email_outbox`, the BullMQ job, the sealed link in Redis | enqueue, process, retry, give up, recover, re-drive, purge | a second sending needs a fault (a time-out, a crash, a failed query); given up only for a reason; every row settles |
| Stripe billing, `billing/stripe-webhook.controller.ts`, `billing.service.ts`, `jobs/stripe-retry.job.ts` | `stripe_events` (custody), Redis keys and markers, the `subscriptions` row | webhook, retry sweep with its give-up after a day, the handlers, an operator's contract | no event is stranded before the day is over; the newest plan wins; the tracked subscription yields only to news of a live one |

Interactions. Everything meets in the tenant's database. Checkout and check-in call promotion,
settlement, release and groups inside their own transaction; the sweep and the cancellations do the
same. Serialisation is by advisory locks on (patron, bib, item), named in full before the
transaction decides anything. What has to be known to name them (the *probe* of a checkout or a
cancellation, the scan of a sweep) is read outside the transaction and verified inside it. What is
hard is the window between the two, the constraints that abort a transaction instead of refusing it,
and the states that librarians reach by moving copies by hand.

The later components meet the same database, the control plane and outside services. A settlement
holds the reader's lock, the overdue sweep holds none: they meet on the fee's row. A save holds the
record's lock, a deletion does not: they meet on `current_version`. The outbox row and its job live in
two stores that can disagree after any crash, and so do the custody row and the Redis key of a
Stripe event. There the hard part is which of the two survives, and who takes the work up again.

### Not modelled

| Component | Why |
|---|---|
| Renewal rules | only its replay protection is here; the due-date arithmetic and the outstanding-request rule are planned |
| Buying a subscription (`startCheckout`, `openCheckoutSession`, adoption of a customer's subscription), manual payments, the effective-plan cache | planned: that a customer buys nothing while a subscription is live is the constant `Guarded` of `StripeBilling`, TRUE in its runs; the theorems do not need it |
| Idempotency interceptor (Redis) | planned: claim, pending expiry, fail-open |
| MARC parsing, validation, templates, ingest | data transformation |
| Patron merge, blocks | planned: merging moves holds, loans and fees under two patron locks |
| Tax, archived fees | tax is a second amount beside the charge that every formula adds; nothing in the API writes `archived_at` of a fee |
| Scheduled-jobs runner | planned: one runner per job, catch-up |
| Retention of mail bodies (`sweepExpiredBodies`) | clears a column no action of the model reads |
| Policy resolution, calendars | pure arithmetic with unit tests; `canCollectAt` is modelled, the snapshot cache is planned |
| Tenancy, provisioning, authentication, consent | outside the state of a library, driven by outside services |
| 1.0 loans, reservations, fines | superseded by the modelled services |
| Import and export parsing, upgrade scripts | bulk data and operator scripts |
| Web, desktop, site clients | user interface |

## 2. Modules

```
AdvisoryLocks        <- MCAdvisoryLocks, AdvisoryLocksProofs
HoldQueue            queue arithmetic as functions
  QueueMachine       the column as a state machine, implements HoldLine
    GapUpdate        its transactions row by row, implements QueueMachine <- MCGapUpdate, HoldQueueProofs
  Circulation        copies, loans, requests, transit, sweeps; implements HoldLine <- MCCirculation, CirculationProofs
HoldLine             abstract specification: readers in line
SyncReplay           <- SyncReplayProofs
FeesLedger           fees, ledger and till of one reader                  <- MCFeesLedger, FeesLedgerProofs
RecordLock           the lease of the editing lock
  Catalogue          one record, its versions, page and copies, under that lease <- CatalogueProofs
EmailOutbox          one outbox row per mail, its job, workers and the provider  <- EmailOutboxProofs
StripeBilling        Stripe, its events, their custody and the subscription row  <- MCStripeBilling, StripeBillingProofs
```

Definitions whose comment says "A mutant" are not used by the specifications: each is a plausible
bug of the definition after it, kept to show that a property notices it.

**AdvisoryLocks.** Per transaction: `phase`, the keys `held` and the keys still to `want`.
`Begin` is the call of `acquireLocks`; `Take` is `pg_advisory_xact_lock` returning for the next key of
the sorted order; `End` and `Cancel` release everything. `AcquireMore` is the one second call in the
code, the item lock of an imported ready hold, which is of a later domain than what it holds. A key
is identified with its 64-bit hash. `Plans` are the key sets of the call sites.

**HoldQueue, QueueMachine, HoldLine.** `pos` is the column with 0 for NULL. Joining takes
`max + 1`; leaving closes the gap with `queue_position > vacated`. `HoldLine` knows only who waits
and who is ahead of whom: newcomers go behind everybody, leaving changes nothing between the
others.

**GapUpdate.** `closeQueueGap` is one UPDATE, but PostgreSQL checks the plain unique index
`holds_one_hold_per_position` at each row. `LeaveRow` starts the statement with a scan in position
order or in any order, `MoveRow` moves one row, `Abort` is error 23505 and the rollback.

**Circulation.** `db` is the database: per copy its status, branch, loan, van, archived; per hold its
state, position, copy, shelf time, suspension, priority; and the resolved groups. Each transaction is
one action, because the locks it takes first cover every row it decides on (one documented
exception below). It is an operator from database to database composed of the same helpers as the
code: `promoteForItem`, `claimOnArrival`, `Dispatch` (`openWithin`), `Settle` (promotion, settlement
and status), `releaseSetAsideCopy`, `resolveGroup`; `EndAll` and `releaseAll` are the loops of a checkout over
the requests it ends and the copies it frees. A unique index that the transaction would violate
makes `ok` FALSE, and a transaction that is not `ok` does not commit. `ProbeCheckout` and `ProbeCancel`
keep in `req` what the request read before its transaction; `Checkout` and `CancelHold` use it
afterwards; `Refuse` is any refusal, and may happen at any time. `ScanShelf` keeps the sweep's rows in
`due`; `ExpireShelf`, `SkipShelfRow` and `SweepFails` are the three outcomes of a row. `ExpireRequest` keeps
nothing of its scan, because the code does not either: the scan selects no position and the row is read
again under the record's lock. `SuspensionEnds` and `ShelfTimeUp` are the clock; the requests of `NoExpiry` are those
whose branch's calendar gives no shelf expiry (`hold-shelf-expiry.ts`, "no automatic expiry"), and the sweep skips them.

`receive` takes the copy's lock and no record's, so it is two steps. `BeginReceipt` is its reads under
that lock, kept in `receipt`: whom the copy has arrived for. `ReceiveTransfer` is its writes: the request it read is
stamped only if it is still open, the copy's status is written whatever happened. In between, whoever takes
the copy's lock waits (`Unlocked`, `CommitCopy`) and everybody else may act, such as a checkout of another copy that
fills the request. `ImportReadyHold` takes its copy's lock only after it has found the copy free; if a
librarian took the copy in between, the request joins the queue instead.

Abstractions. Dates become "lapsed or not". Policies, blocks, limits and fees become the refusal
that is always possible. The level of a request (title, volume, item) becomes the set of copies it
accepts. The candidate query reads everybody rather than a page of 50. Each hold is placed at most
once; a reader's second request is a second hold of the instance.

**SyncReplay.** One copy, changes made at desks, and changes a device flushes under a claim (device id
and change id). `LookupFresh` and `LookupReplay` are `lookupReplay`; `Apply` is the transaction that
ends with `recordClaim`; `LoseRace` is the primary key refusing the second of two concurrent flushes;
`Refuse` leaves before the row is written. A lost answer or a second flush is another lookup of the
same change; nothing keeps a device from sending another request under a used id. `effects`, `told`
and `refused` are history.

**FeesLedger.** One reader in one currency. The journal is append-only and appears as the sums its
readers take: `carried` (the receivable by fee), `book` (the other accounts), `alloc` (allocations by fee
and counter), and a till's `cash`. `ReadOwed` and `ReadPaid` are `settle` and `refund` up to the plan
(`Spread` is `planSettlement`, oldest first; a refund goes newest first), `Commit` the journal, the
allocations and the UPDATE of each fee, which decides from the row as it is now. `Accrue` is one loan of
the sweep, atomic because its upsert holds the row, and may come between the two. `Charge` is also the
charge for a lost copy and an imported fine that is still owed. `ProbeClose` and `Close` are the two
halves of `close`: the session is read before the till's lock and not again, so that two clerks may both
have found a till open. A payment may name any session there has been, open or not, as the code lets it.

**RecordLock, Catalogue.** The lease belongs to a browser tab, and is taken over by quoting the tab that has
it; `Grants` is the WHERE clause of the upsert, `LockLost` the 409 of a heartbeat, `TimeUp` the clock, `Sweep` the expiry job. `Catalogue` extends
it. A record is its content, its `current_version`, its versions, its deletion mark, its page and its
copies. `BeginEdit` and `BeginRestore` are `writeCore` up to the compare-and-set under the record's advisory
lock, `Save` or `GiveUp` the rest; `BeginDelete` and `Tombstone` are `delete`, which takes no advisory lock; the editing lock gates none of them;
`BeginUndelete` and `Undelete` are its inverse; `ScanDrift`, `BeginRepair` and `Repair` are the projection
check and its repair. A content is what `content_hash` covers: the fields, one of a small set, and the status
byte of the leader, which a save sets to "corrected". `ScanDrift` may find any live record's page drifted, since a
newer projector makes another page of the same content.

**EmailOutbox.** A producer inserts the row and then adds the job (`AddJob`, or `AddLost`). A worker picks
the job, reads the row, sends, records and weighs (`Pick`, `Abandon`, `Start`, `Accept`, `Refuse`, `Throw`,
`TimeOut`, `Record`, `Weigh`, `Verdict`, `EndJob`); it may die at every step (`Crash`), and every query of it may
throw (`QueryFails`): before the `try` the job fails, inside it the `catch` decides about the row, which after an
acceptance puts an accepted mail back to `pending`, and inside the `catch` the row stays `sending`. BullMQ is external: a
job id is added once while the queue keeps a job of that id, a job whose worker died or lost its lock is
run again (`StallOrphan`, `StallSlow`), finished jobs are pruned. `RunRecovery` resets rows that have
been `sending` too long and lists the owed ones, `Requeue` adds a job for each. Per row `faults` counts what may hide an
acceptance (a call that timed out, a crash or a failed query before the row is written); `slipped` and `blipped` remember that a
living worker lost its lock and that a read of the secret store failed, for the properties to name.

**StripeBilling.** `stripe` is the truth at Stripe, `ev` its events in order of emission, `custody` the
`stripe_events` rows, `lock` the Redis keys of the webhook, `marker` the newest event applied per
subscription, `row` the library's subscription. A request or a sweep tick is a member of `busy`: the event,
how it came by it and where it is; each handler reads, then writes. `Deliver` is a delivery of any
unanswered event at any time, `Sweep` the retry job, `Fail` a dispatch that threw, `Crash` the end of the
process. `Abandon` is a day gone by with an event unfinished: the sweep no longer takes it up and counts it
(`GIVE_UP_AFTER_MS`), and `Rearm` is the operator who sets its `receivedAt` anew. A subscription has every status of
Stripe's, `trialing`, `paused`, `unpaid` and `incomplete_expired` among them; `Live` is `STRIPE_LIVE_STATUSES`, and
`LocalStatus` is `mapStatus`, which makes the expiry of a first purchase a cancellation. `BeginContract` and
`WriteContract` are `applyAdminPlanChange`: the cancellation at Stripe, which emits an event, then the row. `overlapped` records that two handlers have run together: the handlers are
not serialised and the ordering properties are about deliveries one after another. A period is the day it
starts, on one calendar for all subscriptions: a later purchase starts no earlier.

The newest plan wins until a contract has replaced a subscription. `applyAdminPlanChange` clears the pointer
and leaves `current_period_start`; if a late `checkout.session.completed` of an older subscription then claims
the pointer, its newer updates are dropped by `isStaleByPeriodStart` without moving the marker, and an older
one, of a period that is not earlier, can be applied after them. It takes six events, which is beyond the
bounds of the run: the attempt to prove the property without the condition found it. Two more conditions are in the
property: an event of another subscription that says unpaid is dropped without moving the marker, and nothing has failed,
since the retry sweep orders by what Stripe says and not by the marker (`StripeReplay.cfg`). The redelivery of an unanswered event has no end in
the model; Stripe's ends after about three days.

## 3. Runs

| Run | Bounds | Shows |
|---|---|---|
| `locks` | 3 transactions, 2 ids, six key sets, 9,649 states | `NoDeadlock`; `EveryCallReturns` under fairness |
| `queue_rows` | 4 + 2 holds of two records, 3,430 states | `QueueIntegrity`, `KeepsTheLine`; `CommitsTheWholeShift`: row by row implements the atomic machine; `OrderedScanCloses` |
| `circ_desk` | 2 copies, 3 readers, 2 branches, 1 desk, 662,514 states | `CollectableIffArrived`, `ReturnNeverRefused`, `LentToItsReader`, `KeepsTheLine`, `OnlyStaleReadsStrand` |
| `circ_by_hand` | 1 copy, 2 readers, statuses, archive and sending by hand, dated suspensions, 2 priorities, 825,444 states | `TablesAreSound` (types, queue integrity and the CHECKs of the tables), `OnLoanHasLoan`, `AssignedIsComing`, `SuspendedIsSkipped` |
| `circ_groups` | 2 records, a group of two requests, 2 desks, one request with no automatic expiry, 243,364 states | `GroupOnce`; `AssignmentEnds` under fairness |
| `sync_replay` | 2 claims, 2 handlers, 2 loans, 1 renewal, 1.5 M states | `AppliedOnce`, `OneAnswer` |
| `fees` | 2 fees of at most 2 cents, 1 overdue loan, 1 till, 2 clerks, 647,200 states up to the symmetry of the clerks | `BooksAddUp` (types, the ledger sums to zero, balanced journals, every cent accounted for), `ClosedMeansSettled`, `CountersAreAllocations`, `ReceivableCoversOwed`, `OneGrowingFine`, `OnlySecondCloseParts` |
| `catalogue` | 2 users, 2 tabs, 2 contents, 4 versions, 1 copy, 1 lapse, 1,375,200 states | `LockIsAsTold`, `RecordIsSound` (types, the history has the record, the stored source is the record), `PageIsOfTheRecord`, `NoLostEdit`, `DeletesWhatItSaw`, `OnlyIdleSaveRewinds` |
| `outbox` | 1 row, 1 producer, 2 workers, 2 attempts of the row and of the job, 2 upsets, 410,022 states | `DuplicatesAreFaults`, `DeadIsJustified`, `OneWorkerPerRow`; `SettledOrBlocked` under fairness |
| `billing` | 2 subscriptions, 2 plans, 3 events, the first may begin with a trial, 2 requests of one event at a time, 1 upset, 1,403,236 states up to the symmetry of the plans | `RowIsJustified` (types, the newest plan wins, grace is earned), `NoEventIsStranded`, `YieldsToLiveNewsOnly`, `ContractNotDropped` |

Why the bounds are enough to be interesting. Three transactions are the least that form a cycle
longer than two; two ids per domain exercise both keys of the sort. A queue of four has a middle to
leave and two behind it, which the row order needs. Two copies of a record let a reader take
one while another is set aside for her; three readers leave somebody waiting after a promotion; two
branches make a van. Two desks race for the group. The constants `DeskStatuses`, `Archivable`,
`SendTo`, `Suspensions` and `Priorities` say what librarians and readers of an instance do, so that
each run spends its states on its own question. Two fees are an old one and a new one, so that a plan
is spread and a refunded fine meets its successor; two cents let one be paid in part. Two users are a
holder and a taker of the lock, or a save and a deletion. Two workers race for one row, and two attempts
are a retry and a last one. Two clerks are what closes one till twice. Three events are a purchase, its end and the next purchase, or an update, a
later one and the operator's. Two subscriptions are an old one and its
successor, whose events are delivered out of order; two requests at a time race a delivery with its
redelivery or with the sweep. Two requests of different events do not run together in that run
(`OneEventAtATime`, a constraint of `MCStripeBilling`): custody is kept per event, and the properties of the row
speak of handlers that have not overlapped. In `fees` a refund goes out by a method whose account holds
as much (`WithinBooks`), so that no account is overdrawn; the code does not ask for it, and no proof uses
it.

The desk run has no statuses set by hand. With them two of its properties fail, which the code
allows: a librarian may set a copy that is on loan to `available` (`applyWithin` in
`item-status.service.ts` does not look at the loan), the copy can then be set aside, and the return
aborts on `holds_one_assignment_per_item` although `checkin.service.ts` says a return is never refused.
`AssignedIsComing` and `OnLoanHasLoan` hold even then, and are checked with everything done by
hand.

### Disagreements between code and documentation

Two runs expect TLC to find a property violated by what the code does.

* `circ_stranded`, `SetAsideHasReader`. A checkout releases the reader's other set-aside copy only if
  its probe saw that copy. A copy set aside between the probe and the locks stays on the hold shelf
  with its request fulfilled, and nothing takes it back: a reader probes with no copy assigned,
  somebody fetches copy 2 for her, she takes copy 1. `OnlyStaleReadsStrand`, which holds in
  `circ_desk`, says that only one other step of the desk, the vans or the sweep does this: the receipt of a
  copy that read the request before a checkout of another copy filled it.
* `billing_contract`, `ContractStays`. Moving a library onto a contract cancels its Stripe subscription
  first, and Stripe reports that as `customer.subscription.updated`. The handler writes
  `billingMode: 'stripe'` and the old plan without asking for the mode, so the contract is gone. So does the
  `updated` of a first purchase that expired, with status `canceled`. The deletion handler does ask, and no
  contract is dropped to the free plan (`ContractNotDropped`).
  `ContractLostToUpdateOnlyAlways` (section 4) says that, with one handler at a time, this handler is the only place
  where a contract is lost.

Eleven more configurations are kept beside the runs. Each gives TLC one property and a small instance,
and ends in a counterexample. For most of them a property of the runs or a theorem says how far the failure goes.

| Configuration | Property | What happens |
|---|---|---|
| `CirculationOpenEnded.cfg` | `SuspendedIsSkipped` | an open-ended suspension has no end date, which the promotion query takes for "not suspended"; with dated ones (`circ_by_hand`, `SuspendedAlwaysSkipped`) it holds |
| `CirculationNoVan.cfg` | `NoVanWithoutTransit` | a check-in at another branch decides who may have the copy with the branch it was lent from, and opens a van for a request whose policy moves no copies |
| `SyncReplayRefusal.cfg` | `RefusalSticks` | a refused change leaves no row and is evaluated afresh at the next flush, where the header of `sync-replay.ts` says the refusal is the stored response |
| `FeesDrift.cfg` | `AccountReconciles` | identity I3: after a part payment the sweep posts the charge minus the receivable's balance, which puts the paid part back on the receivable; no other step does, and the account is never short (`OnlySweepDriftsAlways`, `AccountNeverShort`) |
| `FeesTill.cfg` | `VarianceOnBooks` | two clerks who found the till open both close it; the session keeps the last count, the books have both variances; nothing else parts them, and that only by what the earlier count had found (`OnlySecondCloseParts`) |
| `EmailStranded.cfg` | `OwedIsSettled` | the recovery adds its job under the row's id while BullMQ still retains a finished job of that id: nothing is added and the row stays owed; jobs the recovery itself added are retained for ever, and without an upset no other job does this (`OnlyTheScanBlocksAlways`) |
| `CatalogueGhost.cfg` | `TombstoneHasNoPage` | a repair that waited for the record's lock projects a record deleted meanwhile; nothing but a repair does (`OnlyRepairHauntsAlways`), and not with one request at a time (`OneRequestAtATime`) |
| `CatalogueOrphans.cfg` | `DeletedHasNoCopies` | a deletion counts the copies before a new one is added |
| `StripeReplaced.cfg` | `PayingIsNotReplaced` | an `updated` that still says active, of a subscription that has ended since, takes the pointer off the live one that the library pays for, and the old one's deletion then drops the library to the free plan; the handler asks what the event says and not what Stripe has (`YieldsToLiveNewsOnly` is what remains true) |
| `StripeReplay.cfg` | `NewestPlanWinsWithFaults` | what the retry sweep applies moves no marker, so an older event that is delivered live afterwards is not stale; without faults the newest plan wins (`RowIsJustified`) |
| `StripeTrialGrace.cfg` | `GraceIsPaidFor` | a trial whose first real invoice fails gets the grace window that the comment keeps "for a paying customer whose RENEWAL failed" |

One more is shown by `OrderedScanCloses` together with its mutant: `closeQueueGap` depends on the
planner visiting rows in position order. Any other order can abort the rebalance (never half of it:
`CommitsTheWholeShift`).

### Fairness

* `AdvisoryLocks`: `WF` of `Acquired` and `End`, since a transaction that has its locks runs to its end or
  times out; `SF` of `Take`, since PostgreSQL queues the waiters of a lock in order and a waiter whose
  key keeps becoming free is served. Nothing is assumed of `Cancel`.
* `Circulation`: `WF` of `SweepStep`, the hold-expiry job on its schedule; `WF` of `ShelfTimeUp`, the clock;
  `WF` of `BeginReceipt` and `ReceiveTransfer`, staff unpacking a van, whose delay the hold-transit-timeout job reports.
  `ShelfTimeUp` is never enabled for a request of `NoExpiry`, and `AssignmentEnds` does not speak of one.
  Readers and desks are not assumed to do anything.
* `EmailOutbox`: `WF` of a worker's steps and of `Pick` (a running worker takes jobs and each of its calls
  returns or times out), of `StallOrphan` (BullMQ's stalled check runs on a timer), and of `RunRecovery` and
  `Requeue` (the recovery timer). Nothing is assumed of the provider's answer, of producers or of the pruning of
  old jobs. Faults are bounded by the constants.
* `FeesLedger`, `Catalogue` and `StripeBilling` state no liveness and no fairness. That an event always has
  someone to take it up is the invariant `NoEventIsStranded`: Stripe has no answer yet and sends it again, the
  sweep finds it overdue, or a request has it in hand -- until it is a day old, when the sweep gives it up and an
  operator has to set it anew.

## 4. Proofs

All theorems hold for every value of the constants under the named assumptions of the modules.

* **AdvisoryLocksProofs.** `DeadlockFreedom`. The inductive invariant adds to
  the types that an idle transaction holds and wants nothing, and `HeldBeforeWanted`: what a
  transaction waits for comes after everything it holds. `AcquireMore` keeps it because the second
  call asks for a later domain. A set of transactions that wait only for each other would have a
  last wanted key, which is held by a member waiting for a later one. The assumption is that ids are
  `0..MaxId` (ids are totally ordered) and that a plan is a set of keys.
* **HoldQueueProofs.** `QueuesStayContiguous` and `PositionsImplementTheLine`, the refinement of
  `HoldLine`. The invariant is `QueueInv`: types, contiguity, and a bound on the positions, which `max`
  needs because the set of holds may be infinite. The lemmas say what `NextQueuePosition`, `Enqueue` and
  `Dequeue` do to a contiguous queue.
* **SyncReplayProofs.** `ExactlyOnce` and `AnswersAreTheStoredOnes`, from `SyncInv`, for any number of
  claims, handlers, loans and renewals. Only the primary key (the conjunct `log[c] = None` of `Apply`)
  keeps two concurrent flushes apart; the lookup before the transaction does not. `EveryAnswerIsItsOwn`: two claims are
  never told the same success. It needs `Behind`, what the row of a claim still says of the copy: its loan is not a later one
  than the copy's, is over if the row is a return's, and was renewed at least as often as the row says. A new
  change is therefore beyond every row, the desk's own changes in between included.

* **FeesLedgerProofs.** `FeeTypes`, `SettledWhenClosed`, `CountersMatch`, `ReceivableIsEnough` and `OneFinePerLoan`,
  for any number of fees, amounts, loans, tills and clerks. The inductive invariant adds three facts to the
  four properties and the types. `Blank`: a fee not yet raised is an empty row, so that raising it starts from
  zero. `PlanFits`: what a pending settlement plans for a fee is within what the fee owes, or was paid, even if
  the sweep has grown the fee since it was read, which is what makes the UPDATE safe without a second
  read. `ClosingOpened`: a clerk only closes a till that was opened. `OneFinePerLoan` needs
  `SettledWhenClosed`: a fine the refund reopens has had `is_accruing` cleared when it was closed.
  `BooksAlwaysAddUp` and `OnlySecondClosePartsAlways` are about sums over all fees, accounts and sessions. A sum is a fold:
  its recursion is shown to have a solution and not to depend on the order (`SumTableExists`), then sums add up
  (`SumPlus`), follow one entry (`SumMoves`) and telescope (`SumTelescopes`), which is why the parts that `planSettlement`
  gives each fee add up to the amount less what is left. The invariant `BInv` adds `PlanAddsUp`, this fact kept for the pending
  plan together with the account its kind goes to; the journal balances because of it.
  `OnlySecondClosePartsAlways` is about any number of clerks, who may all have found one till open. The gap between the
  variance on the books and the sum of what the tills are short changes at no step but a close of a session that is
  closed already, and then by what that session was short before (`CloseGap`): the two overlap nowhere else. It
  assumes finitely many sessions (`SessionAssumption`: they are rows of a table).
  `BooksAlwaysAddUp` includes the trial balance: each journal moves one fee's receivable and its accounts by amounts that cancel
  (`ChargeLegs`, `TransferLegs`), so the sum over all fees and accounts stays zero. Three more theorems say how far the drift of
  `FeesDrift.cfg` goes. The drift of a fee is what the receivable carries of it less what it owes: `OnlySweepDriftsAlways` says that
  only an accrual changes it, to exactly what was settled of the fee; `AccountNeverShort` sums this up, so that the account can
  only carry too much; `ReconcilesWithoutTheSweep` proves identity I3 where no loan grows a fine.

* **HoldQueueProofs, the rows.** `RowsImplementTheShift`: the UPDATE executed row by row, in any scan order and with
  its aborts, implements `QueueMachine`; with the two theorems above, `RowsKeepTheQueues`. `OrderedScanClosesAlways`:
  in position order it never aborts. The invariant `RowInv` says what a statement that is under way has left
  behind: the rows it has moved are one lower, the rows it has yet to move are as they were, and in an ordered
  scan every moved position lies below every unmoved one, so the next target is free.
* **CatalogueProofs.** `LockIsAsToldAlways`, `RecordIsSoundAlways`, `PageIsOfTheRecordAlways`, `NoLostEditAlways`,
  `DeletesWhatItSawAlways`, `OnlyIdleSaveRewindsAlways`, for any number of users, tabs, contents, versions, copies and
  lapses. The invariant adds to the properties what a pending request knows: the content and version it read
  are those of a version row that is still there, and while the record has that version it still has that content.
  A save under the record's lock therefore writes over what it compared; a deletion, which has no lock, is
  kept honest by the unique version number alone. `OnlyRepairHauntsAlways` looks at every writer of the page
  (`PageWriters`): a repair alone does not ask for a deletion after it has the lock. `OneRequestAtATime` assumes one user and needs
  `Serial` (what the request in progress read is still so); the page of a deleted record and the version that moves back both need a
  second request.
* **EmailOutboxProofs.** `OneWorkerPerRowAlways`, `DuplicatesAreFaultsAlways`, `DeadIsJustifiedAlways`, for any number of rows,
  workers, producers, attempts and faults. While no living worker has lost its lock, the worker in
  `processOne` owns the job's lock (`Locked`), the row's status is what that worker left, and each message
  the provider took is a fault's but for one that the row, or the worker about to write it, accounts for
  (`Counted`). A fault is a call that timed out, a worker that died or a query that threw before the acceptance was on
  the row. Row ids are given out in order and never used twice, which keeps a late job from meeting a new row.
  `OnlyTheScanBlocksAlways` is about a run without an upset and a job with at least the attempts of its row (both are
  `EMAIL_MAX_ATTEMPTS`, or the caller gives the row fewer): the job that holds an owed row back is one of the scan's. The invariant `Budget`
  adds up the attempts counted on the row and those left to the job that enqueue added, across each step of
  `processOne`, and says that this job is added once, to a row with no attempt counted. With fewer attempts
  for the job than for the row it is false, which TLC shows at once.
* **StripeBillingProofs.** `RowIsJustifiedAlways`, `YieldsToLiveNewsOnlyAlways`, `ContractNotDroppedAlways`, for any number of
  subscriptions, plans, events, periods, requests and upsets, on trial or not, bought one at a time or several at once. The invariant has three layers. Always: what Stripe has
  emitted is consistent with what it sold (`Sales`: the periods of a subscription only grow, `deleted` means
  canceled, an `updated` never says canceled but may say incomplete_expired, `past_due` comes after `active` or
  `trialing`). While handlers run one after another (`Alone`): what a handler read
  still holds when it writes. While, besides, nothing failed and no contract replaced a subscription (`Calm`): the
  newest event applied (`Top`, the marker or the event of a handler that has yet to write it) has the row's plan, and every
  event that was passed over is older than that, or says that its subscription is not live: one not yet paid for
  cannot change its plan, and for one that says unpaid `NewestPlanWins` makes an exception. `NoEventIsStrandedAlways` needs none of this but `AckedIsKept`: an event Stripe has an answer for has its row, held,
  failed or done, and of those not done the sweep has the ones that are less than a day old. `ContractLostToUpdateOnlyAlways` goes through the handlers for the writers of the billing mode.
* **CirculationProofs.** `TablesAlwaysSound`, `LoansBehindCopies`, `AssignedAlwaysComing`, `GroupsFilledOnce`, the action
  properties `LentOnlyToItsReader`, `OnlyStaleReadsStrandAlways` and `SuspendedAlwaysSkipped` (while no suspension is
  open-ended), and the refinement `TransactionsKeepTheLine`, for any number of copies, readers, branches, groups and
  desks and any finite number of requests, with everything librarians do by hand. The inductive invariant `CircInv`
  is `Good` (types, contiguous queues, rows that agree with each other, a loan behind every copy on loan, a van
  behind every copy that is promised and not there), `OneLive` (one open request per reader and record, which makes
  the request a checkout fills the only one of its group), `GroupsSound`, the types of what probes and the
  sweep keep, and `Receipts`: while a receipt runs its copy is in the van, every request the copy has come for is one the receipt
  has read, and every request it has read has the copy still or was filled (`ReadOf`). Filled, because whoever ends a
  request otherwise takes the lock of its copy: `Touches` says of each operation which copies' vans and requests it
  disturbs, and that all of these were unlocked (`HoldStepTouches`, `ItemStepTouches`, `SweepStepTouches`, `DeskStepTouches`).
  A receipt itself is a step that changes no loan and no request's copy (`ReceiptIsQuiet`). The rows agree only if a request's copy is one of its record: without that a checkout could lend a
  set-aside copy and fill nobody. The proof follows the code: a lemma per helper (`EndKeeps`, `PromoteKeeps`,
  `ClaimKeeps`, `DispatchKeeps`, `SettleKeeps`, `ReleaseKeeps`) says what it keeps between two states of a
  transaction, which need not yet be fit to commit; a lemma per operation says that it is a `PlainStep`; `LendKeeps`
  does the same for a checkout, the one operation that is not. Its loops are folds, whose recursion is
  shown to exist (`FoldExists`) and then followed (`EndAllWithin`, `ReleaseAllWithin`): whatever the order in
  which the requests are ended and the copies released, the same is kept. The lemmas on the queue are those of
  `HoldQueueProofs`, restated for this module's queues.
  `CollectableOnArrival` and `ReturnsAreTaken` hold while nobody sets a status or sends a copy by hand (`DeskStatuses`
  and `SendTo` empty, as in the run that checks them; archiving is allowed). They need `Tidy` besides: a van behind a copy means
  in transit, a loan means on loan, a request's copy is on the hold shelf or in a van and no two requests have
  one copy. It is kept by the loops because a copy is released only when whoever had it has ended, and by an
  arrival because the van was going where its reader collects (`AssignedIsComing`).

Model-checked only: the liveness properties `EveryCallReturns`, `AssignmentEnds` and `SettledOrBlocked`, since liveness
under fairness is out of the prover's reach. Every safety property of a passing run, invariant or action property, and both
refinements are theorems.

## 5. Plan

In order:

1. The purchase guard of `startCheckout`: two tabs, the Redis placeholder, a crash between the placeholder
   and the session, in place of the constant `Guarded` of `StripeBilling`.
2. The idempotency interceptor: pending keys, expiry and fail-open, beside the durable replay.
3. Renewal with the outstanding-request rule.
4. The scheduled-jobs runner and the sweep's scan order, for the hazard of a row that fails at every
   tick and hides the rows behind it. The candidate page as a constant.
5. Patron merge, which moves holds, loans and fees; the policy snapshot cache; the fine arithmetic of
   `circ-policy`, whose increments should add up to the whole.
