---------------------------- MODULE EmailOutbox ----------------------------
(***************************************************************************)
(* The e-mail outbox: one message, keyed by its idempotency key, from the  *)
(* producer that enqueues it (email.service.ts) through the row in         *)
(* Postgres, the BullMQ job in Redis that schedules it, the worker slots   *)
(* that run processOne (email-worker.ts) and the recovery scan, to the     *)
(* provider.  Postgres, Redis and the provider fail separately, so the row *)
(* and the job may disagree; the scan is what brings them together again.  *)
(*                                                                         *)
(* The body carries a one-time link, sealed in Redis; a message without    *)
(* one behaves as one whose sealed value never lapses.                     *)
(*                                                                         *)
(* A row id is used once: after a deletion the message may be enqueued     *)
(* again under another id, and the job of the old one finds no row.        *)
(***************************************************************************)
EXTENDS Naturals, FiniteSets

CONSTANTS
  MaxRows,        \* bound: ids the message's row may get
  Worker,         \* worker processes (one job at a time each)
  Producer,       \* callers of enqueue: a sweep, a replayed request
  MaxAttempts,    \* email_outbox.maxAttempts
  JobAttempts,    \* attempts of a job enqueue adds (EMAIL_MAX_ATTEMPTS)
  MaxUpsets,      \* bound: crashes, lost locks, failed queries and secret reads, re-drives
  None

ASSUME AttemptsAssumption ==
  /\ MaxAttempts \in Nat \ {0}
  /\ JobAttempts \in Nat \ {0}

Row == 1 .. MaxRows

(* None stands for no worker and for no row. *)
ASSUME NoneAssumption ==
  MaxRows \in Nat /\ MaxUpsets \in Nat /\ None \notin Worker /\ None \notin Row

VARIABLES
  status,     \* row -> "none" (not inserted), a status, or "purged" (deleted)
  attempts,   \* row -> attempts counted on the row
  secret,     \* the sealed value is still in Redis
  prod,       \* producer -> None, or the id whose job it is about to add
  job,        \* row -> BullMQ's job of that id
  pc, on,     \* worker -> where it stands in processOne, and its row
  owed,       \* ids the recovery scan has listed and not added yet
  sent,       \* row -> messages the provider accepted
  faults,     \* row -> failures after which a second message is excused
  upsets,     \* how many of the bounded failures and interventions have happened
  slipped,    \* a living worker has lost its lock
  blipped     \* a read of the secret store has failed

rowVars == <<status, attempts>>
faultVars == <<upsets, slipped, blipped>>
vars == <<status, attempts, secret, prod, job, pc, on, owed,
          sent, faults, upsets, slipped, blipped>>

Terminal == {"delivered", "dead", "failed"}
Live == {"pending", "sending"} \cup Terminal
Owed == {"pending", "sending"}

NoJob == [state |-> "none", left |-> 0, kept |-> FALSE, stalls |-> 0, owner |-> None]

(* A job BullMQ still knows; `kept` jobs are never pruned. *)
NewJob(n, forever) ==
  [state |-> "waiting", left |-> n, kept |-> forever, stalls |-> 0, owner |-> None]

(* queue.add with jobId = row.id: ignored while BullMQ holds any job of that id, *)
(* a finished one it retains included.                                            *)
Add(r, j) == IF job[r].state = "none" THEN [job EXCEPT ![r] = j] ELSE job

TypeOK ==
  /\ secret \in BOOLEAN /\ slipped \in BOOLEAN /\ blipped \in BOOLEAN
  /\ upsets \in 0 .. MaxUpsets
  /\ status \in [Row -> Live \cup {"none", "purged"}]
  /\ attempts \in [Row -> Nat]
  /\ prod \in [Producer -> {None} \cup Row]
  /\ job \in [Row -> [state : {"none", "waiting", "active", "completed", "failed"},
                      left : 0 .. JobAttempts, kept : BOOLEAN,
                      stalls : 0 .. 1, owner : Worker \cup {None}]]
  /\ pc \in [Worker -> {"idle", "loaded", "calling", "accepted", "refused",
                        "threw", "spent", "again", "finish", "rethrow"}]
  /\ on \in [Worker -> Row \cup {None}]
  /\ owed \subseteq Row
  /\ sent \in [Row -> Nat] /\ faults \in [Row -> Nat]
  /\ \A w \in Worker : pc[w] = "idle" <=> on[w] = None
  /\ \A r \in Row : job[r].owner # None => job[r].state = "active"
  /\ Cardinality({r \in Row : status[r] \in Live}) <= 1

Init ==
  /\ status = [r \in Row |-> "none"]
  /\ attempts = [r \in Row |-> 0]
  /\ secret = FALSE
  /\ prod = [p \in Producer |-> None]
  /\ job = [r \in Row |-> NoJob]
  /\ pc = [w \in Worker |-> "idle"]
  /\ on = [w \in Worker |-> None]
  /\ owed = {}
  /\ sent = [r \in Row |-> 0]
  /\ faults = [r \in Row |-> 0]
  /\ upsets = 0 /\ slipped = FALSE /\ blipped = FALSE

(* One of the failures or interventions that are bounded. *)
Upset == upsets < MaxUpsets /\ upsets' = upsets + 1

-----------------------------------------------------------------------------
(* enqueue, called by a request, its replay, or an hourly sweep that offers the *)
(* same reminder again: seal the link in Redis, then insert.  The unique key    *)
(* refuses a second row, and then no job is added and nothing changes.          *)

RowExists == \E r \in Row : status[r] \in Live

Insert(p, r) ==
  /\ prod[p] = None
  /\ ~RowExists
  /\ r = 1 + Cardinality({i \in Row : status[i] # "none"})
  /\ status' = [status EXCEPT ![r] = "pending"]
  /\ secret' = TRUE
  /\ prod' = [prod EXCEPT ![p] = r]
  /\ UNCHANGED <<attempts, job, pc, on, owed, sent, faults, faultVars>>

AddJob(p) ==
  /\ prod[p] \in Row
  /\ job' = Add(prod[p], NewJob(JobAttempts, FALSE))
  /\ prod' = [prod EXCEPT ![p] = None]
  /\ UNCHANGED <<rowVars, secret, pc, on, owed, sent, faults, faultVars>>

(* The caller dies, or Redis refuses the job, after the insert committed. *)
AddLost(p) ==
  /\ prod[p] \in Row
  /\ prod' = [prod EXCEPT ![p] = None]
  /\ UNCHANGED <<rowVars, secret, job, pc, on, owed, sent, faults, faultVars>>

(* The sealed value's 26 hours are over. *)
SecretLapses ==
  /\ secret
  /\ secret' = FALSE
  /\ UNCHANGED <<rowVars, prod, job, pc, on, owed, sent, faults, faultVars>>

-----------------------------------------------------------------------------
(* The worker: processOne, one await at a time. *)

Goto(w, label) == pc' = [pc EXCEPT ![w] = label]

(* BullMQ hands a job over and processOne loads the row: a finished or missing *)
(* row ends it there.                                                          *)
PickAnyStatus(w, r) ==
  /\ pc[w] = "idle"
  /\ job[r].state = "waiting"
  /\ job' = [job EXCEPT ![r].state = "active", ![r].owner = w]
  /\ on' = [on EXCEPT ![w] = r]
  /\ Goto(w, IF status[r] = "purged" THEN "finish" ELSE "loaded")
  /\ UNCHANGED <<rowVars, secret, prod, owed, sent, faults, faultVars>>

Pick(w, r) ==
  /\ pc[w] = "idle"
  /\ job[r].state = "waiting"
  /\ job' = [job EXCEPT ![r].state = "active", ![r].owner = w]
  /\ on' = [on EXCEPT ![w] = r]
  /\ Goto(w, IF status[r] \in Terminal \cup {"purged"} THEN "finish" ELSE "loaded")
  /\ UNCHANGED <<rowVars, secret, prod, owed, sent, faults, faultVars>>

(* rehydrate found no sealed value: the row is abandoned.  A read that failed *)
(* counts as no value.                                                        *)
Abandon(w) ==
  LET r == on[w] IN
  /\ pc[w] = "loaded"
  /\ \/ ~secret /\ UNCHANGED <<upsets, blipped>>
     \/ secret /\ Upset /\ blipped' = TRUE
  /\ IF status[r] = "purged"
       THEN Goto(w, "rethrow") /\ UNCHANGED status
       ELSE Goto(w, "finish") /\ status' = [status EXCEPT ![r] = "dead"]
  /\ UNCHANGED <<attempts, secret, prod, job, on, owed, sent, faults, slipped>>

(* Flip to sending and count the attempt; the update is by id alone. *)
Start(w) ==
  LET r == on[w] IN
  /\ pc[w] = "loaded"
  /\ secret
  /\ IF status[r] = "purged"
       THEN Goto(w, "rethrow") /\ UNCHANGED rowVars
       ELSE /\ Goto(w, "calling")
            /\ status' = [status EXCEPT ![r] = "sending"]
            /\ attempts' = [attempts EXCEPT ![r] = @ + 1]
  /\ UNCHANGED <<secret, prod, job, on, owed, sent, faults, faultVars>>

(* driver.send: accepted, not sent (the console driver), or an error -- before *)
(* the provider took the message or, a timeout, after.                         *)
Accept(w) ==
  /\ pc[w] = "calling"
  /\ Goto(w, "accepted")
  /\ sent' = [sent EXCEPT ![on[w]] = @ + 1]
  /\ UNCHANGED <<rowVars, secret, prod, job, on, owed, faults, faultVars>>

Refuse(w) ==
  /\ pc[w] = "calling"
  /\ Goto(w, "refused")
  /\ UNCHANGED <<rowVars, secret, prod, job, on, owed, sent, faults, faultVars>>

Throw(w) ==
  /\ pc[w] = "calling"
  /\ Goto(w, "threw")
  /\ UNCHANGED <<rowVars, secret, prod, job, on, owed, sent, faults, faultVars>>

TimeOut(w) ==
  /\ pc[w] = "calling"
  /\ Goto(w, "threw")
  /\ sent' = [sent EXCEPT ![on[w]] = @ + 1]
  /\ faults' = [faults EXCEPT ![on[w]] = @ + 1]
  /\ UNCHANGED <<rowVars, secret, prod, job, on, owed, faultVars>>

(* sendOutcome written to the row; a deleted row makes the update throw, as does *)
(* a database that fails (QueryFails).                                            *)
Record(w) ==
  LET r == on[w] IN
  /\ pc[w] \in {"accepted", "refused"}
  /\ IF status[r] = "purged"
       THEN Goto(w, "threw") /\ UNCHANGED status
       ELSE /\ Goto(w, "finish")
            /\ status' = [status EXCEPT ![r] =
                            IF pc[w] = "accepted" THEN "delivered" ELSE "failed"]
  /\ UNCHANGED <<attempts, secret, prod, job, on, owed, sent, faults, faultVars>>

(* The catch: read the attempts again, then write the verdict, then rethrow. *)
WeighOneEarly(w) ==
  /\ pc[w] = "threw"
  /\ Goto(w, IF status[on[w]] = "purged" \/ attempts[on[w]] + 1 >= MaxAttempts
               THEN "spent" ELSE "again")
  /\ UNCHANGED <<rowVars, secret, prod, job, on, owed, sent, faults, faultVars>>

Weigh(w) ==
  /\ pc[w] = "threw"
  /\ Goto(w, IF status[on[w]] = "purged" \/ attempts[on[w]] >= MaxAttempts
               THEN "spent" ELSE "again")
  /\ UNCHANGED <<rowVars, secret, prod, job, on, owed, sent, faults, faultVars>>

Verdict(w) ==
  LET r == on[w] IN
  /\ pc[w] \in {"spent", "again"}
  /\ Goto(w, "rethrow")
  /\ status' = IF status[r] = "purged" THEN status
               ELSE [status EXCEPT ![r] = IF pc[w] = "spent" THEN "dead" ELSE "pending"]
  /\ UNCHANGED <<attempts, secret, prod, job, on, owed, sent, faults, faultVars>>

(* BullMQ ends the job if this worker still holds its lock: completed, or on an *)
(* error another attempt while the job has one left.                            *)
EndJob(w) ==
  LET r == on[w] IN
  /\ pc[w] \in {"finish", "rethrow"}
  /\ Goto(w, "idle")
  /\ on' = [on EXCEPT ![w] = None]
  /\ job' = IF job[r].owner # w THEN job
            ELSE [job EXCEPT ![r].owner = None,
                             ![r].state = IF pc[w] = "finish" THEN "completed"
                                          ELSE IF @ = "active" /\ job[r].left > 1
                                          THEN "waiting" ELSE "failed",
                             ![r].left = IF pc[w] = "rethrow" THEN @ - 1 ELSE @]
  /\ UNCHANGED <<rowVars, secret, prod, owed, sent, faults, faultVars>>

-----------------------------------------------------------------------------
(* Faults and BullMQ's own housekeeping. *)

(* Postgres fails a query of processOne.  Before the send, and in the catch, that *)
(* ends the attempt with the row as it is; the write of the outcome is inside the *)
(* try, so there the catch treats an accepted message like one that was not sent. *)
QueryFails(w) ==
  /\ pc[w] \in {"loaded", "accepted", "refused", "threw", "spent", "again"}
  /\ Upset
  /\ Goto(w, IF pc[w] \in {"accepted", "refused"} THEN "threw" ELSE "rethrow")
  /\ faults' = IF pc[w] = "accepted" THEN [faults EXCEPT ![on[w]] = @ + 1] ELSE faults
  /\ UNCHANGED <<rowVars, secret, prod, job, on, owed, sent, slipped, blipped>>

(* The process dies, perhaps between the provider's acceptance and the row's *)
(* update.                                                                   *)
Crash(w) ==
  LET r == on[w] IN
  /\ pc[w] # "idle"
  /\ Upset
  /\ faults' = IF pc[w] = "accepted" THEN [faults EXCEPT ![r] = @ + 1] ELSE faults
  /\ job' = IF job[r].owner = w THEN [job EXCEPT ![r].owner = None] ELSE job
  /\ on' = [on EXCEPT ![w] = None]
  /\ Goto(w, "idle")
  /\ owed' \in {owed, {}}
  /\ UNCHANGED <<rowVars, secret, prod, sent, slipped, blipped>>

(* The stalled check takes a job whose lock was not renewed: back to waiting the *)
(* first time, failed the second.                                                *)
Unlocked(r) ==
  job' = [job EXCEPT ![r].owner = None,
                     ![r].state = IF job[r].stalls = 0 THEN "waiting" ELSE "failed",
                     ![r].stalls = 1]

StallOrphan(r) ==
  /\ job[r].state = "active" /\ job[r].owner = None
  /\ Unlocked(r)
  /\ UNCHANGED <<rowVars, secret, prod, pc, on, owed, sent, faults, faultVars>>

StallSlow(r) ==
  /\ job[r].owner # None
  /\ Upset
  /\ slipped' = TRUE
  /\ Unlocked(r)
  /\ UNCHANGED <<rowVars, secret, prod, pc, on, owed, sent, faults, blipped>>

(* removeOnComplete / removeOnFail: enough later jobs have finished. *)
Prune(r) ==
  /\ job[r].state \in {"completed", "failed"}
  /\ ~job[r].kept
  /\ job' = [job EXCEPT ![r] = NoJob]
  /\ UNCHANGED <<rowVars, secret, prod, pc, on, owed, sent, faults, faultVars>>

-----------------------------------------------------------------------------
(* The recovery scan, and the hands that touch the table. *)

(* A row that has been `sending` for five minutes: every send of a worker that *)
(* still renews its lock has timed out long before.                            *)
Orphaned(r) ==
  /\ status[r] = "sending"
  /\ ~\E w \in Worker : /\ on[w] = r /\ job[r].owner = w
                        /\ pc[w] \in {"calling", "accepted", "refused", "threw", "spent", "again"}

RecoveredPendingOnly == status

Recovered == [r \in Row |-> IF Orphaned(r) THEN "pending" ELSE status[r]]

RunRecovery ==
  /\ owed = {}
  /\ status' = Recovered
  /\ owed' = {r \in Row : Recovered[r] = "pending"}
  /\ owed' # {}
  /\ UNCHANGED <<attempts, secret, prod, job, pc, on, sent, faults, faultVars>>

(* recoveryQueue has no default job options: one attempt, kept for ever. *)
RequeueAnew(r) ==
  /\ r \in owed
  /\ owed' = owed \ {r}
  /\ job' = [job EXCEPT ![r] = NewJob(1, TRUE)]
  /\ UNCHANGED <<rowVars, secret, prod, pc, on, sent, faults, faultVars>>

Requeue(r) ==
  /\ r \in owed
  /\ owed' = owed \ {r}
  /\ job' = Add(r, NewJob(1, TRUE))
  /\ UNCHANGED <<rowVars, secret, prod, pc, on, sent, faults, faultVars>>

(* The re-drive statement of the dead-letter alert. *)
Redrive(r) ==
  /\ status[r] = "dead"
  /\ Upset
  /\ status' = [status EXCEPT ![r] = "pending"]
  /\ attempts' = [attempts EXCEPT ![r] = 0]
  /\ UNCHANGED <<secret, prod, job, pc, on, owed, sent, faults,
                 slipped, blipped>>

(* Erasing the reader, or the retention of the application the message is about, *)
(* deletes the row, whatever its status.                                          *)
Purge(r) ==
  /\ status[r] \in Live
  /\ status' = [status EXCEPT ![r] = "purged"]
  /\ UNCHANGED <<attempts, secret, prod, job, pc, on, owed, sent, faults, faultVars>>

-----------------------------------------------------------------------------
Send(w) == Accept(w) \/ Refuse(w) \/ Throw(w) \/ TimeOut(w)

Work(w) == Abandon(w) \/ Start(w) \/ Send(w) \/ Record(w) \/ Weigh(w) \/ Verdict(w) \/ EndJob(w)

Produce(p) == (\E r \in Row : Insert(p, r)) \/ AddJob(p) \/ AddLost(p)

Next ==
  \/ \E p \in Producer : Produce(p)
  \/ \E w \in Worker : Work(w) \/ QueryFails(w) \/ Crash(w) \/ (\E r \in Row : Pick(w, r))
  \/ \E r \in Row : StallOrphan(r) \/ StallSlow(r) \/ Prune(r) \/ Requeue(r) \/ Redrive(r) \/ Purge(r)
  \/ SecretLapses \/ RunRecovery

(* Workers run what they hold, BullMQ hands out waiting jobs and looks for     *)
(* stalled ones, the scan runs every five minutes.  Nothing is assumed of the  *)
(* provider (it may always refuse), of producers, or of pruning, which other   *)
(* mail brings about.                                                          *)
Fairness ==
  /\ \A w \in Worker : WF_vars(Work(w))
  /\ \A r \in Row : /\ WF_vars(\E w \in Worker : Pick(w, r))
                    /\ WF_vars(StallOrphan(r))
                    /\ WF_vars(Requeue(r))
  /\ WF_vars(RunRecovery)

Spec == Init /\ [][Next]_vars /\ Fairness
-----------------------------------------------------------------------------
(* No double-send (processOne's guard, the job id, the lock): the provider     *)
(* accepts a row's message once, and once more for each failure that hides an  *)
(* acceptance -- a timed-out call, or a crash or a database error before the   *)
(* outcome is on the row.                                                      *)
(* Retries, stalled jobs, scans, re-drives and replayed enqueues add nothing.  *)
(* A living worker that loses its lock is outside the promise.                 *)
DuplicatesAreFaults == ~slipped => \A r \in Row : sent[r] <= 1 + faults[r]

(* A row is given up on only when its attempts are used up or its one-time     *)
(* link is gone; a failed read of the secret store passes for the latter, and  *)
(* a worker that lost its lock may write a verdict that is out of date.        *)
DeadIsJustified ==
  \A r \in Row : status[r] = "dead" /\ ~slipped =>
    attempts[r] >= MaxAttempts \/ ~secret \/ blipped

(* The lock: two workers are inside processOne for one row only after a living *)
(* one lost its lock.                                                          *)
OneWorkerPerRow ==
  /\ TypeOK
  /\ ~slipped => \A v, w \in Worker : on[v] # None /\ on[v] = on[w] => v = w

(* A finished job BullMQ retains under the row's id. *)
Blocked(r) == status[r] = "pending" /\ job[r].state \in {"completed", "failed"}

(* An owed message ends -- delivered, refused, dead or deleted -- or is blocked *)
(* by the retained job of its own id.  Nothing else strands it: not a job lost  *)
(* in enqueue, a crash anywhere in processOne, a stalled job or an abandoned    *)
(* scan.                                                                        *)
SettledOrBlocked ==
  \A r \in Row : status[r] \in Owed ~> (status[r] \notin Owed \/ Blocked(r))

(* What the recovery scan is for: no owed row is stranded. *)
OwedIsSettled == \A r \in Row : status[r] \in Owed ~> status[r] \notin Owed
=============================================================================
