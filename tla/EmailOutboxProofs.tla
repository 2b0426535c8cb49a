-------------------------- MODULE EmailOutboxProofs --------------------------
(***************************************************************************)
(* Proofs about EmailOutbox for any number of row ids, workers, producers, *)
(* attempts and failures.  Everything the lock promises is said of a run   *)
(* in which no living worker has lost its lock (~slipped).                 *)
(***************************************************************************)
EXTENDS EmailOutbox, FiniteSetTheorems, TLAPS

JobRow == [state : {"none", "waiting", "active", "completed", "failed"},
           left : 0 .. JobAttempts, kept : BOOLEAN,
           stalls : 0 .. 1, owner : Worker \cup {None}]

Label == {"idle", "loaded", "calling", "accepted", "refused",
          "threw", "spent", "again", "finish", "rethrow"}

\* The part of processOne between the attempt it counts and the verdict.
InFlight == {"calling", "accepted", "refused", "threw", "spent", "again"}

Types ==
  /\ secret \in BOOLEAN /\ slipped \in BOOLEAN /\ blipped \in BOOLEAN
  /\ upsets \in 0 .. MaxUpsets
  /\ status \in [Row -> Live \cup {"none", "purged"}]
  /\ attempts \in [Row -> Nat]
  /\ prod \in [Producer -> {None} \cup Row]
  /\ job \in [Row -> JobRow]
  /\ pc \in [Worker -> Label]
  /\ on \in [Worker -> Row \cup {None}]
  /\ owed \subseteq Row
  /\ sent \in [Row -> Nat] /\ faults \in [Row -> Nat]

\* A worker is idle exactly when it has no row.
Busy == \A w \in Worker : pc[w] = "idle" <=> on[w] = None

\* The unique idempotency key, and ids that are given out in order.
OneLive == \A r, q \in Row : status[r] \in Live /\ status[q] \in Live => r = q
IdsInOrder == \A r, q \in Row : r <= q /\ status[q] # "none" => status[r] # "none"

\* Jobs, producers, workers and the scan speak only of rows that were inserted.
Inserted ==
  /\ \A r \in Row : job[r].state # "none" => status[r] # "none"
  /\ \A p \in Producer : prod[p] \in Row => status[prod[p]] # "none"
  /\ \A w \in Worker : on[w] \in Row => status[on[w]] # "none"
  /\ \A r \in owed : status[r] # "none"

\* A lock is held on an active job; a job that may still run has an attempt left.
Jobs ==
  \A r \in Row : /\ job[r].owner # None => job[r].state = "active"
                 /\ job[r].state \in {"waiting", "active"} => job[r].left >= 1

\* While no living worker has lost its lock: whoever is in processOne holds the
\* lock of its row's job, and nobody else moves the row's status meanwhile,
\* except to delete it.
Locked ==
  \A w \in Worker : on[w] \in Row =>
    /\ job[on[w]].owner = w
    /\ pc[w] = "loaded" => status[on[w]] \in {"pending", "sending", "purged"}
    /\ pc[w] \in InFlight => status[on[w]] \in {"sending", "purged"}
    /\ pc[w] = "spent" /\ status[on[w]] # "purged" => attempts[on[w]] >= MaxAttempts
    /\ pc[w] = "calling" => sent[on[w]] <= faults[on[w]]

\* Messages the provider took: each is a fault's, but one if the row says
\* delivered or is gone, or a worker is about to write so.
Counted ==
  \A r \in Row :
    /\ sent[r] <= 1 + faults[r]
    /\ \/ status[r] \in {"delivered", "purged"}
       \/ \E w \in Worker : on[w] = r /\ pc[w] = "accepted"
       \/ sent[r] <= faults[r]

GivenUp ==
  \A r \in Row : status[r] = "dead" => attempts[r] >= MaxAttempts \/ ~secret \/ blipped

Inv ==
  /\ Types /\ Busy /\ OneLive /\ IdsInOrder /\ Inserted /\ Jobs
  /\ ~slipped => Locked /\ Counted /\ GivenUp

-----------------------------------------------------------------------------
(* Jobs and their fields.                                                  *)

LEMMA JobFields ==
    ASSUME NEW j \in JobRow
    PROVE  /\ j.state \in {"none", "waiting", "active", "completed", "failed"}
           /\ j.left \in 0 .. JobAttempts /\ j.kept \in BOOLEAN
           /\ j.stalls \in 0 .. 1 /\ j.owner \in Worker \cup {None}
BY Zenon DEF JobRow

LEMMA JobIs ==
    ASSUME NEW s \in {"none", "waiting", "active", "completed", "failed"},
           NEW n \in 0 .. JobAttempts, NEW k \in BOOLEAN, NEW t \in 0 .. 1,
           NEW o \in Worker \cup {None}
    PROVE  LET j == [state |-> s, left |-> n, kept |-> k, stalls |-> t, owner |-> o]
           IN  j \in JobRow /\ j.state = s /\ j.left = n /\ j.owner = o
BY Zenon DEF JobRow

\* The job that is added, and the one that is not there.
LEMMA NewJobIs ==
    ASSUME NEW n \in 0 .. JobAttempts, NEW k \in BOOLEAN
    PROVE  /\ NewJob(n, k) \in JobRow /\ NewJob(n, k).state = "waiting"
           /\ NewJob(n, k).left = n /\ NewJob(n, k).owner = None
           /\ NoJob \in JobRow /\ NoJob.state = "none" /\ NoJob.owner = None
<1>1. 0 \in 0 .. JobAttempts /\ 0 \in 0 .. 1
  BY AttemptsAssumption
<1>2. NewJob(n, k) \in JobRow /\ NewJob(n, k).state = "waiting"
      /\ NewJob(n, k).left = n /\ NewJob(n, k).owner = None
  BY <1>1, JobIs, Zenon DEF NewJob
<1>3. NoJob \in JobRow /\ NoJob.state = "none" /\ NoJob.owner = None
  BY <1>1, JobIs, Zenon DEF NoJob
<1>. QED  BY <1>2, <1>3

\* What the handlers write in a job, one row of the queue at a time.
LEMMA JobDropped ==
    ASSUME NEW jb \in [Row -> JobRow], NEW r \in Row
    PROVE  \E j \in JobRow :
              /\ [jb EXCEPT ![r].owner = None] = [jb EXCEPT ![r] = j]
              /\ j.state = jb[r].state /\ j.owner = None /\ j.left = jb[r].left
<1> DEFINE j == [jb[r] EXCEPT !.owner = None]
<1>1. jb[r] \in JobRow
  OBVIOUS
<1>2. j \in JobRow /\ j.state = jb[r].state /\ j.owner = None /\ j.left = jb[r].left
  BY <1>1, Zenon DEF JobRow
<1>3. [jb EXCEPT ![r].owner = None] = [jb EXCEPT ![r] = j]
  BY Zenon
<1>. QED  BY <1>2, <1>3

-----------------------------------------------------------------------------
(* Kinds of step.                                                          *)

\* No two workers are inside processOne for one row.
LEMMA OneEach ==
    ASSUME Inv, ~slipped, NEW v \in Worker, NEW w \in Worker, on[v] \in Row, on[v] = on[w]
    PROVE  v = w
BY DEF Inv, Locked

\* A worker moves on inside processOne: it may write its row's status, attempts
\* and counts, and nothing of another row.
LEMMA WorkerStep ==
    ASSUME Inv, NEW w \in Worker, on[w] \in Row,
           pc' \in [Worker -> Label], pc'[w] # "idle",
           \A v \in Worker \ {w} : pc'[v] = pc[v],
           UNCHANGED <<secret, prod, job, on, owed, slipped>>,
           blipped' \in BOOLEAN, blipped => blipped', upsets' \in 0 .. MaxUpsets,
           status' \in [Row -> Live \cup {"none", "purged"}],
           attempts' \in [Row -> Nat], sent' \in [Row -> Nat], faults' \in [Row -> Nat],
           \A q \in Row \ {on[w]} : /\ status'[q] = status[q] /\ attempts'[q] = attempts[q]
                                    /\ sent'[q] = sent[q] /\ faults'[q] = faults[q],
           status'[on[w]] # "none",
           status'[on[w]] \in Live => status[on[w]] \in Live,
           ~slipped =>
              /\ pc'[w] = "loaded" => status'[on[w]] \in {"pending", "sending", "purged"}
              /\ pc'[w] \in InFlight => status'[on[w]] \in {"sending", "purged"}
              /\ pc'[w] = "spent" /\ status'[on[w]] # "purged"
                    => attempts'[on[w]] >= MaxAttempts
              /\ pc'[w] = "calling" => sent'[on[w]] <= faults'[on[w]]
              /\ sent'[on[w]] <= 1 + faults'[on[w]]
              /\ \/ status'[on[w]] \in {"delivered", "purged"}
                 \/ pc'[w] = "accepted"
                 \/ sent'[on[w]] <= faults'[on[w]]
              /\ status'[on[w]] = "dead"
                    => attempts'[on[w]] >= MaxAttempts \/ ~secret \/ blipped'
    PROVE  Inv'
<1> DEFINE r == on[w]
           l == pc'[w]
           s == status'[r]
<1>1. Types /\ Busy /\ OneLive /\ IdsInOrder /\ Inserted /\ Jobs
  BY DEF Inv
<1>2. /\ \A v \in Worker : pc'[v] = IF v = w THEN l ELSE pc[v]
      /\ \A q \in Row : status'[q] = IF q = r THEN s ELSE status[q]
  OBVIOUS
<1>3. Types'
  BY <1>1 DEF Types
<1>4. Busy'
  BY <1>1, <1>2, NoneAssumption DEF Busy
<1>5. s # "none"
  OBVIOUS
<1>6. OneLive' /\ IdsInOrder'
  BY <1>1, <1>2, <1>5 DEF OneLive, IdsInOrder, Inserted, Live, Terminal
<1>7. Inserted'
  BY <1>1, <1>2, <1>5 DEF Inserted, Types
<1>8. Jobs'
  BY <1>1 DEF Jobs
<1>9. ASSUME ~slipped' PROVE Locked' /\ Counted' /\ GivenUp'
  <2>1. ~slipped /\ Locked /\ Counted /\ GivenUp
    BY <1>9 DEF Inv
  <2>2. \A v \in Worker : v # w => on[v] # r
    BY <2>1, OneEach
  <2>3. Locked'
    <3> SUFFICES ASSUME NEW v \in Worker, on'[v] \in Row
                 PROVE  /\ job'[on'[v]].owner = v
                        /\ pc'[v] = "loaded" => status'[on'[v]] \in {"pending", "sending", "purged"}
                        /\ pc'[v] \in InFlight => status'[on'[v]] \in {"sending", "purged"}
                        /\ pc'[v] = "spent" /\ status'[on'[v]] # "purged"
                              => attempts'[on'[v]] >= MaxAttempts
                        /\ pc'[v] = "calling" => sent'[on'[v]] <= faults'[on'[v]]
      BY DEF Locked
    <3>1. job'[on'[v]].owner = v
      BY <2>1 DEF Locked
    <3>2. CASE v = w
      BY <1>2, <2>1, <3>1, <3>2
    <3>3. CASE v # w
      <4>1. on[v] \in Row /\ on[v] # r /\ on'[v] = on[v] /\ pc'[v] = pc[v]
        BY <1>2, <2>2, <3>3
      <4>2. /\ status'[on[v]] = status[on[v]] /\ attempts'[on[v]] = attempts[on[v]]
            /\ sent'[on[v]] = sent[on[v]] /\ faults'[on[v]] = faults[on[v]]
        BY <1>2, <4>1
      <4>. QED  BY <2>1, <3>1, <4>1, <4>2 DEF Locked
    <3>. QED  BY <3>2, <3>3
  <2>4. Counted'
    <3> SUFFICES ASSUME NEW q \in Row
                 PROVE  /\ sent'[q] <= 1 + faults'[q]
                        /\ \/ status'[q] \in {"delivered", "purged"}
                           \/ \E v \in Worker : on'[v] = q /\ pc'[v] = "accepted"
                           \/ sent'[q] <= faults'[q]
      BY DEF Counted
    <3>1. CASE q = r
      BY <1>2, <2>1, <3>1
    <3>2. CASE q # r
      BY <1>2, <2>1, <3>2 DEF Counted
    <3>. QED  BY <3>1, <3>2
  <2>5. GivenUp'
    BY <1>2, <2>1 DEF GivenUp
  <2>. QED  BY <2>3, <2>4, <2>5
<1>. QED  BY <1>3, <1>4, <1>6, <1>7, <1>8, <1>9 DEF Inv

\* The queue's own step on one job: nobody who is in processOne and has its lock
\* loses it, unless slipped says so.
LEMMA JobStep ==
    ASSUME Inv, NEW r \in Row, NEW j \in JobRow, job' = [job EXCEPT ![r] = j],
           UNCHANGED <<status, attempts, secret, pc, on, sent, faults, blipped>>,
           slipped' \in BOOLEAN, upsets' \in 0 .. MaxUpsets,
           prod' \in [Producer -> {None} \cup Row],
           \A p \in Producer : prod'[p] \in {prod[p], None},
           owed' \subseteq owed,
           j.owner # None => j.state = "active",
           j.state \in {"waiting", "active"} => j.left >= 1,
           j.state # "none" => status[r] # "none",
           ~slipped' => ~slipped /\ \A w \in Worker : on[w] = r => j.owner = w
    PROVE  Inv'
<1>1. Types /\ Busy /\ OneLive /\ IdsInOrder /\ Inserted /\ Jobs
  BY DEF Inv
<1>2. \A q \in Row : job'[q] = IF q = r THEN j ELSE job[q]
  BY <1>1 DEF Types
<1>3. Types'
  BY <1>1 DEF Types
<1>4. Busy' /\ OneLive' /\ IdsInOrder'
  BY <1>1 DEF Busy, OneLive, IdsInOrder
<1>5. Inserted'
  BY <1>1, <1>2, NoneAssumption DEF Inserted
<1>6. Jobs'
  BY <1>1, <1>2 DEF Jobs
<1>7. ASSUME ~slipped' PROVE Locked' /\ Counted' /\ GivenUp'
  <2>1. ~slipped /\ Locked /\ Counted /\ GivenUp
    BY <1>7 DEF Inv
  <2>2. Locked'
    BY <1>2, <1>7, <2>1 DEF Locked
  <2>3. Counted' /\ GivenUp'
    BY <2>1 DEF Counted, GivenUp
  <2>. QED  BY <2>2, <2>3
<1>. QED  BY <1>3, <1>4, <1>5, <1>6, <1>7 DEF Inv

\* A worker leaves processOne, and its job's lock if it still holds it; one that
\* leaves with an acceptance not yet written leaves a fault.
LEMMA WorkerLeaves ==
    ASSUME Inv, NEW w \in Worker, NEW r \in Row, on[w] = r,
           pc' = [pc EXCEPT ![w] = "idle"], on' = [on EXCEPT ![w] = None],
           NEW j \in JobRow, job' = [job EXCEPT ![r] = j],
           UNCHANGED <<status, attempts, secret, prod, sent, slipped, blipped>>,
           upsets' \in 0 .. MaxUpsets, owed' \subseteq owed,
           faults' = IF pc[w] = "accepted" THEN [faults EXCEPT ![r] = @ + 1] ELSE faults,
           j.owner # None => j.state = "active",
           j.state \in {"waiting", "active"} => j.left >= 1,
           j.state # "none" => job[r].state # "none"
    PROVE  Inv'
<1>1. Types /\ Busy /\ OneLive /\ IdsInOrder /\ Inserted /\ Jobs
  BY DEF Inv
<1>2. /\ \A v \in Worker : pc'[v] = IF v = w THEN "idle" ELSE pc[v]
      /\ \A v \in Worker : on'[v] = IF v = w THEN None ELSE on[v]
      /\ \A q \in Row : job'[q] = IF q = r THEN j ELSE job[q]
  BY <1>1 DEF Types
<1>3. /\ faults' \in [Row -> Nat]
      /\ \A q \in Row : q # r => faults'[q] = faults[q]
      /\ faults'[r] = IF pc[w] = "accepted" THEN faults[r] + 1 ELSE faults[r]
  BY <1>1 DEF Types
<1>4. Types'
  BY <1>1, <1>3 DEF Types, Label
<1>5. Busy'
  BY <1>1, <1>2 DEF Busy
<1>6. OneLive' /\ IdsInOrder'
  BY <1>1 DEF OneLive, IdsInOrder
<1>7. Inserted'
  BY <1>1, <1>2, NoneAssumption DEF Inserted
<1>8. Jobs'
  BY <1>1, <1>2 DEF Jobs
<1>9. ASSUME ~slipped' PROVE Locked' /\ Counted' /\ GivenUp'
  <2>1. ~slipped /\ Locked /\ Counted /\ GivenUp
    BY <1>9 DEF Inv
  <2>2. \A v \in Worker : v # w => on[v] # r
    BY <2>1, OneEach
  <2>3. Locked'
    BY <1>2, <1>3, <2>1, <2>2, NoneAssumption DEF Locked
  <2>4. Counted'
    <3> SUFFICES ASSUME NEW q \in Row
                 PROVE  /\ sent'[q] <= 1 + faults'[q]
                        /\ \/ status'[q] \in {"delivered", "purged"}
                           \/ \E v \in Worker : on'[v] = q /\ pc'[v] = "accepted"
                           \/ sent'[q] <= faults'[q]
      BY DEF Counted
    <3>0. sent[q] \in Nat /\ faults[q] \in Nat
      BY <1>1 DEF Types
    <3>1. CASE q = r
      BY <1>2, <1>3, <2>1, <2>2, <3>0, <3>1 DEF Counted
    <3>2. CASE q # r
      BY <1>2, <1>3, <2>1, <3>2 DEF Counted
    <3>. QED  BY <3>1, <3>2
  <2>5. GivenUp'
    BY <2>1 DEF GivenUp
  <2>. QED  BY <2>3, <2>4, <2>5
<1>. QED  BY <1>4, <1>5, <1>6, <1>7, <1>8, <1>9 DEF Inv

-----------------------------------------------------------------------------
(* The worker.                                                             *)

\* What a worker that is not idle may rely on.
LEMMA WorkerAt ==
    ASSUME Inv, NEW w \in Worker, pc[w] # "idle"
    PROVE  /\ on[w] \in Row
           /\ status[on[w]] \in Live \cup {"purged"}
           /\ attempts[on[w]] \in Nat /\ sent[on[w]] \in Nat /\ faults[on[w]] \in Nat
           /\ [status EXCEPT ![on[w]] = status[on[w]]] = status
           /\ ~slipped =>
                 /\ pc[w] = "loaded" => status[on[w]] \in {"pending", "sending", "purged"}
                 /\ pc[w] \in InFlight => status[on[w]] \in {"sending", "purged"}
                 /\ pc[w] = "spent" /\ status[on[w]] # "purged"
                       => attempts[on[w]] >= MaxAttempts
                 /\ pc[w] = "calling" => sent[on[w]] <= faults[on[w]]
                 /\ sent[on[w]] <= 1 + faults[on[w]]
                 /\ \/ status[on[w]] \in {"delivered", "purged"}
                    \/ pc[w] = "accepted"
                    \/ sent[on[w]] <= faults[on[w]]
                 /\ status[on[w]] = "dead"
                       => attempts[on[w]] >= MaxAttempts \/ ~secret \/ blipped
<1>1. on[w] \in Row /\ status \in [Row -> Live \cup {"none", "purged"}]
  BY DEF Inv, Types, Busy
<1>2. status[on[w]] \in Live \cup {"purged"}
  BY <1>1 DEF Inv, Inserted
<1>3. attempts[on[w]] \in Nat /\ sent[on[w]] \in Nat /\ faults[on[w]] \in Nat
  BY <1>1 DEF Inv, Types
<1>4. [status EXCEPT ![on[w]] = status[on[w]]] = status
  BY <1>1
<1>5. ASSUME ~slipped
      PROVE  /\ sent[on[w]] <= 1 + faults[on[w]]
             /\ \/ status[on[w]] \in {"delivered", "purged"}
                \/ pc[w] = "accepted"
                \/ sent[on[w]] <= faults[on[w]]
  BY <1>1, <1>5, OneEach DEF Inv, Counted
<1>6. ASSUME ~slipped
      PROVE  /\ pc[w] = "loaded" => status[on[w]] \in {"pending", "sending", "purged"}
             /\ pc[w] \in InFlight => status[on[w]] \in {"sending", "purged"}
             /\ pc[w] = "spent" /\ status[on[w]] # "purged"
                   => attempts[on[w]] >= MaxAttempts
             /\ pc[w] = "calling" => sent[on[w]] <= faults[on[w]]
             /\ status[on[w]] = "dead"
                   => attempts[on[w]] >= MaxAttempts \/ ~secret \/ blipped
  BY <1>1, <1>6 DEF Inv, Locked, GivenUp
<1>. QED  BY <1>1, <1>2, <1>3, <1>4, <1>5, <1>6

LEMMA AbandonKeeps ==
    ASSUME Inv, NEW w \in Worker, Abandon(w)
    PROVE  Inv'
<1> DEFINE s == IF status[on[w]] = "purged" THEN "purged" ELSE "dead"
           l == IF status[on[w]] = "purged" THEN "rethrow" ELSE "finish"
<1>1. /\ pc[w] = "loaded" /\ pc' = [pc EXCEPT ![w] = l]
      /\ status' = [status EXCEPT ![on[w]] = s]
      /\ UNCHANGED <<attempts, secret, prod, job, on, owed, sent, faults, slipped>>
  BY WorkerAt DEF Abandon, Goto
<1>2. /\ blipped' \in BOOLEAN /\ (blipped => blipped') /\ upsets' \in 0 .. MaxUpsets
      /\ ~secret \/ blipped'
  <2>1. CASE ~secret /\ UNCHANGED <<upsets, blipped>>
    BY <2>1 DEF Inv, Types
  <2>2. CASE secret /\ Upset /\ blipped' = TRUE
    BY <2>2, NoneAssumption DEF Upset, Inv, Types
  <2>. QED  BY <2>1, <2>2 DEF Abandon
<1>3. /\ on[w] \in Row /\ attempts \in [Row -> Nat] /\ sent \in [Row -> Nat]
      /\ faults \in [Row -> Nat] /\ pc \in [Worker -> Label]
      /\ status \in [Row -> Live \cup {"none", "purged"}]
  BY <1>1, WorkerAt DEF Inv, Types
<1>4. /\ s \in {"purged", "dead"} /\ "dead" \in Live /\ "purged" \notin Live
      /\ s = "dead" => status[on[w]] \in Live
      /\ l \in {"rethrow", "finish"} /\ l \in Label /\ l \notin InFlight
  BY <1>1, WorkerAt DEF Live, Terminal, Label, InFlight
<1>5. ~slipped => sent[on[w]] <= 1 + faults[on[w]] /\ (s = "purged" \/ sent[on[w]] <= faults[on[w]])
  BY <1>1, WorkerAt
<1> HIDE DEF s, l
<1>6. /\ pc' \in [Worker -> Label] /\ pc'[w] = l /\ \A v \in Worker \ {w} : pc'[v] = pc[v]
      /\ status' \in [Row -> Live \cup {"none", "purged"}] /\ status'[on[w]] = s
      /\ \A q \in Row \ {on[w]} : status'[q] = status[q]
  BY <1>1, <1>3, <1>4
<1>7. CASE s = "purged"
  BY <1>1, <1>2, <1>3, <1>4, <1>5, <1>6, <1>7, WorkerStep
<1>8. CASE s = "dead"
  BY <1>1, <1>2, <1>3, <1>4, <1>5, <1>6, <1>8, WorkerStep
<1>. QED  BY <1>4, <1>7, <1>8

LEMMA StartKeeps ==
    ASSUME Inv, NEW w \in Worker, Start(w)
    PROVE  Inv'
<1>1. /\ pc[w] = "loaded"
      /\ UNCHANGED <<secret, prod, job, on, owed, sent, faults, upsets, slipped, blipped>>
  BY DEF Start, faultVars
<1>2. /\ on[w] \in Row /\ attempts \in [Row -> Nat] /\ sent \in [Row -> Nat]
      /\ faults \in [Row -> Nat] /\ pc \in [Worker -> Label]
      /\ status \in [Row -> Live \cup {"none", "purged"}]
      /\ blipped \in BOOLEAN /\ upsets \in 0 .. MaxUpsets
  BY <1>1, WorkerAt DEF Inv, Types
<1>3. CASE status[on[w]] = "purged"
  <2>1. pc' = [pc EXCEPT ![w] = "rethrow"] /\ attempts' = attempts /\ status' = status
    BY <1>3 DEF Start, Goto, rowVars
  <2>2. ~slipped => sent[on[w]] <= 1 + faults[on[w]]
    BY <1>1, WorkerAt
  <2>3. "rethrow" \in Label /\ "rethrow" \notin InFlight /\ "purged" \notin Live
    BY DEF Label, InFlight, Live, Terminal
  <2>4. pc' \in [Worker -> Label] /\ pc'[w] = "rethrow" /\ \A v \in Worker \ {w} : pc'[v] = pc[v]
    BY <1>2, <2>1, <2>3
  <2>. QED  BY <1>1, <1>2, <1>3, <2>1, <2>2, <2>3, <2>4, WorkerStep
<1>4. CASE status[on[w]] # "purged"
  <2>1. /\ pc' = [pc EXCEPT ![w] = "calling"] /\ attempts' = [attempts EXCEPT ![on[w]] = @ + 1]
        /\ status' = [status EXCEPT ![on[w]] = "sending"]
    BY <1>4 DEF Start, Goto
  <2>2. attempts' \in [Row -> Nat] /\ \A q \in Row \ {on[w]} : attempts'[q] = attempts[q]
    BY <1>2, <2>1
  <2>3. ~slipped => sent[on[w]] <= 1 + faults[on[w]] /\ sent[on[w]] <= faults[on[w]]
    BY <1>1, <1>4, WorkerAt
  <2>4. status[on[w]] \in Live /\ "sending" \in Live /\ "calling" \in Label
    BY <1>1, <1>4, WorkerAt DEF Live, Label
  <2>5. /\ pc' \in [Worker -> Label] /\ pc'[w] = "calling"
        /\ \A v \in Worker \ {w} : pc'[v] = pc[v]
        /\ status' \in [Row -> Live \cup {"none", "purged"}] /\ status'[on[w]] = "sending"
        /\ \A q \in Row \ {on[w]} : status'[q] = status[q]
    BY <1>2, <2>1, <2>4
  <2>. QED  BY <1>1, <1>2, <2>1, <2>2, <2>3, <2>4, <2>5, WorkerStep
<1>. QED  BY <1>3, <1>4

\* A step of driver.send: the row stays, what the provider took is counted.
LEMMA MovesOn ==
    ASSUME Inv, NEW w \in Worker, pc[w] = "calling",
           NEW l \in {"accepted", "refused", "threw"}, pc' = [pc EXCEPT ![w] = l],
           UNCHANGED <<status, attempts, secret, prod, job, on, owed, upsets, slipped, blipped>>,
           NEW m \in {0, 1}, NEW n \in {0, 1}, m = n \/ l = "accepted",
           sent' = [sent EXCEPT ![on[w]] = @ + m], faults' = [faults EXCEPT ![on[w]] = @ + n]
    PROVE  Inv'
<1>1. /\ on[w] \in Row /\ attempts \in [Row -> Nat] /\ sent \in [Row -> Nat]
      /\ faults \in [Row -> Nat] /\ pc \in [Worker -> Label]
      /\ status \in [Row -> Live \cup {"none", "purged"}]
      /\ blipped \in BOOLEAN /\ upsets \in 0 .. MaxUpsets
  BY WorkerAt DEF Inv, Types
<1>2. /\ sent' \in [Row -> Nat] /\ faults' \in [Row -> Nat]
      /\ sent'[on[w]] = sent[on[w]] + m /\ faults'[on[w]] = faults[on[w]] + n
      /\ \A q \in Row \ {on[w]} : sent'[q] = sent[q] /\ faults'[q] = faults[q]
  BY <1>1
<1>3. ~slipped => /\ sent'[on[w]] <= 1 + faults'[on[w]]
                  /\ l = "accepted" \/ sent'[on[w]] <= faults'[on[w]]
                  /\ status[on[w]] \in {"sending", "purged"}
  <2>1. ~slipped => sent[on[w]] <= faults[on[w]] /\ status[on[w]] \in {"sending", "purged"}
    BY WorkerAt DEF InFlight
  <2>. QED  BY <1>1, <1>2, <2>1
<1>4. status[on[w]] # "none"
  BY WorkerAt DEF Live, Terminal
<1>5. l \in Label
  BY DEF Label
<1>6. pc' \in [Worker -> Label] /\ pc'[w] = l /\ \A v \in Worker \ {w} : pc'[v] = pc[v]
  BY <1>1, <1>5
<1>. QED  BY <1>1, <1>2, <1>3, <1>4, <1>6, WorkerStep

LEMMA SendKeeps ==
    ASSUME Inv, NEW w \in Worker, Send(w)
    PROVE  Inv'
<1>1. pc[w] = "calling" /\ pc[w] # "idle"
  BY DEF Send, Accept, Refuse, Throw, TimeOut
<1>2. /\ [sent EXCEPT ![on[w]] = @ + 0] = sent /\ [faults EXCEPT ![on[w]] = @ + 0] = faults
  BY <1>1, WorkerAt DEF Inv, Types
<1>4. UNCHANGED <<status, attempts, secret, prod, job, on, owed, upsets, slipped, blipped>>
  BY DEF Send, Accept, Refuse, Throw, TimeOut, rowVars, faultVars
<1>5. CASE Accept(w)
  BY <1>1, <1>2, <1>4, <1>5, MovesOn DEF Accept, Goto
<1>6. CASE Refuse(w)
  BY <1>1, <1>2, <1>4, <1>6, MovesOn DEF Refuse, Goto
<1>7. CASE Throw(w)
  BY <1>1, <1>2, <1>4, <1>7, MovesOn DEF Throw, Goto
<1>8. CASE TimeOut(w)
  BY <1>1, <1>4, <1>8, MovesOn DEF TimeOut, Goto
<1>. QED  BY <1>5, <1>6, <1>7, <1>8 DEF Send

LEMMA RecordKeeps ==
    ASSUME Inv, NEW w \in Worker, Record(w)
    PROVE  Inv'
<1>1. /\ pc[w] \in {"accepted", "refused"}
      /\ UNCHANGED <<attempts, secret, prod, job, on, owed, sent, faults, upsets, slipped, blipped>>
  BY DEF Record, faultVars
<1>2. /\ on[w] \in Row /\ attempts \in [Row -> Nat] /\ sent \in [Row -> Nat]
      /\ faults \in [Row -> Nat] /\ pc \in [Worker -> Label]
      /\ status \in [Row -> Live \cup {"none", "purged"}]
      /\ blipped \in BOOLEAN /\ upsets \in 0 .. MaxUpsets
  BY <1>1, WorkerAt DEF Inv, Types
<1>3. CASE status[on[w]] = "purged"
  <2>1. pc' = [pc EXCEPT ![w] = "threw"] /\ status' = status
    BY <1>3 DEF Record, Goto
  <2>2. ~slipped => sent[on[w]] <= 1 + faults[on[w]]
    BY <1>1, WorkerAt
  <2>3. "threw" \in Label /\ "purged" \notin Live
    BY DEF Label, Live, Terminal
  <2>4. pc' \in [Worker -> Label] /\ pc'[w] = "threw" /\ \A v \in Worker \ {w} : pc'[v] = pc[v]
    BY <1>2, <2>1, <2>3
  <2>. QED  BY <1>1, <1>2, <1>3, <2>1, <2>2, <2>3, <2>4, WorkerStep
<1>4. CASE status[on[w]] # "purged"
  <2> DEFINE s == IF pc[w] = "accepted" THEN "delivered" ELSE "failed"
  <2>1. pc' = [pc EXCEPT ![w] = "finish"] /\ status' = [status EXCEPT ![on[w]] = s]
    BY <1>4 DEF Record, Goto
  <2>2. s \in {"delivered", "failed"} /\ s \in Live
    BY DEF Live, Terminal
  <2>3. ~slipped => sent[on[w]] <= 1 + faults[on[w]] /\ (s = "delivered" \/ sent[on[w]] <= faults[on[w]])
    BY <1>1, <1>4, WorkerAt DEF InFlight
  <2> HIDE DEF s
  <2>4. status[on[w]] \in Live /\ "finish" \in Label /\ "finish" \notin InFlight
    BY <1>1, <1>4, WorkerAt DEF Label, InFlight
  <2>5. /\ pc' \in [Worker -> Label] /\ pc'[w] = "finish"
        /\ \A v \in Worker \ {w} : pc'[v] = pc[v]
        /\ status' \in [Row -> Live \cup {"none", "purged"}] /\ status'[on[w]] = s
        /\ \A q \in Row \ {on[w]} : status'[q] = status[q]
    BY <1>2, <2>1, <2>2, <2>4
  <2>. QED  BY <1>1, <1>2, <2>1, <2>2, <2>3, <2>4, <2>5, WorkerStep
<1>. QED  BY <1>3, <1>4

LEMMA WeighKeeps ==
    ASSUME Inv, NEW w \in Worker, Weigh(w)
    PROVE  Inv'
<1> DEFINE l == IF status[on[w]] = "purged" \/ attempts[on[w]] >= MaxAttempts
                THEN "spent" ELSE "again"
<1>1. /\ pc[w] = "threw" /\ pc' = [pc EXCEPT ![w] = l]
      /\ UNCHANGED <<status, attempts, secret, prod, job, on, owed, sent, faults,
                     upsets, slipped, blipped>>
  BY DEF Weigh, Goto, rowVars, faultVars
<1>2. /\ on[w] \in Row /\ attempts \in [Row -> Nat] /\ sent \in [Row -> Nat]
      /\ faults \in [Row -> Nat] /\ pc \in [Worker -> Label]
      /\ status \in [Row -> Live \cup {"none", "purged"}]
      /\ blipped \in BOOLEAN /\ upsets \in 0 .. MaxUpsets
  BY <1>1, WorkerAt DEF Inv, Types
<1>3. /\ l \in {"spent", "again"} /\ l \in Label
      /\ l = "spent" /\ status[on[w]] # "purged" => attempts[on[w]] >= MaxAttempts
  BY DEF Label
<1>4. /\ status[on[w]] # "none"
      /\ ~slipped => /\ sent[on[w]] <= 1 + faults[on[w]]
                     /\ status[on[w]] \in {"sending", "purged"}
                     /\ status[on[w]] = "purged" \/ sent[on[w]] <= faults[on[w]]
  BY <1>1, WorkerAt DEF Live, Terminal, InFlight
<1> HIDE DEF l
<1>5. pc' \in [Worker -> Label] /\ pc'[w] = l /\ \A v \in Worker \ {w} : pc'[v] = pc[v]
  BY <1>1, <1>2, <1>3
<1>. QED  BY <1>1, <1>2, <1>3, <1>4, <1>5, WorkerStep

LEMMA VerdictKeeps ==
    ASSUME Inv, NEW w \in Worker, Verdict(w)
    PROVE  Inv'
<1> DEFINE s == IF status[on[w]] = "purged" THEN "purged"
                ELSE IF pc[w] = "spent" THEN "dead" ELSE "pending"
<1>1. /\ pc[w] \in {"spent", "again"} /\ pc' = [pc EXCEPT ![w] = "rethrow"]
      /\ UNCHANGED <<attempts, secret, prod, job, on, owed, sent, faults, upsets, slipped, blipped>>
  BY DEF Verdict, Goto, faultVars
<1>2. /\ on[w] \in Row /\ attempts \in [Row -> Nat] /\ sent \in [Row -> Nat]
      /\ faults \in [Row -> Nat] /\ pc \in [Worker -> Label]
      /\ status \in [Row -> Live \cup {"none", "purged"}]
      /\ blipped \in BOOLEAN /\ upsets \in 0 .. MaxUpsets
  BY <1>1, WorkerAt DEF Inv, Types
<1>3. status' = [status EXCEPT ![on[w]] = s]
  BY <1>1, WorkerAt DEF Verdict
<1>4. /\ s \in {"purged", "dead", "pending"} /\ {"dead", "pending"} \subseteq Live
      /\ "purged" \notin Live /\ (s # "purged" => status[on[w]] \in Live)
  BY <1>1, WorkerAt DEF Live, Terminal
<1>5. ~slipped => /\ sent[on[w]] <= 1 + faults[on[w]]
                  /\ s = "purged" \/ sent[on[w]] <= faults[on[w]]
                  /\ s = "dead" => attempts[on[w]] >= MaxAttempts
  BY <1>1, WorkerAt DEF InFlight
<1> HIDE DEF s
<1>6. "rethrow" \in Label /\ "rethrow" \notin InFlight
  BY DEF Label, InFlight
<1>7. /\ pc' \in [Worker -> Label] /\ pc'[w] = "rethrow"
      /\ \A v \in Worker \ {w} : pc'[v] = pc[v]
      /\ status' \in [Row -> Live \cup {"none", "purged"}] /\ status'[on[w]] = s
      /\ \A q \in Row \ {on[w]} : status'[q] = status[q]
  BY <1>1, <1>2, <1>3, <1>4, <1>6
<1>. QED  BY <1>1, <1>2, <1>4, <1>5, <1>6, <1>7, WorkerStep

\* BullMQ ends the job if this worker still holds its lock.
LEMMA EndJobKeeps ==
    ASSUME Inv, NEW w \in Worker, EndJob(w)
    PROVE  Inv'
<1>1. /\ pc[w] \in {"finish", "rethrow"}
      /\ pc' = [pc EXCEPT ![w] = "idle"] /\ on' = [on EXCEPT ![w] = None]
      /\ UNCHANGED <<status, attempts, secret, prod, owed, sent, faults, upsets, slipped, blipped>>
  BY DEF EndJob, Goto, rowVars, faultVars
<1>2. on[w] \in Row /\ job \in [Row -> JobRow] /\ upsets \in 0 .. MaxUpsets
  BY <1>1, WorkerAt DEF Inv, Types
<1> DEFINE r == on[w]
<1>3. job[r] \in JobRow /\ Jobs
  BY <1>2 DEF Inv
<1>4. CASE job[r].owner # w
  <2>1. job' = [job EXCEPT ![r] = job[r]]
    BY <1>2, <1>4 DEF EndJob
  <2> HIDE DEF r
  <2>. QED  BY <1>1, <1>2, <1>3, <2>1, WorkerLeaves DEF r, Jobs
<1>5. CASE job[r].owner = w
  <2> DEFINE s == IF pc[w] = "finish" THEN "completed"
                  ELSE IF job[r].left > 1 THEN "waiting" ELSE "failed"
             n == IF pc[w] = "rethrow" THEN job[r].left - 1 ELSE job[r].left
  <2>1. job[r].state = "active" /\ job[r].left \in 1 .. JobAttempts
    <3>1. job[r].state = "active"
      BY <1>2, <1>3, <1>5, NoneAssumption DEF Jobs
    <3>2. job[r].left \in 0 .. JobAttempts
      BY <1>3, JobFields
    <3>. QED  BY <1>2, <1>3, <3>1, <3>2, AttemptsAssumption DEF Jobs
  <2>2. s \in {"waiting", "completed", "failed"} /\ n \in 0 .. JobAttempts
        /\ (s = "waiting" => n >= 1)
    BY <1>1, <2>1, AttemptsAssumption
  <2>3. job' = [job EXCEPT ![r].owner = None, ![r].state = s, ![r].left = n]
    <3>1. job' = [job EXCEPT ![r].owner = None,
                             ![r].state = IF pc[w] = "finish" THEN "completed"
                                          ELSE IF @ = "active" /\ job[r].left > 1
                                          THEN "waiting" ELSE "failed",
                             ![r].left = IF pc[w] = "rethrow" THEN @ - 1 ELSE @]
      BY <1>5 DEF EndJob
    <3>. QED  BY <1>2, <1>3, <2>1, <3>1, Zenon
  <2> HIDE DEF s, n
  <2> DEFINE j == [job[r] EXCEPT !.owner = None, !.state = s, !.left = n]
  <2>4. j \in JobRow /\ j.state = s /\ j.owner = None /\ j.left = n
    <3>1. /\ s \in {"none", "waiting", "active", "completed", "failed"}
          /\ n \in 0 .. JobAttempts /\ None \in Worker \cup {None}
      BY <2>2
    <3>. QED  BY <1>3, <3>1, Zenon DEF JobRow
  <2>5. job' = [job EXCEPT ![r] = j]
    BY <2>3, Zenon
  <2> HIDE DEF j
  <2> HIDE DEF r
  <2>. QED  BY <1>1, <1>2, <2>1, <2>2, <2>4, <2>5, WorkerLeaves DEF r
<1>. QED  BY <1>4, <1>5

\* A query that fails leaves the row; an acceptance it hides is a fault.
LEMMA QueryFailsKeeps ==
    ASSUME Inv, NEW w \in Worker, QueryFails(w)
    PROVE  Inv'
<1> DEFINE l == IF pc[w] \in {"accepted", "refused"} THEN "threw" ELSE "rethrow"
           n == IF pc[w] = "accepted" THEN 1 ELSE 0
<1>1. /\ pc[w] \in {"loaded", "accepted", "refused", "threw", "spent", "again"}
      /\ pc' = [pc EXCEPT ![w] = l]
      /\ faults' = IF pc[w] = "accepted" THEN [faults EXCEPT ![on[w]] = @ + 1] ELSE faults
      /\ UNCHANGED <<status, attempts, secret, prod, job, on, owed, sent, slipped, blipped>>
  BY DEF QueryFails, Goto, rowVars
<1>2. /\ on[w] \in Row /\ attempts \in [Row -> Nat] /\ sent \in [Row -> Nat]
      /\ faults \in [Row -> Nat] /\ pc \in [Worker -> Label]
      /\ status \in [Row -> Live \cup {"none", "purged"}] /\ blipped \in BOOLEAN
  BY <1>1, WorkerAt DEF Inv, Types
<1>3. upsets' \in 0 .. MaxUpsets
  BY NoneAssumption DEF QueryFails, Upset, Inv, Types
<1>4. /\ faults' \in [Row -> Nat] /\ faults'[on[w]] = faults[on[w]] + n
      /\ \A q \in Row \ {on[w]} : faults'[q] = faults[q]
  BY <1>1, <1>2
<1>5. /\ l \in Label /\ l # "idle" /\ l # "loaded" /\ l # "calling" /\ l # "spent"
      /\ l \in InFlight => pc[w] \in {"accepted", "refused"}
  BY DEF Label, InFlight
<1>6. /\ status[on[w]] # "none"
      /\ ~slipped =>
            /\ pc[w] \in {"accepted", "refused"} => status[on[w]] \in {"sending", "purged"}
            /\ sent[on[w]] <= 1 + faults[on[w]]
            /\ \/ status[on[w]] \in {"delivered", "purged"}
               \/ n = 1
               \/ sent[on[w]] <= faults[on[w]]
            /\ status[on[w]] = "dead"
                  => attempts[on[w]] >= MaxAttempts \/ ~secret \/ blipped
  BY <1>1, WorkerAt DEF Live, Terminal, InFlight
<1>7. ~slipped => /\ sent[on[w]] <= 1 + faults'[on[w]]
                  /\ \/ status[on[w]] \in {"delivered", "purged"}
                     \/ sent[on[w]] <= faults'[on[w]]
  <2>1. n \in {0, 1} /\ sent[on[w]] \in Nat /\ faults[on[w]] \in Nat
    BY <1>2
  <2> HIDE DEF n
  <2>. QED  BY <1>4, <1>6, <2>1
<1> HIDE DEF l, n
<1>8. pc' \in [Worker -> Label] /\ pc'[w] = l /\ \A v \in Worker \ {w} : pc'[v] = pc[v]
  BY <1>1, <1>2, <1>5
<1>. QED  BY <1>1, <1>2, <1>3, <1>4, <1>5, <1>6, <1>7, <1>8, WorkerStep

LEMMA CrashKeeps ==
    ASSUME Inv, NEW w \in Worker, Crash(w)
    PROVE  Inv'
<1>1. /\ pc[w] # "idle"
      /\ pc' = [pc EXCEPT ![w] = "idle"] /\ on' = [on EXCEPT ![w] = None]
      /\ owed' \subseteq owed
      /\ faults' = IF pc[w] = "accepted" THEN [faults EXCEPT ![on[w]] = @ + 1] ELSE faults
      /\ UNCHANGED <<status, attempts, secret, prod, sent, slipped, blipped>>
  BY DEF Crash, Goto, rowVars
<1>2. upsets' \in 0 .. MaxUpsets
  BY NoneAssumption DEF Crash, Upset, Inv, Types
<1>3. on[w] \in Row /\ job \in [Row -> JobRow] /\ job[on[w]] \in JobRow /\ Jobs
  BY <1>1, WorkerAt DEF Inv, Types
<1> DEFINE r == on[w]
<1>4. PICK j \in JobRow : /\ job' = [job EXCEPT ![r] = j]
                          /\ j.state = job[r].state /\ j.left = job[r].left
                          /\ j.owner \in {job[r].owner, None}
  <2>1. CASE job[r].owner = w
    <3>1. job' = [job EXCEPT ![r].owner = None]
      BY <2>1 DEF Crash
    <3>2. r \in Row
      BY <1>3
    <3> HIDE DEF r
    <3>3. PICK j \in JobRow :
             /\ [job EXCEPT ![r].owner = None] = [job EXCEPT ![r] = j]
             /\ j.state = job[r].state /\ j.owner = None /\ j.left = job[r].left
      BY <1>3, <3>2, JobDropped, Zenon
    <3>4. job' = [job EXCEPT ![r] = j]
      BY <3>1, <3>3, Zenon
    <3>5. j.owner \in {job[r].owner, None}
      BY <3>3
    <3>. QED  BY <3>3, <3>4, <3>5, Zenon
  <2>2. CASE job[r].owner # w
    <3>1. job' = [job EXCEPT ![r] = job[r]]
      BY <1>3, <2>2 DEF Crash
    <3>. QED  BY <1>3, <3>1
  <2>. QED  BY <2>1, <2>2
<1>5. /\ j.owner # None => j.state = "active"
      /\ j.state \in {"waiting", "active"} => j.left >= 1
  BY <1>3, <1>4 DEF Jobs
<1>6. on[w] = r
  OBVIOUS
<1> HIDE DEF r
<1>. QED  BY <1>1, <1>2, <1>3, <1>4, <1>5, <1>6, WorkerLeaves

LEMMA PickKeeps ==
    ASSUME Inv, NEW w \in Worker, NEW r \in Row, Pick(w, r)
    PROVE  Inv'
<1> DEFINE l == IF status[r] \in Terminal \cup {"purged"} THEN "finish" ELSE "loaded"
           j == [job[r] EXCEPT !.state = "active", !.owner = w]
<1>1. Types /\ Busy /\ OneLive /\ IdsInOrder /\ Inserted /\ Jobs
  BY DEF Inv
<1>2. job \in [Row -> JobRow] /\ job[r] \in JobRow
  BY <1>1 DEF Types
<1>3. /\ pc[w] = "idle" /\ job[r].state = "waiting"
      /\ on' = [on EXCEPT ![w] = r] /\ pc' = [pc EXCEPT ![w] = l]
      /\ UNCHANGED <<status, attempts, secret, prod, owed, sent, faults, upsets, slipped, blipped>>
  BY DEF Pick, Goto, rowVars, faultVars
<1>4. job' = [job EXCEPT ![r] = j]
  BY Zenon DEF Pick
<1>5. j \in JobRow /\ j.state = "active" /\ j.owner = w /\ j.left = job[r].left
  BY <1>2, Zenon DEF JobRow
<1>6. status[r] # "none" /\ status[r] \in Live \cup {"none", "purged"} /\ job[r].owner = None
  BY <1>1, <1>3 DEF Inserted, Types, Jobs
<1>7. /\ l \in {"finish", "loaded"} /\ {"finish", "loaded"} \subseteq Label \ InFlight
      /\ l = "loaded" => status[r] \in {"pending", "sending"}
  BY <1>6 DEF Label, InFlight, Live
<1> HIDE DEF l, j
<1>8. /\ \A v \in Worker : pc'[v] = IF v = w THEN l ELSE pc[v]
      /\ \A v \in Worker : on'[v] = IF v = w THEN r ELSE on[v]
      /\ \A q \in Row : job'[q] = IF q = r THEN j ELSE job[q]
  BY <1>1, <1>3, <1>4 DEF Types
<1>9. Types'
  BY <1>1, <1>3, <1>4, <1>5, <1>7 DEF Types
<1>10. Busy'
  BY <1>1, <1>7, <1>8, NoneAssumption DEF Busy
<1>11. OneLive' /\ IdsInOrder'
  BY <1>1, <1>3 DEF OneLive, IdsInOrder
<1>12. Inserted'
  BY <1>1, <1>3, <1>6, <1>8 DEF Inserted
<1>13. Jobs'
  BY <1>1, <1>3, <1>5, <1>8 DEF Jobs
<1>14. ASSUME ~slipped' PROVE Locked' /\ Counted' /\ GivenUp'
  <2>1. ~slipped /\ Locked /\ Counted /\ GivenUp
    BY <1>3, <1>14 DEF Inv
  <2>2. on[w] = None /\ \A v \in Worker : on[v] # r
    BY <1>1, <1>3, <1>6, <2>1, NoneAssumption DEF Busy, Locked
  <2>3. Locked'
    <3> SUFFICES ASSUME NEW v \in Worker, on'[v] \in Row
                 PROVE  /\ job'[on'[v]].owner = v
                        /\ pc'[v] = "loaded" => status'[on'[v]] \in {"pending", "sending", "purged"}
                        /\ pc'[v] \in InFlight => status'[on'[v]] \in {"sending", "purged"}
                        /\ pc'[v] = "spent" /\ status'[on'[v]] # "purged"
                              => attempts'[on'[v]] >= MaxAttempts
                        /\ pc'[v] = "calling" => sent'[on'[v]] <= faults'[on'[v]]
      BY DEF Locked
    <3>1. CASE v = w
      BY <1>3, <1>5, <1>7, <1>8, <3>1
    <3>2. CASE v # w
      <4>1. /\ on'[v] = on[v] /\ pc'[v] = pc[v] /\ on[v] \in Row
            /\ job'[on[v]] = job[on[v]]
        BY <1>8, <2>2, <3>2
      <4>. QED  BY <1>3, <2>1, <4>1 DEF Locked
    <3>. QED  BY <3>1, <3>2
  <2>4. Counted'
    <3>1. \A v \in Worker, q \in Row : on[v] = q /\ pc[v] = "accepted"
                                          => on'[v] = q /\ pc'[v] = "accepted"
      BY <1>3, <1>8
    <3>. QED  BY <1>3, <2>1, <3>1 DEF Counted
  <2>5. GivenUp'
    BY <1>3, <2>1 DEF GivenUp
  <2>. QED  BY <2>3, <2>4, <2>5
<1>. QED  BY <1>9, <1>10, <1>11, <1>12, <1>13, <1>14 DEF Inv

-----------------------------------------------------------------------------
(* The queue.                                                              *)

\* queue.add of a row that exists.
LEMMA AddKeeps ==
    ASSUME Inv, NEW r \in Row, NEW n \in 1 .. JobAttempts, NEW k \in BOOLEAN,
           job' = Add(r, NewJob(n, k)), status[r] # "none",
           UNCHANGED <<status, attempts, secret, pc, on, sent, faults, upsets, slipped, blipped>>,
           prod' \in [Producer -> {None} \cup Row],
           \A p \in Producer : prod'[p] \in {prod[p], None},
           owed' \subseteq owed
    PROVE  Inv'
<1>1. /\ job \in [Row -> JobRow] /\ job[r] \in JobRow
      /\ slipped \in BOOLEAN /\ upsets \in 0 .. MaxUpsets
  BY DEF Inv, Types
<1>2. CASE job[r].state = "none"
  <2> DEFINE j == NewJob(n, k)
  <2>1. n \in 0 .. JobAttempts /\ n >= 1
    OBVIOUS
  <2>2. j \in JobRow /\ j.state = "waiting" /\ j.left = n /\ j.owner = None
    BY <2>1, NewJobIs
  <2>3. job' = [job EXCEPT ![r] = j]
    BY <1>2 DEF Add
  <2> HIDE DEF j
  <2>4. job[r].owner = None
    BY <1>2 DEF Inv, Jobs
  <2>5. ~slipped => \A w \in Worker : on[w] # r
    BY <2>4, NoneAssumption DEF Inv, Locked
  <2>. QED  BY <1>1, <2>1, <2>2, <2>3, <2>5, JobStep
<1>3. CASE job[r].state # "none"
  <2>1. job' = [job EXCEPT ![r] = job[r]]
    BY <1>1, <1>3 DEF Add
  <2>2. ~slipped => \A w \in Worker : on[w] = r => job[r].owner = w
    BY DEF Inv, Locked
  <2>3. /\ job[r].owner # None => job[r].state = "active"
        /\ job[r].state \in {"waiting", "active"} => job[r].left >= 1
    BY DEF Inv, Jobs
  <2>. QED  BY <1>1, <2>1, <2>2, <2>3, JobStep
<1>. QED  BY <1>2, <1>3

\* The stalled check.
LEMMA StallKeeps ==
    ASSUME Inv, NEW r \in Row, StallOrphan(r) \/ StallSlow(r)
    PROVE  Inv'
<1> DEFINE s == IF job[r].stalls = 0 THEN "waiting" ELSE "failed"
           j == [job[r] EXCEPT !.owner = None, !.state = s, !.stalls = 1]
<1>1. /\ job \in [Row -> JobRow] /\ job[r] \in JobRow
      /\ prod \in [Producer -> {None} \cup Row]
  BY DEF Inv, Types
<1>2. s \in {"waiting", "failed"} /\ 1 \in 0 .. 1
  OBVIOUS
<1>3. job' = [job EXCEPT ![r].owner = None, ![r].state = s, ![r].stalls = 1]
  BY DEF StallOrphan, StallSlow, Unlocked
<1> HIDE DEF s
<1>4. j \in JobRow /\ j.state = s /\ j.owner = None /\ j.left = job[r].left
  BY <1>1, <1>2, Zenon DEF JobRow
<1>5. job' = [job EXCEPT ![r] = j]
  BY <1>3, Zenon
<1> HIDE DEF j
<1>6. job[r].state = "active" /\ job[r].left >= 1 /\ status[r] # "none"
  BY DEF StallOrphan, StallSlow, Inv, Jobs, Inserted
<1>7. /\ UNCHANGED <<status, attempts, secret, prod, pc, on, owed, sent, faults, blipped>>
      /\ slipped' \in BOOLEAN /\ upsets' \in 0 .. MaxUpsets
  <2>1. CASE StallSlow(r)
    BY <2>1, NoneAssumption DEF StallSlow, Upset, rowVars, Inv, Types
  <2>2. CASE StallOrphan(r)
    BY <2>2 DEF StallOrphan, rowVars, faultVars, Inv, Types
  <2>. QED  BY <2>1, <2>2
<1>8. ~slipped' => ~slipped /\ \A w \in Worker : on[w] # r
  <2>1. CASE StallSlow(r)
    BY <2>1 DEF StallSlow
  <2>2. CASE StallOrphan(r)
    BY <2>2, NoneAssumption DEF StallOrphan, faultVars, Inv, Locked
  <2>. QED  BY <2>1, <2>2
<1>9. /\ prod' \in [Producer -> {None} \cup Row] /\ owed' \subseteq owed
      /\ \A p \in Producer : prod'[p] \in {prod[p], None}
  BY <1>1, <1>7
<1>. QED  BY <1>2, <1>4, <1>5, <1>6, <1>7, <1>8, <1>9, JobStep

LEMMA PruneKeeps ==
    ASSUME Inv, NEW r \in Row, Prune(r)
    PROVE  Inv'
<1>1. /\ job[r].state \in {"completed", "failed"} /\ job' = [job EXCEPT ![r] = NoJob]
      /\ UNCHANGED <<status, attempts, secret, prod, pc, on, owed, sent, faults,
                     upsets, slipped, blipped>>
  BY DEF Prune, rowVars, faultVars
<1>2. /\ prod \in [Producer -> {None} \cup Row]
      /\ slipped \in BOOLEAN /\ upsets \in 0 .. MaxUpsets
  BY DEF Inv, Types
<1>3. NoJob \in JobRow /\ NoJob.state = "none" /\ NoJob.owner = None
  <2>1. 0 \in 0 .. JobAttempts
    BY AttemptsAssumption
  <2>. QED  BY <2>1, NewJobIs
<1>4. job[r].owner = None
  BY <1>1 DEF Inv, Jobs
<1>5. ~slipped => \A w \in Worker : on[w] # r
  BY <1>4, NoneAssumption DEF Inv, Locked
<1>. QED  BY <1>1, <1>2, <1>3, <1>5, JobStep

-----------------------------------------------------------------------------
(* The rows.                                                               *)

\* The id an insert gets is the first that was never used.
LEMMA NextId ==
    ASSUME Inv, NEW r \in Row, r = 1 + Cardinality({i \in Row : status[i] # "none"})
    PROVE  /\ status[r] = "none"
           /\ \A q \in Row : q < r => status[q] # "none"
<1> DEFINE S == {i \in Row : status[i] # "none"}
<1>1. \A i \in S, q \in Row : q <= i => q \in S
  BY DEF Inv, IdsInOrder
<1>2. \A n \in Nat : IsFiniteSet(1 .. n) /\ Cardinality(1 .. n) = n
  BY FS_Interval
<1>3. IsFiniteSet(Row) /\ S \in SUBSET Row
  BY <1>2, NoneAssumption DEF Row
<1>4. IsFiniteSet(S) /\ r = 1 + Cardinality(S) /\ Cardinality(S) \in Nat
  BY <1>3, FS_Subset, FS_CardinalityType
<1>5. r \in Nat /\ \A i \in S : i \in Nat /\ i >= 1
  BY NoneAssumption DEF Row
<1>6. r \notin S
  <2> SUFFICES ASSUME r \in S PROVE FALSE
    OBVIOUS
  <2>1. ASSUME NEW q \in 1 .. r PROVE q \in S
    <3>1. q \in Row /\ q <= r
      BY NoneAssumption DEF Row
    <3> HIDE DEF S
    <3>. QED  BY <1>1, <3>1
  <2> HIDE DEF S
  <2>2. Cardinality(1 .. r) <= Cardinality(S)
    BY <1>4, <2>1, FS_Subset
  <2>. QED  BY <1>2, <1>4, <1>5, <2>2
<1>7. ASSUME NEW q \in Row, q < r PROVE q \in S
  <2> SUFFICES ASSUME q \notin S PROVE FALSE
    OBVIOUS
  <2>1. q - 1 \in Nat /\ q \in Nat
    BY NoneAssumption DEF Row
  <2>2. \A i \in S : ~(q <= i)
    BY <1>1
  <2> HIDE DEF S
  <2>3. S \in SUBSET (1 .. (q - 1))
    BY <1>5, <2>1, <2>2
  <2>4. IsFiniteSet(1 .. (q - 1)) /\ Cardinality(1 .. (q - 1)) = q - 1
    BY <1>2, <2>1
  <2>5. Cardinality(S) <= Cardinality(1 .. (q - 1))
    BY <2>3, <2>4, FS_Subset
  <2>. QED  BY <1>4, <1>5, <1>7, <2>1, <2>4, <2>5
<1>. QED  BY <1>6, <1>7

LEMMA InsertKeeps ==
    ASSUME Inv, NEW p \in Producer, NEW r \in Row, Insert(p, r)
    PROVE  Inv'
<1>1. Types /\ Busy /\ OneLive /\ IdsInOrder /\ Inserted /\ Jobs
  BY DEF Inv
<1>2. /\ prod[p] = None /\ \A q \in Row : status[q] \notin Live
      /\ r = 1 + Cardinality({i \in Row : status[i] # "none"})
      /\ status' = [status EXCEPT ![r] = "pending"] /\ secret' = TRUE
      /\ prod' = [prod EXCEPT ![p] = r]
      /\ UNCHANGED <<attempts, job, pc, on, owed, sent, faults, upsets, slipped, blipped>>
  BY DEF Insert, RowExists, faultVars
<1>3. status[r] = "none" /\ \A q \in Row : q < r => status[q] # "none"
  BY <1>2, NextId
<1>4. /\ \A q \in Row : status'[q] = IF q = r THEN "pending" ELSE status[q]
      /\ \A o \in Producer : prod'[o] = IF o = p THEN r ELSE prod[o]
  BY <1>1, <1>2 DEF Types
<1>5. Types'
  BY <1>1, <1>2 DEF Types, Live
<1>6. Busy' /\ Jobs'
  BY <1>1, <1>2 DEF Busy, Jobs
<1>7. OneLive'
  BY <1>2, <1>4 DEF OneLive
<1>8. IdsInOrder'
  <2> SUFFICES ASSUME NEW i \in Row, NEW q \in Row, i <= q, status'[q] # "none"
               PROVE  status'[i] # "none"
    BY DEF IdsInOrder
  <2>1. i \in Nat /\ q \in Nat /\ r \in Nat
    BY DEF Row
  <2>2. CASE i = r
    BY <1>4, <2>2
  <2>3. CASE i # r /\ q = r
    BY <1>3, <1>4, <2>1, <2>3
  <2>4. CASE i # r /\ q # r
    BY <1>1, <1>4, <2>4 DEF IdsInOrder
  <2>. QED  BY <2>2, <2>3, <2>4
<1>9. Inserted'
  <2>1. \A q \in Row : status[q] # "none" => status'[q] # "none"
    BY <1>4
  <2>2. \A q \in Row : job'[q].state # "none" => status'[q] # "none"
    BY <1>1, <1>2, <2>1 DEF Inserted
  <2>3. \A o \in Producer : prod'[o] \in Row => status'[prod'[o]] # "none"
    BY <1>1, <1>4, <2>1 DEF Inserted
  <2>4. \A w \in Worker : on'[w] \in Row => status'[on'[w]] # "none"
    BY <1>1, <1>2, <2>1 DEF Inserted
  <2>5. \A q \in owed' : status'[q] # "none"
    BY <1>1, <1>2, <2>1 DEF Inserted, Types
  <2>. QED  BY <2>2, <2>3, <2>4, <2>5 DEF Inserted
<1>10. ASSUME ~slipped' PROVE Locked' /\ Counted' /\ GivenUp'
  <2>1. ~slipped /\ Locked /\ Counted /\ GivenUp
    BY <1>2, <1>10 DEF Inv
  <2>2. \A w \in Worker : on[w] # r
    BY <1>1, <1>3 DEF Inserted
  <2>3. Locked'
    BY <1>2, <1>4, <2>1, <2>2 DEF Locked
  <2>4. sent[r] <= faults[r]
    BY <1>3, <2>1, <2>2 DEF Counted
  <2>5. Counted'
    BY <1>2, <1>4, <2>1, <2>4 DEF Counted
  <2>6. GivenUp'
    BY <1>2, <1>4 DEF GivenUp, Live, Terminal
  <2>. QED  BY <2>3, <2>5, <2>6
<1>. QED  BY <1>5, <1>6, <1>7, <1>8, <1>9, <1>10 DEF Inv

LEMMA ProduceKeeps ==
    ASSUME Inv, NEW p \in Producer, Produce(p)
    PROVE  Inv'
<1>1. /\ prod \in [Producer -> {None} \cup Row] /\ job \in [Row -> JobRow]
      /\ slipped \in BOOLEAN /\ upsets \in 0 .. MaxUpsets
  BY DEF Inv, Types
<1>2. ASSUME AddJob(p) \/ AddLost(p)
      PROVE  /\ prod[p] \in Row /\ status[prod[p]] # "none"
             /\ prod' \in [Producer -> {None} \cup Row]
             /\ \A o \in Producer : prod'[o] \in {prod[o], None}
             /\ UNCHANGED <<status, attempts, secret, pc, on, owed, sent, faults,
                            upsets, slipped, blipped>>
  <2>1. prod[p] \in Row /\ prod' = [prod EXCEPT ![p] = None]
    BY <1>2 DEF AddJob, AddLost
  <2>2. status[prod[p]] # "none"
    BY <2>1 DEF Inv, Inserted
  <2>. QED  BY <1>1, <1>2, <2>1, <2>2 DEF AddJob, AddLost, rowVars, faultVars
<1>3. CASE AddJob(p)
  <2>1. JobAttempts \in 1 .. JobAttempts
    BY AttemptsAssumption
  <2>2. job' = Add(prod[p], NewJob(JobAttempts, FALSE))
    BY <1>3 DEF AddJob
  <2>. QED  BY <1>2, <1>3, <2>1, <2>2, AddKeeps
<1>4. CASE AddLost(p)
  <2> DEFINE r == prod[p]
  <2>1. r \in Row /\ job[r] \in JobRow
    BY <1>1, <1>2, <1>4
  <2>2. job' = [job EXCEPT ![r] = job[r]]
    BY <1>1, <1>4, <2>1 DEF AddLost
  <2>3. /\ job[r].owner # None => job[r].state = "active"
        /\ job[r].state \in {"waiting", "active"} => job[r].left >= 1
        /\ job[r].state # "none" => status[r] # "none"
        /\ ~slipped => \A w \in Worker : on[w] = r => job[r].owner = w
    BY <2>1 DEF Inv, Jobs, Inserted, Locked
  <2> HIDE DEF r
  <2>. QED  BY <1>1, <1>2, <1>4, <2>1, <2>2, <2>3, JobStep
<1>. QED  BY <1>3, <1>4, InsertKeeps DEF Produce

LEMMA RequeueKeeps ==
    ASSUME Inv, NEW r \in Row, Requeue(r)
    PROVE  Inv'
<1>1. /\ job' = Add(r, NewJob(1, TRUE)) /\ owed' \subseteq owed /\ status[r] # "none"
      /\ UNCHANGED <<status, attempts, secret, prod, pc, on, sent, faults,
                     upsets, slipped, blipped>>
  BY DEF Requeue, rowVars, faultVars, Inv, Inserted
<1>2. 1 \in 1 .. JobAttempts
  BY AttemptsAssumption
<1>3. prod \in [Producer -> {None} \cup Row]
  BY DEF Inv, Types
<1>. QED  BY <1>1, <1>2, <1>3, AddKeeps

\* A row's status is moved from outside: by the scan, by hand, or by a deletion.
LEMMA StatusStep ==
    ASSUME Inv, status' \in [Row -> Live \cup {"none", "purged"}],
           attempts' \in [Row -> Nat], upsets' \in 0 .. MaxUpsets,
           secret' \in BOOLEAN, secret' => secret,
           UNCHANGED <<prod, job, pc, on, sent, faults, slipped, blipped>>,
           owed' \subseteq Row, \A q \in owed' : status'[q] # "none",
           \A q \in Row :
              /\ status'[q] = "none" <=> status[q] = "none"
              /\ status'[q] \in Live => status[q] \in Live
              /\ \/ status'[q] = status[q] /\ attempts'[q] = attempts[q]
                 \/ status'[q] = "purged"
                 \/ Orphaned(q) /\ status'[q] = "pending"
                 \/ status[q] = "dead" /\ status'[q] = "pending"
    PROVE  Inv'
<1>1. Types /\ Busy /\ OneLive /\ IdsInOrder /\ Inserted /\ Jobs
  BY DEF Inv
<1>2. Types'
  BY <1>1 DEF Types
<1>3. Busy' /\ Jobs'
  BY <1>1 DEF Busy, Jobs
<1>4. OneLive' /\ IdsInOrder'
  BY <1>1 DEF OneLive, IdsInOrder
<1>5. Inserted'
  BY <1>1 DEF Inserted
<1>6. ASSUME ~slipped' PROVE Locked' /\ Counted' /\ GivenUp'
  <2>1. ~slipped /\ Locked /\ Counted /\ GivenUp
    BY <1>6 DEF Inv
  <2>2. Locked'
    <3> SUFFICES ASSUME NEW v \in Worker, on[v] \in Row
                 PROVE  /\ job[on[v]].owner = v
                        /\ pc[v] = "loaded" => status'[on[v]] \in {"pending", "sending", "purged"}
                        /\ pc[v] \in InFlight => status'[on[v]] \in {"sending", "purged"}
                        /\ pc[v] = "spent" /\ status'[on[v]] # "purged"
                              => attempts'[on[v]] >= MaxAttempts
                        /\ pc[v] = "calling" => sent[on[v]] <= faults[on[v]]
      BY DEF Locked
    <3>1. pc[v] \in InFlight => ~Orphaned(on[v])
      BY <2>1 DEF Orphaned, Locked, InFlight
    <3>2. pc[v] \in InFlight => /\ status'[on[v]] \in {"sending", "purged"}
                                /\ \/ status'[on[v]] = "purged"
                                   \/ attempts'[on[v]] = attempts[on[v]]
      BY <2>1, <3>1 DEF Locked
    <3>3. pc[v] = "loaded" => status'[on[v]] \in {"pending", "sending", "purged"}
      BY <2>1 DEF Locked
    <3>4. "spent" \in InFlight
      BY DEF InFlight
    <3>. QED  BY <2>1, <3>2, <3>3, <3>4 DEF Locked
  <2>3. Counted'
    <3>1. \A q \in Row : status[q] = "delivered" => status'[q] \in {"delivered", "purged"}
      BY DEF Orphaned
    <3>2. \A q \in Row : status[q] = "purged" => status'[q] = "purged"
      BY DEF Orphaned
    <3>. QED  BY <2>1, <3>1, <3>2 DEF Counted
  <2>4. GivenUp'
    BY <2>1 DEF GivenUp
  <2>. QED  BY <2>2, <2>3, <2>4
<1>. QED  BY <1>2, <1>3, <1>4, <1>5, <1>6 DEF Inv

LEMMA OutsideKeeps ==
    ASSUME Inv, SecretLapses \/ RunRecovery \/ \E r \in Row : Redrive(r) \/ Purge(r)
    PROVE  Inv'
<1>1. /\ status \in [Row -> Live \cup {"none", "purged"}] /\ attempts \in [Row -> Nat]
      /\ upsets \in 0 .. MaxUpsets /\ owed \subseteq Row /\ secret \in BOOLEAN
      /\ \A q \in owed : status[q] # "none"
  BY DEF Inv, Types, Inserted
<1>2. CASE SecretLapses
  BY <1>1, <1>2, StatusStep DEF SecretLapses, rowVars, faultVars
<1>3. CASE RunRecovery
  <2>1. /\ status' = Recovered /\ owed' = {r \in Row : Recovered[r] = "pending"}
        /\ UNCHANGED <<attempts, secret, prod, job, pc, on, sent, faults,
                       upsets, slipped, blipped>>
    BY <1>3 DEF RunRecovery, faultVars
  <2>2. \A q \in Row : status'[q] = IF Orphaned(q) THEN "pending" ELSE status[q]
    BY <2>1 DEF Recovered
  <2>3. status' \in [Row -> Live \cup {"none", "purged"}]
    BY <1>1, <2>1 DEF Recovered, Live
  <2>4. \A q \in Row : Orphaned(q) => status[q] = "sending"
    BY DEF Orphaned
  <2>5. {"pending", "sending"} \subseteq Live
    BY DEF Live
  <2>6. owed' \subseteq Row /\ \A q \in owed' : status'[q] # "none"
    BY <2>1
  <2>7. \A q \in Row :
           /\ status'[q] = "none" <=> status[q] = "none"
           /\ status'[q] \in Live => status[q] \in Live
           /\ \/ status'[q] = status[q] /\ attempts'[q] = attempts[q]
              \/ Orphaned(q) /\ status'[q] = "pending"
    BY <2>1, <2>2, <2>4, <2>5
  <2>. QED  BY <1>1, <2>1, <2>3, <2>6, <2>7, StatusStep
<1>4. ASSUME NEW r \in Row, Redrive(r) PROVE Inv'
  <2>1. /\ status[r] = "dead" /\ status' = [status EXCEPT ![r] = "pending"]
        /\ attempts' = [attempts EXCEPT ![r] = 0] /\ upsets' \in 0 .. MaxUpsets
        /\ UNCHANGED <<secret, prod, job, pc, on, owed, sent, faults, slipped, blipped>>
    BY <1>1, <1>4, NoneAssumption DEF Redrive, Upset
  <2>2. "pending" \in Live /\ "dead" \in Live
    BY DEF Live, Terminal
  <2>3. /\ status' \in [Row -> Live \cup {"none", "purged"}] /\ attempts' \in [Row -> Nat]
        /\ \A q \in Row : status'[q] = IF q = r THEN "pending" ELSE status[q]
        /\ \A q \in Row : attempts'[q] = IF q = r THEN 0 ELSE attempts[q]
    BY <1>1, <2>1, <2>2
  <2>. QED  BY <1>1, <2>1, <2>2, <2>3, StatusStep
<1>5. ASSUME NEW r \in Row, Purge(r) PROVE Inv'
  <2>1. /\ status[r] \in Live /\ status' = [status EXCEPT ![r] = "purged"]
        /\ UNCHANGED <<attempts, secret, prod, job, pc, on, owed, sent, faults,
                       upsets, slipped, blipped>>
    BY <1>5 DEF Purge, faultVars
  <2>2. "none" \notin Live
    BY DEF Live, Terminal
  <2>3. /\ status' \in [Row -> Live \cup {"none", "purged"}]
        /\ \A q \in Row : status'[q] = IF q = r THEN "purged" ELSE status[q]
    BY <1>1, <2>1
  <2>. QED  BY <1>1, <2>1, <2>2, <2>3, StatusStep
<1>. QED  BY <1>2, <1>3, <1>4, <1>5

LEMMA InitInv == Init => Inv
<1> SUFFICES ASSUME Init PROVE Inv
  OBVIOUS
<1>1. NoJob \in JobRow /\ NoJob.state = "none" /\ NoJob.owner = None
  <2>1. 0 \in 0 .. JobAttempts
    BY AttemptsAssumption
  <2>. QED  BY <2>1, NewJobIs
<1>2. Types
  <2>1. /\ status \in [Row -> Live \cup {"none", "purged"}]
        /\ attempts \in [Row -> Nat] /\ sent \in [Row -> Nat] /\ faults \in [Row -> Nat]
        /\ prod \in [Producer -> {None} \cup Row] /\ on \in [Worker -> Row \cup {None}]
    BY DEF Init
  <2>2. pc \in [Worker -> Label]
    BY DEF Init, Label
  <2>3. job \in [Row -> JobRow]
    BY <1>1 DEF Init
  <2>4. /\ secret \in BOOLEAN /\ slipped \in BOOLEAN /\ blipped \in BOOLEAN
        /\ owed \subseteq Row
    BY Zenon DEF Init
  <2>5. upsets \in 0 .. MaxUpsets
    BY NoneAssumption DEF Init
  <2>. QED  BY <2>1, <2>2, <2>3, <2>4, <2>5 DEF Types
<1>3. /\ \A r \in Row : status[r] = "none" /\ job[r] = NoJob /\ sent[r] = 0 /\ faults[r] = 0
      /\ \A w \in Worker : pc[w] = "idle" /\ on[w] = None
      /\ \A p \in Producer : prod[p] = None
      /\ owed = {}
  BY DEF Init
<1>4. Busy /\ IdsInOrder
  BY <1>3 DEF Busy, IdsInOrder
<1>5. OneLive
  BY <1>3 DEF OneLive, Live, Terminal
<1>6. Inserted /\ Jobs
  BY <1>1, <1>3, NoneAssumption DEF Inserted, Jobs
<1>7. Locked /\ Counted /\ GivenUp
  BY <1>3, NoneAssumption DEF Locked, Counted, GivenUp
<1>. QED  BY <1>2, <1>4, <1>5, <1>6, <1>7 DEF Inv

LEMMA NextKeepsInv ==
    ASSUME Inv, [Next]_vars
    PROVE  Inv'
<1>1. ASSUME NEW w \in Worker, Work(w) PROVE Inv'
  BY <1>1, AbandonKeeps, StartKeeps, SendKeeps, RecordKeeps, WeighKeeps, VerdictKeeps,
     EndJobKeeps DEF Work
<1>2. CASE UNCHANGED vars
  <2>1. UNCHANGED <<status, attempts, secret, prod, job, pc, on, owed, sent, faults, upsets,
                    slipped, blipped>>
    BY <1>2 DEF vars
  <2>2. Types' /\ Busy' /\ OneLive' /\ IdsInOrder' /\ Inserted' /\ Jobs'
    BY <2>1 DEF Inv, Types, Busy, OneLive, IdsInOrder, Inserted, Jobs
  <2>3. ~slipped' => Locked' /\ Counted' /\ GivenUp'
    BY <2>1 DEF Inv, Locked, Counted, GivenUp
  <2>. QED  BY <2>2, <2>3 DEF Inv
<1>. QED
  BY <1>1, <1>2, ProduceKeeps, CrashKeeps, PickKeeps, StallKeeps, PruneKeeps, RequeueKeeps,
     QueryFailsKeeps, OutsideKeeps DEF Next

LEMMA InvAlways == Spec => []Inv
<1>1. Inv /\ [Next]_vars => Inv'
  BY NextKeepsInv
<1>. QED  BY <1>1, InitInv, PTL DEF Spec

-----------------------------------------------------------------------------
\* Two workers are inside processOne for one row only after a living one lost its
\* lock, whatever crashes, stalls, scans and re-drives happen (email-worker.ts).
THEOREM OneWorkerPerRowAlways == Spec => []OneWorkerPerRow
<1>1. ASSUME Inv PROVE OneWorkerPerRow
  <2>1. Cardinality({r \in Row : status[r] \in Live}) <= 1
    <3> DEFINE S == {r \in Row : status[r] \in Live}
    <3>1. \A r, q \in S : r = q
      BY <1>1 DEF Inv, OneLive
    <3> HIDE DEF S
    <3>2. S = {} \/ \E r : S = {r}
      BY <3>1
    <3>3. Cardinality(S) = 0 \/ Cardinality(S) = 1
      BY <3>2, FS_EmptySet, FS_Singleton
    <3>. QED  BY <3>3 DEF S
  <2>2. TypeOK
    BY <1>1, <2>1 DEF TypeOK, Inv, Types, Busy, Jobs, JobRow, Label
  <2>3. ~slipped => \A v, w \in Worker : on[v] # None /\ on[v] = on[w] => v = w
    BY <1>1, OneEach DEF Inv, Types
  <2>. QED  BY <2>2, <2>3 DEF OneWorkerPerRow
<1>. QED  BY <1>1, InvAlways, PTL

\* The provider accepts a row's message once, and once more for each failure that
\* hid an acceptance (email-worker.ts, processOne).
THEOREM DuplicatesAreFaultsAlways == Spec => []DuplicatesAreFaults
<1>1. Inv => DuplicatesAreFaults
  BY DEF Inv, Counted, DuplicatesAreFaults
<1>. QED  BY <1>1, InvAlways, PTL

\* A row is given up on only when its attempts are used up or its one-time link
\* is, or seemed, gone (email-worker.ts, processOne).
THEOREM DeadIsJustifiedAlways == Spec => []DeadIsJustified
<1>1. Inv => DeadIsJustified
  BY DEF Inv, GivenUp, DeadIsJustified
<1>. QED  BY <1>1, InvAlways, PTL

-----------------------------------------------------------------------------
(* What blocks a row.  While nothing upsets a run, the attempts left to the *)
(* job enqueue added and the attempts counted on the row add up.            *)

\* The job of row r: it is done with an owed row only if the scan added it, and
\* one that enqueue added has, with what the row counts, its full number.
Spends(r) ==
  /\ job[r].state = "active" => job[r].owner # None
  /\ status[r] = "none" => attempts[r] = 0
  /\ status[r] \in Owed =>
       /\ job[r].state # "completed"
       /\ job[r].state = "failed" => job[r].kept
       /\ job[r].state \in {"waiting", "active"} /\ ~job[r].kept
            => attempts[r] + job[r].left >= JobAttempts

\* A worker whose attempt is counted has yet to give it back to BullMQ, and sends
\* a row back to pending only below its last attempt.
Holds(w) ==
  status[on[w]] \in Owed =>
    /\ pc[w] # "finish"
    /\ pc[w] \in {"again", "rethrow"} => attempts[on[w]] < MaxAttempts
    /\ pc[w] \in InFlight \cup {"rethrow"} /\ ~job[on[w]].kept
         => attempts[on[w]] + job[on[w]].left > JobAttempts

\* A producer about to add the job of a row is the only one, and finds no job but
\* the scan's.
FirstJob(p) ==
  /\ \A q \in Producer : prod[q] = prod[p] => q = p
  /\ \/ job[prod[p]].kept
     \/ job[prod[p]].state = "none" /\ attempts[prod[p]] = 0

Budget ==
  upsets = 0 =>
    /\ ~slipped
    /\ \A r \in Row : Spends(r)
    /\ \A w \in Worker : on[w] \in Row => Holds(w)
    /\ \A p \in Producer : prod[p] \in Row => FirstJob(p)

LEMMA InitBudget == Init => Budget
<1> SUFFICES ASSUME Init PROVE Budget
  OBVIOUS
<1>1. /\ \A r \in Row : status[r] = "none" /\ attempts[r] = 0 /\ job[r] = NoJob
      /\ \A w \in Worker : on[w] = None
      /\ \A p \in Producer : prod[p] = None
      /\ ~slipped
  BY DEF Init
<1>2. NoJob.state = "none"
  BY DEF NoJob
<1>. QED  BY <1>1, <1>2, NoneAssumption DEF Budget, Spends, Owed

\* A worker moves on inside processOne: the budget of its row is kept.
LEMMA WorkerSpends ==
    ASSUME Inv, Budget, upsets = 0, NEW w \in Worker, on[w] \in Row,
           \A v \in Worker \ {w} : pc'[v] = pc[v],
           UNCHANGED <<prod, job, on, slipped>>,
           attempts'[on[w]] \in Nat, attempts'[on[w]] >= attempts[on[w]],
           \A q \in Row \ {on[w]} : status'[q] = status[q] /\ attempts'[q] = attempts[q],
           status'[on[w]] # "none",
           status'[on[w]] \in Owed =>
              /\ status[on[w]] \in Owed
              /\ pc'[w] # "finish"
              /\ pc'[w] \in {"again", "rethrow"} => attempts'[on[w]] < MaxAttempts
              /\ pc'[w] \in InFlight \cup {"rethrow"} /\ ~job[on[w]].kept
                    => attempts'[on[w]] + job[on[w]].left > JobAttempts
    PROVE  Budget'
<1> DEFINE r == on[w]
<1>1. /\ ~slipped /\ \A q \in Row : Spends(q)
      /\ \A v \in Worker : on[v] \in Row => Holds(v)
      /\ \A p \in Producer : prod[p] \in Row => FirstJob(p)
  BY DEF Budget
<1>2. \A v \in Worker \ {w} : on[v] # r
  BY <1>1, OneEach
<1>3. /\ job[r].owner = w /\ job[r].state = "active" /\ job[r].left \in Nat
      /\ attempts[r] \in Nat /\ JobAttempts \in Nat
  <2>1. job[r].owner = w /\ job[r].state = "active"
    BY <1>1, NoneAssumption DEF Inv, Locked, Jobs
  <2>2. job[r] \in JobRow /\ attempts[r] \in Nat
    BY DEF Inv, Types
  <2>3. job[r].left \in 0 .. JobAttempts
    BY <2>2, JobFields
  <2>. QED  BY <2>1, <2>2, <2>3, AttemptsAssumption
<1>4. \A q \in Row : Spends(q)'
  <2>1. ASSUME NEW q \in Row, q # r PROVE Spends(q)'
    BY <1>1, <2>1 DEF Spends
  <2>2. Spends(r)'
    <3>1. Spends(r)
      BY <1>1
    <3> HIDE DEF r
    <3>. QED  BY <1>3, <3>1, NoneAssumption DEF Spends, r
  <2>. QED  BY <2>1, <2>2
<1>5. \A v \in Worker : on'[v] \in Row => Holds(v)'
  <2>1. ASSUME NEW v \in Worker, on[v] \in Row, v # w PROVE Holds(v)'
    <3>1. /\ pc'[v] = pc[v] /\ on'[v] = on[v] /\ job' = job
          /\ status'[on[v]] = status[on[v]] /\ attempts'[on[v]] = attempts[on[v]]
      BY <1>2, <2>1
    <3>. QED  BY <1>1, <2>1, <3>1 DEF Holds
  <2>2. Holds(w)'
    BY DEF Holds
  <2>. QED  BY <2>1, <2>2
<1>6. \A p \in Producer : prod'[p] \in Row => FirstJob(p)'
  <2> SUFFICES ASSUME NEW p \in Producer, prod[p] \in Row PROVE FirstJob(p)'
    OBVIOUS
  <2>1. FirstJob(p)
    BY <1>1
  <2>2. CASE prod[p] = r
    BY <1>3, <2>1, <2>2 DEF FirstJob
  <2>3. CASE prod[p] # r
    BY <2>1, <2>3 DEF FirstJob
  <2>. QED  BY <2>2, <2>3
<1>. QED  BY <1>1, <1>4, <1>5, <1>6 DEF Budget

\* What a worker that is not idle may rely on while nothing upset the run.
LEMMA WorkerHolds ==
    ASSUME Inv, Budget, upsets = 0, NEW w \in Worker, pc[w] # "idle"
    PROVE  /\ ~slipped /\ on[w] \in Row
           /\ Spends(on[w]) /\ Holds(w)
           /\ job[on[w]].owner = w /\ job[on[w]].state = "active"
           /\ job[on[w]] \in JobRow /\ job[on[w]].left \in 1 .. JobAttempts
           /\ job[on[w]].kept \in BOOLEAN
           /\ attempts[on[w]] \in Nat /\ attempts \in [Row -> Nat]
           /\ JobAttempts \in Nat /\ MaxAttempts \in Nat
           /\ status \in [Row -> Live \cup {"none", "purged"}]
           /\ status[on[w]] # "none" /\ pc \in [Worker -> Label]
<1>1. ~slipped /\ on[w] \in Row /\ Spends(on[w]) /\ Holds(w)
  BY WorkerAt DEF Budget
<1>2. job[on[w]].owner = w /\ job[on[w]].state = "active" /\ job[on[w]].left >= 1
  BY <1>1, NoneAssumption DEF Inv, Locked, Jobs
<1>3. /\ job[on[w]] \in JobRow /\ attempts \in [Row -> Nat] /\ pc \in [Worker -> Label]
      /\ status \in [Row -> Live \cup {"none", "purged"}]
  BY <1>1 DEF Inv, Types
<1>4. job[on[w]].left \in 0 .. JobAttempts /\ job[on[w]].kept \in BOOLEAN
  BY <1>3, JobFields
<1>5. status[on[w]] # "none"
  BY <1>1 DEF Inv, Inserted
<1>. QED  BY <1>1, <1>2, <1>3, <1>4, <1>5, AttemptsAssumption

\* Each step of processOne keeps the budget.
LEMMA WorkKeepsBudget ==
    ASSUME Inv, Budget, upsets = 0, upsets' = 0, NEW w \in Worker,
           Abandon(w) \/ Start(w) \/ Send(w) \/ Record(w) \/ Weigh(w) \/ Verdict(w)
    PROVE  Budget'
<1> DEFINE r == on[w]
<1>1. pc[w] # "idle" /\ UNCHANGED <<prod, job, on, slipped>>
  BY DEF Abandon, Start, Send, Accept, Refuse, Throw, TimeOut, Record, Weigh, Verdict, faultVars
<1>2. /\ ~slipped /\ r \in Row /\ job[r].left \in 1 .. JobAttempts
      /\ attempts[r] \in Nat /\ attempts \in [Row -> Nat]
      /\ JobAttempts \in Nat /\ MaxAttempts \in Nat
      /\ status \in [Row -> Live \cup {"none", "purged"}]
      /\ status[r] # "none" /\ pc \in [Worker -> Label]
  BY <1>1, WorkerHolds
<1>3. /\ status[r] \in Owed =>
           /\ pc[w] # "finish"
           /\ pc[w] \in {"again", "rethrow"} => attempts[r] < MaxAttempts
           /\ pc[w] \in InFlight \cup {"rethrow"} /\ ~job[r].kept
                => attempts[r] + job[r].left > JobAttempts
      /\ status[r] \in Owed /\ ~job[r].kept => attempts[r] + job[r].left >= JobAttempts
  BY <1>1, WorkerHolds DEF Holds, Spends
<1>4. /\ pc[w] = "loaded" => status[r] \in {"pending", "sending", "purged"}
      /\ pc[w] \in InFlight => status[r] \in {"sending", "purged"}
  BY <1>1, <1>2, WorkerAt
<1>5. ASSUME NEW l, pc' = [pc EXCEPT ![w] = l],
             NEW s, status' = [status EXCEPT ![r] = s], s # "none",
             attempts' = attempts,
             s \in Owed =>
               /\ status[r] \in Owed
               /\ l # "finish"
               /\ l \in {"again", "rethrow"} => attempts[r] < MaxAttempts
               /\ l \in InFlight \cup {"rethrow"} /\ ~job[r].kept
                     => attempts[r] + job[r].left > JobAttempts
      PROVE  Budget'
  <2>1. /\ pc'[w] = l /\ \A v \in Worker \ {w} : pc'[v] = pc[v]
        /\ status'[r] = s /\ \A q \in Row \ {r} : status'[q] = status[q]
        /\ attempts'[r] \in Nat /\ attempts'[r] >= attempts[r]
        /\ \A q \in Row \ {r} : attempts'[q] = attempts[q]
    BY <1>2, <1>5
  <2>. QED  BY <1>1, <1>2, <1>5, <2>1, WorkerSpends
<1>6. [status EXCEPT ![r] = status[r]] = status
  BY <1>2
<1>7. "purged" \notin Owed /\ "dead" \notin Owed /\ "delivered" \notin Owed /\ "failed" \notin Owed
      /\ "sending" \in Owed /\ "pending" \in Owed
  BY DEF Owed
<1>8. CASE Abandon(w)
  <2>1. CASE status[r] = "purged"
    BY <1>2, <1>5, <1>6, <1>7, <1>8, <2>1 DEF Abandon, Goto
  <2>2. CASE status[r] # "purged"
    BY <1>2, <1>5, <1>7, <1>8, <2>2 DEF Abandon, Goto
  <2>. QED  BY <2>1, <2>2
<1>9. CASE Start(w)
  <2>1. CASE status[r] = "purged"
    BY <1>2, <1>5, <1>6, <1>7, <1>9, <2>1 DEF Start, Goto, rowVars
  <2>2. CASE status[r] # "purged"
    <3>1. /\ pc[w] = "loaded" /\ pc' = [pc EXCEPT ![w] = "calling"]
          /\ status' = [status EXCEPT ![r] = "sending"]
          /\ attempts' = [attempts EXCEPT ![r] = @ + 1]
      BY <1>9, <2>2 DEF Start, Goto
    <3>2. /\ pc'[w] = "calling" /\ \A v \in Worker \ {w} : pc'[v] = pc[v]
          /\ status'[r] = "sending" /\ \A q \in Row \ {r} : status'[q] = status[q]
          /\ attempts'[r] = attempts[r] + 1
          /\ \A q \in Row \ {r} : attempts'[q] = attempts[q]
      BY <1>2, <3>1
    <3>3. status[r] \in Owed
      BY <1>4, <1>7, <2>2, <3>1
    <3>4. /\ attempts'[r] \in Nat /\ attempts'[r] >= attempts[r]
          /\ ~job[r].kept => attempts'[r] + job[r].left > JobAttempts
      BY <1>2, <1>3, <3>2, <3>3
    <3>. QED  BY <1>1, <1>2, <3>2, <3>3, <3>4, WorkerSpends
  <2>. QED  BY <2>1, <2>2
<1>10. CASE Send(w)
  <2>1. /\ pc[w] = "calling" /\ status' = status /\ attempts' = attempts
        /\ \E l \in {"accepted", "refused", "threw"} : pc' = [pc EXCEPT ![w] = l]
    BY <1>10 DEF Send, Accept, Refuse, Throw, TimeOut, Goto, rowVars
  <2>2. "calling" \in InFlight
    BY DEF InFlight
  <2>. QED  BY <1>2, <1>3, <1>5, <1>6, <2>1, <2>2
<1>11. CASE Record(w)
  <2>1. CASE status[r] = "purged"
    BY <1>2, <1>5, <1>6, <1>7, <1>11, <2>1 DEF Record, Goto
  <2>2. CASE status[r] # "purged"
    <3> DEFINE s == IF pc[w] = "accepted" THEN "delivered" ELSE "failed"
    <3>1. /\ pc' = [pc EXCEPT ![w] = "finish"] /\ attempts' = attempts
          /\ status' = [status EXCEPT ![r] = s]
      BY <1>11, <2>2 DEF Record, Goto
    <3>2. s # "none" /\ s \notin Owed
      BY <1>7
    <3> HIDE DEF s
    <3>. QED  BY <1>5, <3>1, <3>2
  <2>. QED  BY <2>1, <2>2
<1>12. CASE Weigh(w)
  <2> DEFINE l == IF status[r] = "purged" \/ attempts[r] >= MaxAttempts THEN "spent" ELSE "again"
  <2>1. /\ pc[w] = "threw" /\ pc' = [pc EXCEPT ![w] = l] /\ status' = status
        /\ attempts' = attempts
    BY <1>12 DEF Weigh, Goto, rowVars
  <2>2. l \in {"spent", "again"} /\ (l = "again" => attempts[r] < MaxAttempts)
    BY <1>2
  <2>3. "threw" \in InFlight
    BY DEF InFlight
  <2> HIDE DEF l
  <2>. QED  BY <1>2, <1>3, <1>5, <1>6, <2>1, <2>2, <2>3
<1>13. CASE Verdict(w)
  <2>1. /\ pc[w] \in {"spent", "again"} /\ pc' = [pc EXCEPT ![w] = "rethrow"]
        /\ attempts' = attempts
    BY <1>13 DEF Verdict, Goto
  <2>2. CASE status[r] = "purged"
    BY <1>5, <1>6, <1>7, <1>13, <2>1, <2>2 DEF Verdict
  <2>3. CASE status[r] # "purged" /\ pc[w] = "spent"
    <3>1. status' = [status EXCEPT ![r] = "dead"]
      BY <1>13, <2>3 DEF Verdict
    <3>. QED  BY <1>5, <1>7, <2>1, <3>1
  <2>4. CASE status[r] # "purged" /\ pc[w] = "again"
    <3>1. status' = [status EXCEPT ![r] = "pending"]
      BY <1>13, <2>4 DEF Verdict
    <3>2. "again" \in InFlight
      BY DEF InFlight
    <3>3. status[r] \in Owed
      BY <1>4, <1>7, <2>4, <3>2
    <3>4. /\ attempts[r] < MaxAttempts
          /\ "rethrow" \in InFlight \cup {"rethrow"} /\ ~job[r].kept
               => attempts[r] + job[r].left > JobAttempts
      BY <1>3, <2>4, <3>2, <3>3
    <3>5. "rethrow" # "finish" /\ "pending" # "none"
      OBVIOUS
    <3>. QED  BY <1>5, <2>1, <3>1, <3>3, <3>4, <3>5, Zenon
  <2>. QED  BY <2>1, <2>2, <2>3, <2>4
<1>. QED  BY <1>8, <1>9, <1>10, <1>11, <1>12, <1>13

\* BullMQ takes the attempt back.  The last one of enqueue's job is the last one
\* of the row too, so that the row has its verdict.
LEMMA EndJobKeepsBudget ==
    ASSUME MaxAttempts <= JobAttempts, Inv, Budget, upsets = 0, NEW w \in Worker, EndJob(w)
    PROVE  Budget'
<1>1. /\ pc[w] \in {"finish", "rethrow"}
      /\ pc' = [pc EXCEPT ![w] = "idle"] /\ on' = [on EXCEPT ![w] = None]
      /\ UNCHANGED <<status, attempts, prod, upsets, slipped>>
  BY DEF EndJob, Goto, rowVars, faultVars
<1> PICK r : r = on[w]
  OBVIOUS
<1>2. /\ ~slipped /\ r \in Row /\ Spends(r) /\ Holds(w)
      /\ job[r].owner = w /\ job[r].state = "active"
      /\ job[r] \in JobRow /\ job[r].left \in 1 .. JobAttempts
      /\ attempts[r] \in Nat /\ JobAttempts \in Nat /\ MaxAttempts \in Nat
  BY <1>1, WorkerHolds
<1>3. /\ job \in [Row -> JobRow] /\ on \in [Worker -> Row \cup {None}] /\ pc \in [Worker -> Label]
  BY DEF Inv, Types
<1>4. PICK j : /\ job' = [job EXCEPT ![r] = j] /\ j.kept = job[r].kept
               /\ j.state = IF pc[w] = "finish" THEN "completed"
                            ELSE IF job[r].left > 1 THEN "waiting" ELSE "failed"
               /\ j.left = IF pc[w] = "rethrow" THEN job[r].left - 1 ELSE job[r].left
  <2> DEFINE s == IF pc[w] = "finish" THEN "completed"
                  ELSE IF job[r].left > 1 THEN "waiting" ELSE "failed"
             n == IF pc[w] = "rethrow" THEN job[r].left - 1 ELSE job[r].left
             j == [job[r] EXCEPT !.owner = None, !.state = s, !.left = n]
  <2>1. job' = [job EXCEPT ![r].owner = None, ![r].state = s, ![r].left = n]
    <3>1. job' = [job EXCEPT ![r].owner = None,
                             ![r].state = IF pc[w] = "finish" THEN "completed"
                                          ELSE IF @ = "active" /\ job[r].left > 1
                                          THEN "waiting" ELSE "failed",
                             ![r].left = IF pc[w] = "rethrow" THEN @ - 1 ELSE @]
      BY <1>2 DEF EndJob
    <3>. QED  BY <1>2, <1>3, <3>1, Zenon
  <2> HIDE DEF s, n
  <2>2. j.state = s /\ j.left = n /\ j.kept = job[r].kept
    BY <1>2, Zenon DEF JobRow
  <2>3. job' = [job EXCEPT ![r] = j]
    BY <2>1, Zenon
  <2>. QED  BY <2>2, <2>3, Zenon DEF s, n
<1>5. /\ \A q \in Row : job'[q] = IF q = r THEN j ELSE job[q]
      /\ \A v \in Worker : pc'[v] = IF v = w THEN "idle" ELSE pc[v]
      /\ \A v \in Worker : on'[v] = IF v = w THEN None ELSE on[v]
  BY <1>1, <1>3, <1>4
<1>6. /\ ~slipped /\ \A q \in Row : Spends(q)
      /\ \A v \in Worker : on[v] \in Row => Holds(v)
      /\ \A p \in Producer : prod[p] \in Row => FirstJob(p)
  BY DEF Budget
<1>7. \A v \in Worker \ {w} : on[v] # r
  BY <1>2, OneEach
<1>8. Spends(r)'
  <2>1. j.state \in {"completed", "waiting", "failed"}
    BY <1>4
  <2>2. status[r] = "none" => attempts[r] = 0
    BY <1>2 DEF Spends
  <2>3. ASSUME status[r] \in Owed
        PROVE  /\ j.state # "completed"
               /\ j.state = "failed" => j.kept
               /\ j.state = "waiting" /\ ~j.kept => attempts[r] + j.left >= JobAttempts
    <3>1. pc[w] = "rethrow" /\ attempts[r] < MaxAttempts
      BY <1>1, <1>2, <2>3 DEF Holds
    <3>2. ~job[r].kept => attempts[r] + job[r].left > JobAttempts
      BY <1>2, <2>3, <3>1 DEF Holds
    <3>3. j.left = job[r].left - 1 /\ j.state = IF job[r].left > 1 THEN "waiting" ELSE "failed"
      BY <1>4, <3>1
    <3>4. CASE j.kept
      BY <3>3, <3>4
    <3>5. CASE ~j.kept
      <4>1. attempts[r] + job[r].left > JobAttempts
        BY <1>4, <3>2, <3>5
      <4>2. job[r].left > 1
        BY <1>2, <3>1, <4>1
      <4>. QED  BY <1>2, <3>3, <4>1, <4>2
    <3>. QED  BY <3>4, <3>5
  <2>4. job'[r] = j /\ status'[r] = status[r] /\ attempts'[r] = attempts[r]
    BY <1>1, <1>2, <1>5
  <2>. QED  BY <2>1, <2>2, <2>3, <2>4, Zenon DEF Spends
<1>9. \A q \in Row : Spends(q)'
  <2>1. ASSUME NEW q \in Row, q # r PROVE Spends(q)'
    BY <1>1, <1>5, <1>6, <2>1 DEF Spends
  <2>. QED  BY <1>8, <2>1
<1>10. \A v \in Worker : on'[v] \in Row => Holds(v)'
  <2> SUFFICES ASSUME NEW v \in Worker, on'[v] \in Row PROVE Holds(v)'
    OBVIOUS
  <2>1. /\ on'[v] = on[v] /\ pc'[v] = pc[v] /\ on[v] \in Row /\ job'[on[v]] = job[on[v]]
    BY <1>5, <1>7, NoneAssumption
  <2>. QED  BY <1>1, <1>6, <2>1 DEF Holds
<1>11. \A p \in Producer : prod'[p] \in Row => FirstJob(p)'
  <2> SUFFICES ASSUME NEW p \in Producer, prod[p] \in Row PROVE FirstJob(p)'
    BY <1>1
  <2>1. FirstJob(p)
    BY <1>6
  <2>2. CASE prod[p] = r
    BY <1>1, <1>2, <1>4, <1>5, <2>1, <2>2 DEF FirstJob
  <2>3. CASE prod[p] # r
    BY <1>1, <1>5, <2>1, <2>3 DEF FirstJob
  <2>. QED  BY <2>2, <2>3
<1>. QED  BY <1>1, <1>6, <1>9, <1>10, <1>11 DEF Budget

\* A worker takes a job: nobody has it, and a finished row is not its business.
LEMMA PickKeepsBudget ==
    ASSUME Inv, Budget, upsets = 0, NEW w \in Worker, NEW r \in Row, Pick(w, r)
    PROVE  Budget'
<1> DEFINE l == IF status[r] \in Terminal \cup {"purged"} THEN "finish" ELSE "loaded"
           j == [job[r] EXCEPT !.state = "active", !.owner = w]
<1>1. /\ pc[w] = "idle" /\ job[r].state = "waiting"
      /\ on' = [on EXCEPT ![w] = r] /\ pc' = [pc EXCEPT ![w] = l]
      /\ UNCHANGED <<status, attempts, prod, upsets, slipped>>
  BY DEF Pick, Goto, rowVars, faultVars
<1>2. job' = [job EXCEPT ![r] = j]
  BY Zenon DEF Pick
<1>3. /\ job \in [Row -> JobRow] /\ job[r] \in JobRow /\ pc \in [Worker -> Label]
      /\ on \in [Worker -> Row \cup {None}]
  BY DEF Inv, Types
<1>4. j.state = "active" /\ j.owner = w /\ j.left = job[r].left /\ j.kept = job[r].kept
  BY <1>3, Zenon DEF JobRow
<1>5. l \in {"finish", "loaded"} /\ (status[r] \in Owed => l # "finish")
  BY DEF Owed, Terminal
<1>6. /\ ~slipped /\ \A q \in Row : Spends(q)
      /\ \A v \in Worker : on[v] \in Row => Holds(v)
      /\ \A p \in Producer : prod[p] \in Row => FirstJob(p)
  BY DEF Budget
<1> HIDE DEF l, j
<1>7. /\ \A q \in Row : job'[q] = IF q = r THEN j ELSE job[q]
      /\ \A v \in Worker : pc'[v] = IF v = w THEN l ELSE pc[v]
      /\ \A v \in Worker : on'[v] = IF v = w THEN r ELSE on[v]
  BY <1>1, <1>2, <1>3
<1>8. \A v \in Worker : on[v] # r
  BY <1>1, <1>6, NoneAssumption DEF Inv, Locked, Jobs
<1>9. \A q \in Row : Spends(q)'
  <2>1. ASSUME NEW q \in Row, q # r PROVE Spends(q)'
    BY <1>1, <1>6, <1>7, <2>1 DEF Spends
  <2>2. Spends(r)'
    <3>1. /\ Spends(r) /\ job'[r] = j /\ status'[r] = status[r] /\ attempts'[r] = attempts[r]
          /\ w # None
      BY <1>1, <1>6, <1>7, NoneAssumption
    <3>. QED  BY <1>1, <1>4, <3>1 DEF Spends
  <2>. QED  BY <2>1, <2>2
<1>10. \A v \in Worker : on'[v] \in Row => Holds(v)'
  <2>1. ASSUME NEW v \in Worker, on[v] \in Row, v # w PROVE Holds(v)'
    <3>1. /\ on'[v] = on[v] /\ pc'[v] = pc[v] /\ job'[on[v]] = job[on[v]]
      BY <1>7, <1>8, <2>1
    <3>. QED  BY <1>1, <1>6, <2>1, <3>1 DEF Holds
  <2>2. Holds(w)'
    <3>1. on'[w] = r /\ pc'[w] = l
      BY <1>7
    <3>. QED  BY <1>1, <1>5, <3>1 DEF Holds, InFlight
  <2>. QED  BY <1>7, <2>1, <2>2
<1>11. \A p \in Producer : prod'[p] \in Row => FirstJob(p)'
  <2> SUFFICES ASSUME NEW p \in Producer, prod[p] \in Row PROVE FirstJob(p)'
    BY <1>1
  <2>1. FirstJob(p)
    BY <1>6
  <2>2. CASE prod[p] = r
    BY <1>1, <1>4, <1>7, <2>1, <2>2 DEF FirstJob
  <2>3. CASE prod[p] # r
    BY <1>1, <1>7, <2>1, <2>3 DEF FirstJob
  <2>. QED  BY <2>2, <2>3
<1>. QED  BY <1>1, <1>6, <1>9, <1>10, <1>11 DEF Budget

\* The queue's step on a job nobody works on, with the producers that then have
\* no job to add.
LEMMA QueueKeepsBudget ==
    ASSUME Inv, Budget, upsets = 0, NEW r \in Row, NEW j, job' = [job EXCEPT ![r] = j],
           UNCHANGED <<status, attempts, pc, on, slipped>>,
           prod' \in [Producer -> {None} \cup Row],
           \A p \in Producer : prod'[p] \in {prod[p], None},
           \/ j = job[r]
           \/ /\ job[r].state \notin {"active", "waiting"} /\ j.state # "active"
              /\ j.state \in {"none", "waiting"}
              /\ j.state = "waiting" /\ ~j.kept /\ status[r] \in Owed
                    => attempts[r] + j.left >= JobAttempts
              /\ j.kept \/ \A p \in Producer : prod'[p] # r
    PROVE  Budget'
<1>1. /\ ~slipped /\ \A q \in Row : Spends(q)
      /\ \A v \in Worker : on[v] \in Row => Holds(v)
      /\ \A p \in Producer : prod[p] \in Row => FirstJob(p)
  BY DEF Budget
<1>2. \A q \in Row : job'[q] = IF q = r THEN j ELSE job[q]
  BY DEF Inv, Types
<1>3. j = job[r] \/ \A v \in Worker : on[v] # r
  BY <1>1, NoneAssumption DEF Inv, Locked, Jobs
<1>4. \A q \in Row : Spends(q)'
  <2>1. ASSUME NEW q \in Row, q # r PROVE Spends(q)'
    BY <1>1, <1>2, <2>1 DEF Spends
  <2>2. Spends(r)'
    <3>1. Spends(r) /\ job'[r] = j
      BY <1>1, <1>2
    <3>2. CASE j = job[r]
      BY <3>1, <3>2 DEF Spends
    <3>3. CASE j # job[r]
      BY <3>1, <3>3 DEF Spends
    <3>. QED  BY <3>2, <3>3
  <2>. QED  BY <2>1, <2>2
<1>5. \A v \in Worker : on'[v] \in Row => Holds(v)'
  <2> SUFFICES ASSUME NEW v \in Worker, on[v] \in Row PROVE Holds(v)'
    OBVIOUS
  <2>1. job'[on[v]] = job[on[v]]
    BY <1>2, <1>3
  <2>. QED  BY <1>1, <2>1 DEF Holds
<1>6. \A p \in Producer : prod'[p] \in Row => FirstJob(p)'
  <2> SUFFICES ASSUME NEW p \in Producer, prod'[p] \in Row PROVE FirstJob(p)'
    OBVIOUS
  <2>1. prod'[p] = prod[p] /\ FirstJob(p)
    BY <1>1, NoneAssumption
  <2>2. \A q \in Producer : prod'[q] = prod'[p] => q = p
    BY <2>1, NoneAssumption DEF FirstJob
  <2>3. CASE prod[p] # r
    BY <1>2, <2>1, <2>2, <2>3 DEF FirstJob
  <2>4. CASE prod[p] = r
    BY <1>2, <2>1, <2>2, <2>4 DEF FirstJob
  <2>. QED  BY <2>3, <2>4
<1>. QED  BY <1>1, <1>4, <1>5, <1>6 DEF Budget

\* queue.add, by enqueue or by the scan, and the pruning of finished jobs.
LEMMA JobsKeepBudget ==
    ASSUME Inv, Budget, upsets = 0,
           \/ \E p \in Producer : AddJob(p) \/ AddLost(p)
           \/ \E r \in Row : Requeue(r) \/ Prune(r) \/ StallOrphan(r)
    PROVE  Budget'
<1>1. /\ job \in [Row -> JobRow] /\ prod \in [Producer -> {None} \cup Row]
      /\ attempts \in [Row -> Nat] /\ JobAttempts \in Nat
      /\ \A r \in Row : job[r].state \in {"none", "waiting", "active", "completed", "failed"}
  <2>1. job \in [Row -> JobRow] /\ prod \in [Producer -> {None} \cup Row]
        /\ attempts \in [Row -> Nat]
    BY DEF Inv, Types
  <2>. QED  BY <2>1, JobFields, AttemptsAssumption
<1>2. ASSUME NEW r \in Row PROVE job = [job EXCEPT ![r] = job[r]]
  BY <1>1
<1>3. ASSUME NEW p \in Producer, AddJob(p) \/ AddLost(p) PROVE Budget'
  <2>1. PICK r : r = prod[p]
    OBVIOUS
  <2>2. /\ r \in Row /\ prod' = [prod EXCEPT ![p] = None]
        /\ UNCHANGED <<status, attempts, pc, on, slipped>>
    BY <1>3, <2>1 DEF AddJob, AddLost, rowVars, faultVars
  <2>3. /\ prod' \in [Producer -> {None} \cup Row]
        /\ \A q \in Producer : prod'[q] = IF q = p THEN None ELSE prod[q]
    BY <1>1, <2>2
  <2>4. FirstJob(p)
    BY <2>1, <2>2 DEF Budget
  <2>5. CASE job' = job
    <3>1. \A q \in Producer : prod'[q] \in {prod[q], None}
      BY <2>3
    <3>. QED  BY <1>2, <2>2, <2>3, <2>5, <3>1, QueueKeepsBudget
  <2>6. CASE job' # job
    <3> DEFINE j == NewJob(JobAttempts, FALSE)
    <3>1. job[r].state = "none" /\ job' = [job EXCEPT ![r] = j]
      BY <1>3, <2>1, <2>6 DEF AddJob, AddLost, Add
    <3>2. j.state = "waiting" /\ j.left = JobAttempts /\ ~j.kept
      BY DEF NewJob
    <3> HIDE DEF j
    <3>3. \A q \in Producer : prod'[q] # r /\ prod'[q] \in {prod[q], None}
      BY <2>1, <2>2, <2>3, <2>4, NoneAssumption DEF FirstJob
    <3>4. attempts[r] + j.left >= JobAttempts
      BY <1>1, <2>2, <3>2
    <3>. QED  BY <2>2, <2>3, <3>1, <3>2, <3>3, <3>4, QueueKeepsBudget
  <2>. QED  BY <2>5, <2>6
<1>4. ASSUME NEW r \in Row, Requeue(r) PROVE Budget'
  <2>1. /\ job' = Add(r, NewJob(1, TRUE)) /\ prod' = prod
        /\ UNCHANGED <<status, attempts, pc, on, slipped>>
    BY <1>4 DEF Requeue, rowVars, faultVars
  <2>2. CASE job' = job
    BY <1>1, <1>2, <2>1, <2>2, QueueKeepsBudget
  <2>3. CASE job' # job
    <3> DEFINE j == NewJob(1, TRUE)
    <3>1. job[r].state = "none" /\ job' = [job EXCEPT ![r] = j]
      BY <2>1, <2>3 DEF Add
    <3>2. j.state = "waiting" /\ j.kept
      BY DEF NewJob
    <3> HIDE DEF j
    <3>. QED  BY <1>1, <2>1, <3>1, <3>2, QueueKeepsBudget
  <2>. QED  BY <2>2, <2>3
<1>5. ASSUME NEW r \in Row, Prune(r) PROVE Budget'
  <2>1. /\ job[r].state \in {"completed", "failed"} /\ ~job[r].kept
        /\ job' = [job EXCEPT ![r] = NoJob] /\ prod' = prod
        /\ UNCHANGED <<status, attempts, pc, on, slipped>>
    BY <1>5 DEF Prune, rowVars, faultVars
  <2>2. \A p \in Producer : prod[p] # r
    BY <2>1 DEF Budget, FirstJob
  <2>3. NoJob.state = "none"
    BY DEF NoJob
  <2>. QED  BY <1>1, <2>1, <2>2, <2>3, QueueKeepsBudget
<1>6. ASSUME NEW r \in Row, StallOrphan(r) PROVE Budget'
  BY <1>6 DEF StallOrphan, Budget, Spends
<1>. QED  BY <1>3, <1>4, <1>5, <1>6

\* A new row has counted no attempt and has no job.
LEMMA InsertKeepsBudget ==
    ASSUME Inv, Budget, upsets = 0, NEW p \in Producer, NEW r \in Row, Insert(p, r)
    PROVE  Budget'
<1>1. /\ prod[p] = None /\ r = 1 + Cardinality({i \in Row : status[i] # "none"})
      /\ status' = [status EXCEPT ![r] = "pending"] /\ prod' = [prod EXCEPT ![p] = r]
      /\ UNCHANGED <<attempts, job, pc, on, slipped>>
  BY DEF Insert, faultVars
<1>2. status[r] = "none"
  BY <1>1, NextId
<1>3. /\ ~slipped /\ \A q \in Row : Spends(q)
      /\ \A v \in Worker : on[v] \in Row => Holds(v)
      /\ \A o \in Producer : prod[o] \in Row => FirstJob(o)
  BY DEF Budget
<1>4. /\ attempts[r] = 0 /\ job[r].state = "none"
      /\ \A v \in Worker : on[v] # r
      /\ \A o \in Producer : prod[o] # r
  BY <1>2, <1>3 DEF Spends, Inv, Inserted
<1>5. /\ \A q \in Row : status'[q] = IF q = r THEN "pending" ELSE status[q]
      /\ \A o \in Producer : prod'[o] = IF o = p THEN r ELSE prod[o]
  BY <1>1 DEF Inv, Types
<1>6. \A q \in Row : Spends(q)'
  <2>1. ASSUME NEW q \in Row, q # r PROVE Spends(q)'
    BY <1>1, <1>3, <1>5, <2>1 DEF Spends
  <2>2. Spends(r)'
    BY <1>1, <1>4, <1>5 DEF Spends
  <2>. QED  BY <2>1, <2>2
<1>7. \A v \in Worker : on'[v] \in Row => Holds(v)'
  <2> SUFFICES ASSUME NEW v \in Worker, on[v] \in Row PROVE Holds(v)'
    BY <1>1
  <2>1. status'[on[v]] = status[on[v]]
    BY <1>4, <1>5
  <2>. QED  BY <1>1, <1>3, <2>1 DEF Holds
<1>8. \A o \in Producer : prod'[o] \in Row => FirstJob(o)'
  <2> SUFFICES ASSUME NEW o \in Producer, prod'[o] \in Row PROVE FirstJob(o)'
    OBVIOUS
  <2>1. CASE o = p
    BY <1>1, <1>4, <1>5, <2>1 DEF FirstJob
  <2>2. CASE o # p
    <3>1. FirstJob(o) /\ prod'[o] = prod[o] /\ prod[o] # r
      BY <1>3, <1>4, <1>5, <2>2
    <3>. QED  BY <1>1, <1>5, <3>1 DEF FirstJob
  <2>. QED  BY <2>1, <2>2
<1>. QED  BY <1>1, <1>3, <1>6, <1>7, <1>8 DEF Budget

\* The scan moves a row from sending to pending, a deletion takes it away: neither
\* makes a row owed that was not.
LEMMA StatusKeepsBudget ==
    ASSUME Inv, Budget, upsets = 0,
           UNCHANGED <<attempts, prod, job, pc, on, slipped>>,
           \A q \in Row : /\ status'[q] \in Owed => status[q] \in Owed
                          /\ status'[q] = "none" => status[q] = "none"
    PROVE  Budget'
<1>1. /\ ~slipped /\ \A q \in Row : Spends(q)
      /\ \A v \in Worker : on[v] \in Row => Holds(v)
      /\ \A p \in Producer : prod[p] \in Row => FirstJob(p)
  BY DEF Budget
<1>2. ASSUME NEW q \in Row PROVE Spends(q)'
  BY <1>1 DEF Spends
<1>3. ASSUME NEW v \in Worker, on[v] \in Row PROVE Holds(v)'
  BY <1>1, <1>3 DEF Holds
<1>4. ASSUME NEW p \in Producer, prod[p] \in Row PROVE FirstJob(p)'
  BY <1>1, <1>4 DEF FirstJob
<1>. QED  BY <1>1, <1>2, <1>3, <1>4 DEF Budget

LEMMA NextKeepsBudget ==
    ASSUME MaxAttempts <= JobAttempts, Inv, Budget, [Next]_vars
    PROVE  Budget'
<1>1. upsets \in Nat /\ (upsets' = upsets \/ Upset)
  <2>1. upsets \in Nat
    BY NoneAssumption DEF Inv, Types
  <2>. QED
    BY <2>1 DEF Next, vars, Produce, Insert, AddJob, AddLost, Work, Abandon, Start, Send, Accept,
       Refuse, Throw, TimeOut, Record, Weigh, Verdict, EndJob, QueryFails, Crash, Pick, StallOrphan,
       StallSlow, Prune, Requeue, Redrive, Purge, SecretLapses, RunRecovery, faultVars
<1>2. CASE upsets' # 0
  BY <1>2 DEF Budget
<1>3. CASE upsets' = 0
  <2>1. upsets = 0 /\ ~Upset
    BY <1>1, <1>3 DEF Upset
  <2>2. ASSUME NEW w \in Worker, Work(w) PROVE Budget'
    BY <1>3, <2>1, <2>2, WorkKeepsBudget, EndJobKeepsBudget DEF Work
  <2>3. ASSUME NEW p \in Producer, Produce(p) PROVE Budget'
    BY <2>1, <2>3, InsertKeepsBudget, JobsKeepBudget DEF Produce
  <2>4. ASSUME NEW w \in Worker, NEW r \in Row, Pick(w, r) PROVE Budget'
    BY <2>1, <2>4, PickKeepsBudget
  <2>5. ASSUME NEW r \in Row, StallOrphan(r) \/ Prune(r) \/ Requeue(r) PROVE Budget'
    BY <2>1, <2>5, JobsKeepBudget
  <2>6. ASSUME NEW r \in Row, Purge(r) PROVE Budget'
    <3>1. /\ status' = [status EXCEPT ![r] = "purged"]
          /\ UNCHANGED <<attempts, prod, job, pc, on, slipped>>
      BY <2>6 DEF Purge, faultVars
    <3>2. \A q \in Row : status'[q] = IF q = r THEN "purged" ELSE status[q]
      BY <3>1 DEF Inv, Types
    <3>3. "purged" \notin Owed /\ "purged" # "none"
      BY DEF Owed
    <3>. QED  BY <2>1, <3>1, <3>2, <3>3, StatusKeepsBudget
  <2>7. CASE SecretLapses
    BY <2>1, <2>7, StatusKeepsBudget DEF SecretLapses, rowVars, faultVars
  <2>8. CASE RunRecovery
    <3>1. /\ \A q \in Row : status'[q] = IF Orphaned(q) THEN "pending" ELSE status[q]
          /\ UNCHANGED <<attempts, prod, job, pc, on, slipped>>
      BY <2>8 DEF RunRecovery, Recovered, faultVars
    <3>2. \A q \in Row : Orphaned(q) => status[q] \in Owed
      BY DEF Orphaned, Owed
    <3>. QED  BY <2>1, <3>1, <3>2, StatusKeepsBudget
  <2>9. CASE UNCHANGED vars
    BY <2>1, <2>9, StatusKeepsBudget DEF vars
  <2>10. /\ \A w \in Worker : ~Crash(w) /\ ~QueryFails(w)
         /\ \A r \in Row : ~StallSlow(r) /\ ~Redrive(r)
    BY <2>1 DEF Crash, QueryFails, StallSlow, Redrive
  <2>. QED
    BY <2>2, <2>3, <2>4, <2>5, <2>6, <2>7, <2>8, <2>9, <2>10 DEF Next
<1>. QED  BY <1>2, <1>3

\* What strands a row: the job that holds an owed row back is one the recovery scan
\* added itself, which has one attempt and is kept for ever.
OnlyTheScanBlocks ==
  upsets = 0 => \A r \in Row : Blocked(r) => job[r].kept

\* Without a crash, a lost lock, a failed read or a re-drive, and with a job that has
\* at least the attempts of its row (email.service.ts gives both EMAIL_MAX_ATTEMPTS,
\* or the row fewer), the retries of enqueue's own job never end before the row has its
\* verdict: whatever times out, is refused, deleted or lost in enqueue, a pending row is
\* blocked only by a job of the recovery scan (email-worker.ts, the recovery queue).
THEOREM OnlyTheScanBlocksAlways ==
    ASSUME MaxAttempts <= JobAttempts
    PROVE  Spec => []OnlyTheScanBlocks
<1>1. Inv /\ Budget /\ [Next]_vars => Budget'
  BY NextKeepsBudget
<1>2. Inv /\ Budget => OnlyTheScanBlocks
  BY DEF Budget, Spends, OnlyTheScanBlocks, Blocked, Owed
<1>. QED  BY <1>1, <1>2, InitBudget, InvAlways, PTL DEF Spec
=============================================================================
