--------------------------- MODULE StripeBilling ---------------------------
(***************************************************************************)
(* Subscriptions as Stripe sells them and as the control plane records     *)
(* them: stripe-webhook.controller.ts takes events into custody, the       *)
(* handlers of billing.service.ts apply them to the library's one          *)
(* subscriptions row, stripe-retry.job.ts re-runs the ones that failed,    *)
(* and an operator may move the library onto a contract.                   *)
(*                                                                         *)
(* Stripe emits events in an order of its own and delivers each until it   *)
(* is answered 200, in any order, concurrently and more than once.  An     *)
(* event is its index in `ev`: `created` is the order of emission.         *)
(***************************************************************************)
EXTENDS Naturals, Sequences, FiniteSets

CONSTANTS
  Sub,          \* Stripe subscription ids, numbered as they are created
  Plan,         \* plans with a Stripe price
  Trial,        \* subscriptions that may begin with a trial
  Guarded,      \* is every purchase one that startCheckout let through?
  MaxRequests,  \* bound: webhook requests and sweep ticks at a time
  MaxEvents,    \* bound: events Stripe emits
  MaxPeriods,   \* bound: renewals
  MaxUpsets,    \* bound: crashes and failed dispatches
  Starter, Contract,   \* the free plan; the plan an operator sets by hand
  None

ASSUME SubAssumption == Sub \subseteq Nat /\ None \notin Sub
ASSUME BoundAssumption ==
  /\ MaxEvents \in Nat /\ MaxPeriods \in Nat /\ MaxUpsets \in Nat
  /\ None \notin 0 .. MaxPeriods
ASSUME PlanAssumption == Starter \notin Plan /\ Contract \notin Plan /\ Starter # Contract

VARIABLES
  stripe,     \* Sub -> [status, plan, period] at Stripe
  ev,         \* the events Stripe has emitted
  acked,      \* events Stripe has a 200 for
  custody,    \* event -> "none", "held" or "failed" (processedAt null, with no
              \* error or one), "done"
  abandoned,  \* unfinished events received more than GIVE_UP_AFTER_MS ago
  lock,       \* events whose Redis key is set
  marker,     \* Sub -> newest event applied (Redis), 0 for none
  row,        \* the library's subscriptions row
  busy,       \* the requests and ticks that run: the event, how they came by it
              \* ("live" with its key, "unkeyed", "sweep") and where they are
  admin,      \* the operator's move: "no", begun as "unsold" or "stopped",
              \* written as "granted" or "replaced"
  overlapped, \* history: two handlers, or a handler and the operator, have run together
  upsets      \* crashes, failed dispatches, unanswered Redis calls so far

vars == <<stripe, ev, acked, custody, abandoned, lock, marker, row, busy, admin, overlapped, upsets>>

Events == 1 .. Len(ev)

(* STRIPE_LIVE_STATUSES; and what Stripe can say of a subscription in all. *)
Live == {"active", "trialing", "past_due", "paused"}
Status == Live \cup {"none", "incomplete", "incomplete_expired", "unpaid", "canceled"}
Ended == {"canceled", "incomplete_expired"}

Place == {"dispatch", "apply", "record", "mark", "drop", "settle", "finish"}

TypeOK ==
  /\ stripe \in [Sub -> [status : Status, plan : Plan \cup {None}, period : 0 .. MaxPeriods]]
  /\ Len(ev) <= MaxEvents
  /\ acked \subseteq Events /\ lock \subseteq Events /\ abandoned \subseteq Events
  /\ custody \in [1 .. MaxEvents -> {"none", "held", "failed", "done"}]
  /\ marker \in [Sub -> 0 .. MaxEvents]
  /\ row \in [plan : Plan \cup {Starter, Contract}, mode : {"stripe", "manual"},
              status : {"active", "trialing", "past_due", "paused", "canceled"},
              sub : Sub \cup {None}, period : {None} \cup 0 .. MaxPeriods, grace : BOOLEAN]
  /\ busy \subseteq [e : Events, via : {"live", "unkeyed", "sweep"}, at : Place]
  /\ admin \in {"no", "unsold", "stopped", "granted", "replaced"}
  /\ row.mode = "stripe" /\ row.plan \in Plan => row.sub # None
  /\ (row.grace => row.status = "past_due")

Init ==
  /\ stripe = [s \in Sub |-> [status |-> "none", plan |-> None, period |-> 0]]
  /\ ev = <<>>
  /\ acked = {} /\ lock = {} /\ abandoned = {}
  /\ custody = [e \in 1 .. MaxEvents |-> "none"]
  /\ marker = [s \in Sub |-> 0]
  /\ row = [plan |-> Starter, mode |-> "stripe", status |-> "active", sub |-> None,
            period |-> None, grace |-> FALSE]
  /\ busy = {}
  /\ admin = "no"
  /\ overlapped = FALSE
  /\ upsets = 0

-----------------------------------------------------------------------------
(* Stripe. *)

Snapshot(kind, s, st) ==
  [kind |-> kind, sub |-> s, status |-> st.status, plan |-> st.plan, period |-> st.period]

(* Events beyond the bound are ones that have yet to arrive. *)
Emit(s, st, kinds) ==
  /\ Len(ev) < MaxEvents
  /\ stripe' = [stripe EXCEPT ![s] = st]
  /\ ev' = SubSeq(ev \o [i \in 1 .. Len(kinds) |-> Snapshot(kinds[i], s, st)], 1,
                  IF Len(ev) + Len(kinds) < MaxEvents THEN Len(ev) + Len(kinds) ELSE MaxEvents)
  /\ UNCHANGED <<acked, custody, abandoned, lock, marker, row, busy, overlapped, upsets>>

(* A purchase, through Checkout, which startCheckout opens when none is live, or  *)
(* made in the Dashboard.  Periods are known by the day they start, counted from   *)
(* the first purchase: a later one starts no earlier.                              *)
Subscribe(s, p, status) ==
  /\ stripe[s].status = "none" /\ \A t \in Sub : t < s => stripe[t].status # "none"
  /\ Guarded => \A t \in Sub : stripe[t].status \notin Live
  /\ status = "trialing" => s \in Trial
  /\ \E kinds \in {<<"updated">>, <<"completed", "updated">>, <<"updated", "first_failed">>} :
       /\ kinds[Len(kinds)] = "first_failed" <=> status = "incomplete"
       /\ \E day \in 0 .. MaxPeriods :
            /\ \A t \in Sub : stripe[t].period <= day
            /\ (\A t \in Sub : stripe[t].status = "none") => day = 0
            /\ Emit(s, [status |-> status, plan |-> p, period |-> day], kinds)
  /\ UNCHANGED admin

Reprice(s, p) ==
  /\ stripe[s].status \in Live /\ stripe[s].plan # p
  /\ Emit(s, [stripe[s] EXCEPT !.plan = p], <<"updated">>)
  /\ UNCHANGED admin

Renew(s) ==
  /\ stripe[s].status = "active" /\ stripe[s].period < MaxPeriods
  /\ Emit(s, [stripe[s] EXCEPT !.period = @ + 1], <<"updated">>)
  /\ UNCHANGED admin

(* An invoice after the first one is not paid: a renewal's, or a trial's. *)
RenewalFails(s) ==
  /\ stripe[s].status \in {"active", "trialing"}
  /\ Emit(s, [stripe[s] EXCEPT !.status = "past_due"], <<"failed", "updated">>)
  /\ UNCHANGED admin

(* It is paid after all, the trial's among them, or the paused one resumed. *)
Recover(s) ==
  /\ stripe[s].status \in {"trialing", "paused", "past_due", "unpaid", "incomplete"}
  /\ Emit(s, [stripe[s] EXCEPT !.status = "active"], <<"paid", "updated">>)
  /\ UNCHANGED admin

(* Nobody pays: a trial without a card is paused, dunning comes to its end, the *)
(* window of a first payment closes.                                            *)
GiveUp(s) ==
  /\ stripe[s].status \in {"trialing", "past_due", "incomplete"}
  /\ Emit(s, [stripe[s] EXCEPT !.status =
                 CASE @ = "trialing" -> "paused"
                   [] @ = "past_due" -> "unpaid"
                   [] @ = "incomplete" -> "incomplete_expired"], <<"updated">>)
  /\ UNCHANGED admin

End(s) ==
  /\ stripe[s].status \notin Ended \cup {"none"}
  /\ Emit(s, [stripe[s] EXCEPT !.status = "canceled"], <<"deleted">>)
  /\ UNCHANGED admin

-----------------------------------------------------------------------------
(* Custody: the webhook route, and the sweep. *)

Goto(h, place) == busy' = (busy \ {h}) \cup {[h EXCEPT !.at = place]}

Take(e, via) ==
  /\ Cardinality(busy) < MaxRequests
  /\ busy' = busy \cup {[e |-> e, via |-> via, at |-> "dispatch"]}
  /\ overlapped' = (overlapped \/ busy # {})

Upset == upsets < MaxUpsets /\ upsets' = upsets + 1

(* A delivery: the row first, then the Redis key.  A finished event, or one     *)
(* whose key is set, is answered 200 at once; a Redis that does not answer      *)
(* costs only the key.  When Postgres refuses the row the answer is 503,        *)
(* nothing changes and Stripe delivers again.                                   *)
Keyed(e) ==
  \/ /\ custody[e] = "done" \/ e \in lock
     /\ acked' = acked \cup {e}
     /\ UNCHANGED <<lock, busy, overlapped, upsets>>
  \/ /\ custody[e] # "done" /\ e \notin lock
     /\ lock' = lock \cup {e}
     /\ Take(e, "live")
     /\ UNCHANGED <<acked, upsets>>
  \/ /\ custody[e] # "done" /\ Upset
     /\ ~\E g \in busy : g.e = e /\ g.via = "unkeyed"
     /\ Take(e, "unkeyed")
     /\ UNCHANGED <<acked, lock>>

Deliver(e) ==
  /\ e \in Events \ acked
  /\ custody' = [custody EXCEPT ![e] = IF @ = "none" THEN "held" ELSE @]
  /\ Keyed(e)
  /\ UNCHANGED <<stripe, ev, abandoned, marker, row, admin>>

(* The sweep: an event that failed, or one so old that no request can still be  *)
(* working on it, until it is too old (GIVE_UP_AFTER_MS).  Its lock is its own,  *)
(* one tick per event, so a key left by a crashed request does not stop it.      *)
OverdueUnlessKeyed(e) ==
  /\ e \notin lock \cup abandoned
  /\ \/ custody[e] = "failed" /\ ~\E g \in busy : g.e = e /\ g.via = "sweep"
     \/ custody[e] = "held" /\ ~\E g \in busy : g.e = e

Overdue(e) ==
  /\ e \notin abandoned
  /\ \/ custody[e] = "failed" /\ ~\E g \in busy : g.e = e /\ g.via = "sweep"
     \/ custody[e] = "held" /\ ~\E g \in busy : g.e = e

Sweep(e) ==
  /\ e \in Events
  /\ Overdue(e)
  /\ Take(e, "sweep")
  /\ UNCHANGED <<stripe, ev, acked, custody, abandoned, lock, marker, row, admin, upsets>>

(* A day goes by with the event unfinished: the sweep gives it up, counts it as *)
(* abandoned, and an operator may set its receivedAt to now.                    *)
Abandon(e) ==
  /\ custody[e] \in {"held", "failed"} /\ ~\E g \in busy : g.e = e
  /\ e \notin abandoned /\ abandoned' = abandoned \cup {e}
  /\ UNCHANGED <<stripe, ev, acked, custody, lock, marker, row, busy, admin, overlapped, upsets>>

Rearm(e) ==
  /\ e \in abandoned /\ abandoned' = abandoned \ {e}
  /\ UNCHANGED <<stripe, ev, acked, custody, lock, marker, row, busy, admin, overlapped, upsets>>

Answered(h) == IF h.via = "sweep" THEN acked ELSE acked \cup {h.e}

(* Dispatch returned: the event is done, and a live request answers 200. *)
Finish(h) ==
  /\ h.at = "finish"
  /\ custody' = [custody EXCEPT ![h.e] = "done"]
  /\ abandoned' = abandoned \ {h.e}
  /\ acked' = Answered(h)
  /\ busy' = busy \ {h}
  /\ UNCHANGED <<stripe, ev, lock, marker, row, admin, overlapped, upsets>>

(* Dispatch threw: the event is kept with its error, the key is dropped, the     *)
(* answer is 200.  When only the request's final update of processedAt fails, no  *)
(* error is written and the key stays.                                            *)
Fail(h) ==
  LET threw == h.at # "finish" \/ h.via = "sweep" IN
  /\ Upset
  /\ custody' = [custody EXCEPT ![h.e] = IF threw /\ @ = "held" THEN "failed" ELSE @]
  /\ lock' = IF threw /\ h.via = "live" THEN lock \ {h.e} ELSE lock
  /\ acked' = Answered(h)
  /\ busy' = busy \ {h}
  /\ UNCHANGED <<stripe, ev, abandoned, marker, row, admin, overlapped>>

(* The process dies: no answer, and the key stays (unless it had yet to be set). *)
Crash(h) ==
  /\ Upset
  /\ lock' \in {lock} \cup (IF h.at = "dispatch" /\ h.via = "live" THEN {lock \ {h.e}} ELSE {})
  /\ busy' = busy \ {h}
  /\ UNCHANGED <<stripe, ev, acked, custody, abandoned, marker, row, admin, overlapped>>

-----------------------------------------------------------------------------
(* The handlers.  Each reads before it writes; only the writes of a         *)
(* subscription or an invoice event take the library's billing lock.        *)

handlerVars == <<stripe, ev, acked, custody, abandoned, lock, admin, overlapped, upsets>>

StaleByPeriod(v) == row.sub = v.sub /\ row.period # None /\ v.period < row.period

(* isStaleSubscriptionEvent: a live delivery is ordered by `created`; a sweep has *)
(* no envelope and asks Stripe, when the event would move the plan of the         *)
(* subscription tracked.  A Redis or a Stripe that does not answer leaves the     *)
(* event current.                                                                 *)
StaleByPeriodOnly(h, v) == FALSE

Stale(h, v) ==
  IF h.via = "sweep"
    THEN row.sub = v.sub /\ row.plan # v.plan /\ stripe[v.sub].plan # v.plan
    ELSE h.e < marker[v.sub]

ReadSubscription(h) ==
  LET v == ev[h.e] IN
  /\ h.at = "dispatch" /\ v.kind = "updated"
  /\ \/ /\ Goto(h, IF StaleByPeriod(v) \/ Stale(h, v) THEN "finish" ELSE "apply")
        /\ UNCHANGED upsets
     \/ /\ ~StaleByPeriod(v) /\ Stale(h, v) /\ Upset
        /\ Goto(h, "apply")
  /\ UNCHANGED <<stripe, ev, acked, custody, abandoned, lock, admin, overlapped, marker, row>>

(* mapStatus *)
LocalStatus(status) ==
  CASE status \in Live -> status
    [] status \in Ended -> "canceled"
    [] OTHER -> "past_due"

(* syncStripeSubscription under the lock: the row is read again, and an event of *)
(* a subscription that is not tracked and not live is refused.                   *)
SyncSubscription(h) ==
  LET v == ev[h.e]
      foreign == row.sub # None /\ row.sub # v.sub /\ v.status \notin Live
  IN
  /\ h.at = "apply"
  /\ IF StaleByPeriod(v) \/ foreign
       THEN Goto(h, "finish") /\ UNCHANGED row
       ELSE /\ Goto(h, "record")
            /\ row' = [plan |-> v.plan, mode |-> "stripe", status |-> LocalStatus(v.status),
                       sub |-> v.sub, period |-> v.period,
                       grace |-> v.status = "past_due"]
  /\ UNCHANGED <<handlerVars, marker>>

(* recordAppliedSubscriptionEvent: only with an envelope, and only forwards as far *)
(* as its own read of the marker tells; a Redis that does not answer is shrugged   *)
(* off.                                                                            *)
ReadMarker(h) ==
  LET v == ev[h.e] IN
  /\ h.at = "record"
  /\ Goto(h, IF h.via = "sweep" \/ marker[v.sub] >= h.e THEN "finish" ELSE "mark")
  /\ UNCHANGED <<handlerVars, marker, row>>

WriteMarker(h) ==
  /\ h.at = "mark"
  /\ \/ marker' = [marker EXCEPT ![ev[h.e].sub] = h.e] /\ UNCHANGED upsets
     \/ UNCHANGED marker /\ Upset
  /\ Goto(h, "finish")
  /\ UNCHANGED <<stripe, ev, acked, custody, abandoned, lock, admin, overlapped, row>>

(* handleCheckoutSessionCompleted: the pointer, if the row has none. *)
ClaimPointer(h) ==
  LET v == ev[h.e] IN
  /\ h.at = "dispatch" /\ v.kind = "completed"
  /\ row' = IF row.sub = None THEN [row EXCEPT !.sub = v.sub] ELSE row
  /\ Goto(h, "finish")
  /\ UNCHANGED <<handlerVars, marker>>

(* handleStripeSubscriptionDeleted: not the one tracked, or a contract: ignored. *)
ReadDeletedAnySub(h) ==
  LET v == ev[h.e] IN
  /\ h.at = "dispatch" /\ v.kind = "deleted"
  /\ Goto(h, IF row.mode = "manual" THEN "finish" ELSE "drop")
  /\ UNCHANGED <<handlerVars, marker, row>>

ReadDeletedContractToo(h) ==
  LET v == ev[h.e] IN
  /\ h.at = "dispatch" /\ v.kind = "deleted"
  /\ Goto(h, IF row.sub \notin {None, v.sub} THEN "finish" ELSE "drop")
  /\ UNCHANGED <<handlerVars, marker, row>>

ReadDeleted(h) ==
  LET v == ev[h.e] IN
  /\ h.at = "dispatch" /\ v.kind = "deleted"
  /\ Goto(h, IF row.sub \notin {None, v.sub} \/ row.mode = "manual" THEN "finish" ELSE "drop")
  /\ UNCHANGED <<handlerVars, marker, row>>

DropToStarter(h) ==
  /\ h.at = "drop"
  /\ row' = [plan |-> Starter, mode |-> "stripe", status |-> "canceled", sub |-> None,
             period |-> None, grace |-> FALSE]
  /\ Goto(h, "finish")
  /\ UNCHANGED <<handlerVars, marker>>

(* tenantForSubscriptionInvoice: only an invoice of the subscription tracked. *)
ReadInvoice(h) ==
  LET v == ev[h.e] IN
  /\ h.at = "dispatch" /\ v.kind \in {"paid", "failed", "first_failed"}
  /\ Goto(h, IF row.sub = v.sub THEN "settle" ELSE "finish")
  /\ UNCHANGED <<handlerVars, marker, row>>

(* recordPaymentSuccess, recordPaymentFailure: grace for a renewal that failed, *)
(* none for a first invoice, and a window that runs is left alone.              *)
PaymentGrace(v) == v.kind = "failed" \/ row.grace

RecordPayment(h) ==
  LET v == ev[h.e] IN
  /\ h.at = "settle"
  /\ row' = IF v.kind = "paid"
              THEN [row EXCEPT !.status = "active", !.grace = FALSE]
              ELSE [row EXCEPT !.status = "past_due", !.grace = PaymentGrace(v)]
  /\ Goto(h, "finish")
  /\ UNCHANGED <<handlerVars, marker>>

-----------------------------------------------------------------------------
(* applyAdminPlanChange onto a contract: the subscription it read is stopped at  *)
(* Stripe first (it runs on to its period's end, and Stripe reports the change;   *)
(* a call that fails ends the change here), then the row is written, outside the  *)
(* billing lock.                                                                  *)
BeginContract ==
  /\ admin = "no"
  /\ \/ /\ row.sub = None /\ admin' = "unsold"
        /\ UNCHANGED <<stripe, ev, acked, custody, abandoned, lock, marker, row, busy, overlapped, upsets>>
     \/ /\ row.sub # None
        /\ stripe[row.sub].status \notin Ended
        /\ admin' = "stopped"
        /\ Emit(row.sub, stripe[row.sub], <<"updated">>)

WriteContract ==
  /\ admin \in {"unsold", "stopped"}
  /\ admin' = IF admin = "stopped" THEN "replaced" ELSE "granted"
  /\ row' = [row EXCEPT !.plan = Contract, !.mode = "manual", !.status = "active",
                        !.sub = IF admin = "stopped" THEN None ELSE @, !.grace = FALSE]
  /\ overlapped' = (overlapped \/ busy # {})
  /\ UNCHANGED <<stripe, ev, acked, custody, abandoned, lock, marker, busy, upsets>>

-----------------------------------------------------------------------------
StripeActs ==
  \E s \in Sub : \/ \E p \in Plan : \/ \E st \in {"active", "trialing", "incomplete"} : Subscribe(s, p, st)
                                    \/ Reprice(s, p)
                 \/ Renew(s) \/ RenewalFails(s) \/ Recover(s) \/ GiveUp(s) \/ End(s)

Handle(h) ==
  \/ ReadSubscription(h) \/ SyncSubscription(h) \/ ReadMarker(h) \/ WriteMarker(h)
  \/ ClaimPointer(h)
  \/ ReadDeleted(h) \/ DropToStarter(h)
  \/ ReadInvoice(h) \/ RecordPayment(h)
  \/ Finish(h)

Next ==
  \/ StripeActs \/ BeginContract \/ WriteContract
  \/ \E e \in 1 .. MaxEvents : Deliver(e) \/ Sweep(e) \/ Abandon(e) \/ Rearm(e)
  \/ \E h \in busy : Handle(h) \/ Fail(h) \/ Crash(h)

Spec == Init /\ [][Next]_vars
-----------------------------------------------------------------------------
(* "200 = durably ours": whatever request crashed, failed or left its key       *)
(* behind, an event that is not done always has someone who answers for it:     *)
(* Stripe, which has no 200 and delivers again, the sweep, or a request or tick  *)
(* that has it in hand -- until a day has passed, when it is counted as abandoned. *)
NoEventIsStranded ==
  \A e \in Events : custody[e] # "done" =>
    e \notin acked \/ Overdue(e) \/ e \in abandoned \/ \E h \in busy : h.e = e

(* Out-of-order delivery does not revert a plan (billing-06): of the `updated`   *)
(* events of the tracked subscription that are done, handled one after another    *)
(* and with no fault, the row has the plan of the newest -- until a contract has  *)
(* replaced a subscription: the row then keeps that one's period start, by which  *)
(* events of an older one it may come to track are dropped unmarked.  So is one    *)
(* that says unpaid while another subscription is tracked, and the sweep, which    *)
(* has no envelope, neither reads nor moves the marker.                            *)
NewestPlanWins ==
  upsets = 0 /\ ~overlapped /\ admin # "replaced" /\ row.plan \in Plan /\ busy = {} =>
    LET done == {e \in Events : /\ ev[e].kind = "updated" /\ ev[e].sub = row.sub
                                /\ custody[e] = "done"}
    IN \A e \in done : ev[e].status # "unpaid" /\ (\A f \in done : f <= e)
                        => row.plan = ev[e].plan

(* The same with faults, which is more than the code keeps: the marker is not    *)
(* written when Redis fails or a sweep applied the event, and an older one is then *)
(* not stale.                                                                      *)
NewestPlanWinsWithFaults ==
  ~overlapped /\ admin # "replaced" /\ row.plan \in Plan /\ busy = {} =>
    LET done == {e \in Events : /\ ev[e].kind = "updated" /\ ev[e].sub = row.sub
                                /\ custody[e] = "done"}
    IN \A e \in done : (\A f \in done : f <= e) => row.plan = ev[e].plan

(* While Stripe has the tracked subscription live, only an operator or an event   *)
(* that says another one is live takes the pointer off it: no deletion, and no    *)
(* terminal event of another subscription, however late (A6-01).  The event that   *)
(* says so may itself be late.                                                     *)
YieldsToLiveNewsOnly ==
  [][row.sub # None /\ stripe[row.sub].status \in Live /\ row'.sub # row.sub /\ ~overlapped'
       => \/ admin' # admin
          \/ \E e \in Events : ev[e].kind = "updated" /\ ev[e].sub = row'.sub
                                /\ ev[e].status \in Live]_vars

(* More than the code keeps: a live subscription that is tracked yields only to   *)
(* one that Stripe has live too.  A late event of one that has ended takes the      *)
(* pointer as well, and its deletion then drops a library that pays for the other.  *)
PayingIsNotReplaced ==
  [][row.sub # None /\ stripe[row.sub].status \in Live /\ row'.sub # row.sub /\ ~overlapped'
       => \/ admin' # admin
          \/ row'.sub # None /\ stripe[row'.sub].status \in Live]_vars

(* Grace is not for a first purchase that was never completed (billing-05): a     *)
(* library with a grace window has had the subscription it has it for running.     *)
GraceIsEarned ==
  ~overlapped /\ row.grace =>
    row.sub # None /\ \E e \in Events : ev[e].sub = row.sub /\ ev[e].status \in {"active", "trialing"}

(* More than the code keeps: "for a paying customer whose RENEWAL failed".  A     *)
(* trial whose first real invoice fails gets the window too.                      *)
GraceIsPaidFor ==
  ~overlapped /\ row.grace => \E e \in Events : ev[e].sub = row.sub /\ ev[e].status = "active"

(* The row says no more than the events that were handled justify. *)
RowIsJustified == TypeOK /\ NewestPlanWins /\ GraceIsEarned

(* Stripe deleting the subscription a contract left behind never drags the        *)
(* library back to the free plan, however late the deletion comes (billing-12).    *)
ContractNotDropped ==
  [][row.mode = "manual" /\ row'.mode # "manual" /\ ~overlapped' => row'.plan # Starter]_vars

(* "no longer governed by Stripe": a contract that replaced a subscription       *)
(* outlives whatever Stripe goes on to report of it.                              *)
ContractStays ==
  [][row.mode = "manual" /\ admin = "replaced" => row'.mode = "manual"]_vars
=============================================================================
