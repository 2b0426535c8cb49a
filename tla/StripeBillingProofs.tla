------------------------- MODULE StripeBillingProofs -------------------------
(***************************************************************************)
(* Proofs about StripeBilling for any number of subscriptions, plans,      *)
(* events, periods, concurrent requests and upsets.                        *)
(***************************************************************************)
EXTENDS StripeBilling, SequenceTheorems, TLAPS

\* A subscription that runs, and one whose first payment was never made.
Ran == {"active", "trialing"}
First == {"incomplete", "incomplete_expired"}

Kind == {"updated", "completed", "deleted", "paid", "failed", "first_failed"}

\* A subscription that was sold, an event, and a request or a tick.
Sale == [status : Status \ {"none"}, plan : Plan, period : 0 .. MaxPeriods]

Event == [kind : Kind, sub : Sub, status : Status \ {"none"},
          plan : Plan, period : 0 .. MaxPeriods]

Job == [e : Events, via : {"live", "unkeyed", "sweep"}, at : Place]

Types ==
  /\ TypeOK
  /\ ev \in Seq(Event)
  /\ upsets \in Nat /\ overlapped \in BOOLEAN

\* What Stripe has sold, and that a live subscription was reported active once.
AtStripe ==
  \A s \in Sub :
    /\ (stripe[s].status # "none" => stripe[s].plan \in Plan)
    /\ (stripe[s].status \in Live =>
          \E f \in Events : ev[f].sub = s /\ ev[f].status \in Ran)

\* An event against its subscription as Stripe has it now.
Sold ==
  \A e \in Events :
    /\ stripe[ev[e].sub].status # "none"
    /\ ev[e].period <= stripe[ev[e].sub].period
    /\ (stripe[ev[e].sub].status \in First =>
          ev[e].status \in First /\ ev[e].plan = stripe[ev[e].sub].plan)
    /\ (ev[e].kind = "deleted" => stripe[ev[e].sub].status = "canceled")

\* What an event of each kind can say.
Said ==
  \A e \in Events :
    /\ (ev[e].kind = "updated" => ev[e].status # "canceled")
    /\ (ev[e].kind = "failed" => ev[e].status = "past_due")
    /\ (ev[e].status = "past_due" =>
          \E f \in Events : ev[f].sub = ev[e].sub /\ ev[f].status \in Ran)

\* Two events of one subscription: periods only begin later, and nothing but its
\* plan at the sale is said of a subscription before its first payment.
InOrder ==
  \A e, f \in Events : e < f /\ ev[e].sub = ev[f].sub =>
    /\ ev[e].period <= ev[f].period
    /\ (ev[f].status \in First => ev[e].status \in First /\ ev[e].plan = ev[f].plan)

Sales == AtStripe /\ Sold /\ Said /\ InOrder

\* The row tracks nothing, and then has no plan of Stripe's, or something sold.
RowOK ==
  /\ (row.sub = None => row.plan \notin Plan)
  /\ (row.sub # None => stripe[row.sub].status # "none")

\* Who is where in which handler, and what custody knows.
Work ==
  /\ \A h \in busy :
       /\ (h.at \in {"apply", "record", "mark"} => ev[h.e].kind = "updated")
       /\ (h.at = "drop" => ev[h.e].kind = "deleted")
       /\ (h.at = "settle" => ev[h.e].kind \in {"paid", "failed", "first_failed"})
       /\ custody[h.e] # "none"
  /\ \A e \in lock : custody[e] # "none"
  /\ \A e \in 1 .. MaxEvents : e \notin Events => custody[e] = "none"

\* While handlers ran one after another, what a handler read still holds when it
\* writes, and a grace window was given for a subscription that was once active.
Alone ==
  /\ \A g, h \in busy : g = h
  /\ \A h \in busy :
       /\ (h.at = "drop" => row.sub \in {None, ev[h.e].sub} /\ row.mode = "stripe")
       /\ (h.at = "settle" => row.sub = ev[h.e].sub)
  /\ (row.grace => \E f \in Events : ev[f].sub = row.sub /\ ev[f].status \in Ran)

\* The newest event applied to the row for a subscription: the one of a handler
\* that has yet to write the marker, or else the marker.
Writes(h, v, s) == h.at \in {"record", "mark"} /\ v[h.e].sub = s

TopOf(b, m, v) ==
  [s \in Sub |-> IF \E h \in b : Writes(h, v, s)
                   THEN (CHOOSE h \in b : Writes(h, v, s)).e
                   ELSE m[s]]

Top == TopOf(busy, marker, ev)

\* No two handlers at once, no fault, and no contract in place of a subscription.
Calm == ~overlapped /\ upsets = 0 /\ admin # "replaced"

\* Then every event in custody is done or is being handled, with its key, ...
Quiet ==
  /\ \A h \in busy : h.via = "live" /\ custody[h.e] = "held" /\ h.e \in lock
  /\ \A e \in Events : custody[e] # "failed" /\ (custody[e] = "held" => \E h \in busy : h.e = e)
  /\ \A h \in busy : h.at \in {"record", "mark"} => marker[ev[h.e].sub] <= h.e
  /\ (row.sub = None => row.period = None)
  /\ (row.period # None => row.period <= stripe[row.sub].period)

\* ... the newest event applied is one of the subscription's, in custody, and the
\* row's plan is that event's, ...
Applied ==
  /\ \A s \in Sub : Top[s] # 0 =>
       /\ Top[s] \in Events /\ ev[Top[s]].kind = "updated" /\ ev[Top[s]].sub = s
       /\ custody[Top[s]] # "none"
  /\ (row.plan \in Plan => Top[row.sub] # 0 /\ ev[Top[row.sub]].plan = row.plan)

\* ... and an event that was passed over is older, or of an unpaid subscription.
PassedOver ==
  /\ \A e \in Events : ev[e].kind = "updated" /\ custody[e] = "done"
       => e <= Top[ev[e].sub] \/ ev[e].status \notin Live
  /\ \A h \in busy : h.at = "finish" /\ ev[h.e].kind = "updated"
       => h.e <= Top[ev[h.e].sub] \/ ev[h.e].status \notin Live
  /\ \A h \in busy : h.at = "apply" => Top[ev[h.e].sub] <= h.e
  /\ \A e \in Events : ev[e].kind = "updated" /\ ev[e].sub = row.sub /\ row.period # None
       /\ Top[row.sub] < e => row.period <= ev[e].period

Inv ==
  /\ Types /\ Sales /\ RowOK /\ Work
  /\ (~overlapped => Alone)
  /\ (Calm => Quiet /\ Applied /\ PassedOver)

-----------------------------------------------------------------------------
(* What Stripe emits.                                                      *)

\* The events that were there stay, and each new one is of the new state.
LEMMA EmitAppends ==
  ASSUME Types, NEW s \in Sub, NEW st \in Sale, NEW kinds \in Seq(Kind), Len(kinds) >= 1,
         Emit(s, st, kinds)
  PROVE  /\ ev' \in Seq(Event)
         /\ Len(ev) \in Nat /\ Len(ev') \in Nat /\ Len(ev) < Len(ev') /\ Len(ev') <= MaxEvents
         /\ \A e \in Events : e \in Events' /\ ev'[e] = ev[e]
         /\ \A e \in Events' : e \notin Events =>
              \E k \in 1 .. Len(kinds) : ev'[e] = Snapshot(kinds[k], s, st)
<1> DEFINE new == [i \in 1 .. Len(kinds) |-> Snapshot(kinds[i], s, st)]
           all == ev \o new
           n == IF Len(ev) + Len(kinds) < MaxEvents THEN Len(ev) + Len(kinds) ELSE MaxEvents
<1>1. /\ ev \in Seq(Event) /\ Len(ev) \in Nat /\ Len(kinds) \in Nat
      /\ Len(ev) < MaxEvents /\ MaxEvents \in Nat
  BY LenProperties, BoundAssumption DEF Types, Emit
<1>2. \A k \in 1 .. Len(kinds) : Snapshot(kinds[k], s, st) \in Event
  BY ElementOfSeq DEF Snapshot, Event, Sale
<1>3. new \in Seq(Event) /\ Len(new) = Len(kinds)
  <2>1. new \in [1 .. Len(kinds) -> Event]  BY <1>2
  <2>2. new \in Seq(Event)  BY <2>1, <1>1, SeqDef
  <2>3. DOMAIN new = 1 .. Len(kinds)  OBVIOUS
  <2> QED  BY <2>2, <2>3, <1>1, LenProperties
<1>4. /\ all \in Seq(Event) /\ Len(all) = Len(ev) + Len(kinds)
      /\ \A i \in 1 .. Len(ev) + Len(kinds) : all[i] =
           IF i <= Len(ev) THEN ev[i] ELSE new[i - Len(ev)]
  BY <1>1, <1>3, ConcatProperties
<1>5. n \in Nat /\ Len(ev) < n /\ n <= Len(ev) + Len(kinds) /\ n <= MaxEvents
  BY <1>1
<1>6. ev' = SubSeq(all, 1, n)
  BY DEF Emit
<1> HIDE DEF all, n, new
<1>7. \A i \in 1 .. n : all[i] \in Event
  BY <1>4, <1>5, <1>1, ElementOfSeq
<1>8. /\ ev' \in Seq(Event) /\ Len(ev') = n
      /\ \A i \in 1 .. n : ev'[i] = all[i]
  <2>1. 1 \in Int /\ n \in Int /\ n - 1 + 1 = n /\ 1 <= n  BY <1>5, <1>1
  <2>2. \A i \in 1 .. n : 1 + i - 1 = i  BY <2>1
  <2> QED  BY <2>1, <2>2, <1>6, <1>7, SubSeqProperties
<1>9. \A e \in 1 .. n : e \notin 1 .. Len(ev) =>
        \E k \in 1 .. Len(kinds) : ev'[e] = Snapshot(kinds[k], s, st)
  <2> TAKE e \in 1 .. n
  <2> HAVE e \notin 1 .. Len(ev)
  <2>1. e - Len(ev) \in 1 .. Len(kinds)  BY <1>1, <1>5
  <2>2. ev'[e] = new[e - Len(ev)]
    <3>1. e \in 1 .. Len(ev) + Len(kinds) /\ ~(e <= Len(ev))  BY <1>1, <1>5
    <3>2. ev'[e] = all[e]  BY <1>8
    <3> QED  BY <3>1, <3>2, <1>4
  <2>3. new[e - Len(ev)] = Snapshot(kinds[e - Len(ev)], s, st)  BY <2>1 DEF new
  <2> QED  BY <2>1, <2>2, <2>3
<1>10. \A e \in 1 .. Len(ev) : e \in 1 .. n /\ ev'[e] = ev[e]
  <2> TAKE e \in 1 .. Len(ev)
  <2>1. e \in 1 .. n /\ e \in 1 .. Len(ev) + Len(kinds) /\ e <= Len(ev)  BY <1>1, <1>5
  <2>2. ev'[e] = all[e]  BY <2>1, <1>8
  <2> QED  BY <2>1, <2>2, <1>4
<1> QED  BY <1>1, <1>5, <1>8, <1>9, <1>10 DEF Events

\* What each of Stripe's steps says of the subscription, beside its old state.
Fits(s, st, kinds) ==
  /\ stripe[s].period <= st.period /\ stripe[s].status # "canceled"
  /\ (st.status \in First =>
        stripe[s].status = "none"
          \/ (stripe[s].status \in First /\ stripe[s].plan = st.plan))
  /\ (st.status \in {"past_due", "paused"} => stripe[s].status \in Live)
  /\ \A k \in 1 .. Len(kinds) :
       /\ (kinds[k] = "updated" => st.status # "canceled")
       /\ (kinds[k] = "failed" => st.status = "past_due")
       /\ (kinds[k] = "deleted" => st.status = "canceled")

\* The same, in the fields of the events.
LEMMA EmitFacts ==
  ASSUME Types, NEW s \in Sub, NEW st \in Sale, NEW kinds \in Seq(Kind), Len(kinds) >= 1,
         Emit(s, st, kinds), Fits(s, st, kinds)
  PROVE  /\ \A e \in Events : e \in Events' /\ ev'[e] = ev[e] /\ ev[e] \in Event
         /\ \A e \in Events' : e \notin Events =>
              /\ \A f \in Events : f < e
              /\ ev'[e].sub = s /\ ev'[e].status = st.status
              /\ ev'[e].plan = st.plan /\ ev'[e].period = st.period
              /\ (ev'[e].kind = "updated" => st.status # "canceled")
              /\ (ev'[e].kind = "failed" => st.status = "past_due")
              /\ (ev'[e].kind = "deleted" => st.status = "canceled")
         /\ \E e \in Events' : e \notin Events
         /\ \A e \in Events' : e \in Nat
         /\ \A t \in Sub : stripe'[t] = IF t = s THEN st ELSE stripe[t]
         /\ stripe[s].period <= st.period /\ stripe[s].status # "canceled"
         /\ (st.status \in First => stripe[s].status = "none"
               \/ (stripe[s].status \in First /\ stripe[s].plan = st.plan))
         /\ (st.status \in {"past_due", "paused"} => stripe[s].status \in Live)
<1>1. /\ Len(ev) \in Nat /\ Len(ev') \in Nat /\ Len(ev) < Len(ev')
      /\ \A e \in Events : e \in Events' /\ ev'[e] = ev[e]
      /\ \A e \in Events' : e \notin Events =>
           \E k \in 1 .. Len(kinds) : ev'[e] = Snapshot(kinds[k], s, st)
  BY EmitAppends
<1>2. \A e \in Events : ev[e] \in Event
  BY ElementOfSeq DEF Events, Types
<1>3. \A e \in Events' : e \notin Events => \A f \in Events : f < e
  BY <1>1 DEF Events
<1>4. ASSUME NEW e \in Events', e \notin Events
      PROVE  /\ ev'[e].sub = s /\ ev'[e].status = st.status
             /\ ev'[e].plan = st.plan /\ ev'[e].period = st.period
             /\ (ev'[e].kind = "updated" => st.status # "canceled")
             /\ (ev'[e].kind = "failed" => st.status = "past_due")
             /\ (ev'[e].kind = "deleted" => st.status = "canceled")
  <2>1. PICK k \in 1 .. Len(kinds) : ev'[e] = Snapshot(kinds[k], s, st)  BY <1>1, <1>4
  <2> QED  BY <2>1 DEF Snapshot, Fits
<1>5. \E e \in Events' : e \notin Events
  <2>1. Len(ev) + 1 \in Events' /\ Len(ev) + 1 \notin Events  BY <1>1 DEF Events
  <2> QED  BY <2>1
<1>6. \A t \in Sub : stripe'[t] = IF t = s THEN st ELSE stripe[t]
  BY DEF Emit, Types, TypeOK
<1>7. \A e \in Events' : e \in Nat
  BY <1>1 DEF Events
<1>8. /\ stripe[s].period <= st.period /\ stripe[s].status # "canceled"
      /\ (st.status \in First => stripe[s].status = "none"
            \/ (stripe[s].status \in First /\ stripe[s].plan = st.plan))
      /\ (st.status \in {"past_due", "paused"} => stripe[s].status \in Live)
  BY DEF Fits
<1> QED  BY <1>1, <1>2, <1>3, <1>4, <1>5, <1>6, <1>7, <1>8

LEMMA EmitKeepsSales ==
  ASSUME Types, Sales, NEW s \in Sub, NEW st \in Sale,
         NEW kinds \in Seq(Kind), Len(kinds) >= 1,
         Emit(s, st, kinds), Fits(s, st, kinds)
  PROVE  Sales'
<1>1. /\ \A e \in Events : e \in Events' /\ ev'[e] = ev[e] /\ ev[e] \in Event
      /\ \A e \in Events' : e \notin Events =>
              /\ \A f \in Events : f < e
              /\ ev'[e].sub = s /\ ev'[e].status = st.status
              /\ ev'[e].plan = st.plan /\ ev'[e].period = st.period
              /\ (ev'[e].kind = "updated" => st.status # "canceled")
              /\ (ev'[e].kind = "failed" => st.status = "past_due")
              /\ (ev'[e].kind = "deleted" => st.status = "canceled")
      /\ \E e \in Events' : e \notin Events
      /\ \A e \in Events' : e \in Nat
      /\ \A t \in Sub : stripe'[t] = IF t = s THEN st ELSE stripe[t]
      /\ stripe[s].period <= st.period /\ stripe[s].status # "canceled"
      /\ (st.status \in First => stripe[s].status = "none"
            \/ (stripe[s].status \in First /\ stripe[s].plan = st.plan))
      /\ (st.status \in {"past_due", "paused"} => stripe[s].status \in Live)
  BY EmitFacts
<1>2. /\ st.plan \in Plan /\ st.status # "none" /\ st.period \in Nat
      /\ stripe[s].period \in Nat
      /\ \A e \in Events : ev[e].sub \in Sub /\ ev[e].period \in Nat
      /\ \A t \in Sub : stripe[t].period \in Nat
  <2>1. st.plan \in Plan /\ st.status # "none" /\ st.period \in Nat
    BY BoundAssumption DEF Sale
  <2>2. \A t \in Sub : stripe[t].period \in Nat
    BY BoundAssumption DEF Types, TypeOK
  <2>3. \A e \in Events : ev[e].sub \in Sub /\ ev[e].period \in Nat
    BY <1>1, BoundAssumption DEF Event
  <2> QED  BY <2>1, <2>2, <2>3
<1>3. AtStripe'
  <2> SUFFICES ASSUME NEW t \in Sub
               PROVE  /\ (stripe'[t].status # "none" => stripe'[t].plan \in Plan)
                      /\ (stripe'[t].status \in Live =>
                            \E f \in Events' : ev'[f].sub = t /\ ev'[f].status \in Ran)
    BY DEF AtStripe
  <2>1. (stripe'[t].status # "none" => stripe'[t].plan \in Plan)
    BY <1>1, <1>2 DEF Sales, AtStripe
  <2>2. ASSUME stripe[t].status \in Live
        PROVE  \E f \in Events' : ev'[f].sub = t /\ ev'[f].status \in Ran
    <3>1. PICK f \in Events : ev[f].sub = t /\ ev[f].status \in Ran
      BY <2>2 DEF Sales, AtStripe
    <3> QED  BY <3>1, <1>1
  <2>3. ASSUME t = s, st.status \in Ran
        PROVE  \E f \in Events' : ev'[f].sub = t /\ ev'[f].status \in Ran
    <3>1. PICK f \in Events' : f \notin Events  BY <1>1
    <3> QED  BY <3>1, <1>1, <2>3
  <2>4. stripe'[t].status \in Live => stripe[t].status \in Live \/ (t = s /\ st.status \in Ran)
    BY <1>1 DEF Live, Ran
  <2> QED  BY <2>1, <2>2, <2>3, <2>4
<1>4. Sold'
  <2> SUFFICES ASSUME NEW e \in Events'
               PROVE  /\ stripe'[ev'[e].sub].status # "none"
                      /\ ev'[e].period <= stripe'[ev'[e].sub].period
                      /\ (stripe'[ev'[e].sub].status \in First =>
                            ev'[e].status \in First /\ ev'[e].plan = stripe'[ev'[e].sub].plan)
                      /\ (ev'[e].kind = "deleted" => stripe'[ev'[e].sub].status = "canceled")
    BY DEF Sold
  <2>1. CASE e \in Events
    <3>1. /\ stripe[ev[e].sub].status # "none"
          /\ ev[e].period <= stripe[ev[e].sub].period
          /\ (stripe[ev[e].sub].status \in First =>
                ev[e].status \in First /\ ev[e].plan = stripe[ev[e].sub].plan)
          /\ (ev[e].kind = "deleted" => stripe[ev[e].sub].status = "canceled")
      BY <2>1 DEF Sales, Sold
    <3>2. ev'[e] = ev[e] /\ ev[e].sub \in Sub /\ ev[e].period \in Nat  BY <2>1, <1>1, <1>2
    <3>3. CASE ev[e].sub = s  BY <3>1, <3>2, <3>3, <1>1, <1>2
    <3>4. CASE ev[e].sub # s  BY <3>1, <3>2, <3>4, <1>1, <1>2
    <3> QED  BY <3>3, <3>4
  <2>2. CASE e \notin Events
    BY <2>2, <1>1, <1>2
  <2> QED  BY <2>1, <2>2
<1>5. Said'
  <2> SUFFICES ASSUME NEW e \in Events'
               PROVE  /\ (ev'[e].kind = "updated" => ev'[e].status # "canceled")
                      /\ (ev'[e].kind = "failed" => ev'[e].status = "past_due")
                      /\ (ev'[e].status = "past_due" =>
                            \E f \in Events' : ev'[f].sub = ev'[e].sub /\ ev'[f].status \in Ran)
    BY DEF Said
  <2>1. CASE e \in Events
    <3>1. /\ (ev[e].kind = "updated" => ev[e].status # "canceled")
          /\ (ev[e].kind = "failed" => ev[e].status = "past_due")
          /\ (ev[e].status = "past_due" =>
                \E f \in Events : ev[f].sub = ev[e].sub /\ ev[f].status \in Ran)
      BY <2>1 DEF Sales, Said
    <3> QED  BY <3>1, <2>1, <1>1
  <2>2. CASE e \notin Events
    <3>1. ASSUME st.status = "past_due"
          PROVE  \E f \in Events : ev[f].sub = s /\ ev[f].status \in Ran
      BY <3>1, <1>1 DEF Sales, AtStripe
    <3> QED  BY <3>1, <2>2, <1>1
  <2> QED  BY <2>1, <2>2
<1>6. InOrder'
  <2> SUFFICES ASSUME NEW e \in Events', NEW f \in Events', e < f, ev'[e].sub = ev'[f].sub
               PROVE  /\ ev'[e].period <= ev'[f].period
                      /\ (ev'[f].status \in First =>
                            ev'[e].status \in First /\ ev'[e].plan = ev'[f].plan)
    BY DEF InOrder
  <2>1. CASE e \in Events /\ f \in Events
    BY <2>1, <1>1 DEF Sales, InOrder
  <2>2. CASE e \in Events /\ f \notin Events
    <3>1. ev[e].sub = s /\ ev'[e] = ev[e]  BY <2>2, <1>1
    <3>2. /\ stripe[s].status # "none" /\ ev[e].period <= stripe[s].period
          /\ (stripe[s].status \in First =>
                ev[e].status \in First /\ ev[e].plan = stripe[s].plan)
      BY <3>1, <2>2 DEF Sales, Sold
    <3> QED  BY <3>1, <3>2, <2>2, <1>1, <1>2
  <2>3. CASE e \notin Events /\ f \in Events
    <3>1. f < e /\ e \in Nat /\ f \in Nat  BY <2>3, <1>1
    <3> QED  BY <3>1
  <2>4. CASE e \notin Events /\ f \notin Events
    BY <2>4, <1>1, <1>2
  <2> QED  BY <2>1, <2>2, <2>3, <2>4
<1> QED  BY <1>3, <1>4, <1>5, <1>6 DEF Sales

\* With one handler at most, the newest event applied is that handler's or the marker.
LEMMA TopIs ==
  ASSUME NEW b, NEW m, NEW v, \A g, h \in b : g = h
  PROVE  \A s \in Sub :
           /\ \A h \in b : Writes(h, v, s) => TopOf(b, m, v)[s] = h.e
           /\ (\A h \in b : ~Writes(h, v, s)) => TopOf(b, m, v)[s] = m[s]
<1> TAKE s \in Sub
<1>1. ASSUME NEW h \in b, Writes(h, v, s)
      PROVE  TopOf(b, m, v)[s] = h.e
  <2>1. (CHOOSE g \in b : Writes(g, v, s)) \in b  BY <1>1
  <2>2. (CHOOSE g \in b : Writes(g, v, s)) = h  BY <2>1
  <2> QED  BY <1>1, <2>2 DEF TopOf
<1>2. (\A h \in b : ~Writes(h, v, s)) => TopOf(b, m, v)[s] = m[s]
  BY DEF TopOf
<1> QED  BY <1>1, <1>2

LEMMA EmitKeeps ==
  ASSUME Inv, NEW s \in Sub, NEW st \in Sale,
         NEW kinds \in Seq(Kind), Len(kinds) >= 1,
         Emit(s, st, kinds), Fits(s, st, kinds),
         admin' \in {"no", "unsold", "stopped", "granted", "replaced"},
         admin' # "replaced" => admin # "replaced"
  PROVE  Inv'
<1>1. /\ \A e \in Events : e \in Events' /\ ev'[e] = ev[e] /\ ev[e] \in Event
      /\ \A e \in Events' : e \notin Events =>
              /\ \A f \in Events : f < e
              /\ ev'[e].sub = s /\ ev'[e].period = st.period
      /\ \A e \in Events' : e \in Nat
      /\ \A t \in Sub : stripe'[t] = IF t = s THEN st ELSE stripe[t]
      /\ stripe[s].period <= st.period
  BY EmitFacts DEF Inv
<1>2. Types /\ Sales /\ RowOK /\ Work /\ st.status # "none" /\ st.period \in Nat
  BY BoundAssumption DEF Inv, Sale
<1>3. /\ acked' = acked /\ custody' = custody /\ abandoned' = abandoned /\ lock' = lock
      /\ marker' = marker /\ row' = row
      /\ busy' = busy /\ overlapped' = overlapped /\ upsets' = upsets
  BY DEF Emit
<1>4. Types'
  <2>1. /\ ev' \in Seq(Event) /\ Len(ev') <= MaxEvents
    BY <1>2, EmitAppends
  <2>2. stripe' \in [Sub -> [status : Status,
                             plan : Plan \cup {None}, period : 0 .. MaxPeriods]]
    <3>1. st \in [status : Status,
                  plan : Plan \cup {None}, period : 0 .. MaxPeriods]
      BY DEF Sale, Status
    <3> QED  BY <1>2, <3>1 DEF Emit, Types, TypeOK
  <2>3. Events \subseteq Events'  BY <1>1
  <2>4. acked' \subseteq Events' /\ lock' \subseteq Events' /\ abandoned' \subseteq Events'
    BY <2>3, <1>2, <1>3 DEF Types, TypeOK
  <2>5. busy' \subseteq [e : Events', via : {"live", "unkeyed", "sweep"}, at : Place]
    BY <2>3, <1>2, <1>3 DEF Types, TypeOK
  <2>6. /\ custody' \in [1 .. MaxEvents -> {"none", "held", "failed", "done"}]
        /\ marker' \in [Sub -> 0 .. MaxEvents]
        /\ row' \in [plan : Plan \cup {Starter, Contract}, mode : {"stripe", "manual"},
              status : {"active", "trialing", "past_due", "paused", "canceled"}, sub : Sub \cup {None},
              period : {None} \cup 0 .. MaxPeriods, grace : BOOLEAN]
        /\ (row'.mode = "stripe" /\ row'.plan \in Plan => row'.sub # None)
        /\ (row'.grace => row'.status = "past_due")
        /\ upsets' \in Nat /\ overlapped' \in BOOLEAN
    BY <1>2, <1>3 DEF Types, TypeOK
  <2> QED  BY <2>1, <2>2, <2>4, <2>5, <2>6 DEF Types, TypeOK
<1>5. Sales'
  BY <1>2, EmitKeepsSales
<1>6. RowOK'
  BY <1>1, <1>2, <1>3 DEF RowOK, Types, TypeOK
<1>7. \A h \in busy : h.e \in Events /\ ev'[h.e] = ev[h.e] /\ ev[h.e].sub \in Sub
  BY <1>1, <1>2 DEF Types, TypeOK, Event
<1>8. Work'
  BY <1>1, <1>2, <1>3, <1>7 DEF Work
<1>9. ASSUME ~overlapped' PROVE Alone'
  <2>1. Alone  BY <1>9, <1>3 DEF Inv
  <2>2. (\A g, h \in busy : g = h)'  BY <2>1, <1>3 DEF Alone
  <2>3. (\A h \in busy :
       /\ (h.at = "drop" => row.sub \in {None, ev[h.e].sub} /\ row.mode = "stripe")
       /\ (h.at = "settle" => row.sub = ev[h.e].sub))'
    BY <2>1, <1>3, <1>7 DEF Alone
  <2>4. (row.grace => \E f \in Events : ev[f].sub = row.sub /\ ev[f].status \in Ran)'
    BY <2>1, <1>1, <1>3 DEF Alone
  <2> QED  BY <2>2, <2>3, <2>4 DEF Alone
<1>10. ASSUME Calm' PROVE (Quiet /\ Applied /\ PassedOver)'
  <2>1. Calm /\ ~overlapped /\ Alone /\ Quiet /\ Applied /\ PassedOver
    BY <1>10, <1>3 DEF Inv, Calm
  <2>2. Top' = Top
    <3>1. \A g, h \in busy : g = h  BY <2>1 DEF Alone
    <3>2. \A t \in Sub : TopOf(busy, marker, ev')[t] = TopOf(busy, marker, ev)[t]
      <4> TAKE t \in Sub
      <4>1. \A h \in busy : Writes(h, ev', t) <=> Writes(h, ev, t)
        BY <1>7 DEF Writes
      <4>2. CASE \E h \in busy : Writes(h, ev, t)
        <5>1. PICK h \in busy : Writes(h, ev, t)  BY <4>2
        <5>2. TopOf(busy, marker, ev)[t] = h.e  BY <3>1, <5>1, TopIs
        <5>3. TopOf(busy, marker, ev')[t] = h.e  BY <3>1, <4>1, <5>1, TopIs
        <5> QED  BY <5>2, <5>3
      <4>3. CASE \A h \in busy : ~Writes(h, ev, t)
        <5>2. TopOf(busy, marker, ev)[t] = marker[t]  BY <3>1, <4>3, TopIs
        <5>3. TopOf(busy, marker, ev')[t] = marker[t]  BY <3>1, <4>1, <4>3, TopIs
        <5> QED  BY <5>2, <5>3
      <4> QED  BY <4>2, <4>3
    <3> QED  BY <3>2, <1>3 DEF Top, TopOf
  <2>3. \A e \in Events' : e \notin Events => custody[e] = "none"
    <3>1. Events' \subseteq 1 .. MaxEvents  BY <1>4, BoundAssumption, LenProperties DEF Types, TypeOK, Events
    <3> QED  BY <3>1, <1>2 DEF Work
  <2>4. Quiet'
    <3>1. (row.period # None => row.period <= stripe[row.sub].period)'
      <4>1. CASE row.sub = None  BY <4>1, <2>1, <1>3 DEF Quiet
      <4>2. CASE row.sub # None
        <5>1. row.sub \in Sub /\ row.period \in {None} \cup Nat
          BY <4>2, <1>2, BoundAssumption DEF Types, TypeOK
        <5>2. stripe[row.sub].period \in Nat  BY <5>1, <1>2, BoundAssumption DEF Types, TypeOK
        <5>3. stripe[row.sub].period <= stripe'[row.sub].period /\ stripe'[row.sub].period \in Nat
          BY <5>1, <5>2, <1>1, <1>2
        <5>4. row.period # None => row.period <= stripe[row.sub].period  BY <2>1 DEF Quiet
        <5> QED  BY <5>1, <5>2, <5>3, <5>4, <1>3
      <4> QED  BY <4>1, <4>2
    <3>2. (\A e \in Events : custody[e] # "failed"
             /\ (custody[e] = "held" => \E h \in busy : h.e = e))'
      BY <2>1, <2>3, <1>3 DEF Quiet
    <3>3. (\A h \in busy : h.at \in {"record", "mark"} => marker[ev[h.e].sub] <= h.e)'
      BY <2>1, <1>3, <1>7 DEF Quiet
    <3>4. (\A h \in busy : h.via = "live" /\ custody[h.e] = "held" /\ h.e \in lock)'
      BY <2>1, <1>3 DEF Quiet
    <3>5. (row.sub = None => row.period = None)'  BY <2>1, <1>3 DEF Quiet
    <3> QED  BY <3>1, <3>2, <3>3, <3>4, <3>5 DEF Quiet
  <2>5. Applied'
    <3>1. (\A t \in Sub : Top[t] # 0 =>
       /\ Top[t] \in Events /\ ev[Top[t]].kind = "updated" /\ ev[Top[t]].sub = t
       /\ custody[Top[t]] # "none")'
      BY <2>1, <2>2, <1>1, <1>3 DEF Applied
    <3>2. (row.plan \in Plan => Top[row.sub] # 0 /\ ev[Top[row.sub]].plan = row.plan)'
      <4>1. row.plan \in Plan => row.sub \in Sub  BY <1>2 DEF RowOK, Types, TypeOK
      <4> QED  BY <4>1, <2>1, <2>2, <1>1, <1>3 DEF Applied
    <3> QED  BY <3>1, <3>2 DEF Applied
  <2>6. PassedOver'
    <3>1. (\A e \in Events : ev[e].kind = "updated" /\ custody[e] = "done"
               => e <= Top[ev[e].sub] \/ ev[e].status \notin Live)'
      BY <2>1, <2>2, <2>3, <1>1, <1>3 DEF PassedOver
    <3>2. (\A h \in busy : h.at = "finish" /\ ev[h.e].kind = "updated"
               => h.e <= Top[ev[h.e].sub] \/ ev[h.e].status \notin Live)'
      BY <2>1, <2>2, <1>3, <1>7 DEF PassedOver
    <3>3. (\A h \in busy : h.at = "apply" => Top[ev[h.e].sub] <= h.e)'
      BY <2>1, <2>2, <1>3, <1>7 DEF PassedOver
    <3>4. (\A e \in Events : ev[e].kind = "updated" /\ ev[e].sub = row.sub /\ row.period # None
             /\ Top[row.sub] < e => row.period <= ev[e].period)'
      <4> SUFFICES ASSUME NEW e \in Events', ev'[e].kind = "updated", ev'[e].sub = row.sub,
                          row.period # None, Top[row.sub] < e
                   PROVE  row.period <= ev'[e].period
        BY <2>2, <1>3
      <4>1. CASE e \in Events  BY <4>1, <2>1, <1>1 DEF PassedOver
      <4>2. CASE e \notin Events
        <5>1. row.sub = s /\ ev'[e].period = st.period  BY <4>2, <1>1
        <5>2. row.period <= stripe[s].period  BY <5>1, <2>1 DEF Quiet
        <5>3. row.period \in Nat /\ stripe[s].period \in Nat  BY <1>2, BoundAssumption DEF Types, TypeOK
        <5> QED  BY <5>1, <5>2, <5>3, <1>1, <1>2
      <4> QED  BY <4>1, <4>2
    <3> QED  BY <3>1, <3>2, <3>3, <3>4 DEF PassedOver
  <2> QED  BY <2>4, <2>5, <2>6
<1> QED  BY <1>4, <1>5, <1>6, <1>8, <1>9, <1>10 DEF Inv

\* What is sold, with one field changed.
LEMMA SaleFields ==
  ASSUME NEW r \in Sale
  PROVE  /\ \A p \in Plan :
              /\ [r EXCEPT !.plan = p] \in Sale
              /\ [r EXCEPT !.plan = p].status = r.status /\ [r EXCEPT !.plan = p].period = r.period
         /\ \A q \in 0 .. MaxPeriods :
              /\ [r EXCEPT !.period = q] \in Sale
              /\ [r EXCEPT !.period = q].status = r.status /\ [r EXCEPT !.period = q].period = q
              /\ [r EXCEPT !.period = q].plan = r.plan
         /\ \A x \in Status \ {"none"} :
              /\ [r EXCEPT !.status = x] \in Sale
              /\ [r EXCEPT !.status = x].status = x /\ [r EXCEPT !.status = x].period = r.period
              /\ [r EXCEPT !.status = x].plan = r.plan
  BY Zenon DEF Sale

LEMMA StripeActsKeeps == Inv /\ StripeActs => Inv'
<1> SUFFICES ASSUME Inv, StripeActs PROVE Inv'
  OBVIOUS
<1>1. PICK s \in Sub :
        \/ \E p \in Plan : \/ \E st \in {"active", "trialing", "incomplete"} : Subscribe(s, p, st)
                           \/ Reprice(s, p)
        \/ Renew(s) \/ RenewalFails(s) \/ Recover(s) \/ GiveUp(s) \/ End(s)
  BY DEF StripeActs
<1>2. Types /\ Sales /\ stripe[s].period \in 0 .. MaxPeriods /\ stripe[s].period \in Nat
      /\ MaxPeriods \in Nat
  BY BoundAssumption DEF Inv, Types, TypeOK
<1>3. stripe[s].status # "none" => stripe[s] \in Sale
  BY <1>2 DEF Sales, AtStripe, Types, TypeOK, Sale, Status
<1>4. admin \in {"no", "unsold", "stopped", "granted", "replaced"}
  BY <1>2 DEF Types, TypeOK
<1>5. ASSUME NEW p \in Plan, NEW status \in {"active", "trialing", "incomplete"},
             Subscribe(s, p, status)
      PROVE  Inv'
  <2>1. PICK kinds \in {<<"updated">>, <<"completed", "updated">>, <<"updated", "first_failed">>},
             day \in 0 .. MaxPeriods :
          /\ stripe[s].period <= day
          /\ Emit(s, [status |-> status, plan |-> p, period |-> day], kinds)
    BY <1>5 DEF Subscribe
  <2> DEFINE st == [status |-> status, plan |-> p, period |-> day]
  <2>2. st \in Sale /\ st.status = status /\ st.period = day /\ st.plan = p
    BY DEF Sale, Status, Live
  <2>3. kinds \in Seq(Kind) /\ Len(kinds) >= 1
        /\ \A k \in 1 .. Len(kinds) : kinds[k] \notin {"failed", "deleted"}
    <3>1. CASE kinds = <<"updated">>
      <4>1. <<"updated">> \in Seq(Kind) /\ Len(<<"updated">>) = 1 /\ <<"updated">>[1] = "updated"
        BY DEF Kind
      <4> QED  BY <3>1, <4>1
    <3>2. CASE kinds = <<"completed", "updated">>
      <4>1. <<"completed", "updated">> \in Seq(Kind) /\ Len(<<"completed", "updated">>) = 2
            /\ <<"completed", "updated">>[1] = "completed" /\ <<"completed", "updated">>[2] = "updated"
        BY DEF Kind
      <4> QED  BY <3>2, <4>1
    <3>3. CASE kinds = <<"updated", "first_failed">>
      <4>1. <<"updated", "first_failed">> \in Seq(Kind) /\ Len(<<"updated", "first_failed">>) = 2
            /\ <<"updated", "first_failed">>[1] = "updated"
            /\ <<"updated", "first_failed">>[2] = "first_failed"
        BY DEF Kind
      <4> QED  BY <3>3, <4>1
    <3> QED  BY <3>1, <3>2, <3>3
  <2>4. stripe[s].status = "none" /\ admin' = admin
    BY <1>5 DEF Subscribe
  <2> HIDE DEF st
  <2>5. Fits(s, st, kinds)
    <3>1. st.status # "canceled" /\ st.status \notin {"past_due", "paused"}  BY <2>2
    <3>2. stripe[s].period <= st.period  BY <2>1, <2>2
    <3>3. \A k \in 1 .. Len(kinds) :
            /\ (kinds[k] = "updated" => st.status # "canceled")
            /\ (kinds[k] = "failed" => st.status = "past_due")
            /\ (kinds[k] = "deleted" => st.status = "canceled")
      BY <3>1, <2>3
    <3>4. stripe[s].status # "canceled" /\ stripe[s].status = "none"  BY <2>4
    <3> QED  BY <3>1, <3>2, <3>3, <3>4 DEF Fits
  <2>6. Emit(s, st, kinds)  BY <2>1 DEF st
  <2> QED  BY <2>2, <2>3, <2>4, <2>5, <2>6, <1>4, EmitKeeps, Zenon
<1>6. ASSUME NEW p \in Plan, Reprice(s, p)
      PROVE  Inv'
  <2> DEFINE st == [stripe[s] EXCEPT !.plan = p]
             kinds == <<"updated">>
  <2>1. stripe[s].status \in Live /\ Emit(s, st, kinds) /\ admin' = admin
    BY <1>6 DEF Reprice
  <2>5. stripe[s].status \notin First \cup {"none", "canceled"}  BY <2>1 DEF Live, First
  <2>2. st \in Sale /\ st.status = stripe[s].status /\ st.period = stripe[s].period
    BY <1>3, <2>5, SaleFields
  <2>3. kinds \in Seq(Kind) /\ Len(kinds) = 1 /\ Len(kinds) >= 1 /\ kinds[1] = "updated"
    BY DEF Kind
  <2> HIDE DEF st, kinds
  <2>4. Fits(s, st, kinds)  BY <1>2, <2>1, <2>2, <2>3, <2>5 DEF Fits
  <2> QED  BY <2>1, <2>2, <2>3, <2>4, <1>4, EmitKeeps, Zenon
<1>7. ASSUME Renew(s) PROVE Inv'
  <2> DEFINE st == [stripe[s] EXCEPT !.period = @ + 1]
             kinds == <<"updated">>
  <2>1. /\ stripe[s].status = "active" /\ Emit(s, st, kinds) /\ admin' = admin
        /\ stripe[s].period < MaxPeriods
    BY <1>7 DEF Renew
  <2>2. stripe[s].period + 1 \in 0 .. MaxPeriods  BY <1>2, <2>1
  <2>3. st = [stripe[s] EXCEPT !.period = stripe[s].period + 1]  BY Zenon
  <2>4. st \in Sale /\ st.status = stripe[s].status /\ st.period = stripe[s].period + 1
    BY <1>3, <2>1, <2>2, <2>3, SaleFields
  <2>5. kinds \in Seq(Kind) /\ Len(kinds) = 1 /\ Len(kinds) >= 1 /\ kinds[1] = "updated"
    BY DEF Kind
  <2> HIDE DEF st, kinds
  <2>6. Fits(s, st, kinds)  BY <1>2, <2>1, <2>4, <2>5 DEF Fits, First
  <2> QED  BY <2>1, <2>4, <2>5, <2>6, <1>4, EmitKeeps, Zenon
<1>8. ASSUME RenewalFails(s) PROVE Inv'
  <2> DEFINE st == [stripe[s] EXCEPT !.status = "past_due"]
             kinds == <<"failed", "updated">>
  <2>1. stripe[s].status \in {"active", "trialing"} /\ Emit(s, st, kinds) /\ admin' = admin
    BY <1>8 DEF RenewalFails
  <2>2. st \in Sale /\ st.status = "past_due" /\ st.period = stripe[s].period
    BY <1>3, <2>1, SaleFields DEF Status, Live
  <2>3. kinds \in Seq(Kind) /\ Len(kinds) = 2 /\ Len(kinds) >= 1
        /\ kinds[1] = "failed" /\ kinds[2] = "updated"
    BY DEF Kind
  <2> HIDE DEF st, kinds
  <2>4. Fits(s, st, kinds)  BY <1>2, <2>1, <2>2, <2>3 DEF Fits, Live, First
  <2> QED  BY <2>1, <2>2, <2>3, <2>4, <1>4, EmitKeeps, Zenon
<1>9. ASSUME Recover(s) PROVE Inv'
  <2> DEFINE st == [stripe[s] EXCEPT !.status = "active"]
             kinds == <<"paid", "updated">>
  <2>1. /\ stripe[s].status \in {"trialing", "paused", "past_due", "unpaid", "incomplete"}
        /\ Emit(s, st, kinds) /\ admin' = admin
    BY <1>9 DEF Recover
  <2>2. st \in Sale /\ st.status = "active" /\ st.period = stripe[s].period
    BY <1>3, <2>1, SaleFields DEF Status, Live
  <2>3. kinds \in Seq(Kind) /\ Len(kinds) = 2 /\ Len(kinds) >= 1
        /\ kinds[1] = "paid" /\ kinds[2] = "updated"
    BY DEF Kind
  <2> HIDE DEF st, kinds
  <2>4. Fits(s, st, kinds)  BY <1>2, <2>1, <2>2, <2>3 DEF Fits, First
  <2> QED  BY <2>1, <2>2, <2>3, <2>4, <1>4, EmitKeeps, Zenon
<1>11. ASSUME GiveUp(s) PROVE Inv'
  <2> DEFINE kinds == <<"updated">>
  <2>1. /\ stripe[s].status \in {"trialing", "past_due", "incomplete"} /\ admin' = admin
        /\ Emit(s, [stripe[s] EXCEPT !.status =
                      CASE @ = "trialing" -> "paused"
                        [] @ = "past_due" -> "unpaid"
                        [] @ = "incomplete" -> "incomplete_expired"], kinds)
    BY <1>11 DEF GiveUp
  <2>2. PICK x \in {"paused", "unpaid", "incomplete_expired"} :
          /\ Emit(s, [stripe[s] EXCEPT !.status = x], kinds)
          /\ (x = "paused" => stripe[s].status = "trialing")
          /\ (x = "incomplete_expired" => stripe[s].status = "incomplete")
    <3>1. CASE stripe[s].status = "trialing"
      <4>1. Emit(s, [stripe[s] EXCEPT !.status = "paused"], kinds)  BY <2>1, <3>1
      <4> QED  BY <3>1, <4>1
    <3>2. CASE stripe[s].status = "past_due"
      <4>1. Emit(s, [stripe[s] EXCEPT !.status = "unpaid"], kinds)  BY <2>1, <3>2
      <4> QED  BY <3>2, <4>1
    <3>3. CASE stripe[s].status = "incomplete"
      <4>1. Emit(s, [stripe[s] EXCEPT !.status = "incomplete_expired"], kinds)  BY <2>1, <3>3
      <4> QED  BY <3>3, <4>1
    <3> QED  BY <2>1, <3>1, <3>2, <3>3
  <2> DEFINE st == [stripe[s] EXCEPT !.status = x]
  <2>3. x \in Status \ {"none"} /\ stripe[s] \in Sale  BY <1>3, <2>1 DEF Status, Live
  <2>4. st \in Sale /\ st.status = x /\ st.period = stripe[s].period /\ st.plan = stripe[s].plan
    BY <2>3, SaleFields
  <2>5. kinds \in Seq(Kind) /\ Len(kinds) = 1 /\ Len(kinds) >= 1 /\ kinds[1] = "updated"
    BY DEF Kind
  <2>6. Emit(s, st, kinds)  BY <2>2
  <2> HIDE DEF st, kinds
  <2>7. Fits(s, st, kinds)  BY <1>2, <2>1, <2>2, <2>4, <2>5 DEF Fits, Live, First
  <2> QED  BY <2>1, <2>4, <2>5, <2>6, <2>7, <1>4, EmitKeeps, Zenon
<1>10. ASSUME End(s) PROVE Inv'
  <2> DEFINE st == [stripe[s] EXCEPT !.status = "canceled"]
             kinds == <<"deleted">>
  <2>1. stripe[s].status \notin Ended \cup {"none"} /\ Emit(s, st, kinds) /\ admin' = admin
    BY <1>10 DEF End
  <2>2. st \in Sale /\ st.status = "canceled" /\ st.period = stripe[s].period
    BY <1>3, <2>1, SaleFields DEF Status, Live
  <2>3. kinds \in Seq(Kind) /\ Len(kinds) = 1 /\ Len(kinds) >= 1 /\ kinds[1] = "deleted"
    BY DEF Kind
  <2> HIDE DEF st, kinds
  <2>4. Fits(s, st, kinds)  BY <1>2, <2>1, <2>2, <2>3 DEF Fits, Ended, First
  <2> QED  BY <2>1, <2>2, <2>3, <2>4, <1>4, EmitKeeps, Zenon
<1> QED  BY <1>1, <1>5, <1>6, <1>7, <1>8, <1>9, <1>10, <1>11

-----------------------------------------------------------------------------
(* The operator.                                                           *)

SubscriptionRow ==
  [plan : Plan \cup {Starter, Contract}, mode : {"stripe", "manual"},
   status : {"active", "trialing", "past_due", "paused", "canceled"}, sub : Sub \cup {None},
   period : {None} \cup 0 .. MaxPeriods, grace : BOOLEAN]

\* Nothing that Stripe did not do changes what was sold and said.
LEMMA SalesStay ==
  ASSUME Sales, stripe' = stripe, ev' = ev
  PROVE  Sales' /\ Events' = Events
<1>1. Events' = Events  BY DEF Events
<1>2. AtStripe'  BY <1>1 DEF Sales, AtStripe
<1>3. Sold'  BY <1>1 DEF Sales, Sold
<1>4. Said'  BY <1>1 DEF Sales, Said
<1>5. InOrder'  BY <1>1 DEF Sales, InOrder
<1> QED  BY <1>1, <1>2, <1>3, <1>4, <1>5 DEF Sales

LEMMA BeginContractKeeps == Inv /\ BeginContract => Inv'
<1> SUFFICES ASSUME Inv, BeginContract PROVE Inv'
  OBVIOUS
<1>1. CASE /\ row.sub = None /\ admin' = "unsold" /\ admin = "no"
           /\ UNCHANGED <<stripe, ev, acked, custody, abandoned, lock, marker, row, busy, overlapped, upsets>>
  <2>1. /\ stripe' = stripe /\ ev' = ev /\ acked' = acked /\ custody' = custody
        /\ abandoned' = abandoned /\ lock' = lock
        /\ marker' = marker /\ row' = row /\ busy' = busy /\ overlapped' = overlapped
        /\ upsets' = upsets
    BY <1>1
  <2>2. Sales' /\ Events' = Events  BY <2>1, SalesStay DEF Inv
  <2>3. Types'  BY <2>1, <2>2, <1>1 DEF Inv, Types, TypeOK
  <2>4. RowOK' /\ Work'  BY <2>1, <2>2 DEF Inv, RowOK, Work
  <2>5. ~overlapped' => Alone'  BY <2>1, <2>2 DEF Inv, Alone
  <2>6. Top' = Top  BY <2>1 DEF Top
  <2>7. Calm' => Calm  BY <2>1, <1>1 DEF Calm
  <2>8. Calm => Quiet' /\ Applied' /\ PassedOver'
    BY <2>1, <2>2, <2>6 DEF Inv, Quiet, Applied, PassedOver
  <2> QED  BY <2>2, <2>3, <2>4, <2>5, <2>7, <2>8 DEF Inv
<1>2. CASE /\ row.sub # None /\ admin' = "stopped" /\ admin = "no"
           /\ stripe[row.sub].status \notin Ended
           /\ Emit(row.sub, stripe[row.sub], <<"updated">>)
  <2> DEFINE kinds == <<"updated">>
  <2>1. row.sub \in Sub /\ stripe[row.sub].status # "none"
    BY <1>2 DEF Inv, Types, TypeOK, RowOK
  <2>2. stripe[row.sub] \in Sale
    BY <2>1 DEF Inv, Sales, AtStripe, Types, TypeOK, Sale, Status
  <2>3. kinds \in Seq(Kind) /\ Len(kinds) = 1 /\ Len(kinds) >= 1 /\ kinds[1] = "updated"
    BY DEF Kind
  <2>4. Emit(row.sub, stripe[row.sub], kinds)  BY <1>2
  <2> HIDE DEF kinds
  <2>5. stripe[row.sub].period \in Nat  BY <2>2, BoundAssumption DEF Sale
  <2>6. Fits(row.sub, stripe[row.sub], kinds)
    BY <1>2, <2>1, <2>3, <2>5 DEF Fits, Live, Ended, First
  <2> QED  BY <2>1, <2>2, <2>3, <2>4, <2>6, <1>2, EmitKeeps, Zenon
<1> QED  BY <1>1, <1>2 DEF BeginContract

LEMMA WriteContractKeeps == Inv /\ WriteContract => Inv'
<1> SUFFICES ASSUME Inv, WriteContract PROVE Inv'
  OBVIOUS
<1>1. /\ stripe' = stripe /\ ev' = ev /\ acked' = acked /\ custody' = custody
      /\ abandoned' = abandoned /\ lock' = lock
      /\ marker' = marker /\ busy' = busy /\ upsets' = upsets
      /\ overlapped' = (overlapped \/ busy # {})
      /\ admin \in {"unsold", "stopped"}
      /\ admin' = IF admin = "stopped" THEN "replaced" ELSE "granted"
  BY DEF WriteContract
<1>2. Sales' /\ Events' = Events  BY <1>1, SalesStay DEF Inv
<1>3. row \in SubscriptionRow  BY DEF Inv, Types, TypeOK, SubscriptionRow
<1>4. /\ row' \in SubscriptionRow
      /\ row'.plan = Contract /\ row'.mode = "manual" /\ row'.grace = FALSE
      /\ row'.period = row.period
      /\ row'.sub = IF admin = "stopped" THEN None ELSE row.sub
  BY <1>3, Zenon DEF WriteContract, SubscriptionRow
<1>5. Types'
  <2>1. TypeOK'
    BY <1>1, <1>2, <1>4, PlanAssumption DEF Inv, Types, TypeOK, SubscriptionRow
  <2>2. overlapped' \in BOOLEAN  BY <1>1
  <2> QED  BY <2>1, <2>2, <1>1 DEF Inv, Types
<1>6. RowOK'
  BY <1>1, <1>4, PlanAssumption DEF Inv, RowOK
<1>7. Work'  BY <1>1, <1>2 DEF Inv, Work
<1>8. ASSUME ~overlapped' PROVE Alone'
  BY <1>8, <1>1, <1>4 DEF Alone
<1>9. ASSUME Calm' PROVE (Quiet /\ Applied /\ PassedOver)'
  <2>1. Calm /\ admin = "unsold" /\ busy = {}  BY <1>1, <1>9 DEF Calm
  <2>2. row'.sub = row.sub  BY <2>1, <1>4
  <2>3. Top' = Top  BY <1>1 DEF Top
  <2>4. Quiet /\ Applied /\ PassedOver  BY <2>1 DEF Inv
  <2>5. Quiet'  BY <1>1, <1>2, <1>4, <2>2, <2>4 DEF Quiet
  <2>6. Applied'  BY <1>1, <1>2, <1>4, <2>3, <2>4, PlanAssumption DEF Applied
  <2>7. PassedOver'  BY <1>1, <1>2, <1>4, <2>2, <2>3, <2>4 DEF PassedOver
  <2> QED  BY <2>5, <2>6, <2>7
<1> QED  BY <1>2, <1>5, <1>6, <1>7, <1>8, <1>9 DEF Inv

-----------------------------------------------------------------------------
(* Custody.                                                                *)

\* Whoever takes an event up does not disturb what was so without it.
LEMMA TakeKeeps ==
  ASSUME Inv, NEW e \in Events, NEW via \in {"live", "unkeyed", "sweep"}, Take(e, via),
         stripe' = stripe, ev' = ev, row' = row, admin' = admin, marker' = marker,
         acked' = acked, abandoned' = abandoned, upsets' \in Nat, lock' \subseteq lock \cup {e},
         custody' \in [1 .. MaxEvents -> {"none", "held", "failed", "done"}],
         custody'[e] # "none",
         \A x \in 1 .. MaxEvents : x # e => custody'[x] = custody[x]
  PROVE  Types' /\ Sales' /\ RowOK' /\ Work' /\ (~overlapped' => Alone')
<1> DEFINE j == [e |-> e, via |-> via, at |-> "dispatch"]
<1>1. busy' = busy \cup {j} /\ overlapped' = (overlapped \/ busy # {})
  BY DEF Take
<1>2. j \in Job /\ j.e = e /\ j.at = "dispatch"
  BY DEF Job, Place
<1> HIDE DEF j
<1>3. Sales' /\ Events' = Events  BY SalesStay DEF Inv
<1>4. Types'
  <2>1. busy' \subseteq Job  BY <1>1, <1>2 DEF Inv, Types, TypeOK, Job
  <2>2. overlapped' \in BOOLEAN  BY <1>1
  <2>3. lock' \subseteq Events  BY DEF Inv, Types, TypeOK
  <2>4. TypeOK'  BY <2>1, <2>3, <1>3 DEF Inv, Types, TypeOK, Job
  <2> QED  BY <2>2, <2>4 DEF Inv, Types
<1>5. RowOK'  BY DEF Inv, RowOK
<1>6. Events \subseteq 1 .. MaxEvents
  BY BoundAssumption, LenProperties DEF Inv, Types, TypeOK, Events
<1>7. Work'
  <2>1. \A h \in busy : h.e \in Events  BY DEF Inv, Types, TypeOK
  <2>2. \A x \in Events : custody[x] # "none" => custody'[x] # "none"  BY <1>6
  <2>3. (\A h \in busy :
       /\ (h.at \in {"apply", "record", "mark"} => ev[h.e].kind = "updated")
       /\ (h.at = "drop" => ev[h.e].kind = "deleted")
       /\ (h.at = "settle" => ev[h.e].kind \in {"paid", "failed", "first_failed"})
       /\ custody[h.e] # "none")'
    BY <1>1, <1>2, <2>1, <2>2 DEF Inv, Work
  <2>4. (\A x \in lock : custody[x] # "none")'
    BY <2>2 DEF Inv, Work, Types, TypeOK
  <2>5. (\A x \in 1 .. MaxEvents : x \notin Events => custody[x] = "none")'
    BY <1>3 DEF Inv, Work
  <2> QED  BY <2>3, <2>4, <2>5 DEF Work
<1>8. ASSUME ~overlapped' PROVE Alone'
  <2>1. busy = {} /\ Alone  BY <1>1, <1>8 DEF Inv
  <2>2. busy' = {j}  BY <2>1, <1>1
  <2> QED  BY <2>1, <2>2, <1>2, <1>3 DEF Alone
<1> QED  BY <1>3, <1>4, <1>5, <1>7, <1>8

LEMMA DeliverKeeps ==
  ASSUME Inv, NEW e \in 1 .. MaxEvents, Deliver(e)
  PROVE  Inv'
<1>1. /\ stripe' = stripe /\ ev' = ev /\ marker' = marker /\ row' = row /\ admin' = admin
      /\ abandoned' = abandoned /\ e \in Events
  BY DEF Deliver
<1>2. Events \subseteq 1 .. MaxEvents
  BY BoundAssumption, LenProperties DEF Inv, Types, TypeOK, Events
<1>3. /\ custody' \in [1 .. MaxEvents -> {"none", "held", "failed", "done"}]
      /\ custody'[e] = IF custody[e] = "none" THEN "held" ELSE custody[e]
      /\ \A x \in 1 .. MaxEvents : x # e => custody'[x] = custody[x]
  BY DEF Deliver, Inv, Types, TypeOK
<1>4. Sales' /\ Events' = Events  BY <1>1, SalesStay DEF Inv
<1>5. CASE /\ custody[e] = "done" \/ e \in lock
           /\ acked' = acked \cup {e}
           /\ UNCHANGED <<lock, busy, overlapped, upsets>>
  <2>1. lock' = lock /\ busy' = busy /\ overlapped' = overlapped /\ upsets' = upsets
    BY <1>5
  <2>2. custody' = custody
    <3>1. custody[e] # "none"  BY <1>5 DEF Inv, Work
    <3>2. \A x \in 1 .. MaxEvents : custody'[x] = custody[x]  BY <1>3, <3>1
    <3>3. custody \in [1 .. MaxEvents -> {"none", "held", "failed", "done"}]
      BY DEF Inv, Types, TypeOK
    <3>4. custody = [x \in 1 .. MaxEvents |-> custody[x]]  BY <3>3
    <3>5. custody' = [x \in 1 .. MaxEvents |-> custody'[x]]  BY <1>3
    <3> QED  BY <3>2, <3>4, <3>5
  <2>3. Types'
    <3>1. acked' \subseteq Events  BY <1>1, <1>5 DEF Inv, Types, TypeOK
    <3>2. TypeOK'  BY <3>1, <1>1, <1>4, <2>1, <2>2 DEF Inv, Types, TypeOK
    <3> QED  BY <3>2, <1>1, <2>1 DEF Inv, Types
  <2>4. RowOK' /\ Work'  BY <1>1, <1>4, <2>1, <2>2 DEF Inv, RowOK, Work
  <2>5. ~overlapped' => Alone'  BY <1>1, <1>4, <2>1 DEF Inv, Alone
  <2>6. Top' = Top /\ (Calm' => Calm)  BY <1>1, <2>1 DEF Top, Calm
  <2>7. Calm => Quiet' /\ Applied' /\ PassedOver'
    BY <1>1, <1>4, <2>1, <2>2, <2>6 DEF Inv, Quiet, Applied, PassedOver
  <2> QED  BY <1>4, <2>3, <2>4, <2>5, <2>6, <2>7 DEF Inv
<1>6. CASE /\ custody[e] # "done" /\ e \notin lock
           /\ lock' = lock \cup {e}
           /\ Take(e, "live")
           /\ UNCHANGED <<acked, upsets>>
  <2>1. acked' = acked /\ upsets' = upsets /\ upsets' \in Nat /\ custody'[e] # "none"
    BY <1>3, <1>6 DEF Inv, Types
  <2>2. Types' /\ Sales' /\ RowOK' /\ Work' /\ (~overlapped' => Alone')
    <3>1. Take(e, "live") /\ lock' \subseteq lock \cup {e}  BY <1>6
    <3> QED  BY <1>1, <1>3, <2>1, <3>1, TakeKeeps
  <2>3. ASSUME Calm' PROVE (Quiet /\ Applied /\ PassedOver)'
    <3> DEFINE j == [e |-> e, via |-> "live", at |-> "dispatch"]
    <3>1. busy' = busy \cup {j} /\ overlapped' = (overlapped \/ busy # {})
      BY <1>6 DEF Take
    <3>2. j.e = e /\ j.at = "dispatch" /\ j.via = "live"  OBVIOUS
    <3> HIDE DEF j
    <3>3. Calm /\ busy = {} /\ busy' = {j}  BY <1>1, <2>1, <2>3, <3>1 DEF Calm
    <3>4. Quiet /\ Applied /\ PassedOver  BY <3>3 DEF Inv
    <3>5. \A s \in Sub : Top[s] = marker[s]
      BY <3>3, TopIs DEF Top
    <3>6. \A s \in Sub : Top'[s] = marker[s]
      <4>1. \A s \in Sub : \A h \in busy' : ~Writes(h, ev', s)  BY <3>2, <3>3 DEF Writes
      <4>2. \A g, h \in busy' : g = h  BY <3>3
      <4>3. \A s \in Sub : TopOf(busy', marker', ev')[s] = marker'[s]  BY <4>1, <4>2, TopIs
      <4> QED  BY <4>3, <1>1 DEF Top
    <3>7. Top' = Top  BY <3>5, <3>6 DEF Top, TopOf
    <3>8. custody[e] = "none" /\ custody'[e] = "held"
      <4>1. custody[e] \in {"none", "held", "failed", "done"}  BY DEF Inv, Types, TypeOK
      <4> QED  BY <4>1, <1>1, <1>3, <1>6, <3>3, <3>4 DEF Quiet
    <3>9. Quiet'
      BY <1>1, <1>2, <1>3, <1>4, <1>6, <3>2, <3>3, <3>4, <3>8 DEF Quiet
    <3>10. Applied'
      BY <1>1, <1>2, <1>3, <1>4, <3>4, <3>7, <3>8 DEF Applied
    <3>11. PassedOver'
      BY <1>1, <1>2, <1>3, <1>4, <3>2, <3>3, <3>4, <3>7, <3>8 DEF PassedOver
    <3> QED  BY <3>9, <3>10, <3>11
  <2> QED  BY <2>2, <2>3 DEF Inv
<1>7. CASE /\ custody[e] # "done" /\ Upset
           /\ Take(e, "unkeyed")
           /\ UNCHANGED <<acked, lock>>
  <2>1. acked' = acked /\ lock' = lock /\ custody'[e] # "none"
    BY <1>3, <1>7
  <2>2. upsets' \in Nat /\ upsets' # 0  BY <1>7 DEF Upset, Inv, Types
  <2>3. Types' /\ Sales' /\ RowOK' /\ Work' /\ (~overlapped' => Alone')
    <3>1. Take(e, "unkeyed") /\ lock' \subseteq lock \cup {e}  BY <1>7, <2>1
    <3> QED  BY <1>1, <1>3, <2>1, <2>2, <3>1, TakeKeeps
  <2> QED  BY <2>2, <2>3 DEF Inv, Calm
<1> QED  BY <1>5, <1>6, <1>7 DEF Deliver, Keyed

LEMMA SweepKeeps ==
  ASSUME Inv, NEW e \in 1 .. MaxEvents, Sweep(e)
  PROVE  Inv'
<1>1. /\ stripe' = stripe /\ ev' = ev /\ marker' = marker /\ row' = row /\ admin' = admin
      /\ acked' = acked /\ custody' = custody /\ abandoned' = abandoned /\ lock' = lock /\ upsets' = upsets
      /\ e \in Events /\ Overdue(e) /\ Take(e, "sweep")
  BY DEF Sweep
<1>2. custody[e] # "none"  BY <1>1 DEF Overdue
<1>3. Types' /\ Sales' /\ RowOK' /\ Work' /\ (~overlapped' => Alone')
  <2>1. /\ upsets' \in Nat /\ lock' \subseteq lock \cup {e}
        /\ custody' \in [1 .. MaxEvents -> {"none", "held", "failed", "done"}]
    BY <1>1 DEF Inv, Types, TypeOK
  <2> QED  BY <1>1, <1>2, <2>1, TakeKeeps
<1>4. ASSUME Calm' PROVE FALSE
  <2>1. Calm  BY <1>1, <1>4 DEF Calm, Take
  <2> QED  BY <2>1, <1>1 DEF Inv, Quiet, Overdue
<1> QED  BY <1>3, <1>4 DEF Inv

\* Whoever leaves, however, takes only its own claim with it.
LEMMA LeaveKeeps ==
  ASSUME Inv, NEW h \in busy, busy' = busy \ {h},
         stripe' = stripe, ev' = ev, row' = row, admin' = admin, marker' = marker,
         overlapped' = overlapped, upsets' \in Nat, acked' \subseteq Events, lock' \subseteq lock,
         abandoned' \subseteq abandoned,
         custody' \in [1 .. MaxEvents -> {"none", "held", "failed", "done"}],
         \A x \in 1 .. MaxEvents : custody'[x] = "none" <=> custody[x] = "none"
  PROVE  Types' /\ Sales' /\ RowOK' /\ Work' /\ (~overlapped' => Alone')
<1>1. Sales' /\ Events' = Events  BY SalesStay DEF Inv
<1>2. Types'
  <2>1. TypeOK'  BY <1>1 DEF Inv, Types, TypeOK
  <2> QED  BY <2>1 DEF Inv, Types
<1>3. RowOK'  BY DEF Inv, RowOK
<1>4. Events \subseteq 1 .. MaxEvents
  BY BoundAssumption, LenProperties DEF Inv, Types, TypeOK, Events
<1>5. Work'
  <2>1. (\A g \in busy : g.e \in 1 .. MaxEvents) /\ lock \subseteq 1 .. MaxEvents
    BY <1>4 DEF Inv, Types, TypeOK
  <2>2. (\A g \in busy :
       /\ (g.at \in {"apply", "record", "mark"} => ev[g.e].kind = "updated")
       /\ (g.at = "drop" => ev[g.e].kind = "deleted")
       /\ (g.at = "settle" => ev[g.e].kind \in {"paid", "failed", "first_failed"})
       /\ custody[g.e] # "none")'
    BY <2>1 DEF Inv, Work
  <2>3. (\A x \in lock : custody[x] # "none")'  BY <2>1 DEF Inv, Work
  <2>4. (\A x \in 1 .. MaxEvents : x \notin Events => custody[x] = "none")'
    BY <1>1 DEF Inv, Work
  <2> QED  BY <2>2, <2>3, <2>4 DEF Work
<1>6. ~overlapped' => Alone'
  BY <1>1 DEF Inv, Alone
<1> QED  BY <1>1, <1>2, <1>3, <1>5, <1>6

LEMMA AnsweredIsEvents ==
  ASSUME Inv, NEW h \in busy
  PROVE  /\ Answered(h) \subseteq Events
         /\ h.e \in Events /\ h.e \in 1 .. MaxEvents /\ ev[h.e] \in Event /\ ev[h.e].sub \in Sub
         /\ custody[h.e] # "none"
<1>1. acked \subseteq Events /\ h.e \in Events  BY DEF Inv, Types, TypeOK
<1>2. Events \subseteq 1 .. MaxEvents
  BY BoundAssumption, LenProperties DEF Inv, Types, TypeOK, Events
<1>3. ev[h.e] \in Event  BY <1>1, ElementOfSeq DEF Inv, Types, Events
<1>4. custody[h.e] # "none"  BY DEF Inv, Work
<1> QED  BY <1>1, <1>2, <1>3, <1>4 DEF Answered, Event

LEMMA UpsetKeeps ==
  ASSUME Inv, NEW h \in busy, Fail(h) \/ Crash(h)
  PROVE  Inv'
<1>1. /\ stripe' = stripe /\ ev' = ev /\ marker' = marker /\ row' = row /\ admin' = admin
      /\ overlapped' = overlapped /\ busy' = busy \ {h} /\ abandoned' \subseteq abandoned /\ Upset
  BY DEF Fail, Crash
<1>2. upsets' \in Nat /\ upsets' # 0  BY <1>1 DEF Upset, Inv, Types
<1>3. acked' \subseteq Events /\ lock' \subseteq lock
  BY AnsweredIsEvents DEF Fail, Crash, Inv, Types, TypeOK
<1>4. /\ custody' \in [1 .. MaxEvents -> {"none", "held", "failed", "done"}]
      /\ \A x \in 1 .. MaxEvents : custody'[x] = "none" <=> custody[x] = "none"
  <2>1. custody \in [1 .. MaxEvents -> {"none", "held", "failed", "done"}]
    BY DEF Inv, Types, TypeOK
  <2>2. h.e \in 1 .. MaxEvents  BY AnsweredIsEvents
  <2>3. CASE Crash(h)  BY <2>1, <2>3 DEF Crash
  <2>4. CASE Fail(h)
    <3>1. custody' \in {custody, [custody EXCEPT ![h.e] = "failed"]}
          /\ (custody' # custody => custody[h.e] = "held")
      BY <2>1, <2>2, <2>4 DEF Fail
    <3> QED  BY <2>1, <2>2, <3>1
  <2> QED  BY <2>3, <2>4
<1>5. Types' /\ Sales' /\ RowOK' /\ Work' /\ (~overlapped' => Alone')
  BY <1>1, <1>2, <1>3, <1>4, LeaveKeeps
<1> QED  BY <1>2, <1>5 DEF Inv, Calm

LEMMA FinishKeeps ==
  ASSUME Inv, NEW h \in busy, Finish(h)
  PROVE  Inv'
<1>1. /\ stripe' = stripe /\ ev' = ev /\ marker' = marker /\ row' = row /\ admin' = admin
      /\ overlapped' = overlapped /\ upsets' = upsets /\ lock' = lock
      /\ busy' = busy \ {h} /\ h.at = "finish" /\ acked' = Answered(h)
      /\ abandoned' \subseteq abandoned
      /\ custody' = [custody EXCEPT ![h.e] = "done"]
  BY DEF Finish
<1>2. h.e \in Events /\ h.e \in 1 .. MaxEvents /\ custody[h.e] # "none" /\ acked' \subseteq Events
  BY <1>1, AnsweredIsEvents
<1>3. /\ custody' \in [1 .. MaxEvents -> {"none", "held", "failed", "done"}]
      /\ custody'[h.e] = "done"
      /\ \A x \in 1 .. MaxEvents : x # h.e => custody'[x] = custody[x]
  BY <1>1, <1>2 DEF Inv, Types, TypeOK
<1>4. Types' /\ Sales' /\ RowOK' /\ Work' /\ (~overlapped' => Alone')
  <2>1. /\ \A x \in 1 .. MaxEvents : custody'[x] = "none" <=> custody[x] = "none"
        /\ upsets' \in Nat /\ lock' \subseteq lock
    BY <1>1, <1>2, <1>3 DEF Inv, Types
  <2> QED  BY <1>1, <1>2, <1>3, <2>1, LeaveKeeps
<1>5. ASSUME Calm' PROVE (Quiet /\ Applied /\ PassedOver)'
  <2>1. Calm /\ Alone /\ Quiet /\ Applied /\ PassedOver
    BY <1>1, <1>5 DEF Calm, Inv
  <2>2. busy = {h} /\ busy' = {}  BY <1>1, <2>1 DEF Alone
  <2>3. Top' = Top
    <3>1. \A s \in Sub : Top[s] = marker[s]
      <4>1. \A s \in Sub : \A g \in busy : ~Writes(g, ev, s)  BY <1>1, <2>2 DEF Writes
      <4>2. \A f, g \in busy : f = g  BY <2>2
      <4> QED  BY <4>1, <4>2, TopIs DEF Top
    <3>2. \A s \in Sub : TopOf(busy', marker', ev')[s] = marker'[s]
      BY <2>2, TopIs
    <3> QED  BY <1>1, <3>1, <3>2 DEF Top, TopOf
  <2>4. Events' = Events /\ Events \subseteq 1 .. MaxEvents
    BY <1>1, BoundAssumption, LenProperties DEF Inv, Types, TypeOK, Events
  <2>5. Quiet'  BY <1>1, <1>3, <2>1, <2>2, <2>4 DEF Quiet
  <2>6. Applied'  BY <1>1, <1>2, <1>3, <2>1, <2>3, <2>4 DEF Applied
  <2>7. PassedOver'  BY <1>1, <1>2, <1>3, <2>1, <2>2, <2>3, <2>4 DEF PassedOver
  <2> QED  BY <2>5, <2>6, <2>7
<1> QED  BY <1>4, <1>5 DEF Inv

-----------------------------------------------------------------------------
(* The handlers.                                                           *)

\* A handler that goes from one place to the next.
LEMMA GotoMoves ==
  ASSUME Inv, NEW h \in busy, NEW place \in Place, Goto(h, place)
  PROVE  \E j \in Job : /\ busy' = (busy \ {h}) \cup {j}
                        /\ j.e = h.e /\ j.via = h.via /\ j.at = place
<1>1. h \in Job  BY DEF Inv, Types, TypeOK, Job
<1> DEFINE j == [h EXCEPT !.at = place]
<1>2. j \in Job /\ j.e = h.e /\ j.via = h.via /\ j.at = place
  BY <1>1, Zenon DEF Job
<1>3. busy' = (busy \ {h}) \cup {j}  BY DEF Goto
<1> QED  BY <1>2, <1>3

\* What any handler's step keeps, when the place it goes to fits its event and what
\* it writes fits the row.
LEMMA MoveKeeps ==
  ASSUME Inv, NEW h \in busy, NEW place \in Place, Goto(h, place),
         stripe' = stripe, ev' = ev, acked' = acked, custody' = custody, lock' = lock,
         abandoned' = abandoned, admin' = admin, overlapped' = overlapped, upsets' \in Nat,
         marker' \in [Sub -> 0 .. MaxEvents], row' \in SubscriptionRow,
         row'.grace => row'.status = "past_due",
         row'.sub = None => row'.plan \notin Plan,
         row'.sub # None => stripe[row'.sub].status # "none",
         place \in {"apply", "record", "mark"} => ev[h.e].kind = "updated",
         place = "drop" => ev[h.e].kind = "deleted",
         place = "settle" => ev[h.e].kind \in {"paid", "failed", "first_failed"},
         ~overlapped => /\ (place = "drop" => row'.sub \in {None, ev[h.e].sub} /\ row'.mode = "stripe")
                        /\ (place = "settle" => row'.sub = ev[h.e].sub)
                        /\ (row'.grace => \E f \in Events : ev[f].sub = row'.sub /\ ev[f].status \in Ran)
  PROVE  Types' /\ Sales' /\ RowOK' /\ Work' /\ (~overlapped' => Alone')
<1>1. PICK j \in Job : /\ busy' = (busy \ {h}) \cup {j}
                       /\ j.e = h.e /\ j.via = h.via /\ j.at = place
  BY GotoMoves
<1>2. Sales' /\ Events' = Events  BY SalesStay DEF Inv
<1>3. Types'
  <2>1. busy' \subseteq Job  BY <1>1 DEF Inv, Types, TypeOK, Job
  <2>2. row'.mode = "stripe" /\ row'.plan \in Plan => row'.sub # None  OBVIOUS
  <2>3. TypeOK'
    BY <2>1, <2>2, <1>2 DEF Inv, Types, TypeOK, Job, SubscriptionRow
  <2> QED  BY <2>3 DEF Inv, Types
<1>4. RowOK'  BY DEF RowOK
<1>5. custody[h.e] # "none"  BY DEF Inv, Work
<1>6. Work'
  <2>1. (\A g \in busy :
       /\ (g.at \in {"apply", "record", "mark"} => ev[g.e].kind = "updated")
       /\ (g.at = "drop" => ev[g.e].kind = "deleted")
       /\ (g.at = "settle" => ev[g.e].kind \in {"paid", "failed", "first_failed"})
       /\ custody[g.e] # "none")'
    BY <1>1, <1>5 DEF Inv, Work
  <2> QED  BY <2>1, <1>2 DEF Inv, Work
<1>7. ASSUME ~overlapped' PROVE Alone'
  <2>1. busy = {h}  BY <1>7 DEF Inv, Alone
  <2>2. busy' = {j}  BY <2>1, <1>1
  <2>3. (\A f, g \in busy : f = g)'  BY <2>2
  <2>4. (\A g \in busy :
       /\ (g.at = "drop" => row.sub \in {None, ev[g.e].sub} /\ row.mode = "stripe")
       /\ (g.at = "settle" => row.sub = ev[g.e].sub))'
    BY <2>2, <1>1, <1>7
  <2>5. (row.grace => \E f \in Events : ev[f].sub = row.sub /\ ev[f].status \in Ran)'
    BY <1>2, <1>7
  <2> QED  BY <2>3, <2>4, <2>5 DEF Alone
<1> QED  BY <1>2, <1>3, <1>4, <1>6, <1>7

\* When nothing else runs: the newest event applied, before the step and after it.
LEMMA MoveAlone ==
  ASSUME Inv, Calm, NEW h \in busy, NEW place \in Place, Goto(h, place), ev' = ev
  PROVE  /\ Quiet /\ Applied /\ PassedOver
         /\ busy = {h}
         /\ \E j \in Job : /\ busy' = {j}
                           /\ j.e = h.e /\ j.via = h.via /\ j.at = place
         /\ \A s \in Sub :
              /\ Top[s] = IF h.at \in {"record", "mark"} /\ ev[h.e].sub = s THEN h.e ELSE marker[s]
              /\ Top'[s] = IF place \in {"record", "mark"} /\ ev[h.e].sub = s THEN h.e ELSE marker'[s]
<1>1. Quiet /\ Applied /\ PassedOver /\ Alone  BY DEF Inv, Calm
<1>2. busy = {h}  BY <1>1 DEF Alone
<1>3. PICK j \in Job : /\ busy' = (busy \ {h}) \cup {j}
                       /\ j.e = h.e /\ j.via = h.via /\ j.at = place
  BY GotoMoves
<1>4. busy' = {j}  BY <1>2, <1>3
<1>5. ASSUME NEW s \in Sub
      PROVE  Top[s] = IF h.at \in {"record", "mark"} /\ ev[h.e].sub = s THEN h.e ELSE marker[s]
  <2>1. \A f, g \in busy : f = g  BY <1>2
  <2>2. /\ \A g \in busy : Writes(g, ev, s) => TopOf(busy, marker, ev)[s] = g.e
        /\ (\A g \in busy : ~Writes(g, ev, s)) => TopOf(busy, marker, ev)[s] = marker[s]
    BY <2>1, TopIs
  <2> QED  BY <1>2, <2>2 DEF Top, Writes
<1>6. ASSUME NEW s \in Sub
      PROVE  Top'[s] = IF place \in {"record", "mark"} /\ ev[h.e].sub = s THEN h.e ELSE marker'[s]
  <2>1. \A f, g \in busy' : f = g  BY <1>4
  <2>2. /\ \A g \in busy' : Writes(g, ev', s) => TopOf(busy', marker', ev')[s] = g.e
        /\ (\A g \in busy' : ~Writes(g, ev', s)) => TopOf(busy', marker', ev')[s] = marker'[s]
    BY <2>1, TopIs
  <2> QED  BY <1>3, <1>4, <2>2 DEF Top, Writes
<1> QED  BY <1>1, <1>2, <1>3, <1>4, <1>5, <1>6

LEMMA EventFields ==
  ASSUME Inv
  PROVE  \A e \in Events : /\ ev[e] \in Event /\ ev[e].sub \in Sub /\ ev[e].period \in Nat
                           /\ e \in Nat /\ e # 0
<1>1. ev \in Seq(Event) /\ Len(ev) \in Nat  BY LenProperties DEF Inv, Types
<1>2. \A e \in Events : ev[e] \in Event  BY <1>1, ElementOfSeq DEF Events
<1>3. \A e \in Events : ev[e].sub \in Sub /\ ev[e].period \in Nat
  BY <1>2, BoundAssumption DEF Event
<1>4. \A e \in Events : e \in Nat /\ e # 0  BY <1>1 DEF Events
<1> QED  BY <1>2, <1>3, <1>4

\* A step that leaves the newest events applied as they are.
LEMMA MoveCalm ==
  ASSUME Inv, Calm, NEW h \in busy, NEW place \in Place, Goto(h, place),
         stripe' = stripe, ev' = ev, custody' = custody, lock' = lock,
         \A s \in Sub : Top'[s] = Top[s],
         place \in {"record", "mark"} => marker'[ev[h.e].sub] <= h.e,
         row'.sub = None => row'.period = None,
         row'.period # None => row'.period <= stripe[row'.sub].period,
         row'.plan \in Plan => /\ row'.sub \in Sub
                               /\ Top[row'.sub] # 0 /\ ev[Top[row'.sub]].plan = row'.plan,
         place = "finish" /\ ev[h.e].kind = "updated"
           => h.e <= Top[ev[h.e].sub] \/ ev[h.e].status \notin Live,
         place = "apply" => Top[ev[h.e].sub] <= h.e,
         \A e \in Events : ev[e].kind = "updated" /\ ev[e].sub = row'.sub /\ row'.period # None
           /\ Top[row'.sub] < e => row'.period <= ev[e].period
  PROVE  Quiet' /\ Applied' /\ PassedOver'
<1>1. Quiet /\ Applied /\ PassedOver /\ busy = {h}  BY MoveAlone
<1>2. PICK j \in Job : busy' = {j} /\ j.e = h.e /\ j.via = h.via /\ j.at = place
  BY MoveAlone
<1>3. Events' = Events  BY DEF Events
<1>4. ev[h.e].sub \in Sub /\ h.e \in Events  BY AnsweredIsEvents
<1>5. \A e \in Events : ev[e].sub \in Sub
  BY EventFields
<1>6. Quiet'
  <2>1. (\A g \in busy : g.via = "live" /\ custody[g.e] = "held" /\ g.e \in lock)'
    BY <1>1, <1>2 DEF Quiet
  <2>2. (\A e \in Events : custody[e] # "failed"
             /\ (custody[e] = "held" => \E g \in busy : g.e = e))'
    BY <1>1, <1>2, <1>3 DEF Quiet
  <2>3. (\A g \in busy : g.at \in {"record", "mark"} => marker[ev[g.e].sub] <= g.e)'
    BY <1>2
  <2> QED  BY <2>1, <2>2, <2>3 DEF Quiet
<1>7. Applied'
  <2>1. (\A s \in Sub : Top[s] # 0 =>
       /\ Top[s] \in Events /\ ev[Top[s]].kind = "updated" /\ ev[Top[s]].sub = s
       /\ custody[Top[s]] # "none")'
    BY <1>1, <1>3 DEF Applied
  <2>2. (row.plan \in Plan => Top[row.sub] # 0 /\ ev[Top[row.sub]].plan = row.plan)'
    OBVIOUS
  <2> QED  BY <2>1, <2>2 DEF Applied
<1>8. PassedOver'
  <2>1. (\A e \in Events : ev[e].kind = "updated" /\ custody[e] = "done"
               => e <= Top[ev[e].sub] \/ ev[e].status \notin Live)'
    BY <1>1, <1>3, <1>5 DEF PassedOver
  <2>2. (\A g \in busy : g.at = "finish" /\ ev[g.e].kind = "updated"
               => g.e <= Top[ev[g.e].sub] \/ ev[g.e].status \notin Live)'
    BY <1>2, <1>4
  <2>3. (\A g \in busy : g.at = "apply" => Top[ev[g.e].sub] <= g.e)'
    BY <1>2, <1>4
  <2>4. (\A e \in Events : ev[e].kind = "updated" /\ ev[e].sub = row.sub /\ row.period # None
             /\ Top[row.sub] < e => row.period <= ev[e].period)'
    BY <1>3, <1>5
  <2> QED  BY <2>1, <2>2, <2>3, <2>4 DEF PassedOver
<1> QED  BY <1>6, <1>7, <1>8

\* The row as the invariant has it.
LEMMA RowFacts ==
  ASSUME Inv
  PROVE  /\ row \in SubscriptionRow
         /\ (row.grace => row.status = "past_due")
         /\ (row.sub = None => row.plan \notin Plan)
         /\ (row.sub # None => row.sub \in Sub /\ stripe[row.sub].status # "none")
         /\ (~overlapped /\ row.grace =>
               \E f \in Events : ev[f].sub = row.sub /\ ev[f].status \in Ran)
         /\ marker \in [Sub -> 0 .. MaxEvents] /\ upsets \in Nat
         /\ (row.period # None => row.period \in Nat)
<1>1. row \in SubscriptionRow /\ (row.grace => row.status = "past_due")
  BY DEF Inv, Types, TypeOK, SubscriptionRow
<1>2. (row.sub = None => row.plan \notin Plan) /\ (row.sub # None => stripe[row.sub].status # "none")
  BY DEF Inv, RowOK
<1>3. row.sub \in Sub \cup {None} /\ row.period \in {None} \cup 0 .. MaxPeriods
  BY <1>1 DEF SubscriptionRow
<1>4. ~overlapped /\ row.grace => \E f \in Events : ev[f].sub = row.sub /\ ev[f].status \in Ran
  BY DEF Inv, Alone
<1>5. marker \in [Sub -> 0 .. MaxEvents] /\ upsets \in Nat
  BY DEF Inv, Types, TypeOK
<1> QED  BY <1>1, <1>2, <1>3, <1>4, <1>5, BoundAssumption

\* A step that leaves the row's subscription, plan and period, and the newest
\* events applied, as they are.
LEMMA MoveCalmSameRow ==
  ASSUME Inv, Calm, NEW h \in busy, NEW place \in Place, Goto(h, place),
         stripe' = stripe, ev' = ev, custody' = custody, lock' = lock,
         \A s \in Sub : Top'[s] = Top[s],
         place \in {"record", "mark"} => marker'[ev[h.e].sub] <= h.e,
         row'.sub = row.sub, row'.plan = row.plan, row'.period = row.period,
         place = "finish" /\ ev[h.e].kind = "updated"
           => h.e <= Top[ev[h.e].sub] \/ ev[h.e].status \notin Live,
         place = "apply" => Top[ev[h.e].sub] <= h.e
  PROVE  Quiet' /\ Applied' /\ PassedOver'
<1>1. Quiet /\ Applied /\ PassedOver  BY MoveAlone
<1>2. /\ (row'.sub = None => row'.period = None)
      /\ (row'.period # None => row'.period <= stripe[row'.sub].period)
  BY <1>1 DEF Quiet
<1>3. row'.plan \in Plan => /\ row'.sub \in Sub
                            /\ Top[row'.sub] # 0 /\ ev[Top[row'.sub]].plan = row'.plan
  BY <1>1, RowFacts DEF Applied
<1>4. \A e \in Events : ev[e].kind = "updated" /\ ev[e].sub = row'.sub /\ row'.period # None
           /\ Top[row'.sub] < e => row'.period <= ev[e].period
  BY <1>1 DEF PassedOver
<1> QED  BY <1>2, <1>3, <1>4, MoveCalm

LEMMA ReadSubscriptionKeeps ==
  ASSUME Inv, NEW h \in busy, ReadSubscription(h)
  PROVE  Inv'
<1> DEFINE v == ev[h.e]
<1>1. /\ h.at = "dispatch" /\ v.kind = "updated"
      /\ stripe' = stripe /\ ev' = ev /\ acked' = acked /\ custody' = custody
      /\ abandoned' = abandoned /\ lock' = lock
      /\ admin' = admin /\ overlapped' = overlapped /\ marker' = marker /\ row' = row
  BY DEF ReadSubscription
<1>2. PICK place \in {"finish", "apply"} :
        /\ Goto(h, place)
        /\ \/ /\ place = "finish" <=> StaleByPeriod(v) \/ Stale(h, v)
              /\ upsets' = upsets
           \/ Upset
  <2>1. CASE Goto(h, IF StaleByPeriod(v) \/ Stale(h, v) THEN "finish" ELSE "apply")
             /\ UNCHANGED upsets
    <3>1. CASE StaleByPeriod(v) \/ Stale(h, v)  BY <2>1, <3>1
    <3>2. CASE ~(StaleByPeriod(v) \/ Stale(h, v))  BY <2>1, <3>2
    <3> QED  BY <3>1, <3>2
  <2>2. CASE Upset /\ Goto(h, "apply")  BY <2>2
  <2> QED  BY <2>1, <2>2 DEF ReadSubscription
<1>3. place \in Place  BY DEF Place
<1>4. upsets' \in Nat /\ (upsets' = 0 => upsets' = upsets)
  BY <1>2, RowFacts DEF Upset
<1>5. Types' /\ Sales' /\ RowOK' /\ Work' /\ (~overlapped' => Alone')
  BY <1>1, <1>2, <1>3, <1>4, RowFacts, MoveKeeps
<1>6. ASSUME Calm' PROVE Quiet' /\ Applied' /\ PassedOver'
  <2>1. Calm /\ upsets' = upsets  BY <1>1, <1>4, <1>6 DEF Calm
  <2>2. place = "finish" <=> StaleByPeriod(v) \/ Stale(h, v)
    BY <1>2, <1>6, <2>1, RowFacts DEF Upset
  <2>3. \A s \in Sub : Top[s] = marker[s] /\ Top'[s] = marker[s]
    BY <1>1, <1>2, <1>3, <2>1, MoveAlone
  <2>4. Quiet /\ PassedOver  BY <1>1, <1>2, <1>3, <2>1, MoveAlone
  <2>5. h.via = "live" /\ h.e \in Events /\ v.sub \in Sub /\ v.period \in Nat /\ h.e \in Nat
    BY <2>4, AnsweredIsEvents, EventFields DEF Quiet
  <2>6. marker[v.sub] \in Nat  BY <2>5, RowFacts, BoundAssumption
  <2>7. StaleByPeriod(v) => h.e <= Top[v.sub]
    <3> SUFFICES ASSUME StaleByPeriod(v), ~(h.e <= Top[v.sub]) PROVE FALSE
      OBVIOUS
    <3>1. row.sub = v.sub /\ row.period # None /\ v.period < row.period  BY DEF StaleByPeriod
    <3>2. Top[row.sub] < h.e  BY <2>3, <2>5, <2>6, <3>1
    <3>3. row.period <= v.period  BY <1>1, <2>4, <2>5, <3>1, <3>2 DEF PassedOver
    <3> QED  BY <3>1, <3>3, <2>5, RowFacts
  <2>8. place = "finish" => h.e <= Top[v.sub]
    BY <2>2, <2>3, <2>5, <2>6, <2>7 DEF Stale
  <2>9. place = "apply" => Top[v.sub] <= h.e
    BY <2>2, <2>3, <2>5, <2>6 DEF Stale
  <2> QED  BY <1>1, <1>2, <1>3, <2>1, <2>3, <2>8, <2>9, MoveCalmSameRow
<1> QED  BY <1>5, <1>6 DEF Inv

LEMMA ReadMarkerKeeps ==
  ASSUME Inv, NEW h \in busy, ReadMarker(h)
  PROVE  Inv'
<1> DEFINE v == ev[h.e]
           place == IF h.via = "sweep" \/ marker[v.sub] >= h.e THEN "finish" ELSE "mark"
<1>1. /\ h.at = "record" /\ Goto(h, place)
      /\ stripe' = stripe /\ ev' = ev /\ acked' = acked /\ custody' = custody
      /\ abandoned' = abandoned /\ lock' = lock
      /\ admin' = admin /\ overlapped' = overlapped /\ upsets' = upsets
      /\ marker' = marker /\ row' = row
  BY DEF ReadMarker, handlerVars
<1>2. place \in Place  BY DEF Place
<1>3. v.kind = "updated"  BY <1>1 DEF Inv, Work
<1>4. place \in {"finish", "mark"} /\ (place = "finish" <=> h.via = "sweep" \/ marker[v.sub] >= h.e)
  OBVIOUS
<1> HIDE DEF place
<1>5. Types' /\ Sales' /\ RowOK' /\ Work' /\ (~overlapped' => Alone')
  BY <1>1, <1>2, <1>3, <1>4, RowFacts, MoveKeeps
<1>6. ASSUME Calm' PROVE Quiet' /\ Applied' /\ PassedOver'
  <2>1. Calm  BY <1>1, <1>6 DEF Calm
  <2>2. Quiet  BY <1>1, <1>2, <2>1, MoveAlone
  <2>3. h.via = "live" /\ v.sub \in Sub /\ h.e \in Nat /\ marker[v.sub] <= h.e
    BY <1>1, <2>2, AnsweredIsEvents, EventFields DEF Quiet
  <2>4. marker[v.sub] \in Nat  BY <2>3, RowFacts, BoundAssumption
  <2>5. place = "finish" => marker[v.sub] = h.e  BY <1>4, <2>3, <2>4
  <2>6. \A s \in Sub :
          /\ Top[s] = IF v.sub = s THEN h.e ELSE marker[s]
          /\ Top'[s] = IF place = "mark" /\ v.sub = s THEN h.e ELSE marker[s]
    BY <1>1, <1>2, <1>4, <2>1, MoveAlone
  <2>7. \A s \in Sub : Top'[s] = Top[s]  BY <1>4, <2>3, <2>5, <2>6
  <2>8. h.e <= Top[v.sub]  BY <2>3, <2>6
  <2> QED  BY <1>1, <1>2, <1>4, <2>1, <2>3, <2>7, <2>8, MoveCalmSameRow
<1> QED  BY <1>5, <1>6 DEF Inv

LEMMA WriteMarkerKeeps ==
  ASSUME Inv, NEW h \in busy, WriteMarker(h)
  PROVE  Inv'
<1> DEFINE v == ev[h.e]
<1>1. /\ h.at = "mark" /\ Goto(h, "finish")
      /\ stripe' = stripe /\ ev' = ev /\ acked' = acked /\ custody' = custody
      /\ abandoned' = abandoned /\ lock' = lock
      /\ admin' = admin /\ overlapped' = overlapped /\ row' = row
      /\ \/ marker' = [marker EXCEPT ![v.sub] = h.e] /\ upsets' = upsets
         \/ marker' = marker /\ Upset
  BY DEF WriteMarker
<1>2. "finish" \in Place  BY DEF Place
<1>3. v.sub \in Sub /\ h.e \in 0 .. MaxEvents /\ h.e \in Nat
  BY AnsweredIsEvents, EventFields, BoundAssumption
<1>4. marker' \in [Sub -> 0 .. MaxEvents]  BY <1>1, <1>3, RowFacts
<1>5. upsets' \in Nat /\ (upsets' = 0 => upsets' = upsets /\ marker' = [marker EXCEPT ![v.sub] = h.e])
  BY <1>1, RowFacts DEF Upset
<1>6. Types' /\ Sales' /\ RowOK' /\ Work' /\ (~overlapped' => Alone')
  BY <1>1, <1>2, <1>4, <1>5, RowFacts, MoveKeeps
<1>7. ASSUME Calm' PROVE Quiet' /\ Applied' /\ PassedOver'
  <2>1. Calm /\ marker' = [marker EXCEPT ![v.sub] = h.e]  BY <1>1, <1>5, <1>7 DEF Calm
  <2>2. \A s \in Sub :
          /\ Top[s] = IF v.sub = s THEN h.e ELSE marker[s]
          /\ Top'[s] = marker'[s]
    BY <1>1, <1>2, <2>1, MoveAlone
  <2>3. \A s \in Sub : Top'[s] = Top[s]  BY <1>3, <2>1, <2>2, RowFacts
  <2>4. h.e <= Top[v.sub]  BY <1>3, <2>2
  <2> QED  BY <1>1, <1>2, <2>1, <2>3, <2>4, MoveCalmSameRow
<1> QED  BY <1>6, <1>7 DEF Inv

\* A step from a place where nothing is to be marked to another one, with the
\* markers as they are.
LEMMA TopStays ==
  ASSUME Inv, Calm, NEW h \in busy, NEW place \in Place, Goto(h, place), ev' = ev,
         marker' = marker, h.at \notin {"record", "mark"}, place \notin {"record", "mark"}
  PROVE  \A s \in Sub : Top'[s] = Top[s]
<1>1. \A s \in Sub : Top[s] = marker[s] /\ Top'[s] = marker[s]
  BY MoveAlone
<1> QED  BY <1>1

LEMMA ClaimPointerKeeps ==
  ASSUME Inv, NEW h \in busy, ClaimPointer(h)
  PROVE  Inv'
<1> DEFINE v == ev[h.e]
<1>1. /\ h.at = "dispatch" /\ v.kind = "completed" /\ Goto(h, "finish")
      /\ stripe' = stripe /\ ev' = ev /\ acked' = acked /\ custody' = custody
      /\ abandoned' = abandoned /\ lock' = lock
      /\ admin' = admin /\ overlapped' = overlapped /\ upsets' = upsets /\ marker' = marker
      /\ row' = IF row.sub = None THEN [row EXCEPT !.sub = v.sub] ELSE row
  BY DEF ClaimPointer, handlerVars
<1>2. "finish" \in Place  BY DEF Place
<1>3. v.sub \in Sub /\ v.sub # None /\ h.e \in Events
  BY AnsweredIsEvents, SubAssumption
<1>4. /\ row' \in SubscriptionRow /\ row'.plan = row.plan /\ row'.period = row.period
      /\ row'.status = row.status /\ row'.mode = row.mode /\ row'.grace = row.grace
      /\ row'.sub = IF row.sub = None THEN v.sub ELSE row.sub
  <2>1. row \in SubscriptionRow  BY RowFacts
  <2>2. CASE row.sub = None
    <3>1. row' = [row EXCEPT !.sub = v.sub]  BY <1>1, <2>2
    <3> QED  BY <2>1, <2>2, <3>1, <1>3, Zenon DEF SubscriptionRow
  <2>3. CASE row.sub # None  BY <1>1, <2>1, <2>3
  <2> QED  BY <2>2, <2>3
<1>5. row'.sub # None => stripe[row'.sub].status # "none"
  <2>1. stripe[v.sub].status # "none"  BY <1>3 DEF Inv, Sales, Sold
  <2> QED  BY <2>1, <1>4, RowFacts
<1>6. ~overlapped /\ row'.grace => \E f \in Events : ev[f].sub = row'.sub /\ ev[f].status \in Ran
  <2> SUFFICES ASSUME ~overlapped, row'.grace
               PROVE  \E f \in Events : ev[f].sub = row'.sub /\ ev[f].status \in Ran
    OBVIOUS
  <2>1. PICK f \in Events : ev[f].sub = row.sub /\ ev[f].status \in Ran  BY <1>4, RowFacts
  <2>2. row.sub # None  BY <2>1, EventFields, SubAssumption
  <2> QED  BY <2>1, <2>2, <1>4
<1>7. row'.sub = None => row'.plan \notin Plan  BY <1>3, <1>4, RowFacts
<1>8. Types' /\ Sales' /\ RowOK' /\ Work' /\ (~overlapped' => Alone')
  <2>1. row'.grace => row'.status = "past_due"  BY <1>4, RowFacts
  <2>2. marker' \in [Sub -> 0 .. MaxEvents] /\ upsets' \in Nat  BY <1>1, RowFacts
  <2> QED  BY <2>1, <2>2, <1>1, <1>2, <1>4, <1>5, <1>6, <1>7, MoveKeeps
<1>9. ASSUME Calm' PROVE Quiet' /\ Applied' /\ PassedOver'
  <2>1. Calm  BY <1>1, <1>9 DEF Calm
  <2>2. \A s \in Sub : Top'[s] = Top[s]  BY <1>1, <1>2, <2>1, TopStays
  <2>3. CASE row.sub # None
    <3>1. row' = row  BY <1>1, <2>3
    <3> QED  BY <3>1, <1>1, <1>2, <2>1, <2>2, MoveCalmSameRow
  <2>4. CASE row.sub = None
    <3>1. Quiet  BY <1>1, <1>2, <2>1, MoveAlone
    <3>2. row'.period = None /\ row'.plan \notin Plan /\ row'.sub = v.sub
      BY <1>4, <2>4, <3>1, RowFacts DEF Quiet
    <3> QED  BY <3>2, <1>1, <1>2, <2>1, <2>2, MoveCalm
  <2> QED  BY <2>3, <2>4
<1> QED  BY <1>8, <1>9 DEF Inv

LEMMA ReadDeletedKeeps ==
  ASSUME Inv, NEW h \in busy, ReadDeleted(h)
  PROVE  Inv'
<1> DEFINE v == ev[h.e]
           place == IF row.sub \notin {None, v.sub} \/ row.mode = "manual" THEN "finish" ELSE "drop"
<1>1. /\ h.at = "dispatch" /\ v.kind = "deleted" /\ Goto(h, place)
      /\ stripe' = stripe /\ ev' = ev /\ acked' = acked /\ custody' = custody
      /\ abandoned' = abandoned /\ lock' = lock
      /\ admin' = admin /\ overlapped' = overlapped /\ upsets' = upsets
      /\ marker' = marker /\ row' = row
  BY DEF ReadDeleted, handlerVars
<1>2. place \in Place /\ place \in {"finish", "drop"}  BY DEF Place
<1>3. place = "drop" => row.sub \in {None, v.sub} /\ row.mode = "stripe"
  BY RowFacts DEF SubscriptionRow
<1> HIDE DEF place
<1>4. Types' /\ Sales' /\ RowOK' /\ Work' /\ (~overlapped' => Alone')
  BY <1>1, <1>2, <1>3, RowFacts, MoveKeeps
<1>5. ASSUME Calm' PROVE Quiet' /\ Applied' /\ PassedOver'
  <2>1. Calm  BY <1>1, <1>5 DEF Calm
  <2>2. \A s \in Sub : Top'[s] = Top[s]  BY <1>1, <1>2, <2>1, TopStays
  <2> QED  BY <1>1, <1>2, <2>1, <2>2, MoveCalmSameRow
<1> QED  BY <1>4, <1>5 DEF Inv

LEMMA DropToStarterKeeps ==
  ASSUME Inv, NEW h \in busy, DropToStarter(h)
  PROVE  Inv'
<1>1. /\ h.at = "drop" /\ Goto(h, "finish")
      /\ stripe' = stripe /\ ev' = ev /\ acked' = acked /\ custody' = custody
      /\ abandoned' = abandoned /\ lock' = lock
      /\ admin' = admin /\ overlapped' = overlapped /\ upsets' = upsets /\ marker' = marker
      /\ row' = [plan |-> Starter, mode |-> "stripe", status |-> "canceled", sub |-> None,
                 period |-> None, grace |-> FALSE]
  BY DEF DropToStarter, handlerVars
<1>2. "finish" \in Place  BY DEF Place
<1>3. /\ row' \in SubscriptionRow /\ row'.plan \notin Plan /\ row'.sub = None
      /\ row'.period = None /\ ~row'.grace
  BY <1>1, PlanAssumption DEF SubscriptionRow
<1>4. Types' /\ Sales' /\ RowOK' /\ Work' /\ (~overlapped' => Alone')
  BY <1>1, <1>2, <1>3, RowFacts, MoveKeeps
<1>5. ASSUME Calm' PROVE Quiet' /\ Applied' /\ PassedOver'
  <2>1. Calm  BY <1>1, <1>5 DEF Calm
  <2>2. \A s \in Sub : Top'[s] = Top[s]  BY <1>1, <1>2, <2>1, TopStays
  <2>3. ev[h.e].kind = "deleted"  BY <1>1 DEF Inv, Work
  <2> QED  BY <1>1, <1>2, <1>3, <2>1, <2>2, <2>3, MoveCalm
<1> QED  BY <1>4, <1>5 DEF Inv

LEMMA ReadInvoiceKeeps ==
  ASSUME Inv, NEW h \in busy, ReadInvoice(h)
  PROVE  Inv'
<1> DEFINE v == ev[h.e]
           place == IF row.sub = v.sub THEN "settle" ELSE "finish"
<1>1. /\ h.at = "dispatch" /\ v.kind \in {"paid", "failed", "first_failed"} /\ Goto(h, place)
      /\ stripe' = stripe /\ ev' = ev /\ acked' = acked /\ custody' = custody
      /\ abandoned' = abandoned /\ lock' = lock
      /\ admin' = admin /\ overlapped' = overlapped /\ upsets' = upsets
      /\ marker' = marker /\ row' = row
  BY DEF ReadInvoice, handlerVars
<1>2. place \in Place /\ place \in {"finish", "settle"}  BY DEF Place
<1>3. place = "settle" => row.sub = v.sub  OBVIOUS
<1> HIDE DEF place
<1>4. Types' /\ Sales' /\ RowOK' /\ Work' /\ (~overlapped' => Alone')
  BY <1>1, <1>2, <1>3, RowFacts, MoveKeeps
<1>5. ASSUME Calm' PROVE Quiet' /\ Applied' /\ PassedOver'
  <2>1. Calm  BY <1>1, <1>5 DEF Calm
  <2>2. \A s \in Sub : Top'[s] = Top[s]  BY <1>1, <1>2, <2>1, TopStays
  <2> QED  BY <1>1, <1>2, <2>1, <2>2, MoveCalmSameRow
<1> QED  BY <1>4, <1>5 DEF Inv

LEMMA RecordPaymentKeeps ==
  ASSUME Inv, NEW h \in busy, RecordPayment(h)
  PROVE  Inv'
<1> DEFINE v == ev[h.e]
<1>1. /\ h.at = "settle" /\ Goto(h, "finish")
      /\ stripe' = stripe /\ ev' = ev /\ acked' = acked /\ custody' = custody
      /\ abandoned' = abandoned /\ lock' = lock
      /\ admin' = admin /\ overlapped' = overlapped /\ upsets' = upsets /\ marker' = marker
      /\ row' = IF v.kind = "paid"
                  THEN [row EXCEPT !.status = "active", !.grace = FALSE]
                  ELSE [row EXCEPT !.status = "past_due", !.grace = PaymentGrace(v)]
  BY DEF RecordPayment, handlerVars
<1>2. "finish" \in Place  BY DEF Place
<1>3. h.e \in Events /\ v.kind \in {"paid", "failed", "first_failed"}
  BY <1>1, AnsweredIsEvents DEF Inv, Work
<1>4. /\ row' \in SubscriptionRow /\ row'.plan = row.plan /\ row'.period = row.period
      /\ row'.sub = row.sub /\ row'.mode = row.mode
      /\ (row'.grace => row'.status = "past_due" /\ PaymentGrace(v))
  <2>1. row \in SubscriptionRow  BY RowFacts
  <2>2. PaymentGrace(v) \in BOOLEAN  BY <2>1 DEF PaymentGrace, SubscriptionRow
  <2>3. CASE v.kind = "paid"
    <3>1. row' = [row EXCEPT !.status = "active", !.grace = FALSE]  BY <1>1, <2>3
    <3> QED  BY <2>1, <3>1, Zenon DEF SubscriptionRow
  <2>4. CASE v.kind # "paid"
    <3>1. row' = [row EXCEPT !.status = "past_due", !.grace = PaymentGrace(v)]  BY <1>1, <2>4
    <3> QED  BY <2>1, <2>2, <3>1, Zenon DEF SubscriptionRow
  <2> QED  BY <2>3, <2>4
<1>5. ~overlapped /\ row'.grace => \E f \in Events : ev[f].sub = row'.sub /\ ev[f].status \in Ran
  <2> SUFFICES ASSUME ~overlapped, row'.grace
               PROVE  \E f \in Events : ev[f].sub = row.sub /\ ev[f].status \in Ran
    BY <1>4
  <2>1. CASE row.grace  BY <2>1, RowFacts
  <2>2. CASE v.kind = "failed"
    <3>1. row.sub = v.sub  BY <1>1 DEF Inv, Alone
    <3>2. \E f \in Events : ev[f].sub = v.sub /\ ev[f].status \in Ran
      BY <1>3, <2>2 DEF Inv, Sales, Said
    <3> QED  BY <3>1, <3>2
  <2> QED  BY <2>1, <2>2, <1>4 DEF PaymentGrace
<1>6. Types' /\ Sales' /\ RowOK' /\ Work' /\ (~overlapped' => Alone')
  <2>1. row'.grace => row'.status = "past_due"  BY <1>4
  <2>2. row'.sub = None => row'.plan \notin Plan  BY <1>4, RowFacts
  <2>3. row'.sub # None => stripe[row'.sub].status # "none"  BY <1>4, RowFacts
  <2>4. marker' \in [Sub -> 0 .. MaxEvents] /\ upsets' \in Nat  BY <1>1, RowFacts
  <2> QED  BY <2>1, <2>2, <2>3, <2>4, <1>1, <1>2, <1>4, <1>5, MoveKeeps
<1>7. ASSUME Calm' PROVE Quiet' /\ Applied' /\ PassedOver'
  <2>1. Calm  BY <1>1, <1>7 DEF Calm
  <2>2. \A s \in Sub : Top'[s] = Top[s]  BY <1>1, <1>2, <2>1, TopStays
  <2> QED  BY <1>1, <1>2, <1>3, <1>4, <2>1, <2>2, MoveCalmSameRow
<1> QED  BY <1>6, <1>7 DEF Inv

\* mapStatus of what an event can say.
LEMMA LocalStatuses ==
  /\ \A x \in Status :
       LocalStatus(x) \in {"active", "trialing", "past_due", "paused", "canceled"}
  /\ LocalStatus("past_due") = "past_due"
<1>1. \A x : x \in Live => LocalStatus(x) = x  BY DEF LocalStatus, Live, Ended
<1>2. \A x : x \in Ended => LocalStatus(x) = "canceled"  BY DEF LocalStatus, Live, Ended
<1>3. \A x : x \notin Live /\ x \notin Ended => LocalStatus(x) = "past_due"
  BY DEF LocalStatus
<1> QED  BY <1>1, <1>2, <1>3 DEF Live

LEMMA SyncSubscriptionKeeps ==
  ASSUME Inv, NEW h \in busy, SyncSubscription(h)
  PROVE  Inv'
<1> DEFINE v == ev[h.e]
           foreign == row.sub # None /\ row.sub # v.sub /\ v.status \notin Live
<1>1. /\ h.at = "apply"
      /\ stripe' = stripe /\ ev' = ev /\ acked' = acked /\ custody' = custody
      /\ abandoned' = abandoned /\ lock' = lock
      /\ admin' = admin /\ overlapped' = overlapped /\ upsets' = upsets /\ marker' = marker
  BY DEF SyncSubscription, handlerVars
<1>2. "finish" \in Place /\ "record" \in Place  BY DEF Place
<1>3. h.e \in Events /\ v \in Event /\ v.sub \in Sub /\ v.period \in Nat /\ h.e \in Nat /\ h.e # 0
  BY AnsweredIsEvents, EventFields
<1>4. v.kind = "updated" /\ v.status \in Status
  <2>1. v.kind = "updated"  BY <1>1 DEF Inv, Work
  <2> QED  BY <1>3, <2>1 DEF Event
<1>5. Calm' => Calm  BY <1>1 DEF Calm
<1>6. Calm => /\ Quiet /\ Applied /\ PassedOver
              /\ \A s \in Sub : Top[s] = marker[s]
              /\ marker[v.sub] \in Nat
  <2> SUFFICES ASSUME Calm
               PROVE  /\ Quiet /\ Applied /\ PassedOver
                      /\ \A s \in Sub : Top[s] = marker[s]
                      /\ marker[v.sub] \in Nat
    OBVIOUS
  <2>1. PICK place \in Place : Goto(h, place)  BY <1>2 DEF SyncSubscription
  <2>2. marker[v.sub] \in Nat  BY <1>3, RowFacts, BoundAssumption
  <2> QED  BY <1>1, <2>1, <2>2, MoveAlone
<1>7. CASE StaleByPeriod(v) \/ foreign
  <2>1. Goto(h, "finish") /\ row' = row  BY <1>7 DEF SyncSubscription
  <2>2. Types' /\ Sales' /\ RowOK' /\ Work' /\ (~overlapped' => Alone')
    BY <1>1, <1>2, <2>1, RowFacts, MoveKeeps
  <2>3. ASSUME Calm' PROVE Quiet' /\ Applied' /\ PassedOver'
    <3>1. \A s \in Sub : Top'[s] = Top[s]  BY <1>1, <1>2, <1>5, <2>1, <2>3, TopStays
    <3>2. StaleByPeriod(v) => h.e <= Top[v.sub]
      <4> SUFFICES ASSUME StaleByPeriod(v), ~(h.e <= Top[v.sub]) PROVE FALSE
        OBVIOUS
      <4>1. row.sub = v.sub /\ row.period # None /\ v.period < row.period  BY DEF StaleByPeriod
      <4>2. Top[row.sub] < h.e  BY <1>3, <1>5, <1>6, <2>3, <4>1
      <4>3. row.period <= v.period  BY <1>3, <1>4, <1>5, <1>6, <2>3, <4>1, <4>2 DEF PassedOver
      <4> QED  BY <4>1, <4>3, <1>3, RowFacts
    <3>3. foreign => v.status \notin Live  OBVIOUS
    <3> QED  BY <1>1, <1>2, <1>5, <1>7, <2>1, <2>3, <3>1, <3>2, <3>3, MoveCalmSameRow
  <2> QED  BY <2>2, <2>3 DEF Inv
<1>8. CASE ~(StaleByPeriod(v) \/ foreign)
  <2>1. /\ Goto(h, "record")
        /\ row' = [plan |-> v.plan, mode |-> "stripe", status |-> LocalStatus(v.status),
                   sub |-> v.sub, period |-> v.period, grace |-> v.status = "past_due"]
    BY <1>8 DEF SyncSubscription
  <2>2. /\ row'.plan = v.plan /\ row'.mode = "stripe" /\ row'.status = LocalStatus(v.status)
        /\ row'.sub = v.sub /\ row'.period = v.period /\ (row'.grace <=> v.status = "past_due")
    BY <2>1
  <2>3. LocalStatus(v.status) \in {"active", "trialing", "past_due", "paused", "canceled"}
        /\ (v.status = "past_due" => LocalStatus(v.status) = "past_due")
    BY <1>4, LocalStatuses
  <2>4. row' \in SubscriptionRow
    <3>1. v.plan \in Plan /\ v.period \in 0 .. MaxPeriods  BY <1>3 DEF Event
    <3>2. (v.status = "past_due") \in BOOLEAN  OBVIOUS
    <3> QED  BY <1>3, <2>1, <2>3, <3>1, <3>2 DEF SubscriptionRow
  <2>5. v.sub # None /\ stripe[v.sub].status # "none"
    BY <1>3, SubAssumption DEF Inv, Sales, Sold
  <2>6. v.status = "past_due" => \E f \in Events : ev[f].sub = v.sub /\ ev[f].status \in Ran
    BY <1>3 DEF Inv, Sales, Said
  <2>7. Types' /\ Sales' /\ RowOK' /\ Work' /\ (~overlapped' => Alone')
    <3>1. marker' \in [Sub -> 0 .. MaxEvents] /\ upsets' \in Nat  BY <1>1, RowFacts
    <3> QED  BY <1>1, <1>2, <1>4, <2>1, <2>2, <2>3, <2>4, <2>5, <2>6, <3>1, MoveKeeps
  <2>8. ASSUME Calm' PROVE Quiet' /\ Applied' /\ PassedOver'
    <3>1. Calm /\ Quiet /\ Applied /\ PassedOver  BY <1>5, <1>6, <2>8
    <3>2. PICK j \in Job : busy' = {j} /\ j.e = h.e /\ j.via = h.via /\ j.at = "record"
      BY <1>1, <1>2, <2>1, <3>1, MoveAlone
    <3>3. busy = {h}  BY <1>1, <1>2, <2>1, <3>1, MoveAlone
    <3>4. \A s \in Sub : Top[s] = marker[s] /\ Top'[s] = IF v.sub = s THEN h.e ELSE marker[s]
      BY <1>1, <1>2, <2>1, <3>1, MoveAlone
    <3>5. marker[v.sub] <= h.e /\ marker[v.sub] \in Nat
      BY <1>1, <1>3, <1>6, <3>1, <3>4 DEF PassedOver
    <3>6. \A s \in Sub : Top[s] \in Nat /\ Top'[s] \in Nat /\ Top[s] <= Top'[s]
      <4>1. \A s \in Sub : marker[s] \in Nat  BY RowFacts, BoundAssumption
      <4> QED  BY <1>3, <3>4, <3>5, <4>1
    <3>7. Events' = Events /\ \A e \in Events : ev[e].sub \in Sub /\ e \in Nat
      BY <1>1, EventFields DEF Events
    <3>8. Quiet'
      <4>1. (\A g \in busy : g.via = "live" /\ custody[g.e] = "held" /\ g.e \in lock)'
        BY <1>1, <3>1, <3>2 DEF Quiet
      <4>2. (\A e \in Events : custody[e] # "failed"
                 /\ (custody[e] = "held" => \E g \in busy : g.e = e))'
        BY <1>1, <3>1, <3>2, <3>3, <3>7 DEF Quiet
      <4>3. (\A g \in busy : g.at \in {"record", "mark"} => marker[ev[g.e].sub] <= g.e)'
        BY <1>1, <3>2, <3>5
      <4>4. row'.sub # None /\ row'.period <= stripe'[row'.sub].period
        BY <1>1, <1>3, <2>2, <2>5 DEF Inv, Sales, Sold
      <4> QED  BY <4>1, <4>2, <4>3, <4>4 DEF Quiet
    <3>9. Applied'
      <4>1. custody[h.e] # "none"  BY AnsweredIsEvents
      <4>2. (\A s \in Sub : Top[s] # 0 =>
               /\ Top[s] \in Events /\ ev[Top[s]].kind = "updated" /\ ev[Top[s]].sub = s
               /\ custody[Top[s]] # "none")'
        <5> SUFFICES ASSUME NEW s \in Sub, Top'[s] # 0
                     PROVE  /\ Top'[s] \in Events /\ ev[Top'[s]].kind = "updated"
                            /\ ev[Top'[s]].sub = s /\ custody[Top'[s]] # "none"
          BY <1>1, <3>7
        <5>1. CASE s = v.sub
          <6>1. Top'[s] = h.e  BY <5>1, <3>4
          <6> QED  BY <6>1, <5>1, <1>3, <1>4, <4>1
        <5>2. CASE s # v.sub
          <6>1. Top'[s] = Top[s]  BY <5>2, <3>4
          <6> QED  BY <6>1, <3>1 DEF Applied
        <5> QED  BY <5>1, <5>2
      <4>3. Top'[row'.sub] = h.e  BY <1>3, <2>2, <3>4
      <4> QED  BY <4>2, <4>3, <1>1, <1>3, <2>2 DEF Applied
    <3>10. PassedOver'
      <4>1. (\A e \in Events : ev[e].kind = "updated" /\ custody[e] = "done"
                   => e <= Top[ev[e].sub] \/ ev[e].status \notin Live)'
        <5> SUFFICES ASSUME NEW e \in Events, ev[e].kind = "updated", custody[e] = "done",
                            ev[e].status \in Live
                     PROVE  e <= Top'[ev[e].sub]
          BY <1>1, <3>7
        <5>1. e <= Top[ev[e].sub]  BY <3>1 DEF PassedOver
        <5>2. ev[e].sub \in Sub /\ e \in Nat  BY <3>7
        <5> QED  BY <5>1, <5>2, <3>6
      <4>2. (\A g \in busy : g.at = "finish" /\ ev[g.e].kind = "updated"
                   => g.e <= Top[ev[g.e].sub] \/ ev[g.e].status \notin Live)'
        BY <3>2
      <4>3. (\A g \in busy : g.at = "apply" => Top[ev[g.e].sub] <= g.e)'
        BY <3>2
      <4>4. (\A e \in Events : ev[e].kind = "updated" /\ ev[e].sub = row.sub /\ row.period # None
                 /\ Top[row.sub] < e => row.period <= ev[e].period)'
        <5> SUFFICES ASSUME NEW e \in Events, ev[e].sub = v.sub, Top'[v.sub] < e
                     PROVE  v.period <= ev[e].period
          BY <1>1, <2>2, <3>7
        <5>1. h.e < e  BY <1>3, <3>4
        <5> QED  BY <5>1, <1>3 DEF Inv, Sales, InOrder
      <4> QED  BY <4>1, <4>2, <4>3, <4>4 DEF PassedOver
    <3> QED  BY <3>8, <3>9, <3>10
  <2> QED  BY <2>7, <2>8 DEF Inv
<1> QED  BY <1>7, <1>8

-----------------------------------------------------------------------------
(* The invariant, and what it says.                                        *)

LEMMA InitInv == Init => Inv
<1> SUFFICES ASSUME Init PROVE Inv
  OBVIOUS
<1>1. Events = {} /\ ev \in Seq(Event) /\ Len(ev) = 0
  BY EmptySeq DEF Init, Events
<1>2. Types
  <2>1. /\ row.grace = FALSE /\ row.plan = Starter /\ row.sub = None /\ row.period = None
        /\ row \in SubscriptionRow
    BY DEF Init, SubscriptionRow
  <2>2. stripe \in [Sub -> [status : Status,
                            plan : Plan \cup {None}, period : 0 .. MaxPeriods]]
    BY BoundAssumption DEF Init, Status
  <2>3. marker \in [Sub -> 0 .. MaxEvents]  BY BoundAssumption DEF Init
  <2>4. TypeOK
    BY <1>1, <2>1, <2>2, <2>3, BoundAssumption, PlanAssumption DEF Init, TypeOK, SubscriptionRow
  <2> QED  BY <1>1, <2>4 DEF Init, Types
<1>3. Sales
  <2>1. AtStripe  BY DEF Init, AtStripe, Live
  <2> QED  BY <1>1, <2>1 DEF Sales, Sold, Said, InOrder
<1>4. RowOK  BY PlanAssumption DEF Init, RowOK
<1>5. Work  BY DEF Init, Work
<1>6. Alone  BY DEF Init, Alone
<1>7. \A s \in Sub : Top[s] = 0
  <2>1. \A s \in Sub : TopOf(busy, marker, ev)[s] = marker[s]  BY TopIs DEF Init
  <2> QED  BY <2>1 DEF Top, Init
<1>8. Quiet /\ Applied /\ PassedOver
  BY <1>1, <1>7, PlanAssumption DEF Init, Quiet, Applied, PassedOver
<1> QED  BY <1>2, <1>3, <1>4, <1>5, <1>6, <1>8 DEF Inv

LEMMA HandleKeeps ==
  ASSUME Inv, NEW h \in busy, Handle(h)
  PROVE  Inv'
  BY ReadSubscriptionKeeps, SyncSubscriptionKeeps, ReadMarkerKeeps, WriteMarkerKeeps,
     ClaimPointerKeeps, ReadDeletedKeeps, DropToStarterKeeps, ReadInvoiceKeeps,
     RecordPaymentKeeps, FinishKeeps
  DEF Handle

\* What is abandoned, or taken up again, or nothing at all.
LEMMA BookkeepingKeeps ==
  ASSUME Inv, abandoned' \subseteq Events,
         stripe' = stripe, ev' = ev, acked' = acked, custody' = custody, lock' = lock,
         marker' = marker, row' = row, busy' = busy, admin' = admin,
         overlapped' = overlapped, upsets' = upsets
  PROVE  Inv'
<1>2. Sales' /\ Events' = Events  BY SalesStay DEF Inv
<1>3. Types'  BY <1>2 DEF Inv, Types, TypeOK
<1>4. RowOK' /\ Work'  BY <1>2 DEF Inv, RowOK, Work
<1>5. ~overlapped' => Alone'  BY <1>2 DEF Inv, Alone
<1>6. Top' = Top /\ (Calm' => Calm)  BY DEF Top, Calm
<1>7. Calm => Quiet' /\ Applied' /\ PassedOver'
  BY <1>2, <1>6 DEF Inv, Quiet, Applied, PassedOver
<1> QED  BY <1>2, <1>3, <1>4, <1>5, <1>6, <1>7 DEF Inv

LEMMA AbandonKeeps ==
  ASSUME Inv, NEW e \in 1 .. MaxEvents, Abandon(e) \/ Rearm(e)
  PROVE  Inv'
<1>1. abandoned \subseteq Events  BY DEF Inv, Types, TypeOK
<1>2. Abandon(e) => e \in Events  BY DEF Abandon, Inv, Work
<1>3. abandoned' \subseteq Events  BY <1>1, <1>2 DEF Abandon, Rearm
<1> QED  BY <1>3, BookkeepingKeeps DEF Abandon, Rearm

LEMMA NextKeeps == Inv /\ [Next]_vars => Inv'
<1> SUFFICES ASSUME Inv, [Next]_vars PROVE Inv'
  OBVIOUS
<1>1. CASE StripeActs  BY <1>1, StripeActsKeeps
<1>2. CASE BeginContract  BY <1>2, BeginContractKeeps
<1>3. CASE WriteContract  BY <1>3, WriteContractKeeps
<1>4. ASSUME NEW e \in 1 .. MaxEvents, Deliver(e) PROVE Inv'  BY <1>4, DeliverKeeps
<1>5. ASSUME NEW e \in 1 .. MaxEvents, Sweep(e) PROVE Inv'  BY <1>5, SweepKeeps
<1>6. ASSUME NEW h \in busy, Handle(h) PROVE Inv'  BY <1>6, HandleKeeps
<1>7. ASSUME NEW h \in busy, Fail(h) \/ Crash(h) PROVE Inv'  BY <1>7, UpsetKeeps
<1>8. CASE UNCHANGED vars
  <2>1. abandoned' \subseteq Events  BY <1>8 DEF vars, Inv, Types, TypeOK
  <2> QED  BY <1>8, <2>1, BookkeepingKeeps DEF vars
<1>9. ASSUME NEW e \in 1 .. MaxEvents, Abandon(e) \/ Rearm(e) PROVE Inv'  BY <1>9, AbandonKeeps
<1> QED  BY <1>1, <1>2, <1>3, <1>4, <1>5, <1>6, <1>7, <1>8, <1>9 DEF Next

LEMMA InvAlways == Spec => []Inv
<1>1. Init => Inv  BY InitInv
<1>2. Inv /\ [Next]_vars => Inv'  BY NextKeeps
<1> QED  BY <1>1, <1>2, PTL DEF Spec

LEMMA InvImpliesJustified == Inv => RowIsJustified
<1> SUFFICES ASSUME Inv PROVE RowIsJustified
  OBVIOUS
<1>1. TypeOK  BY DEF Inv, Types
<1>2. GraceIsEarned
  <2> SUFFICES ASSUME ~overlapped, row.grace
               PROVE  row.sub # None /\ \E e \in Events : ev[e].sub = row.sub /\ ev[e].status \in Ran
    BY DEF GraceIsEarned, Ran
  <2>1. PICK e \in Events : ev[e].sub = row.sub /\ ev[e].status \in Ran  BY RowFacts
  <2> QED  BY <2>1, EventFields, SubAssumption
<1>3. NewestPlanWins
  <2> SUFFICES ASSUME ~overlapped, upsets = 0, admin # "replaced", row.plan \in Plan, busy = {},
                      NEW e \in Events, ev[e].kind = "updated", ev[e].sub = row.sub,
                      custody[e] = "done", ev[e].status # "unpaid",
                      \A f \in Events : ev[f].kind = "updated" /\ ev[f].sub = row.sub
                                          /\ custody[f] = "done" => f <= e
               PROVE  row.plan = ev[e].plan
    BY DEF NewestPlanWins
  <2>1. Quiet /\ Applied /\ PassedOver /\ row.sub \in Sub
    BY RowFacts DEF Inv, Calm
  <2> DEFINE t == Top[row.sub]
  <2>2. /\ t \in Events /\ ev[t].kind = "updated" /\ ev[t].sub = row.sub
        /\ custody[t] # "none" /\ ev[t].plan = row.plan
    BY <2>1 DEF Applied
  <2> HIDE DEF t
  <2>3. custody[t] = "done"
    <3>1. custody[t] \in {"none", "held", "failed", "done"}
      <4>1. t \in 1 .. MaxEvents
        BY <2>2, BoundAssumption, LenProperties DEF Inv, Types, TypeOK, Events
      <4> QED  BY <4>1 DEF Inv, Types, TypeOK
    <3>2. custody[t] # "failed" /\ custody[t] # "held"  BY <2>1, <2>2 DEF Quiet
    <3> QED  BY <2>2, <3>1, <3>2
  <2>4. t <= e /\ t \in Nat /\ e \in Nat  BY <2>2, <2>3, EventFields
  <2>5. CASE e <= t
    <3>1. e = t  BY <2>4, <2>5
    <3> QED  BY <2>2, <3>1
  <2>6. CASE ev[e].status \in First /\ t < e
    BY <2>2, <2>6 DEF Inv, Sales, InOrder
  <2>7. e <= t \/ ev[e].status \in First
    <3>1. e <= t \/ ev[e].status \notin Live  BY <2>1 DEF PassedOver, t
    <3>2. ev[e].status # "canceled"  BY DEF Inv, Sales, Said
    <3>3. ev[e].status \in Status \ {"none"}  BY EventFields DEF Event
    <3> QED  BY <3>1, <3>2, <3>3 DEF Status, First
  <2> QED  BY <2>4, <2>5, <2>6, <2>7
<1> QED  BY <1>1, <1>2, <1>3 DEF RowIsJustified

\* RowIsJustified: whatever order Stripe's events arrive in, how often and however
\* slowly, what handleWebhookEvent leaves in the subscriptions row is what the
\* events handled justify -- the newest plan of the subscription tracked
\* (billing-06), grace only for a subscription that has run (billing-05).
THEOREM RowIsJustifiedAlways == Spec => []RowIsJustified
  BY InvAlways, InvImpliesJustified, PTL

\* The steps that write the row.
LEMMA RowWriters ==
  ASSUME [Next]_vars, row' # row
  PROVE  \/ WriteContract
         \/ \E h \in busy : \/ SyncSubscription(h) \/ ClaimPointer(h)
                            \/ DropToStarter(h) \/ RecordPayment(h)
<1>1. ~(UNCHANGED vars)  BY DEF vars
<1>2. ~StripeActs
  <2>1. \A s, st, kinds : ~Emit(s, st, kinds)  BY DEF Emit
  <2>2. \A s \in Sub : \A p \in Plan : \A status : ~Subscribe(s, p, status)
    BY <2>1, Zenon DEF Subscribe
  <2>3. \A s \in Sub : \A p \in Plan : ~Reprice(s, p)  BY <2>1, Zenon DEF Reprice
  <2>4. \A s \in Sub : ~Renew(s)  BY <2>1, Zenon DEF Renew
  <2>5. \A s \in Sub : ~RenewalFails(s)  BY <2>1, Zenon DEF RenewalFails
  <2>6. \A s \in Sub : ~Recover(s)  BY <2>1, Zenon DEF Recover
  <2>7. \A s \in Sub : ~End(s)  BY <2>1, Zenon DEF End
  <2>8. \A s \in Sub : ~GiveUp(s)  BY <2>1, Zenon DEF GiveUp
  <2> QED  BY <2>2, <2>3, <2>4, <2>5, <2>6, <2>7, <2>8 DEF StripeActs
<1>3. ~BeginContract  BY DEF BeginContract, Emit
<1>4. \A e \in 1 .. MaxEvents : ~Deliver(e) /\ ~Sweep(e) /\ ~Abandon(e) /\ ~Rearm(e)
  BY DEF Deliver, Sweep, Abandon, Rearm
<1>5. \A h \in busy : ~Fail(h) /\ ~Crash(h)  BY DEF Fail, Crash
<1>6. \A h \in busy : Handle(h) =>
         \/ SyncSubscription(h) \/ ClaimPointer(h) \/ DropToStarter(h) \/ RecordPayment(h)
  BY DEF Handle, ReadSubscription, ReadMarker, WriteMarker, ReadDeleted, ReadInvoice, Finish
<1> QED  BY <1>1, <1>2, <1>3, <1>4, <1>5, <1>6 DEF Next

\* YieldsToLiveNewsOnly: while Stripe has the tracked subscription live, neither
\* handleStripeSubscriptionDeleted, whatever `deleted` event it is given, nor an event
\* that says another subscription is not live takes the row's pointer off it.
THEOREM YieldsToLiveNewsOnlyAlways == Spec => YieldsToLiveNewsOnly
<1>1. ASSUME Inv, [Next]_vars, row.sub # None, stripe[row.sub].status \in Live,
             row'.sub # row.sub, ~overlapped', admin' = admin
      PROVE  \E e \in Events : ev[e].kind = "updated" /\ ev[e].sub = row'.sub
                                /\ ev[e].status \in Live
  <2>1. row' # row  BY <1>1
  <2>2. ~WriteContract  BY <1>1 DEF WriteContract
  <2>3. PICK h \in busy : \/ SyncSubscription(h) \/ ClaimPointer(h)
                          \/ DropToStarter(h) \/ RecordPayment(h)
    BY <1>1, <2>1, <2>2, RowWriters
  <2>4. h.e \in Events  BY <1>1, AnsweredIsEvents
  <2>5. CASE SyncSubscription(h)
    <3>1. h.at = "apply" /\ row'.sub = ev[h.e].sub  BY <2>1, <2>5 DEF SyncSubscription
    <3>2. ev[h.e].status \in Live  BY <1>1, <2>1, <2>5, <3>1 DEF SyncSubscription
    <3>3. ev[h.e].kind = "updated"  BY <1>1, <3>1 DEF Inv, Work
    <3> QED  BY <2>4, <3>1, <3>2, <3>3
  <2>6. CASE ClaimPointer(h)  BY <1>1, <2>1, <2>6 DEF ClaimPointer
  <2>7. CASE DropToStarter(h)
    <3>1. /\ h.at = "drop" /\ ~overlapped
      BY <1>1, <2>7 DEF DropToStarter, handlerVars
    <3>2. row.sub = ev[h.e].sub /\ ev[h.e].kind = "deleted"
      BY <1>1, <3>1 DEF Inv, Alone, Work
    <3>3. stripe[ev[h.e].sub].status = "canceled"
      BY <1>1, <2>4, <3>2 DEF Inv, Sales, Sold
    <3> QED  BY <1>1, <3>2, <3>3 DEF Live
  <2>8. CASE RecordPayment(h)
    <3>1. row'.sub = row.sub
      <4>1. row \in SubscriptionRow  BY <1>1, RowFacts
      <4>2. row' = [row EXCEPT !.status = "active", !.grace = FALSE]
            \/ row' = [row EXCEPT !.status = "past_due", !.grace = PaymentGrace(ev[h.e])]
        BY <2>8 DEF RecordPayment
      <4> QED  BY <4>1, <4>2, Zenon DEF SubscriptionRow
    <3> QED  BY <1>1, <3>1
  <2> QED  BY <2>3, <2>5, <2>6, <2>7, <2>8
<1>2. Inv /\ [Next]_vars =>
        (row.sub # None /\ stripe[row.sub].status \in Live /\ row'.sub # row.sub /\ ~overlapped'
           => \/ admin' # admin
              \/ \E e \in Events : ev[e].kind = "updated" /\ ev[e].sub = row'.sub
                                    /\ ev[e].status \in Live)
  BY <1>1
<1> QED  BY <1>2, InvAlways, PTL DEF Spec, YieldsToLiveNewsOnly

\* ContractNotDropped: the deletion Stripe reports of a subscription an operator's
\* contract replaced never puts the library on the free plan.
THEOREM ContractNotDroppedAlways == Spec => ContractNotDropped
<1>1. ASSUME Inv, [Next]_vars, row.mode = "manual", row'.mode # "manual", ~overlapped'
      PROVE  row'.plan # Starter
  <2>1. row' # row /\ row \in SubscriptionRow  BY <1>1, RowFacts
  <2>2. ~WriteContract
    <3>1. WriteContract => row'.mode = "manual"  BY <2>1, Zenon DEF WriteContract, SubscriptionRow
    <3> QED  BY <1>1, <3>1
  <2>3. PICK h \in busy : \/ SyncSubscription(h) \/ ClaimPointer(h)
                          \/ DropToStarter(h) \/ RecordPayment(h)
    BY <1>1, <2>1, <2>2, RowWriters
  <2>4. ev[h.e] \in Event  BY <1>1, AnsweredIsEvents
  <2>5. CASE SyncSubscription(h)
    <3>1. row'.plan = ev[h.e].plan  BY <2>1, <2>5 DEF SyncSubscription
    <3>2. ev[h.e].plan \in Plan  BY <2>4 DEF Event
    <3> QED  BY <3>1, <3>2, PlanAssumption
  <2>6. CASE ClaimPointer(h)
    <3>1. row' = row \/ row' = [row EXCEPT !.sub = ev[h.e].sub]  BY <2>6 DEF ClaimPointer
    <3>2. row'.mode = row.mode  BY <2>1, <3>1, Zenon DEF SubscriptionRow
    <3> QED  BY <1>1, <3>2
  <2>7. CASE DropToStarter(h)
    <3>1. /\ h.at = "drop" /\ ~overlapped
      BY <1>1, <2>7 DEF DropToStarter, handlerVars
    <3> QED  BY <1>1, <3>1 DEF Inv, Alone
  <2>8. CASE RecordPayment(h)
    <3>1. row' = [row EXCEPT !.status = "active", !.grace = FALSE]
          \/ row' = [row EXCEPT !.status = "past_due", !.grace = PaymentGrace(ev[h.e])]
      BY <2>8 DEF RecordPayment
    <3>2. row'.mode = row.mode  BY <2>1, <3>1, Zenon DEF SubscriptionRow
    <3> QED  BY <1>1, <3>2
  <2> QED  BY <2>3, <2>5, <2>6, <2>7, <2>8
<1>2. Inv /\ [Next]_vars =>
        (row.mode = "manual" /\ row'.mode # "manual" /\ ~overlapped' => row'.plan # Starter)
  BY <1>1
<1> QED  BY <1>2, InvAlways, PTL DEF Spec, ContractNotDropped

\* A 200 is given only for an event whose row is in the inbox.
AckedIsKept == \A e \in acked : custody[e] # "none"

\* What answering a delivery leaves: nothing in custody is forgotten, and what is
\* answered is in custody.
LEMMA StepKeepsAcked == Inv /\ AckedIsKept /\ [Next]_vars => AckedIsKept'
<1> SUFFICES ASSUME Inv, AckedIsKept, [Next]_vars PROVE AckedIsKept'
  OBVIOUS
<1>t. /\ custody \in [1 .. MaxEvents -> {"none", "held", "failed", "done"}]
      /\ Events \subseteq 1 .. MaxEvents /\ acked \subseteq Events
  BY BoundAssumption, LenProperties DEF Inv, Types, TypeOK, Events
<1>h. \A h \in busy : h.e \in 1 .. MaxEvents /\ custody[h.e] # "none"
  BY <1>t DEF Inv, Types, TypeOK, Work
<1> HIDE DEF Inv
<1>1. CASE acked' = acked /\ custody' = custody  BY <1>1 DEF AckedIsKept
<1>2. ASSUME NEW e \in 1 .. MaxEvents, Deliver(e) PROVE AckedIsKept'
  <2>1. custody' = [custody EXCEPT ![e] = IF @ = "none" THEN "held" ELSE @]
    BY <1>2 DEF Deliver
  <2>2. acked' \subseteq acked \cup {e}  BY <1>2 DEF Deliver, Keyed
  <2> QED  BY <1>t, <2>1, <2>2 DEF AckedIsKept
<1>3. ASSUME NEW h \in busy, Finish(h) \/ Fail(h) PROVE AckedIsKept'
  <2>1. acked' \subseteq acked \cup {h.e}  BY <1>3 DEF Finish, Fail, Answered
  <2>2. \/ custody' = [custody EXCEPT ![h.e] = "done"]
        \/ custody' = [custody EXCEPT ![h.e] = "failed"]
        \/ custody' = [custody EXCEPT ![h.e] = custody[h.e]]
    BY <1>3 DEF Finish, Fail
  <2> QED  BY <1>t, <1>h, <2>1, <2>2 DEF AckedIsKept
<1>4. ASSUME NEW h \in busy, Crash(h) PROVE AckedIsKept'  BY <1>1, <1>4 DEF Crash
<1>5. ASSUME NEW h \in busy, Handle(h), ~Finish(h) PROVE AckedIsKept'
  BY <1>1, <1>5 DEF Handle, ReadSubscription, SyncSubscription, ReadMarker, WriteMarker,
     ClaimPointer, ReadDeleted, DropToStarter, ReadInvoice, RecordPayment, handlerVars
<1>6. ASSUME NEW e \in 1 .. MaxEvents, Sweep(e) \/ Abandon(e) \/ Rearm(e) PROVE AckedIsKept'
  BY <1>1, <1>6 DEF Sweep, Abandon, Rearm
<1>7. CASE StripeActs
  <2>1. \A s, st, kinds : Emit(s, st, kinds) => acked' = acked /\ custody' = custody  BY DEF Emit
  <2>2. \A s \in Sub : \A p \in Plan : \A status :
          Subscribe(s, p, status) => acked' = acked /\ custody' = custody
    BY <2>1, Zenon DEF Subscribe
  <2>3. \A s \in Sub : \A p \in Plan : Reprice(s, p) => acked' = acked /\ custody' = custody
    BY <2>1, Zenon DEF Reprice
  <2>4. \A s \in Sub : Renew(s) \/ RenewalFails(s) => acked' = acked /\ custody' = custody
    BY <2>1, Zenon DEF Renew, RenewalFails
  <2>5. \A s \in Sub : Recover(s) \/ End(s) => acked' = acked /\ custody' = custody
    BY <2>1, Zenon DEF Recover, End
  <2>6. \A s \in Sub : GiveUp(s) => acked' = acked /\ custody' = custody
    BY <2>1, Zenon DEF GiveUp
  <2> QED  BY <1>1, <1>7, <2>2, <2>3, <2>4, <2>5, <2>6 DEF StripeActs
<1>8. CASE BeginContract  BY <1>1, <1>8 DEF BeginContract, Emit
<1>9. CASE WriteContract  BY <1>1, <1>9 DEF WriteContract
<1>10. CASE UNCHANGED vars  BY <1>1, <1>10 DEF vars
<1> QED
  BY <1>2, <1>3, <1>4, <1>5, <1>6, <1>7, <1>8, <1>9, <1>10 DEF Next

\* NoEventIsStranded ("200 = durably ours"): in every state, not only when nothing
\* runs, an event that handleWebhookEvent has yet to apply is Stripe's to deliver
\* again, in a request's or a tick's hands, or one the sweep of stripe-retry.job.ts
\* picks up, or has given up on after a day; whatever crashed, failed, or left its
\* Redis key behind.
THEOREM NoEventIsStrandedAlways == Spec => []NoEventIsStranded
<1>1. Init => AckedIsKept  BY DEF Init, AckedIsKept
<1>2. Inv /\ AckedIsKept => NoEventIsStranded
  <2> SUFFICES ASSUME Inv, AckedIsKept, NEW e \in Events, custody[e] # "done", e \in acked,
                      e \notin abandoned, ~\E h \in busy : h.e = e
               PROVE  Overdue(e)
    BY DEF NoEventIsStranded
  <2>1. custody[e] \in {"none", "held", "failed", "done"}
    BY BoundAssumption, LenProperties DEF Inv, Types, TypeOK, Events
  <2>2. custody[e] \in {"held", "failed"}  BY <2>1 DEF AckedIsKept
  <2> QED  BY <2>2 DEF Overdue
<1> QED  BY <1>1, <1>2, InvAlways, StepKeepsAcked, PTL DEF Spec

\* An operator's contract is lost, while handlers run one at a time, only to
\* syncStripeSubscription: to an `updated` event of a subscription the row tracks,
\* of any one when it tracks none, or of one that was live, and the row then has
\* that event's plan.  No deletion, no invoice and no Checkout session ends one.
ContractLostToUpdateOnly ==
  [][row.mode = "manual" /\ row'.mode # "manual" /\ ~overlapped' =>
       \E h \in busy :
         /\ ev[h.e].kind = "updated"
         /\ row.sub \in {None, ev[h.e].sub} \/ ev[h.e].status \in Live
         /\ row'.sub = ev[h.e].sub /\ row'.plan = ev[h.e].plan]_vars

\* ContractLostToUpdateOnly: what ContractStays says of a contract fails in
\* syncStripeSubscription, and nowhere else.
THEOREM ContractLostToUpdateOnlyAlways == Spec => ContractLostToUpdateOnly
<1>1. ASSUME Inv, [Next]_vars, row.mode = "manual", row'.mode # "manual", ~overlapped'
      PROVE  \E h \in busy :
               /\ ev[h.e].kind = "updated"
               /\ row.sub \in {None, ev[h.e].sub} \/ ev[h.e].status \in Live
               /\ row'.sub = ev[h.e].sub /\ row'.plan = ev[h.e].plan
  <2>1. row' # row /\ row \in SubscriptionRow  BY <1>1, RowFacts
  <2>2. ~WriteContract
    <3>1. WriteContract => row'.mode = "manual"  BY <2>1, Zenon DEF WriteContract, SubscriptionRow
    <3> QED  BY <1>1, <3>1
  <2>3. PICK h \in busy : \/ SyncSubscription(h) \/ ClaimPointer(h)
                          \/ DropToStarter(h) \/ RecordPayment(h)
    BY <1>1, <2>1, <2>2, RowWriters
  <2>4. CASE SyncSubscription(h)
    <3>1. /\ h.at = "apply"
          /\ row'.sub = ev[h.e].sub /\ row'.plan = ev[h.e].plan
          /\ row.sub \in {None, ev[h.e].sub} \/ ev[h.e].status \in Live
      BY <2>1, <2>4 DEF SyncSubscription
    <3>2. ev[h.e].kind = "updated"  BY <1>1, <3>1 DEF Inv, Work
    <3> QED  BY <3>1, <3>2
  <2>5. CASE ClaimPointer(h)
    <3>1. row' = row \/ row' = [row EXCEPT !.sub = ev[h.e].sub]  BY <2>5 DEF ClaimPointer
    <3>2. row'.mode = row.mode  BY <2>1, <3>1, Zenon DEF SubscriptionRow
    <3> QED  BY <1>1, <3>2
  <2>6. CASE DropToStarter(h)
    <3>1. /\ h.at = "drop" /\ ~overlapped
      BY <1>1, <2>6 DEF DropToStarter, handlerVars
    <3> QED  BY <1>1, <3>1 DEF Inv, Alone
  <2>7. CASE RecordPayment(h)
    <3>1. row' = [row EXCEPT !.status = "active", !.grace = FALSE]
          \/ row' = [row EXCEPT !.status = "past_due", !.grace = PaymentGrace(ev[h.e])]
      BY <2>7 DEF RecordPayment
    <3>2. row'.mode = row.mode  BY <2>1, <3>1, Zenon DEF SubscriptionRow
    <3> QED  BY <1>1, <3>2
  <2> QED  BY <2>3, <2>4, <2>5, <2>6, <2>7
<1>2. Inv /\ [Next]_vars =>
        (row.mode = "manual" /\ row'.mode # "manual" /\ ~overlapped' =>
           \E h \in busy :
             /\ ev[h.e].kind = "updated"
             /\ row.sub \in {None, ev[h.e].sub} \/ ev[h.e].status \in Live
             /\ row'.sub = ev[h.e].sub /\ row'.plan = ev[h.e].plan)
  BY <1>1
<1> QED  BY <1>2, InvAlways, PTL DEF Spec, ContractLostToUpdateOnly
=============================================================================
