--------------------------- MODULE SyncReplayProofs ---------------------------
(***************************************************************************)
(* Replay protection holds for any number of devices, changes and handlers.*)
(* The invariant needs no strengthening beyond the types: the row of a     *)
(* claim is written once, in the step that changes the copy, and every     *)
(* success is answered from that row or in that step.                      *)
(* That two claims are never about one change needs what the rows still    *)
(* say of the copy (Behind).                                               *)
(***************************************************************************)
EXTENDS SyncReplay, TLAPS

SyncInv == TypeOK /\ AppliedOnce /\ OneAnswer

\* Initially nothing was applied, recorded or answered.
LEMMA InitSync == Init => SyncInv
  <1> SUFFICES ASSUME Init PROVE SyncInv
    OBVIOUS
  <1>1. TypeOK
    BY BoundsAssumption DEF Init, TypeOK, Copy
  <1>2. AppliedOnce
    BY DEF Init, AppliedOnce
  <1>3. OneAnswer
    BY DEF Init, OneAnswer
  <1> QED
    BY <1>1, <1>2, <1>3 DEF SyncInv

\* An allowed request leaves the copy within its type and has a well-typed
\* response.
LEMMA ChangeTyped ==
  ASSUME TypeOK, NEW b \in Body, Allowed(b)
  PROVE  Changed(b) \in Copy /\ Response(b) \in Result
  <1>0. copy \in Copy /\ MaxLoans \in Nat /\ MaxRenewals \in Nat
    BY BoundsAssumption DEF TypeOK
  <1>1. CASE b.op = "checkout"
    <2>1. Changed(b) = [loans |-> copy.loans + 1, out |-> TRUE, renewals |-> 0]
      BY <1>1 DEF Changed
    <2>2. copy.loans < MaxLoans
      BY <1>1 DEF Allowed
    <2> QED
      BY <1>0, <1>1, <2>1, <2>2 DEF Copy, Response, Result
  <1>2. CASE b.op = "checkin"
    <2>1. Changed(b) = [copy EXCEPT !.out = FALSE]
      BY <1>2 DEF Changed
    <2>2. Changed(b) \in Copy
      BY <1>0, <2>1 DEF Copy
    <2>3. Changed(b).loans \in 0..MaxLoans /\ 0 \in 0..MaxRenewals
      BY <1>0, <2>2 DEF Copy
    <2>4. Response(b) = [loan |-> Changed(b).loans, renewals |-> 0]
      BY <1>2 DEF Response
    <2> QED
      BY <2>2, <2>3, <2>4 DEF Result
  <1>3. CASE b.op = "renew"
    <2>1. Changed(b) = [copy EXCEPT !.renewals = @ + 1]
      BY <1>3 DEF Changed
    <2>2. copy.renewals < MaxRenewals
      BY <1>3 DEF Allowed
    <2> QED
      BY <1>0, <1>3, <2>1, <2>2 DEF Copy, Response, Result
  <1> QED
    BY <1>1, <1>2, <1>3 DEF Body

\* The transaction that changes the copy is the one that writes the row.
LEMMA ApplyKeeps ==
  ASSUME SyncInv, NEW k \in Handler, Apply(k)
  PROVE  SyncInv'
  <1> DEFINE c == running[k].claim
             b == running[k].body
             row == [body |-> b, result |-> Response(b)]
             answer == [claim |-> c, body |-> b, result |-> row.result]
  <1>1. /\ running[k] # None /\ Allowed(b) /\ log[c] = None
        /\ copy' = Changed(b)
        /\ log' = [log EXCEPT ![c] = row]
        /\ effects' = [effects EXCEPT ![c] = @ + 1]
        /\ told' = told \cup {answer}
        /\ running' = [running EXCEPT ![k] = None]
        /\ refused' = refused
    BY DEF Apply, Done
  <1>2. TypeOK /\ AppliedOnce /\ OneAnswer
    BY DEF SyncInv
  <1>3. c \in Claim /\ b \in Body
    BY <1>1, <1>2 DEF TypeOK, Change
  <1>4. Changed(b) \in Copy /\ Response(b) \in Result
    BY <1>1, <1>2, <1>3, ChangeTyped
  <1>5. row \in Row /\ row # None /\ row.body = b
    BY <1>3, <1>4, NoneAssumption DEF Row
  <1> HIDE DEF c, b, row
  <1>6. TypeOK'
    <2>1. answer \in [claim : Claim, body : Body, result : Result]
      BY <1>3, <1>5 DEF Row
    <2>2. told' \subseteq [claim : Claim, body : Body, result : Result]
      BY <1>1, <1>2, <2>1 DEF TypeOK
    <2> QED
      BY <1>1, <1>2, <1>3, <1>4, <1>5, <2>2 DEF TypeOK
  <1>7. AppliedOnce'
    BY <1>1, <1>2, <1>3, <1>5 DEF AppliedOnce, TypeOK
  <1>8. OneAnswer'
    <2> SUFFICES ASSUME NEW t \in told'
                 PROVE  /\ log'[t.claim] # None
                        /\ t.body = log'[t.claim].body
                        /\ t.result = log'[t.claim].result
      BY DEF OneAnswer
    <2>1. CASE t = answer
      BY <1>1, <1>2, <1>3, <1>5, <2>1 DEF TypeOK
    <2>2. CASE t \in told
      <3>1. log[t.claim] # None
        BY <1>2, <2>2 DEF OneAnswer
      <3>2. t.claim # c
        BY <1>1, <3>1
      <3> QED
        BY <1>1, <1>2, <2>2, <3>2 DEF OneAnswer, TypeOK
    <2> QED
      BY <1>1, <2>1, <2>2
  <1> QED
    BY <1>6, <1>7, <1>8 DEF SyncInv

\* Every other step leaves the log and the effects alone, and answers at most
\* with what the log holds.
LEMMA SyncStep == SyncInv /\ [Next]_vars => SyncInv'
  <1> SUFFICES ASSUME SyncInv, [Next]_vars PROVE SyncInv'
    OBVIOUS
  <1>0. TypeOK /\ AppliedOnce /\ OneAnswer
    BY DEF SyncInv
  <1>1. CASE \E b \in Body : AtTheDesk(b)
    <2>1. PICK b \in Body : AtTheDesk(b)
      BY <1>1
    <2>2. Changed(b) \in Copy
      BY <1>0, <2>1, ChangeTyped DEF AtTheDesk
    <2> QED
      BY <1>0, <2>1, <2>2 DEF SyncInv, AtTheDesk, TypeOK, AppliedOnce, OneAnswer
  <1>2. ASSUME NEW k \in Handler, NEW c \in Claim, NEW b \in Body, LookupFresh(k, c, b)
        PROVE  SyncInv'
    <2>1. [claim |-> c, body |-> b] \in Change
      BY DEF Change
    <2> QED
      BY <1>0, <1>2, <2>1 DEF SyncInv, LookupFresh, TypeOK, AppliedOnce, OneAnswer
  <1>3. ASSUME NEW k \in Handler, NEW c \in Claim, NEW b \in Body, LookupReplay(k, c, b)
        PROVE  SyncInv'
    <2> DEFINE answer == [claim |-> c, body |-> b, result |-> log[c].result]
    <2>1. /\ log[c] # None /\ log[c].body = b
          /\ told' = told \cup {answer}
          /\ UNCHANGED <<copy, log, running, effects, refused>>
      BY <1>3 DEF LookupReplay
    <2>2. answer \in [claim : Claim, body : Body, result : Result]
      BY <1>0, <2>1 DEF TypeOK, Row
    <2>3. TypeOK'
      BY <1>0, <2>1, <2>2 DEF TypeOK
    <2>4. AppliedOnce'
      BY <1>0, <2>1 DEF AppliedOnce
    <2>5. OneAnswer'
      BY <1>0, <2>1 DEF OneAnswer
    <2> QED
      BY <2>3, <2>4, <2>5 DEF SyncInv
  <1>4. ASSUME NEW k \in Handler, Apply(k)
        PROVE  SyncInv'
    BY <1>4, ApplyKeeps
  <1>5. ASSUME NEW k \in Handler, LoseRace(k)
        PROVE  SyncInv'
    BY <1>0, <1>5 DEF SyncInv, LoseRace, Done, TypeOK, AppliedOnce, OneAnswer
  <1>6. ASSUME NEW k \in Handler, Refuse(k)
        PROVE  SyncInv'
    BY <1>0, <1>6 DEF SyncInv, Refuse, Done, TypeOK, AppliedOnce, OneAnswer
  <1>7. CASE UNCHANGED vars
    BY <1>0, <1>7 DEF SyncInv, vars, TypeOK, AppliedOnce, OneAnswer
  <1> QED
    BY <1>1, <1>2, <1>3, <1>4, <1>5, <1>6, <1>7 DEF Next

\* The model of the replay table is type correct, applies each change at most
\* once, and answers it with one story, for every set of claims and handlers.
THEOREM SyncInvariant == Spec => []SyncInv
  <1> QED
    BY InitSync, SyncStep, PTL DEF Spec

\* A device that flushes a change again, or twice at once, never has it applied
\* twice: recordClaim's row and the change commit together or not at all.
THEOREM ExactlyOnce == Spec => []AppliedOnce
  <1>1. SyncInv => AppliedOnce
    BY DEF SyncInv
  <1> QED
    BY <1>1, SyncInvariant, PTL

\* Every success answered under a claim is the stored response of the request
\* that was applied.
THEOREM AnswersAreTheStoredOnes == Spec => []OneAnswer
  <1>1. SyncInv => OneAnswer
    BY DEF SyncInv
  <1> QED
    BY <1>1, SyncInvariant, PTL

-----------------------------------------------------------------------------
\* The row of claim c is about a change the copy has been through: a loan it has
\* had, which is over if the row is a return's, and renewed as often as it says.
Behind(c) ==
    /\ log[c].result.loan <= copy.loans
    /\ log[c].body.op = "checkin" /\ log[c].result.loan = copy.loans => ~ copy.out
    /\ log[c].body.op = "renew" /\ log[c].result.loan = copy.loans
          => log[c].result.renewals <= copy.renewals

\* No two claims hold the row of the same change.
OneRowPerChange ==
    \A c, d \in Claim :
        /\ log[c] # None /\ log[d] # None
        /\ log[c].body.op = log[d].body.op /\ log[c].result = log[d].result
        => c = d

Distinct == (\A c \in Claim : log[c] # None => Behind(c)) /\ OneRowPerChange

\* A change of the copy leaves every row behind it, and its own response is about
\* what no row is about.
LEMMA ChangeIsNew ==
  ASSUME SyncInv, Distinct, NEW b \in Body, Allowed(b), copy' = Changed(b)
  PROVE  /\ \A c \in Claim : log[c] # None =>
              /\ log[c].result.loan <= copy'.loans
              /\ log[c].body.op = "checkin" /\ log[c].result.loan = copy'.loans => ~ copy'.out
              /\ log[c].body.op = "renew" /\ log[c].result.loan = copy'.loans
                    => log[c].result.renewals <= copy'.renewals
              /\ log[c].body.op = b.op => log[c].result # Response(b)
         /\ Response(b).loan <= copy'.loans
         /\ b.op = "checkin" => ~ copy'.out
         /\ b.op = "renew" => Response(b).renewals <= copy'.renewals
  <1>1. /\ copy \in Copy /\ copy.loans \in Nat /\ copy.renewals \in Nat
        /\ copy = [loans |-> copy.loans, out |-> copy.out, renewals |-> copy.renewals]
        /\ MaxLoans \in Nat /\ MaxRenewals \in Nat
    BY BoundsAssumption DEF SyncInv, TypeOK, Copy
  <1>2. ASSUME NEW c \in Claim, log[c] # None
        PROVE  log[c].result.loan \in Nat /\ log[c].result.renewals \in Nat /\ Behind(c)
    BY <1>2 DEF SyncInv, TypeOK, Row, Result, Distinct
  <1>3. Response(b).loan = copy'.loans
    BY DEF Response
  <1>4. CASE b.op = "checkout"
    <2>1. copy' = [loans |-> copy.loans + 1, out |-> TRUE, renewals |-> 0]
      BY <1>4 DEF Changed
    <2>2. copy'.loans = copy.loans + 1
      BY <2>1
    <2>3. ASSUME NEW c \in Claim, log[c] # None
          PROVE  log[c].result.loan < copy'.loans
      BY <1>1, <1>2, <2>2, <2>3 DEF Behind
    <2>4. copy'.loans \in Nat /\ b.op # "checkin" /\ b.op # "renew"
      BY <1>1, <1>4, <2>2
    <2> QED
      BY <1>2, <1>3, <2>3, <2>4
  <1>5. CASE b.op = "checkin"
    <2>1. copy' = [copy EXCEPT !.out = FALSE] /\ copy.out
      BY <1>5 DEF Changed, Allowed
    <2>2. copy'.loans = copy.loans /\ ~ copy'.out /\ copy'.renewals = copy.renewals
      BY <1>1, <2>1 DEF Copy
    <2>3. ASSUME NEW c \in Claim, log[c] # None, log[c].body.op = b.op
          PROVE  log[c].result.loan # copy'.loans
      BY <1>2, <1>5, <2>1, <2>2, <2>3 DEF Behind
    <2> QED
      BY <1>1, <1>2, <1>3, <1>5, <2>2, <2>3 DEF Behind
  <1>6. CASE b.op = "renew"
    <2>1. copy' = [copy EXCEPT !.renewals = @ + 1] /\ copy.out
      BY <1>6 DEF Changed, Allowed
    <2>2. copy'.loans = copy.loans /\ copy'.out = copy.out /\ copy'.renewals = copy.renewals + 1
      BY <1>1, <2>1 DEF Copy
    <2>3. Response(b).renewals = copy.renewals + 1
      BY <1>6, <2>2 DEF Response
    <2>4. ASSUME NEW c \in Claim, log[c] # None, log[c].body.op = b.op
          PROVE  log[c].result # Response(b)
      <3>1. CASE log[c].result.loan = copy.loans
        BY <1>1, <1>2, <1>6, <2>3, <2>4, <3>1 DEF Behind
      <3>2. CASE log[c].result.loan # copy.loans
        BY <1>3, <2>2, <3>2
      <3> QED
        BY <3>1, <3>2
    <2>5. ASSUME NEW c \in Claim, log[c] # None
          PROVE  /\ log[c].result.loan <= copy'.loans
                 /\ log[c].body.op = "checkin" /\ log[c].result.loan = copy'.loans => ~ copy'.out
                 /\ log[c].body.op = "renew" /\ log[c].result.loan = copy'.loans
                       => log[c].result.renewals <= copy'.renewals
      BY <1>1, <1>2, <2>2, <2>5 DEF Behind
    <2> QED
      BY <1>1, <1>3, <1>6, <2>2, <2>3, <2>4, <2>5
  <1> QED
    BY <1>4, <1>5, <1>6 DEF Body

LEMMA DistinctStep == SyncInv /\ Distinct /\ [Next]_vars => Distinct'
  <1> SUFFICES ASSUME SyncInv, Distinct, [Next]_vars PROVE Distinct'
    OBVIOUS
  <1>1. ASSUME NEW b \in Body, AtTheDesk(b) PROVE Distinct'
    <2>1. Allowed(b) /\ copy' = Changed(b) /\ log' = log
      BY <1>1 DEF AtTheDesk
    <2>2. \A c \in Claim : log[c] # None => Behind(c)'
      BY <2>1, ChangeIsNew DEF Behind
    <2> QED
      BY <2>1, <2>2 DEF Distinct, OneRowPerChange
  <1>2. ASSUME NEW k \in Handler, Apply(k) PROVE Distinct'
    <2>1. PICK c, b, row : c = running[k].claim /\ b = running[k].body
                           /\ row = [body |-> b, result |-> Response(b)]
      OBVIOUS
    <2>2. /\ running[k] # None /\ Allowed(b) /\ copy' = Changed(b)
          /\ log' = [log EXCEPT ![c] = row]
      BY <1>2, <2>1 DEF Apply
    <2>3. c \in Claim /\ b \in Body /\ log \in [Claim -> Row \cup {None}]
      BY <2>1, <2>2 DEF SyncInv, TypeOK, Change
    <2>4. row.body = b /\ row.result = Response(b)
      BY <2>1
    <2>5. \A d \in Claim : log'[d] = IF d = c THEN row ELSE log[d]
      BY <2>2, <2>3
    <2>6. ASSUME NEW d \in Claim, log'[d] # None PROVE Behind(d)'
      <3>1. CASE d = c
        BY <2>2, <2>3, <2>4, <2>5, <3>1, ChangeIsNew DEF Behind
      <3>2. CASE d # c
        BY <2>2, <2>3, <2>5, <2>6, <3>2, ChangeIsNew DEF Behind
      <3> QED
        BY <3>1, <3>2
    <2>7. \A d \in Claim : log[d] # None /\ log[d].body.op = row.body.op
                             => log[d].result # row.result
      BY <2>2, <2>3, <2>4, ChangeIsNew
    <2>8. OneRowPerChange'
      BY <2>5, <2>7 DEF Distinct, OneRowPerChange
    <2> QED
      BY <2>6, <2>8 DEF Distinct
  <1>3. CASE UNCHANGED <<copy, log>>
    BY <1>3 DEF Distinct, Behind, OneRowPerChange
  <1> QED
    BY <1>1, <1>2, <1>3 DEF Next, vars, LookupFresh, LookupReplay, LoseRace, Refuse

\* Two claims are never told the same success.
OneClaimPerChange ==
    \A s, t \in told :
        s.body.op = t.body.op /\ s.result = t.result => s.claim = t.claim

\* However the flushes of several devices and the desk interleave, the successes
\* answered under two claims are about two changes of the copy: no loan is reported
\* as made by two checkouts, and no return or renewal is credited twice
\* (sync-replay.ts, recordClaim in the transaction that makes the change).
THEOREM EveryAnswerIsItsOwn == Spec => []OneClaimPerChange
  <1>1. Init => Distinct
    BY DEF Init, Distinct, OneRowPerChange
  <1>2. ASSUME SyncInv, Distinct PROVE OneClaimPerChange
    <2>1. \A t \in told : t.claim \in Claim
      BY <1>2 DEF SyncInv, TypeOK
    <2> QED
      BY <1>2, <2>1 DEF SyncInv, OneAnswer, Distinct, OneRowPerChange, OneClaimPerChange
  <1> QED
    BY <1>1, <1>2, DistinctStep, SyncInvariant, PTL DEF Spec
=============================================================================
