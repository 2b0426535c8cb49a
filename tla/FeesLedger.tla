------------------------------ MODULE FeesLedger ------------------------------
(***************************************************************************)
(* The 2.0 fees of one reader in one currency and the double-entry ledger  *)
(* behind them: charges, payments, waivers, write-offs and refunds at the  *)
(* desk (fees.service.ts), the overdue sweep (overdue-accrual.service.ts,  *)
(* fee-accrual.ts) and the till (cash-drawer.service.ts).                  *)
(*                                                                         *)
(* What the desk does to one reader is serialised by the reader's advisory *)
(* lock, so at most one settlement is under way.  It is two steps: the     *)
(* read of what is owed and the plan made from it, then the journal and    *)
(* the UPDATEs of the fees.  The sweep takes no lock: it may run between   *)
(* them, atomically, since its upsert holds the fee's row to its commit.   *)
(* Closing the till is two steps also: the session is probed before the    *)
(* till's lock is taken and never after.                                   *)
(*                                                                         *)
(* The journal is append-only and is kept here as the sums its readers     *)
(* take of it, debits positive: `carried` is the receivable of each fee,   *)
(* `book` every other account, `alloc` the allocations of each fee by the  *)
(* counter they add to (a refund is a negative payment), and a till's      *)
(* `cash` its session's entries on cash_on_hand.                           *)
(* Amounts are whole cents (bigint in the code).                           *)
(***************************************************************************)
EXTENDS Integers, FiniteSets, Functions

CONSTANTS
    MaxFees,   \* bound: fees raised, numbered in the order they were
    MaxCents,  \* bound: the largest single amount
    Loan,      \* overdue loans of the reader
    Session,   \* cash drawer sessions of one service point
    Clerk,     \* people closing a till
    Method,    \* settlement accounts of the payment methods in use
    Float,     \* opening floats
    Count,     \* sums a clerk may count in a till
    MaxCredit, \* bound: the reader's credit
    MaxTill,   \* bound: what a till takes in a session, less what it gives
    None

ASSUME BoundsAssumption == MaxFees \in Nat \ {0} /\ MaxCents \in Nat \ {0}
ASSUME TillAssumption == Float \subseteq Nat /\ Count \subseteq Nat
ASSUME MethodAssumption == Method \subseteq {"cash_on_hand", "bank", "card_clearing"}
ASSUME SessionAssumption == IsFiniteSet(Session)
ASSUME NoneAssumption == None \notin Loan /\ None \notin Session

FeeId == 1 .. MaxFees
Settling == {"payment", "waiver", "write_off"}
Kind == Settling \cup {"refund"}
Counter == {"paid", "waived", "written_off"}
Account == Method \cup {"cash_on_hand"} \cup {"patron_credit", "fine_revenue", "waiver_expense",
                        "bad_debt_expense", "cash_over_short", "opening_balance"}

VARIABLES
    account,  \* whether the reader has a patron_accounts row
    fees,     \* the rows of `fees`
    carried,  \* patron_receivable, by the fee its legs name
    book,     \* the other accounts of the ledger
    alloc,    \* fee_allocations, summed by fee and counter
    pending,  \* the settlement that holds the reader's lock, planned
    drawer,   \* cash_drawer_sessions
    closing   \* the session each clerk found open and is closing

vars == <<account, fees, carried, book, alloc, pending, drawer, closing>>
ledger == <<account, fees, carried, book, alloc>>

Unraised ==
    [loan |-> None, amount |-> 0, paid |-> 0, waived |-> 0, written_off |-> 0,
     status |-> "outstanding", closed |-> FALSE, accruing |-> FALSE]

Init ==
    /\ account = FALSE
    /\ fees = [f \in FeeId |-> Unraised]
    /\ carried = [f \in FeeId |-> 0]
    /\ book = [a \in Account |-> 0]
    /\ alloc = [f \in FeeId |-> [k \in Counter |-> 0]]
    /\ pending = None
    /\ drawer = [s \in Session |-> None]
    /\ closing = [c \in Clerk |-> None]

-----------------------------------------------------------------------------
Raised(f) == fees[f].amount > 0

\* A row is inserted after every row there is: settlement follows created_at.
NextFee(f) == ~Raised(f) /\ \A g \in FeeId : g < f => Raised(g)

Settled(fee) == fee.paid + fee.waived + fee.written_off

\* The generated column owed_cents, which every reader asks.
Owed(fee) == IF fee.closed THEN 0 ELSE fee.amount - Settled(fee)

\* A refund is bounded by what was paid.
Refundable(fee) == fee.paid

\* planSettlement: each target in turn takes what it can of what the ones before
\* it left. left[k] is what remains after the first k; there is one such left.
Spread(amount, targets) ==
    {left \in [0 .. MaxFees -> 0 .. amount] :
        /\ left[0] = amount
        /\ \A k \in FeeId :
              left[k] = IF targets[k] < left[k - 1] THEN left[k - 1] - targets[k]
                                                    ELSE 0}

\* Which account the other leg is on, from the kind or from the payment method.
AlwaysTheMethod(kind, method) == method
SettlementAccount(kind, method) ==
    IF kind = "waiver" THEN "waiver_expense"
    ELSE IF kind = "write_off" THEN "bad_debt_expense" ELSE method

\* The journal of a settlement, by account: credits to the receivable of each
\* fee and to patron_credit, a debit to the settlement account. A refund swaps
\* the sides.
Sign(p) == IF p.kind = "refund" THEN -1 ELSE 1
ReceivableLeg(p, f) == -(Sign(p) * p.plan[f])
OtherLegs(p) ==
    [a \in Account |->
        (IF a = "patron_credit" THEN -p.unapplied ELSE 0)
        + (IF a = p.into THEN Sign(p) * p.amount ELSE 0)]

\* assertBalanced, and the trigger behind it, refuse anything else.
Balanced(p) ==
    SumFunction([f \in FeeId |-> ReceivableLeg(p, f)]) + SumFunction(OtherLegs(p)) = 0

\* The counter an allocation of a kind moves, and the one I2 compares it with.
CounterOf(kind) ==
    IF kind = "waiver" THEN "waived"
    ELSE IF kind = "write_off" THEN "written_off" ELSE "paid"

\* One UPDATE per allocated fee. The counter, the status, closed_at and
\* is_accruing all follow from the row as it is now, not as it was planned on.
AppliedStillAccruing(fee, kind, cents) ==
    LET settles == fee.amount - Settled(fee) - cents <= 0
    IN  [fee EXCEPT
            ![CounterOf(kind)] = @ + cents,
            !.status = IF settles THEN CounterOf(kind) ELSE "outstanding",
            !.closed = settles]
AppliedRefundUncounted(fee, kind, cents) ==
    LET settles == fee.amount - Settled(fee) - cents <= 0
    IN  [fee EXCEPT
            ![CounterOf(kind)] = IF kind = "refund" THEN @ ELSE @ + cents,
            !.status = IF settles THEN CounterOf(kind) ELSE "outstanding",
            !.closed = settles,
            !.accruing = IF settles THEN FALSE ELSE @]
Applied(fee, kind, cents) ==
    LET settles == fee.amount - Settled(fee) - cents <= 0
    IN  [fee EXCEPT
            ![CounterOf(kind)] = @ + cents,
            !.status = IF settles THEN CounterOf(kind) ELSE "outstanding",
            !.closed = settles,
            !.accruing = IF settles THEN FALSE ELSE @]

-----------------------------------------------------------------------------
\* A charge that is not an accrual: the row and a journal of two legs.
ChargeUnposted(f, cents) ==
    /\ pending = None
    /\ NextFee(f)
    /\ account' = TRUE
    /\ fees' = [fees EXCEPT ![f].amount = cents]
    /\ UNCHANGED <<carried, book, alloc, pending, drawer, closing>>
Charge(f, cents) ==
    /\ pending = None
    /\ NextFee(f)
    /\ account' = TRUE
    /\ fees' = [fees EXCEPT ![f].amount = cents]
    /\ carried' = [carried EXCEPT ![f] = cents]
    /\ book' = [book EXCEPT !["fine_revenue"] = @ - cents]
    /\ UNCHANGED <<alloc, pending, drawer, closing>>

\* An imported fine that another system already settled: the charge, and the
\* settlement against the opening balance or the waiver, never the till. An
\* outstanding one is a Charge.
ImportSettled(f, cents, kind) ==
    LET into == SettlementAccount(kind, "opening_balance")
    IN  /\ pending = None
        /\ NextFee(f)
        /\ account' = TRUE
        /\ fees' = [fees EXCEPT ![f] = [@ EXCEPT
                        !.amount = cents, ![CounterOf(kind)] = cents,
                        !.status = CounterOf(kind), !.closed = TRUE]]
        /\ book' = [book EXCEPT !["fine_revenue"] = @ - cents, ![into] = @ + cents]
        /\ alloc' = [alloc EXCEPT ![f][CounterOf(kind)] = cents]
        /\ UNCHANGED <<carried, pending, drawer, closing>>

\* Bounds: what one account, one till and the reader's credit hold stays small,
\* and none is overdrawn (the code would let a refund do that).
WithinBooks(p) ==
    /\ p.unapplied <= MaxCredit + book["patron_credit"]
    /\ p.into \in Method => book[p.into] + Sign(p) * p.amount \in 0 .. MaxCents
    /\ p.session # None =>
          drawer[p.session].cash + Sign(p) * p.amount \in 0 .. MaxTill

\* A till a payment may name: any session there has been. Its method decides
\* whether the money is cash; nothing asks whether the session is open.
MayName(into, s) == s # None => into = "cash_on_hand" /\ drawer[s] # None

\* settle, up to its plan: the fees that owe, oldest first, of the ones named.
\* Only money may exceed what is owed.
ReadOwed(kind, cents, named, method, s) ==
    LET into == SettlementAccount(kind, method)
        owed == [f \in FeeId |-> IF f \in named THEN Owed(fees[f]) ELSE 0]
    IN  /\ pending = None
        /\ MayName(into, s)
        /\ \E left \in Spread(cents, owed) :
              /\ kind # "payment" => left[MaxFees] = 0
              /\ pending' = [kind |-> kind, amount |-> cents, into |-> into,
                             session |-> s, unapplied |-> left[MaxFees],
                             plan |-> [f \in FeeId |-> left[f - 1] - left[f]]]
        /\ WithinBooks(pending')
        /\ UNCHANGED <<ledger, drawer, closing>>

\* refund, up to its plan: the fees that were paid, newest first, and no more
\* than was paid.
ReadPaid(cents, named, method, s) ==
    LET Back(k) == MaxFees + 1 - k
        paid == [k \in FeeId |-> IF Back(k) \in named THEN Refundable(fees[Back(k)]) ELSE 0]
    IN  /\ pending = None
        /\ MayName(method, s)
        /\ \E left \in Spread(cents, paid) :
              /\ left[MaxFees] = 0
              /\ pending' = [kind |-> "refund", amount |-> cents, into |-> method,
                             session |-> s, unapplied |-> 0,
                             plan |-> [f \in FeeId |-> left[Back(f) - 1] - left[Back(f)]]]
        /\ WithinBooks(pending')
        /\ UNCHANGED <<ledger, drawer, closing>>

\* The rest of either: the account row, the journal, the allocations, the fees.
Commit ==
    /\ pending # None
    /\ Balanced(pending)
    /\ account' = TRUE
    /\ carried' = [f \in FeeId |-> carried[f] + ReceivableLeg(pending, f)]
    /\ book' = [a \in Account |-> book[a] + OtherLegs(pending)[a]]
    /\ alloc' = [f \in FeeId |->
                    [alloc[f] EXCEPT ![CounterOf(pending.kind)] = @ + Sign(pending) * pending.plan[f]]]
    /\ fees' = [f \in FeeId |->
                    IF pending.plan[f] = 0 THEN fees[f]
                    ELSE Applied(fees[f], pending.kind, Sign(pending) * pending.plan[f])]
    /\ drawer' = IF pending.session = None \/ pending.into # "cash_on_hand" THEN drawer
                 ELSE [drawer EXCEPT ![pending.session].cash =
                          @ + Sign(pending) * pending.amount]
    /\ pending' = None
    /\ UNCHANGED closing

\* The transaction fails (a lost connection, a client_change_id seen before):
\* nothing it planned was written.
Rollback ==
    /\ pending # None
    /\ pending' = None
    /\ UNCHANGED <<ledger, drawer, closing>>

\* An overdue fine only grows.
ChargedAtTotal(fee, total) == total
Charged(fee, total) == IF total > fee.amount THEN total ELSE fee.amount

\* accrueWithin for one loan of the sweep's list. The total is what the loan is
\* priced at tonight: it follows the nights and the calendar, so it may be more
\* or less than last time. A reader with no account is passed over. The open
\* accruing fee of the loan grows, or a new one is raised, and the journal moves
\* its receivable to the charge.
Accrue(l, total, f) ==
    LET open == {g \in FeeId : fees[g].loan = l /\ fees[g].accruing /\ ~fees[g].closed}
        charged == Charged(fees[f], total)
    IN  /\ account
        /\ IF open = {} THEN NextFee(f) ELSE f \in open
        /\ fees' = [fees EXCEPT ![f].loan = l, ![f].accruing = TRUE, ![f].amount = charged]
        /\ carried' = [carried EXCEPT ![f] = charged]
        /\ book' = [book EXCEPT !["fine_revenue"] = @ - (charged - carried[f])]
        /\ UNCHANGED <<account, alloc, pending, drawer, closing>>

-----------------------------------------------------------------------------
\* One open session per service point, under the till's lock.
OpenTill(s, cents) ==
    /\ \A t \in Session : drawer[t] # None => drawer[t].closed
    /\ drawer[s] = None
    /\ drawer' = [drawer EXCEPT ![s] = [float |-> cents, cash |-> 0, closed |-> FALSE,
                                        counted |-> 0, expected |-> 0]]
    /\ UNCHANGED <<ledger, pending, closing>>

\* close reads the session and refuses a closed one ...
ProbeClose(c, s) ==
    /\ closing[c] = None
    /\ drawer[s] # None
    /\ ~drawer[s].closed
    /\ closing' = [closing EXCEPT ![c] = s]
    /\ UNCHANGED <<ledger, pending, drawer>>

\* ... then takes the till's lock, the figure and the count, and records the
\* difference on the session and in cash_over_short.
CloseUnposted(c, counted) ==
    LET s == closing[c]
        expected == drawer[s].float + drawer[s].cash
    IN  /\ s # None
        /\ drawer' = [drawer EXCEPT ![s] = [@ EXCEPT !.closed = TRUE, !.counted = counted,
                                            !.expected = expected]]
        /\ closing' = [closing EXCEPT ![c] = None]
        /\ UNCHANGED <<ledger, pending>>
Close(c, counted) ==
    LET s == closing[c]
        expected == drawer[s].float + drawer[s].cash
        variance == counted - expected
    IN  /\ s # None
        /\ drawer' = [drawer EXCEPT ![s] =
                      [drawer[s] EXCEPT !.cash = drawer[s].cash + variance, !.closed = TRUE,
                                        !.counted = counted, !.expected = expected]]
        /\ book' = [book EXCEPT !["cash_on_hand"] = @ + variance,
                                !["cash_over_short"] = @ - variance]
        /\ closing' = [closing EXCEPT ![c] = None]
        /\ UNCHANGED <<account, fees, carried, alloc, pending>>

-----------------------------------------------------------------------------
Next ==
    \/ \E f \in FeeId, cents \in 1 .. MaxCents : Charge(f, cents)
    \/ \E f \in FeeId, cents \in 1 .. MaxCents, kind \in {"payment", "waiver"} :
          ImportSettled(f, cents, kind)
    \/ \E cents \in 1 .. MaxCents, named \in SUBSET FeeId,
          method \in Method, s \in Session \cup {None} :
          \/ \E kind \in Settling : ReadOwed(kind, cents, named, method, s)
          \/ ReadPaid(cents, named, method, s)
    \/ Commit
    \/ Rollback
    \/ \E l \in Loan, total \in 1 .. MaxCents, f \in FeeId : Accrue(l, total, f)
    \/ \E s \in Session, cents \in Float : OpenTill(s, cents)
    \/ \E c \in Clerk, s \in Session : ProbeClose(c, s)
    \/ \E c \in Clerk, counted \in Count : Close(c, counted)

Spec == Init /\ [][Next]_vars
-----------------------------------------------------------------------------
FeeRow ==
    [loan : Loan \cup {None}, amount : Nat, paid : Nat, waived : Nat, written_off : Nat,
     status : {"outstanding", "paid", "waived", "written_off"},
     closed : BOOLEAN, accruing : BOOLEAN]

Plan ==
    [kind : Kind, amount : Nat, into : Account, session : Session \cup {None},
     unapplied : Nat, plan : [FeeId -> Nat]]

TillRow == [float : Nat, cash : Int, closed : BOOLEAN, counted : Nat, expected : Int]

\* None stands for a row that is not there.
ASSUME RowAssumption == None \notin TillRow

\* The types of the variables: amounts and counters are never negative.
TypeOK ==
    /\ account \in BOOLEAN
    /\ fees \in [FeeId -> FeeRow]
    /\ carried \in [FeeId -> Int]
    /\ book \in [Account -> Int]
    /\ alloc \in [FeeId -> [Counter -> Int]]
    /\ pending \in Plan \cup {None}
    /\ drawer \in [Session -> TillRow \cup {None}]
    /\ closing \in [Clerk -> Session \cup {None}]

\* I1: every journal a settlement or a refund composes balances, so that
\* postJournalWithin never refuses one and nothing a reader paid is turned away
\* at the till (ledger.ts, assertBalanced).
JournalsBalance == pending # None => Balanced(pending)

\* fees_settlement_within_charge never aborts a settlement, and a fee is closed
\* and has a settled status exactly when it is settled in full, although the
\* sweep may have grown it since the settlement read what it owed
\* (fees.service.ts, applyAllocations).
ClosedMeansSettled ==
    \A f \in FeeId : Raised(f) =>
        /\ Settled(fees[f]) <= fees[f].amount
        /\ fees[f].closed <=> Settled(fees[f]) = fees[f].amount
        /\ fees[f].closed <=> fees[f].status # "outstanding"

\* I2: each counter of a fee is the sum of its allocations of that kind, a
\* refund being a negative payment (ledger-identities.ts, findFeeCounterDrift).
CountersAreAllocations ==
    \A f \in FeeId :
        /\ fees[f].paid = alloc[f]["paid"]
        /\ fees[f].waived = alloc[f]["waived"]
        /\ fees[f].written_off = alloc[f]["written_off"]

\* What is left of I3 (ledger-identities.ts, findAccountBalanceDrift) beside the
\* sweep: the receivable never carries less than the fee owes, and carries
\* exactly that for a fee the sweep did not raise.
ReceivableCoversOwed ==
    \A f \in FeeId :
        /\ carried[f] >= Owed(fees[f])
        /\ fees[f].loan = None => carried[f] = Owed(fees[f])

\* I3 as the nightly reconciliation asserts it: the receivable of the account
\* is what the fees behind it owe.
AccountReconciles ==
    SumFunction(carried) = SumFunction([f \in FeeId |-> Owed(fees[f])])

\* Every cent that came in, at this desk or before an import, and was not given
\* back is on a paid counter, in the reader's credit or explained as a till that
\* counted over or short (fees.service.ts, settle and refund; close of
\* cash-drawer.service.ts; commitFee of import-engine-v2.ts).
MoneyIsAccountedFor ==
    SumFunctionOnSet(book, Method \cup {"cash_on_hand", "cash_over_short", "opening_balance"})
        = SumFunction([f \in FeeId |-> fees[f].paid]) - book["patron_credit"]

\* Double entry: over the whole ledger, what desk, sweep, import and till posted
\* to the receivables and to every other account cancels out.
LedgerSumsToZero == SumFunction(carried) + SumFunction(book) = 0

\* No step composes, posts or leaves out a leg that the books would not add up
\* with.
BooksAddUp == TypeOK /\ JournalsBalance /\ MoneyIsAccountedFor /\ LedgerSumsToZero

\* A loan has at most one fine that still grows, and it is open: a refund that
\* reopens a settled fine never meets the index fees_one_open_accrual_per_loan
\* on the fine the sweep raised since.
OneGrowingFine ==
    \A f \in FeeId : fees[f].accruing =>
        /\ ~fees[f].closed
        /\ \A g \in FeeId : fees[g].accruing /\ fees[g].loan = fees[f].loan => g = f

\* What the row of a till's session says was counted short.
Short(till) == IF till = None \/ ~till.closed THEN 0 ELSE till.expected - till.counted

\* By how much the general ledger's over and short differs from what the closed
\* sessions record.
TillGap == book["cash_over_short"] - SumFunction([s \in Session |-> Short(drawer[s])])

\* "so the general ledger says the same thing the drawer does"
\* (cash-drawer.service.ts:135, close).
VarianceOnBooks == TillGap = 0

\* Where books and drawer part, with any number of people closing tills while
\* payments and refunds name sessions open and closed: only when a session that
\* was found open is closed a second time, and then by the variance the first
\* count had found, which the ledger keeps and the session's row forgets.
OnlySecondCloseParts ==
    [][TillGap' # TillGap =>
          \E c \in Clerk : LET s == closing[c] IN
              /\ s # None /\ drawer[s].closed /\ closing'[c] = None
              /\ TillGap' = TillGap + Short(drawer[s])]_vars
=============================================================================
