-------------------------- MODULE FeesLedgerProofs --------------------------
EXTENDS FeesLedger, FiniteSetTheorems, WellFoundedInduction, TLAPS

Status == {"outstanding", "paid", "waived", "written_off"}
RowWith(fee, counter, n, st, b, a) ==
    [fee EXCEPT ![counter] = n, !.status = st, !.closed = b, !.accruing = a]

\* What the UPDATE of applyAllocations leaves in a row, for each counter.
LEMMA RowExcept ==
    ASSUME NEW fee \in FeeRow, NEW counter \in Counter, NEW n \in Nat,
           NEW st \in Status, NEW b \in BOOLEAN, NEW a \in BOOLEAN, NEW row,
           row = RowWith(fee, counter, n, st, b, a)
    PROVE  /\ row \in FeeRow
           /\ row.loan = fee.loan
           /\ row.amount = fee.amount
           /\ row.paid = IF counter = "paid" THEN n ELSE fee.paid
           /\ row.waived = IF counter = "waived" THEN n ELSE fee.waived
           /\ row.written_off = IF counter = "written_off" THEN n ELSE fee.written_off
           /\ row.status = st
           /\ row.closed = b
           /\ row.accruing = a
<1>1. CASE counter = "paid"
  BY <1>1, Zenon DEF FeeRow, Status, RowWith
<1>2. CASE counter = "waived"
  BY <1>2, Zenon DEF FeeRow, Status, RowWith
<1>3. CASE counter = "written_off"
  BY <1>3, Zenon DEF FeeRow, Status, RowWith
<1>. QED
  BY <1>1, <1>2, <1>3 DEF Counter

\* What applyAllocations does to one row, counter by counter.
LEMMA AppliedRow ==
    ASSUME NEW fee \in FeeRow, NEW kind \in Kind, NEW cents \in Int,
           CounterOf(kind) = "paid" => fee.paid + cents >= 0,
           CounterOf(kind) # "paid" => cents >= 0,
           NEW row, row = Applied(fee, kind, cents)
    PROVE  /\ row \in FeeRow
           /\ row.loan = fee.loan
           /\ row.amount = fee.amount
           /\ row.paid = fee.paid + (IF CounterOf(kind) = "paid" THEN cents ELSE 0)
           /\ row.waived = fee.waived + (IF CounterOf(kind) = "waived" THEN cents ELSE 0)
           /\ row.written_off =
                 fee.written_off + (IF CounterOf(kind) = "written_off" THEN cents ELSE 0)
           /\ row.closed <=> fee.amount - Settled(fee) - cents <= 0
           /\ row.status # "outstanding" <=> row.closed
           /\ row.accruing => fee.accruing /\ ~row.closed
<1> DEFINE c == CounterOf(kind)
           settles == fee.amount - Settled(fee) - cents <= 0
           st == IF settles THEN c ELSE "outstanding"
           a == IF settles THEN FALSE ELSE fee.accruing
           n == fee[c] + cents
<1>1. c \in Counter
  BY DEF CounterOf, Counter
<1>2. /\ c = "paid" => fee[c] = fee.paid
      /\ c = "waived" => fee[c] = fee.waived
      /\ c = "written_off" => fee[c] = fee.written_off
  BY Zenon
<1>3. /\ fee.paid \in Nat /\ fee.waived \in Nat /\ fee.written_off \in Nat
      /\ fee.accruing \in BOOLEAN
  BY DEF FeeRow
<1>4. n \in Nat
  <2> HIDE DEF c
  <2>. QED  BY <1>1, <1>2, <1>3 DEF Counter, c
<1>5. st \in Status /\ settles \in BOOLEAN /\ a \in BOOLEAN
  <2> HIDE DEF c, settles
  <2>1. settles \in BOOLEAN
    BY DEF settles
  <2>2. c \in Status /\ "outstanding" \in Status
    BY <1>1 DEF Counter, Status
  <2>3. st \in Status
    BY <2>2, Zenon
  <2>4. a \in BOOLEAN
    BY <1>3, Zenon
  <2>. QED  BY <2>1, <2>3, <2>4
<1>6. row = RowWith(fee, c, n, st, settles, a)
  BY Zenon DEF Applied, RowWith
<1>7. /\ row \in FeeRow
      /\ row.loan = fee.loan
      /\ row.amount = fee.amount
      /\ row.paid = IF c = "paid" THEN n ELSE fee.paid
      /\ row.waived = IF c = "waived" THEN n ELSE fee.waived
      /\ row.written_off = IF c = "written_off" THEN n ELSE fee.written_off
      /\ row.status = st
      /\ row.closed = settles
      /\ row.accruing = a
  <2> HIDE DEF c, n, st, settles, a
  <2>. QED  BY <1>1, <1>4, <1>5, <1>6, RowExcept
<1>8. row.closed <=> settles
  BY <1>5, <1>7, Zenon
<1>9. row.status # "outstanding" <=> settles
  <2>1. c # "outstanding"
    BY <1>1 DEF Counter
  <2> HIDE DEF c, settles
  <2>. QED  BY <1>7, <2>1, Zenon
<1>10. row.accruing => fee.accruing /\ ~settles
  <2> HIDE DEF c, settles
  <2>. QED  BY <1>7, Zenon
<1>11. /\ row.paid = fee.paid + (IF c = "paid" THEN cents ELSE 0)
       /\ row.waived = fee.waived + (IF c = "waived" THEN cents ELSE 0)
       /\ row.written_off = fee.written_off + (IF c = "written_off" THEN cents ELSE 0)
  <2> HIDE DEF c
  <2>. QED  BY <1>1, <1>2, <1>3, <1>7 DEF Counter
<1>. QED
  BY <1>7, <1>8, <1>9, <1>10, <1>11

-----------------------------------------------------------------------------
\* A row that is not raised is blank.
Blank == \A f \in FeeId : ~Raised(f) => fees[f] = Unraised

\* A plan still fits the rows it was made from: the reader's lock keeps the desk
\* out and the sweep only makes a fee owe more.
PlanFits ==
    pending # None =>
        /\ pending.session # None => drawer[pending.session] # None
        /\ \A f \in FeeId :
              IF pending.kind = "refund" THEN pending.plan[f] <= fees[f].paid
                                        ELSE pending.plan[f] <= Owed(fees[f])

\* A clerk closes a session that was opened.
ClosingOpened == \A c \in Clerk : closing[c] # None => drawer[closing[c]] # None

IInv ==
    /\ TypeOK /\ Blank /\ PlanFits /\ ClosingOpened
    /\ ClosedMeansSettled /\ CountersAreAllocations
    /\ ReceivableCoversOwed /\ OneGrowingFine

\* What the receivable of a fee carries beyond what the fee owes.
Drift(f) == carried[f] - Owed(fees[f])

\* A row that was never raised owes nothing and is open.
LEMMA UnraisedRow ==
    /\ Unraised \in FeeRow
    /\ Unraised.loan = None /\ Unraised.amount = 0 /\ Unraised.paid = 0
    /\ Unraised.waived = 0 /\ Unraised.written_off = 0
    /\ Unraised.status = "outstanding" /\ ~Unraised.closed /\ ~Unraised.accruing
  BY DEF Unraised, FeeRow

\* The columns of a row, and what is summed from them.
LEMMA RowTypes ==
    ASSUME NEW fee \in FeeRow
    PROVE  /\ fee.amount \in Nat /\ fee.paid \in Nat /\ fee.waived \in Nat
           /\ fee.written_off \in Nat /\ fee.closed \in BOOLEAN
           /\ fee.accruing \in BOOLEAN /\ fee.loan \in Loan \cup {None}
           /\ fee.status \in Status
           /\ Settled(fee) \in Nat /\ Owed(fee) \in Int
  BY DEF FeeRow, Status, Settled, Owed

\* The ledger of a new reader.
LEMMA InitIInv == Init => IInv
<1> SUFFICES ASSUME Init PROVE IInv
  OBVIOUS
<1>1. TypeOK
  <2>1. account \in BOOLEAN
    BY Zenon DEF Init
  <2>2. fees \in [FeeId -> FeeRow]
    BY UnraisedRow DEF Init
  <2>3. /\ carried \in [FeeId -> Int] /\ book \in [Account -> Int]
        /\ alloc \in [FeeId -> [Counter -> Int]]
    BY DEF Init
  <2>4. /\ pending \in Plan \cup {None} /\ drawer \in [Session -> TillRow \cup {None}]
        /\ closing \in [Clerk -> Session \cup {None}]
    BY DEF Init
  <2>. QED  BY <2>1, <2>2, <2>3, <2>4 DEF TypeOK
<1>2. \A f \in FeeId : ~Raised(f) /\ fees[f] = Unraised
  BY UnraisedRow DEF Init, Raised
<1>3. Blank /\ PlanFits /\ ClosingOpened /\ ClosedMeansSettled
  BY <1>2 DEF Init, Blank, PlanFits, ClosingOpened, ClosedMeansSettled
<1>4. CountersAreAllocations
  BY <1>2, UnraisedRow DEF Init, CountersAreAllocations, Counter
<1>5. ReceivableCoversOwed
  BY <1>2, UnraisedRow DEF Init, ReceivableCoversOwed, Owed, Settled
<1>6. OneGrowingFine
  BY <1>2, UnraisedRow DEF OneGrowingFine
<1>. QED
  BY <1>1, <1>3, <1>4, <1>5, <1>6 DEF IInv

-----------------------------------------------------------------------------
\* A charge raises a blank row that owes what its receivable carries.
LEMMA ChargeKeeps ==
    ASSUME IInv, NEW f \in FeeId, NEW cents \in 1 .. MaxCents, Charge(f, cents)
    PROVE  IInv'
<1> DEFINE row == [fees[f] EXCEPT !.amount = cents]
<1>1. /\ fees \in [FeeId -> FeeRow] /\ carried \in [FeeId -> Int] /\ book \in [Account -> Int]
      /\ cents \in Nat /\ cents > 0 /\ fees[f] = Unraised
  BY BoundsAssumption DEF IInv, TypeOK, Charge, NextFee, Blank
<1>2. /\ row \in FeeRow /\ row.loan = None /\ ~row.accruing /\ row.amount = cents
      /\ row.paid = 0 /\ row.waived = 0 /\ row.written_off = 0
      /\ row.status = "outstanding" /\ ~row.closed
  <2> HIDE DEF row
  <2>1. row = [fees[f] EXCEPT !.amount = cents]
    BY Zenon DEF row
  <2>2. fees[f] \in FeeRow
    BY <1>1
  <2>3. /\ row \in FeeRow
        /\ row.loan = fees[f].loan /\ row.accruing = fees[f].accruing /\ row.amount = cents
        /\ row.paid = fees[f].paid /\ row.waived = fees[f].waived
        /\ row.written_off = fees[f].written_off
        /\ row.status = fees[f].status /\ row.closed = fees[f].closed
    BY <1>1, <2>1, <2>2, Zenon DEF FeeRow
  <2>. QED  BY <1>1, <2>3, UnraisedRow
<1>3. fees' = [fees EXCEPT ![f] = row]
  BY Zenon DEF Charge
<1> HIDE DEF row
<1>4. /\ fees' \in [FeeId -> FeeRow] /\ fees'[f] = row
      /\ \A g \in FeeId : g # f => fees'[g] = fees[g]
  BY <1>1, <1>2, <1>3
<1>5. /\ carried' \in [FeeId -> Int] /\ carried'[f] = cents
      /\ \A g \in FeeId : g # f => carried'[g] = carried[g]
  BY <1>1 DEF Charge
<1>6. TypeOK'
  <2>1. account' \in BOOLEAN
    BY Zenon DEF Charge
  <2>2. book' = [book EXCEPT !["fine_revenue"] = book["fine_revenue"] - cents]
    BY Zenon DEF Charge
  <2>3. book' \in [Account -> Int]
    BY <1>1, <2>2 DEF Account
  <2>. QED  BY <1>4, <1>5, <2>1, <2>3 DEF IInv, TypeOK, Charge
<1>7. Blank' /\ PlanFits' /\ ClosingOpened'
  BY <1>1, <1>2, <1>4 DEF IInv, Blank, PlanFits, ClosingOpened, Charge, Raised
<1>8. ClosedMeansSettled'
  BY <1>1, <1>2, <1>4 DEF IInv, ClosedMeansSettled, Raised, Settled
<1>9. CountersAreAllocations'
  BY <1>1, <1>2, <1>4, UnraisedRow DEF IInv, CountersAreAllocations, Charge
<1>10. ReceivableCoversOwed'
  BY <1>1, <1>2, <1>4, <1>5 DEF IInv, ReceivableCoversOwed, Owed, Settled
<1>11. OneGrowingFine'
  BY <1>1, <1>2, <1>4 DEF IInv, OneGrowingFine
<1>. QED
  BY <1>6, <1>7, <1>8, <1>9, <1>10, <1>11 DEF IInv

\* The sweep, which may run while a settlement waits to commit: it moves no
\* counter and makes a fee owe no less.
LEMMA AccrueKeeps ==
    ASSUME IInv, NEW l \in Loan, NEW total \in 1 .. MaxCents, NEW f \in FeeId,
           Accrue(l, total, f)
    PROVE  IInv'
<1> DEFINE open == {g \in FeeId : fees[g].loan = l /\ fees[g].accruing /\ ~fees[g].closed}
           n == Charged(fees[f], total)
           row == [fees[f] EXCEPT !.loan = l, !.accruing = TRUE, !.amount = n]
<1>1. /\ fees \in [FeeId -> FeeRow] /\ carried \in [FeeId -> Int] /\ book \in [Account -> Int]
      /\ total \in Nat /\ total > 0 /\ l # None /\ fees[f] \in FeeRow
  BY BoundsAssumption, NoneAssumption DEF IInv, TypeOK
<1>2. n \in Nat /\ n > 0 /\ n >= fees[f].amount
  BY <1>1, RowTypes DEF Charged
<1>3. /\ row \in FeeRow /\ row.loan = l /\ row.accruing /\ row.amount = n
      /\ row.paid = fees[f].paid /\ row.waived = fees[f].waived
      /\ row.written_off = fees[f].written_off
      /\ row.status = fees[f].status /\ row.closed = fees[f].closed
  <2> HIDE DEF row, n
  <2>1. row = [fees[f] EXCEPT !.loan = l, !.accruing = TRUE, !.amount = n]
    BY Zenon DEF row
  <2>. QED  BY <1>1, <1>2, <2>1, Zenon DEF FeeRow
<1>4. fees' = [fees EXCEPT ![f] = row]
  BY Zenon DEF Accrue
<1>5. /\ carried' = [carried EXCEPT ![f] = n]
      /\ book' = [book EXCEPT !["fine_revenue"] = book["fine_revenue"] - (n - carried[f])]
      /\ UNCHANGED <<account, alloc, pending, drawer, closing>>
  BY Zenon DEF Accrue
<1>6. IF open = {} THEN NextFee(f) ELSE f \in open
  BY Zenon DEF Accrue
<1>7. /\ ~fees[f].closed
      /\ fees[f].status = "outstanding"
      /\ Settled(fees[f]) < n
      /\ \A g \in FeeId : fees[g].accruing /\ fees[g].loan = l => g = f
  <2>1. CASE open = {}
    <3>1. fees[f] = Unraised
      BY <1>6, <2>1 DEF NextFee, IInv, Blank
    <3>2. \A g \in FeeId : ~(fees[g].accruing /\ fees[g].loan = l)
      BY <2>1 DEF IInv, OneGrowingFine
    <3>. QED  BY <1>2, <3>1, <3>2, UnraisedRow DEF Settled
  <2>2. CASE open # {}
    <3>1. f \in open
      BY <1>6, <2>2
    <3>2. Raised(f)
      BY <3>1, UnraisedRow DEF IInv, Blank
    <3>3. Settled(fees[f]) <= fees[f].amount /\ Settled(fees[f]) # fees[f].amount
          /\ fees[f].status = "outstanding"
      BY <3>1, <3>2 DEF IInv, ClosedMeansSettled
    <3>. QED
      BY <1>1, <1>2, <3>1, <3>3, RowTypes DEF IInv, OneGrowingFine
  <2>. QED  BY <2>1, <2>2
<1> HIDE DEF row, n, open
<1>8. /\ fees' \in [FeeId -> FeeRow] /\ fees'[f] = row
      /\ \A g \in FeeId : g # f => fees'[g] = fees[g]
  BY <1>1, <1>3, <1>4
<1>9. /\ carried' \in [FeeId -> Int] /\ carried'[f] = n
      /\ \A g \in FeeId : g # f => carried'[g] = carried[g]
  BY <1>1, <1>2, <1>5
<1>10. Settled(row) = Settled(fees[f]) /\ Settled(row) \in Nat /\ ~row.closed
  BY <1>1, <1>3, <1>7, RowTypes DEF Settled
<1>11. TypeOK'
  <2>1. book' \in [Account -> Int]
    BY <1>1, <1>2, <1>5 DEF Account
  <2>. QED  BY <1>5, <1>8, <1>9, <2>1 DEF IInv, TypeOK
<1>12. Blank' /\ ClosingOpened'
  BY <1>2, <1>3, <1>5, <1>8 DEF IInv, Blank, ClosingOpened, Raised
<1>13. PlanFits'
  <2>1. /\ fees'[f].paid = fees[f].paid
        /\ Owed(fees[f]) <= Owed(fees'[f])
    BY <1>1, <1>2, <1>3, <1>7, <1>8, <1>10, RowTypes DEF Owed
  <2>2. \A g \in FeeId : /\ fees'[g].paid = fees[g].paid
                          /\ Owed(fees[g]) <= Owed(fees'[g])
    BY <1>1, <1>8, <2>1, RowTypes
  <2>3. pending # None => \A g \in FeeId : pending.plan[g] \in Nat
    BY DEF IInv, TypeOK, Plan
  <2>4. \A g \in FeeId : Owed(fees[g]) \in Int /\ Owed(fees'[g]) \in Int
    BY <1>1, <1>8, RowTypes
  <2>. QED  BY <1>5, <2>2, <2>3, <2>4 DEF IInv, PlanFits
<1>14. ClosedMeansSettled'
  <2>1. /\ Settled(fees'[f]) <= fees'[f].amount
        /\ fees'[f].closed <=> Settled(fees'[f]) = fees'[f].amount
        /\ fees'[f].closed <=> fees'[f].status # "outstanding"
    BY <1>2, <1>3, <1>7, <1>8, <1>10
  <2>2. \A g \in FeeId : g # f => (Raised(g)' <=> Raised(g)) /\ fees'[g] = fees[g]
    BY <1>8 DEF Raised
  <2>. QED  BY <2>1, <2>2 DEF IInv, ClosedMeansSettled
<1>15. CountersAreAllocations'
  BY <1>3, <1>5, <1>8 DEF IInv, CountersAreAllocations
<1>16. ReceivableCoversOwed'
  <2>1. carried'[f] >= Owed(fees'[f]) /\ fees'[f].loan # None
    BY <1>1, <1>2, <1>3, <1>8, <1>9, <1>10 DEF Owed
  <2>. QED  BY <1>8, <1>9, <2>1 DEF IInv, ReceivableCoversOwed
<1>17. OneGrowingFine'
  BY <1>3, <1>7, <1>8, <1>10 DEF IInv, OneGrowingFine
<1>. QED
  BY <1>11, <1>12, <1>13, <1>14, <1>15, <1>16, <1>17 DEF IInv

\* An imported settled fine is closed with its charge on one counter.
LEMMA ImportSettledKeeps ==
    ASSUME IInv, NEW f \in FeeId, NEW cents \in 1 .. MaxCents,
           NEW kind \in {"payment", "waiver"}, ImportSettled(f, cents, kind)
    PROVE  IInv'
<1> DEFINE c == CounterOf(kind)
           into == SettlementAccount(kind, "opening_balance")
           row == [fees[f] EXCEPT !.amount = cents, ![c] = cents, !.status = c, !.closed = TRUE]
<1>1. /\ fees \in [FeeId -> FeeRow] /\ carried \in [FeeId -> Int] /\ book \in [Account -> Int]
      /\ alloc \in [FeeId -> [Counter -> Int]]
      /\ cents \in Nat /\ cents > 0 /\ fees[f] = Unraised
  BY BoundsAssumption DEF IInv, TypeOK, ImportSettled, NextFee, Blank
<1>2. c \in {"paid", "waived"} /\ into \in {"opening_balance", "waiver_expense"}
  BY DEF CounterOf, SettlementAccount
<1>3. fees' = [fees EXCEPT ![f] = row]
  BY Zenon DEF ImportSettled
<1>4. /\ book' = [book EXCEPT !["fine_revenue"] = @ - cents, ![into] = @ + cents]
      /\ alloc' = [alloc EXCEPT ![f] = [alloc[f] EXCEPT ![c] = cents]]
      /\ UNCHANGED <<carried, pending, drawer, closing>>
      /\ account' = TRUE /\ pending = None
  BY Zenon DEF ImportSettled
<1> HIDE DEF c, into
<1>5. /\ row \in FeeRow /\ row.loan = None /\ ~row.accruing /\ row.amount = cents
      /\ row.paid = (IF c = "paid" THEN cents ELSE 0)
      /\ row.waived = (IF c = "waived" THEN cents ELSE 0)
      /\ row.written_off = 0 /\ row.status = c /\ row.closed
  <2>1. fees[f] \in FeeRow
    BY <1>1
  <2>2. /\ row \in FeeRow
        /\ row.loan = fees[f].loan /\ row.accruing = fees[f].accruing /\ row.amount = cents
        /\ row.paid = (IF c = "paid" THEN cents ELSE fees[f].paid)
        /\ row.waived = (IF c = "waived" THEN cents ELSE fees[f].waived)
        /\ row.written_off = fees[f].written_off /\ row.status = c /\ row.closed
    <3>1. CASE c = "paid"
      BY <1>1, <2>1, <3>1, Zenon DEF FeeRow
    <3>2. CASE c = "waived"
      BY <1>1, <2>1, <3>2, Zenon DEF FeeRow
    <3>. QED  BY <1>2, <3>1, <3>2
  <2> HIDE DEF row
  <2>. QED  BY <1>1, <2>2, UnraisedRow
<1> HIDE DEF row
<1>6. /\ fees' \in [FeeId -> FeeRow] /\ fees'[f] = row
      /\ \A g \in FeeId : g # f => fees'[g] = fees[g]
  BY <1>1, <1>3, <1>5
<1>7. TypeOK'
  <2>1. account' \in BOOLEAN
    BY <1>4, Zenon
  <2>2. book' \in [Account -> Int]
    BY <1>1, <1>2, <1>4 DEF Account
  <2>3. alloc' \in [FeeId -> [Counter -> Int]]
    BY <1>1, <1>2, <1>4 DEF Counter
  <2>. QED  BY <1>4, <1>6, <2>1, <2>2, <2>3 DEF IInv, TypeOK
<1>8. Blank' /\ PlanFits' /\ ClosingOpened'
  BY <1>1, <1>4, <1>5, <1>6 DEF IInv, Blank, PlanFits, ClosingOpened, Raised
<1>9. ClosedMeansSettled'
  <2>1. Settled(row) = cents
    BY <1>1, <1>2, <1>5 DEF Settled
  <2>2. /\ Settled(fees'[f]) <= fees'[f].amount
        /\ fees'[f].closed <=> Settled(fees'[f]) = fees'[f].amount
        /\ fees'[f].closed <=> fees'[f].status # "outstanding"
    BY <1>1, <1>2, <1>5, <1>6, <2>1
  <2>3. \A g \in FeeId : g # f => (Raised(g)' <=> Raised(g)) /\ fees'[g] = fees[g]
    BY <1>6 DEF Raised
  <2>. QED  BY <2>2, <2>3 DEF IInv, ClosedMeansSettled
<1>10. CountersAreAllocations'
  <2>1. /\ alloc[f]["paid"] = 0 /\ alloc[f]["waived"] = 0 /\ alloc[f]["written_off"] = 0
    BY <1>1, UnraisedRow DEF IInv, CountersAreAllocations
  <2>2. /\ \A g \in FeeId : g # f => alloc'[g] = alloc[g]
        /\ alloc'[f]["paid"] = (IF c = "paid" THEN cents ELSE 0)
        /\ alloc'[f]["waived"] = (IF c = "waived" THEN cents ELSE 0)
        /\ alloc'[f]["written_off"] = 0
    BY <1>1, <1>2, <1>4, <2>1 DEF Counter
  <2>. QED  BY <1>5, <1>6, <2>2 DEF IInv, CountersAreAllocations
<1>11. ReceivableCoversOwed'
  <2>1. carried'[f] = 0
    BY <1>1, <1>4, UnraisedRow DEF IInv, ReceivableCoversOwed, Owed, Settled
  <2>2. Owed(fees'[f]) = 0
    BY <1>5, <1>6 DEF Owed
  <2>. QED  BY <1>4, <1>6, <2>1, <2>2 DEF IInv, ReceivableCoversOwed
<1>12. OneGrowingFine'
  <2>1. \A g \in FeeId : fees'[g].accruing => g # f /\ fees'[g] = fees[g]
    BY <1>5, <1>6
  <2>. QED  BY <2>1 DEF IInv, OneGrowingFine
<1>. QED
  BY <1>7, <1>8, <1>9, <1>10, <1>11, <1>12 DEF IInv

-----------------------------------------------------------------------------
\* planSettlement and planRefund: no target takes a negative sum or more than
\* it was offered, and nothing is left that was not there.
LEMMA SpreadFits ==
    ASSUME NEW amount \in Nat, NEW targets, \A k \in FeeId : targets[k] \in Nat,
           NEW left \in Spread(amount, targets), NEW k \in FeeId
    PROVE  /\ left[k - 1] \in Nat /\ left[k] \in Nat
           /\ left[k - 1] - left[k] \in Nat
           /\ left[k - 1] - left[k] <= targets[k]
<1>1. k \in Nat /\ k - 1 \in 0 .. MaxFees /\ k \in 0 .. MaxFees
  BY BoundsAssumption DEF FeeId
<1>2. left[k - 1] \in 0 .. amount /\ left[k] \in 0 .. amount
  BY <1>1 DEF Spread
<1>3. left[k] = IF targets[k] < left[k - 1] THEN left[k - 1] - targets[k] ELSE 0
  BY DEF Spread
<1>. QED
  BY <1>2, <1>3

\* What a fee owes is never negative: it is never settled beyond its charge.
LEMMA OwedNat == ASSUME IInv, NEW f \in FeeId PROVE Owed(fees[f]) \in Nat
<1>1. fees[f] \in FeeRow
  BY DEF IInv, TypeOK
<1>2. CASE Raised(f)
  BY <1>1, <1>2, RowTypes DEF IInv, ClosedMeansSettled, Owed
<1>3. CASE ~Raised(f)
  BY <1>3, UnraisedRow DEF IInv, Blank, Owed, Settled
<1>. QED
  BY <1>2, <1>3

\* Everything but the plan stays: what the settlement steps share.
LEMMA PlanKeeps ==
    ASSUME IInv, UNCHANGED <<ledger, drawer, closing>>,
           pending' \in Plan \cup {None}, PlanFits'
    PROVE  IInv'
<1>1. TypeOK'
  BY Zenon DEF IInv, TypeOK, ledger
<1>2. Blank' /\ ClosingOpened' /\ ClosedMeansSettled'
  BY DEF IInv, ledger, Blank, ClosingOpened, ClosedMeansSettled, Raised
<1>3. CountersAreAllocations' /\ ReceivableCoversOwed' /\ OneGrowingFine'
  BY DEF IInv, ledger, CountersAreAllocations, ReceivableCoversOwed, OneGrowingFine
<1>. QED
  BY <1>1, <1>2, <1>3 DEF IInv

\* settle, up to its plan.
LEMMA ReadOwedKeeps ==
    ASSUME IInv, NEW kind \in Settling, NEW cents \in 1 .. MaxCents,
           NEW named \in SUBSET FeeId, NEW method \in Method,
           NEW s \in Session \cup {None}, ReadOwed(kind, cents, named, method, s)
    PROVE  IInv'
<1> DEFINE into == SettlementAccount(kind, method)
           owed == [f \in FeeId |-> IF f \in named THEN Owed(fees[f]) ELSE 0]
<1>1. PICK left \in Spread(cents, owed) :
         pending' = [kind |-> kind, amount |-> cents, into |-> into,
                     session |-> s, unapplied |-> left[MaxFees],
                     plan |-> [f \in FeeId |-> left[f - 1] - left[f]]]
  BY DEF ReadOwed
<1>2. MayName(into, s) /\ UNCHANGED <<ledger, drawer, closing>>
  BY DEF ReadOwed
<1>3. into \in Account
  BY DEF SettlementAccount, Account
<1>4. cents \in Nat /\ \A f \in FeeId : owed[f] \in Nat /\ owed[f] <= Owed(fees[f])
  BY BoundsAssumption, OwedNat
<1> HIDE DEF into, owed
<1>5. \A f \in FeeId : /\ left[f - 1] - left[f] \in Nat
                       /\ left[f - 1] - left[f] <= owed[f]
  BY <1>4, SpreadFits
<1>6. left[MaxFees] \in Nat
  <2>1. MaxFees \in FeeId
    BY BoundsAssumption DEF FeeId
  <2>. QED  BY <1>4, <2>1, SpreadFits
<1>7. pending' \in Plan
  <2>1. kind \in Kind
    BY DEF Kind
  <2>. QED  BY <1>1, <1>3, <1>4, <1>5, <1>6, <2>1 DEF Plan
<1>8. PlanFits'
  <2>1. fees' = fees /\ drawer' = drawer
    BY <1>2 DEF ledger
  <2>2. /\ pending'.kind # "refund"
        /\ pending'.session = s
        /\ \A f \in FeeId : pending'.plan[f] = left[f - 1] - left[f]
    BY <1>1 DEF Settling
  <2>3. \A f \in FeeId : pending'.plan[f] <= Owed(fees[f])
    BY <1>4, <1>5, <2>2, OwedNat
  <2>. QED  BY <1>2, <2>1, <2>2, <2>3 DEF PlanFits, MayName
<1>. QED
  BY <1>2, <1>7, <1>8, PlanKeeps

\* refund, up to its plan.
LEMMA ReadPaidKeeps ==
    ASSUME IInv, NEW cents \in 1 .. MaxCents,
           NEW named \in SUBSET FeeId, NEW method \in Method,
           NEW s \in Session \cup {None}, ReadPaid(cents, named, method, s)
    PROVE  IInv'
<1> DEFINE Back(k) == MaxFees + 1 - k
           paid == [k \in FeeId |-> IF Back(k) \in named THEN Refundable(fees[Back(k)]) ELSE 0]
<1>1. PICK left \in Spread(cents, paid) :
         pending' = [kind |-> "refund", amount |-> cents, into |-> method,
                     session |-> s, unapplied |-> 0,
                     plan |-> [f \in FeeId |-> left[Back(f) - 1] - left[Back(f)]]]
  BY DEF ReadPaid
<1>2. MayName(method, s) /\ UNCHANGED <<ledger, drawer, closing>>
  BY DEF ReadPaid
<1>3. \A f \in FeeId : Back(f) \in FeeId /\ Back(Back(f)) = f
  BY BoundsAssumption DEF FeeId
<1>4. \A f \in FeeId : fees[f].paid \in Nat
  BY RowTypes DEF IInv, TypeOK
<1>5. cents \in Nat /\ \A f \in FeeId : /\ paid[f] \in Nat
                                       /\ paid[Back(f)] <= fees[f].paid
  BY <1>3, <1>4, BoundsAssumption DEF Refundable
<1> HIDE DEF paid, Back
<1>6. \A f \in FeeId : /\ left[Back(f) - 1] - left[Back(f)] \in Nat
                       /\ left[Back(f) - 1] - left[Back(f)] <= paid[Back(f)]
  BY <1>3, <1>5, SpreadFits
<1>7. pending' \in Plan
  BY <1>1, <1>5, <1>6 DEF Plan, Kind, Account
<1>8. PlanFits'
  <2>1. fees' = fees /\ drawer' = drawer
    BY <1>2 DEF ledger
  <2>2. /\ pending'.kind = "refund"
        /\ pending'.session = s
        /\ \A f \in FeeId : pending'.plan[f] = left[Back(f) - 1] - left[Back(f)]
    BY <1>1
  <2>3. \A f \in FeeId : pending'.plan[f] <= fees[f].paid
    BY <1>3, <1>4, <1>5, <1>6, <2>2
  <2>. QED  BY <1>2, <2>1, <2>2, <2>3 DEF PlanFits, MayName
<1>. QED
  BY <1>2, <1>7, <1>8, PlanKeeps

\* A till's transaction touches no fee: what the till steps share.
LEMMA TillKeeps ==
    ASSUME IInv, UNCHANGED <<account, fees, carried, alloc, pending>>,
           book' \in [Account -> Int],
           drawer' \in [Session -> TillRow \cup {None}],
           closing' \in [Clerk -> Session \cup {None}],
           \A s \in Session : drawer[s] # None => drawer'[s] # None,
           \A c \in Clerk : closing'[c] # None => drawer'[closing'[c]] # None
    PROVE  IInv'
<1>1. TypeOK'
  BY Zenon DEF IInv, TypeOK
<1>2. Blank' /\ ClosingOpened' /\ ClosedMeansSettled'
  BY DEF IInv, Blank, ClosingOpened, ClosedMeansSettled, Raised
<1>3. CountersAreAllocations' /\ ReceivableCoversOwed' /\ OneGrowingFine'
  BY DEF IInv, CountersAreAllocations, ReceivableCoversOwed, OneGrowingFine
<1>4. PlanFits'
  <2>1. pending # None /\ pending.session # None => pending.session \in Session
    BY DEF IInv, TypeOK, Plan
  <2>. QED  BY <2>1 DEF IInv, PlanFits
<1>. QED
  BY <1>1, <1>2, <1>3, <1>4 DEF IInv

\* Opening, probing and closing a till.
LEMMA TillStepsKeep ==
    ASSUME IInv,
           \/ \E s \in Session, cents \in Float : OpenTill(s, cents)
           \/ \E c \in Clerk, s \in Session : ProbeClose(c, s)
           \/ \E c \in Clerk, counted \in Count : Close(c, counted)
    PROVE  IInv'
<1>0. /\ book \in [Account -> Int] /\ drawer \in [Session -> TillRow \cup {None}]
      /\ closing \in [Clerk -> Session \cup {None}]
      /\ \A c \in Clerk : closing[c] # None => drawer[closing[c]] # None
  BY DEF IInv, TypeOK, ClosingOpened
<1>1. ASSUME NEW s \in Session, NEW cents \in Float, OpenTill(s, cents) PROVE IInv'
  <2> DEFINE till == [float |-> cents, cash |-> 0, closed |-> FALSE,
                      counted |-> 0, expected |-> 0]
  <2>1. till \in TillRow /\ till # None
    <3>1. till \in TillRow
      BY TillAssumption DEF TillRow
    <3>. QED  BY <3>1, RowAssumption
  <2>. QED  BY <1>0, <1>1, <2>1, TillKeeps DEF OpenTill, ledger
<1>2. ASSUME NEW c \in Clerk, NEW s \in Session, ProbeClose(c, s) PROVE IInv'
  BY <1>0, <1>2, TillKeeps DEF ProbeClose, ledger
<1>3. ASSUME NEW c \in Clerk, NEW counted \in Count, Close(c, counted) PROVE IInv'
  <2> DEFINE s == closing[c]
             expected == drawer[s].float + drawer[s].cash
             variance == counted - expected
             cash == drawer[s].cash + variance
             till == [drawer[s] EXCEPT !.cash = cash, !.closed = TRUE,
                                       !.counted = counted, !.expected = expected]
  <2>1. s \in Session /\ drawer[s] # None /\ drawer[s] \in TillRow
    BY <1>0, <1>3 DEF Close
  <2>2. counted \in Nat /\ expected \in Int /\ variance \in Int /\ cash \in Int
    BY <2>1, TillAssumption DEF TillRow
  <2>3. /\ drawer' = [drawer EXCEPT ![s] = till]
        /\ book' = [book EXCEPT !["cash_on_hand"] = @ + variance,
                                !["cash_over_short"] = @ - variance]
        /\ closing' = [closing EXCEPT ![c] = None]
        /\ UNCHANGED <<account, fees, carried, alloc, pending>>
    <3>1. drawer' = [drawer EXCEPT ![s] = till]
      BY <1>3, Zenon DEF Close
    <3>2. book' = [book EXCEPT !["cash_on_hand"] = @ + variance,
                               !["cash_over_short"] = @ - variance]
      BY <1>3 DEF Close
    <3>3. /\ closing' = [closing EXCEPT ![c] = None]
          /\ UNCHANGED <<account, fees, carried, alloc, pending>>
      BY <1>3, Zenon DEF Close
    <3>. QED  BY <3>1, <3>2, <3>3
  <2> HIDE DEF s, expected, variance, cash
  <2>4. till \in TillRow
    BY <2>1, <2>2, Zenon DEF TillRow
  <2> HIDE DEF till
  <2>5. till # None
    BY <2>4, RowAssumption
  <2>6. book' \in [Account -> Int]
    BY <1>0, <2>2, <2>3 DEF Account
  <2>. QED  BY <1>0, <2>1, <2>3, <2>4, <2>5, <2>6, TillKeeps
<1>. QED
  BY <1>1, <1>2, <1>3

-----------------------------------------------------------------------------
\* The rest of a settlement: each row takes its part of the plan, and so do its
\* allocations and its receivable.
LEMMA CommitKeeps ==
    ASSUME IInv, Commit
    PROVE  IInv' /\ \A f \in FeeId : fees'[f].loan = fees[f].loan /\ Drift(f)' = Drift(f)
<1> DEFINE p == pending
           c == CounterOf(p.kind)
           d == [f \in FeeId |-> Sign(p) * p.plan[f]]
<1>1. /\ p \in Plan /\ p # None
      /\ fees \in [FeeId -> FeeRow] /\ carried \in [FeeId -> Int] /\ book \in [Account -> Int]
      /\ alloc \in [FeeId -> [Counter -> Int]] /\ drawer \in [Session -> TillRow \cup {None}]
  BY DEF IInv, TypeOK, Commit
<1>2. /\ p.kind \in Kind /\ p.amount \in Nat /\ p.unapplied \in Nat /\ p.into \in Account
      /\ p.session \in Session \cup {None} /\ Sign(p) \in {1, -1}
      /\ \A f \in FeeId : p.plan[f] \in Nat
  BY <1>1 DEF Plan, Sign
<1>3. c \in Counter /\ (p.kind = "refund" => c = "paid")
  BY <1>2 DEF Counter, CounterOf, Kind, Settling
<1>4. \A f \in FeeId : /\ d[f] \in Int
                       /\ d[f] = Sign(p) * p.plan[f]
                       /\ d[f] = 0 <=> p.plan[f] = 0
                       /\ p.kind = "refund" => d[f] <= 0 /\ fees[f].paid + d[f] >= 0
                       /\ p.kind # "refund" => d[f] >= 0 /\ d[f] <= Owed(fees[f])
  <2> TAKE f \in FeeId
  <2>1. fees[f].paid \in Nat /\ p.plan[f] \in Nat
    BY <1>1, <1>2, RowTypes
  <2>2. IF p.kind = "refund" THEN p.plan[f] <= fees[f].paid ELSE p.plan[f] <= Owed(fees[f])
    BY <1>1 DEF IInv, PlanFits
  <2>3. CASE p.kind = "refund"
    BY <2>1, <2>2, <2>3 DEF Sign
  <2>4. CASE p.kind # "refund"
    BY <2>1, <2>2, <2>4 DEF Sign
  <2>. QED  BY <2>3, <2>4
<1>5. /\ account' = TRUE /\ pending' = None /\ closing' = closing
      /\ carried' = [f \in FeeId |-> carried[f] - d[f]]
      /\ book' = [a \in Account |-> book[a] + OtherLegs(p)[a]]
      /\ alloc' = [f \in FeeId |-> [alloc[f] EXCEPT ![c] = @ + d[f]]]
  BY <1>2, <1>4 DEF Commit, ReceivableLeg
<1>6. \A f \in FeeId : fees'[f] = IF d[f] = 0 THEN fees[f] ELSE Applied(fees[f], p.kind, d[f])
  <2> TAKE f \in FeeId
  <2>1. fees'[f] = IF p.plan[f] = 0 THEN fees[f]
                   ELSE Applied(fees[f], p.kind, Sign(p) * p.plan[f])
    BY Zenon DEF Commit
  <2>. QED  BY <1>4, <2>1, Zenon
<1>till. /\ drawer' \in [Session -> TillRow \cup {None}]
       /\ \A s \in Session : drawer[s] # None => drawer'[s] # None
  <2>1. CASE p.session = None \/ p.into # "cash_on_hand"
    <3>1. drawer' = drawer
      BY <2>1, Zenon DEF Commit
    <3>. QED  BY <1>1, <3>1
  <2>2. CASE ~(p.session = None \/ p.into # "cash_on_hand")
    <3> DEFINE s == p.session
               n == drawer[s].cash + Sign(p) * p.amount
               till == [drawer[s] EXCEPT !.cash = n]
    <3>1. s \in Session /\ drawer[s] # None /\ drawer[s] \in TillRow
      BY <1>1, <1>2, <2>2 DEF IInv, PlanFits
    <3>2. n \in Int
      BY <1>2, <3>1 DEF TillRow
    <3>3. drawer' = [drawer EXCEPT ![s] = till]
      BY <2>2, Zenon DEF Commit
    <3> HIDE DEF s, n
    <3>4. till \in TillRow
      BY <3>1, <3>2, Zenon DEF TillRow
    <3> HIDE DEF till
    <3>5. till # None
      BY <3>4, RowAssumption
    <3>. QED  BY <1>1, <3>1, <3>3, <3>4, <3>5
  <2>. QED  BY <2>1, <2>2
<1> HIDE DEF p, d, c
\* Every row, planned for or not, has its counter moved by d and is open exactly
\* while something is owed.
<1>7. \A f \in FeeId :
         /\ fees'[f] \in FeeRow
         /\ fees'[f].loan = fees[f].loan
         /\ fees'[f].amount = fees[f].amount
         /\ fees'[f].paid = fees[f].paid + (IF c = "paid" THEN d[f] ELSE 0)
         /\ fees'[f].waived = fees[f].waived + (IF c = "waived" THEN d[f] ELSE 0)
         /\ fees'[f].written_off = fees[f].written_off + (IF c = "written_off" THEN d[f] ELSE 0)
         /\ fees'[f].accruing => fees[f].accruing /\ ~fees'[f].closed
         /\ d[f] # 0 => /\ fees'[f].closed <=> fees[f].amount - Settled(fees[f]) - d[f] <= 0
                        /\ fees'[f].status # "outstanding" <=> fees'[f].closed
         /\ d[f] = 0 => fees'[f] = fees[f]
  <2> TAKE f \in FeeId
  <2>0. fees[f] \in FeeRow
    BY <1>1
  <2>1. CASE d[f] = 0
    <3>1. fees'[f] = fees[f]
      BY <1>6, <2>1
    <3>. QED  BY <2>0, <2>1, <3>1, RowTypes DEF IInv, OneGrowingFine
  <2>2. CASE d[f] # 0
    <3>1. fees'[f] = Applied(fees[f], p.kind, d[f])
      BY <1>6, <2>2
    <3>2. /\ CounterOf(p.kind) = "paid" => fees[f].paid + d[f] >= 0
          /\ CounterOf(p.kind) # "paid" => d[f] >= 0
      BY <1>3, <1>4, <2>0, RowTypes DEF c
    <3>. QED  BY <1>2, <1>4, <2>0, <2>2, <3>1, <3>2, AppliedRow DEF c
  <2>. QED  BY <2>1, <2>2
<1>8. \A f \in FeeId : /\ Settled(fees'[f]) = Settled(fees[f]) + d[f]
                       /\ Settled(fees[f]) \in Nat /\ Settled(fees'[f]) \in Nat
                       /\ fees[f].amount \in Nat
  BY <1>1, <1>3, <1>4, <1>7, RowTypes DEF Counter, Settled
<1>9. \A f \in FeeId : d[f] # 0 => Raised(f)
  <2> SUFFICES ASSUME NEW f \in FeeId, ~Raised(f) PROVE d[f] = 0
    OBVIOUS
  <2>1. fees[f] = Unraised
    BY DEF IInv, Blank
  <2>2. fees[f].paid = 0 /\ Owed(fees[f]) = 0
    BY <2>1, UnraisedRow DEF Owed, Settled
  <2>. QED  BY <1>4, <2>2
<1>10. \A f \in FeeId : d[f] # 0 =>
          /\ Settled(fees'[f]) <= fees'[f].amount
          /\ fees'[f].closed <=> Settled(fees'[f]) = fees'[f].amount
          /\ fees'[f].closed <=> fees'[f].status # "outstanding"
          /\ Owed(fees'[f]) = Owed(fees[f]) - d[f]
  <2> SUFFICES ASSUME NEW f \in FeeId, d[f] # 0
               PROVE  /\ Settled(fees'[f]) <= fees'[f].amount
                      /\ fees'[f].closed <=> Settled(fees'[f]) = fees'[f].amount
                      /\ fees'[f].closed <=> fees'[f].status # "outstanding"
                      /\ Owed(fees'[f]) = Owed(fees[f]) - d[f]
    OBVIOUS
  <2>1. /\ Settled(fees[f]) <= fees[f].amount
        /\ fees[f].closed <=> Settled(fees[f]) = fees[f].amount
    BY <1>9 DEF IInv, ClosedMeansSettled
  <2>2. Owed(fees[f]) = fees[f].amount - Settled(fees[f])
    BY <1>8, <2>1 DEF Owed
  <2>3. Settled(fees'[f]) <= fees'[f].amount
    BY <1>4, <1>7, <1>8, <2>1, <2>2
  <2>4. fees'[f].closed <=> Settled(fees'[f]) = fees'[f].amount
    BY <1>4, <1>7, <1>8, <2>3
  <2>5. Owed(fees'[f]) = fees'[f].amount - Settled(fees'[f])
    BY <1>7, <1>8, <2>4 DEF Owed
  <2>. QED  BY <1>4, <1>7, <1>8, <2>2, <2>3, <2>4, <2>5
<1>11. TypeOK'
  <2>1. account' \in BOOLEAN
    BY <1>5, Zenon
  <2>2. fees' \in [FeeId -> FeeRow]
    <3>1. fees' = [f \in FeeId |-> fees'[f]]
      BY Zenon DEF Commit
    <3>. QED  BY <1>7, <3>1
  <2>3. /\ carried' \in [FeeId -> Int]
        /\ alloc' \in [FeeId -> [Counter -> Int]]
    BY <1>1, <1>3, <1>4, <1>5
  <2>4. book' \in [Account -> Int]
    <3>1. \A a \in Account : OtherLegs(p)[a] \in Int
      BY <1>2 DEF OtherLegs
    <3>. QED  BY <1>1, <1>5, <3>1
  <2>. QED  BY <1>till, <1>5, <2>1, <2>2, <2>3, <2>4 DEF IInv, TypeOK
<1>12. Blank' /\ PlanFits'
  BY <1>5, <1>7, <1>9 DEF IInv, Blank, PlanFits, Raised
<1>13. ClosingOpened'
  BY <1>till, <1>5 DEF IInv, TypeOK, ClosingOpened
<1>14. ClosedMeansSettled'
  BY <1>7, <1>9, <1>10 DEF IInv, ClosedMeansSettled, Raised
<1>15. CountersAreAllocations'
  <2>1. \A f \in FeeId :
           /\ alloc'[f]["paid"] = alloc[f]["paid"] + (IF c = "paid" THEN d[f] ELSE 0)
           /\ alloc'[f]["waived"] = alloc[f]["waived"] + (IF c = "waived" THEN d[f] ELSE 0)
           /\ alloc'[f]["written_off"] =
                 alloc[f]["written_off"] + (IF c = "written_off" THEN d[f] ELSE 0)
    BY <1>1, <1>3, <1>4, <1>5 DEF Counter
  <2>. QED  BY <1>7, <2>1 DEF IInv, CountersAreAllocations
<1>16. \A f \in FeeId : /\ carried'[f] = carried[f] - d[f] /\ carried[f] \in Int /\ d[f] \in Int
                        /\ Owed(fees[f]) \in Int /\ Owed(fees'[f]) = Owed(fees[f]) - d[f]
  <2> TAKE f \in FeeId
  <2>1. /\ carried'[f] = carried[f] - d[f] /\ carried[f] \in Int /\ d[f] \in Int
        /\ Owed(fees[f]) \in Int
    BY <1>1, <1>4, <1>5, RowTypes
  <2>2. Owed(fees'[f]) = Owed(fees[f]) - d[f]
    BY <1>7, <1>10, <2>1
  <2>. QED  BY <2>1, <2>2
<1>16a. ReceivableCoversOwed'
  <2> SUFFICES ASSUME NEW f \in FeeId
               PROVE  /\ carried'[f] >= Owed(fees'[f])
                      /\ fees'[f].loan = None => carried'[f] = Owed(fees'[f])
    BY DEF ReceivableCoversOwed
  <2>. QED  BY <1>7, <1>16 DEF IInv, ReceivableCoversOwed
<1>16b. \A f \in FeeId : fees'[f].loan = fees[f].loan /\ Drift(f)' = Drift(f)
  BY <1>7, <1>16 DEF Drift
<1>17. OneGrowingFine'
  BY <1>7 DEF IInv, OneGrowingFine
<1>. QED
  BY <1>11, <1>12, <1>13, <1>14, <1>15, <1>16a, <1>16b, <1>17 DEF IInv

\* The steps of the specification keep the invariant.
LEMMA NextKeeps == IInv /\ [Next]_vars => IInv'
<1> SUFFICES ASSUME IInv, [Next]_vars PROVE IInv'
  OBVIOUS
<1>1. CASE UNCHANGED vars
  BY <1>1, Zenon DEF vars, IInv, TypeOK, Blank, PlanFits, ClosingOpened, ClosedMeansSettled,
     CountersAreAllocations, ReceivableCoversOwed, OneGrowingFine, Raised
<1>2. ASSUME NEW f \in FeeId, NEW cents \in 1 .. MaxCents, Charge(f, cents) PROVE IInv'
  BY <1>2, ChargeKeeps
<1>3. ASSUME NEW f \in FeeId, NEW cents \in 1 .. MaxCents, NEW kind \in {"payment", "waiver"},
             ImportSettled(f, cents, kind)
      PROVE  IInv'
  BY <1>3, ImportSettledKeeps
<1>4. ASSUME NEW cents \in 1 .. MaxCents, NEW named \in SUBSET FeeId, NEW method \in Method,
             NEW s \in Session \cup {None}, NEW kind \in Settling,
             ReadOwed(kind, cents, named, method, s)
      PROVE  IInv'
  BY <1>4, ReadOwedKeeps
<1>5. ASSUME NEW cents \in 1 .. MaxCents, NEW named \in SUBSET FeeId, NEW method \in Method,
             NEW s \in Session \cup {None}, ReadPaid(cents, named, method, s)
      PROVE  IInv'
  BY <1>5, ReadPaidKeeps
<1>6. CASE Commit
  BY <1>6, CommitKeeps
<1>7. CASE Rollback
  <2>1. PlanFits'
    BY <1>7 DEF Rollback, PlanFits
  <2>. QED  BY <1>7, <2>1, PlanKeeps DEF Rollback
<1>8. ASSUME NEW l \in Loan, NEW total \in 1 .. MaxCents, NEW f \in FeeId, Accrue(l, total, f)
      PROVE  IInv'
  BY <1>8, AccrueKeeps
<1>9. CASE \/ \E s \in Session, cents \in Float : OpenTill(s, cents)
           \/ \E c \in Clerk, s \in Session : ProbeClose(c, s)
           \/ \E c \in Clerk, counted \in Count : Close(c, counted)
  BY <1>9, TillStepsKeep
<1>. QED
  BY <1>1, <1>2, <1>3, <1>4, <1>5, <1>6, <1>7, <1>8, <1>9 DEF Next

\* Every reachable ledger satisfies the inductive invariant.
LEMMA Inductive == Spec => []IInv
  BY InitIInv, NextKeeps, PTL DEF Spec

\* Amounts and counters are never negative, whatever is charged, settled,
\* refunded, imported or accrued (fees.service.ts, fee-accrual.ts).
THEOREM FeeTypes == Spec => []TypeOK
<1>1. IInv => TypeOK
  BY DEF IInv
<1>. QED
  BY Inductive, <1>1, PTL

\* fees_settlement_within_charge never aborts a settlement, and a fee is closed
\* exactly when it is settled, for any number of fees, loans and tills, with the
\* sweep between a settlement's read and its UPDATEs.
THEOREM SettledWhenClosed == Spec => []ClosedMeansSettled
<1>1. IInv => ClosedMeansSettled
  BY DEF IInv
<1>. QED
  BY Inductive, <1>1, PTL

\* I2 of ledger-identities.ts: the counters of a fee are its allocations.
THEOREM CountersMatch == Spec => []CountersAreAllocations
<1>1. IInv => CountersAreAllocations
  BY DEF IInv
<1>. QED
  BY Inductive, <1>1, PTL

\* The receivable never carries less than a fee owes, and exactly that for a
\* fee the sweep did not raise.
THEOREM ReceivableIsEnough == Spec => []ReceivableCoversOwed
<1>1. IInv => ReceivableCoversOwed
  BY DEF IInv
<1>. QED
  BY Inductive, <1>1, PTL

\* fees_one_open_accrual_per_loan never aborts a refund or a sweep.
THEOREM OneFinePerLoan == Spec => []OneGrowingFine
<1>1. IInv => OneGrowingFine
  BY DEF IInv
<1>. QED
  BY Inductive, <1>1, PTL

-----------------------------------------------------------------------------
(* Sums over finite sets.                                                  *)

\* What holds of a subset once it holds of the smaller ones holds of them all.
LEMMA SubsetInduction ==
    ASSUME NEW S, IsFiniteSet(S), NEW T,
           \A s \in SUBSET S : (\A t \in SUBSET s : t # s => t \in T) => s \in T
    PROVE  \A s \in SUBSET S : s \in T
<1> DEFINE Bad == {n \in Nat : \E s \in SUBSET S : s \notin T /\ Cardinality(s) = n}
           R == OpToRel(<, Nat)
<1>1. ASSUME NEW s \in SUBSET S PROVE IsFiniteSet(s) /\ Cardinality(s) \in Nat
  BY FS_Subset, FS_CardinalityType
<1>2. SUFFICES ASSUME Bad # {} PROVE FALSE
  BY <1>1
<1>3. PICK n \in Bad : \A m \in Bad : ~(<<m, n>> \in R)
  <2>1. IsWellFoundedOn(R, Nat)
    BY NatLessThanWellFounded
  <2>2. Bad \subseteq Nat
    OBVIOUS
  <2> HIDE DEF Bad, R
  <2>. QED  BY ONLY <1>2, <2>1, <2>2, WFMin
<1>4. PICK s \in SUBSET S : s \notin T /\ Cardinality(s) = n
  OBVIOUS
<1>5. PICK t \in SUBSET s : t # s /\ t \notin T
  BY <1>4
<1>6. t \in SUBSET S /\ Cardinality(t) \in Nat /\ Cardinality(t) < n /\ n \in Nat
  <2>1. IsFiniteSet(s) /\ t \subseteq s /\ t # s
    BY <1>1, <1>5
  <2>2. Cardinality(t) <= Cardinality(s) /\ Cardinality(s) # Cardinality(t)
    BY ONLY <2>1, FS_Subset
  <2>3. t \in SUBSET S /\ Cardinality(t) \in Nat /\ Cardinality(s) \in Nat
    BY <1>1, <1>5
  <2>. QED  BY ONLY <1>4, <2>2, <2>3
<1>7. Cardinality(t) \in Bad
  BY <1>5, <1>6
<1>8. <<Cardinality(t), n>> \in R
  BY <1>6 DEF OpToRel
<1>. QED
  BY <1>3, <1>7, <1>8

\* The element a fold takes first.
Pick(s) == CHOOSE x \in s : TRUE

\* J[s] is the sum of g over s, for the subsets s of S.
SumTable(S, g, J) ==
    /\ J \in [SUBSET S -> Int]
    /\ J[{}] = 0
    /\ \A s \in SUBSET S : \A x \in s : J[s] = g[x] + J[s \ {x}]

\* The recursion of the fold, over the subsets of at most n elements.
PartTable(S, g, n, J) ==
    /\ J \in [SUBSET S -> Int]
    /\ J[{}] = 0
    /\ \A s \in SUBSET S : s # {} /\ Cardinality(s) <= n =>
          J[s] = g[Pick(s)] + J[s \ {Pick(s)}]

\* What is taken from a subset of a finite set, and what is left.
LEMMA PickOne ==
    ASSUME NEW S, IsFiniteSet(S), NEW s \in SUBSET S
    PROVE  /\ IsFiniteSet(s) /\ Cardinality(s) \in Nat
           /\ Cardinality(s) <= Cardinality(S)
           /\ s = {} <=> Cardinality(s) = 0
           /\ s # {} => /\ Pick(s) \in s /\ Pick(s) \in S
                        /\ s \ {Pick(s)} \in SUBSET S
                        /\ Cardinality(s \ {Pick(s)}) = Cardinality(s) - 1
<1>1. IsFiniteSet(s) /\ Cardinality(s) \in Nat /\ Cardinality(s) <= Cardinality(S)
  BY FS_Subset, FS_CardinalityType
<1>2. s # {} => Pick(s) \in s
  BY DEF Pick
<1>3. s # {} => Cardinality(s \ {Pick(s)}) = Cardinality(s) - 1
  BY <1>1, <1>2, FS_RemoveElement
<1>4. s = {} <=> Cardinality(s) = 0
  BY <1>1, FS_EmptySet
<1>. QED
  BY <1>1, <1>2, <1>3, <1>4

\* The recursion of the fold has a solution on the small subsets ...
LEMMA PartTableExists ==
    ASSUME NEW S, IsFiniteSet(S), NEW g, \A x \in S : g[x] \in Int
    PROVE  \A n \in Nat : \E J : PartTable(S, g, n, J)
<1> DEFINE Bad == {n \in Nat : ~ \E J : PartTable(S, g, n, J)}
           R == OpToRel(<, Nat)
<1>1. 0 \notin Bad
  <2> DEFINE J0 == [s \in SUBSET S |-> 0]
  <2>1. J0 \in [SUBSET S -> Int] /\ J0[{}] = 0
    OBVIOUS
  <2>2. ASSUME NEW s \in SUBSET S, s # {} PROVE ~(Cardinality(s) <= 0)
    <3>1. Cardinality(s) \in Nat /\ (s = {} <=> Cardinality(s) = 0)
      BY ONLY IsFiniteSet(S), PickOne
    <3>. QED  BY ONLY <2>2, <3>1
  <2> HIDE DEF J0
  <2>3. PartTable(S, g, 0, J0)
    BY <2>1, <2>2 DEF PartTable
  <2>. QED  BY <2>3
<1>2. ASSUME NEW n \in Nat, n \notin Bad PROVE n + 1 \notin Bad
  <2>1. PICK J : PartTable(S, g, n, J)
    BY <1>2
  <2> DEFINE K == [s \in SUBSET S |-> IF s # {} /\ Cardinality(s) = n + 1
                                      THEN g[Pick(s)] + J[s \ {Pick(s)}] ELSE J[s]]
  <2>2. /\ J \in [SUBSET S -> Int] /\ J[{}] = 0
        /\ \A s \in SUBSET S : s # {} /\ Cardinality(s) <= n =>
              J[s] = g[Pick(s)] + J[s \ {Pick(s)}]
    BY <2>1 DEF PartTable
  <2>3. ASSUME NEW s \in SUBSET S PROVE K[s] \in Int
    <3>1. CASE s # {} /\ Cardinality(s) = n + 1
      <4>1. Pick(s) \in S /\ s \ {Pick(s)} \in SUBSET S
        BY <3>1, PickOne
      <4>2. g[Pick(s)] \in Int /\ J[s \ {Pick(s)}] \in Int
        BY <2>2, <4>1
      <4>. QED  BY <3>1, <4>2
    <3>2. CASE ~(s # {} /\ Cardinality(s) = n + 1)
      BY <2>2, <3>2
    <3>. QED  BY <3>1, <3>2
  <2>4. K \in [SUBSET S -> Int] /\ K[{}] = 0
    BY <2>2, <2>3
  <2>5. ASSUME NEW s \in SUBSET S, s # {}, Cardinality(s) <= n + 1
        PROVE  K[s] = g[Pick(s)] + K[s \ {Pick(s)}]
    <3>1. /\ Cardinality(s) \in Nat /\ s \ {Pick(s)} \in SUBSET S
          /\ Cardinality(s \ {Pick(s)}) = Cardinality(s) - 1
      BY <2>5, PickOne
    <3>2. K[s \ {Pick(s)}] = J[s \ {Pick(s)}]
      <4>1. Cardinality(s \ {Pick(s)}) # n + 1
        BY <2>5, <3>1
      <4>. QED  BY <3>1, <4>1
    <3>3. CASE Cardinality(s) = n + 1
      BY <2>5, <3>2, <3>3
    <3>4. CASE Cardinality(s) # n + 1
      <4>1. Cardinality(s) <= n
        BY <2>5, <3>1, <3>4
      <4>2. J[s] = g[Pick(s)] + J[s \ {Pick(s)}]
        BY <2>2, <2>5, <4>1
      <4>3. K[s] = J[s]
        BY <3>4
      <4>. QED  BY <3>2, <4>2, <4>3
    <3>. QED  BY <3>3, <3>4
  <2> HIDE DEF K
  <2>6. PartTable(S, g, n + 1, K)
    BY <2>4, <2>5 DEF PartTable
  <2>. QED  BY <2>6
<1>3. Bad = {}
  <2>1. SUFFICES ASSUME Bad # {} PROVE FALSE
    OBVIOUS
  <2>2. Bad \subseteq Nat
    OBVIOUS
  <2>3. IsWellFoundedOn(R, Nat)
    BY NatLessThanWellFounded
  <2> HIDE DEF Bad
  <2>4. PICK n \in Bad : \A m \in Bad : ~(<<m, n>> \in R)
    <3> HIDE DEF R
    <3>. QED  BY ONLY <2>1, <2>2, <2>3, WFMin
  <2>5. n \in Nat /\ n # 0 /\ n - 1 \in Nat /\ (n - 1) + 1 = n
    <3>1. n \in Nat
      BY <2>2
    <3>2. n # 0
      BY <1>1
    <3>. QED  BY ONLY <3>1, <3>2
  <2>6. n - 1 \notin Bad
    <3>1. <<n - 1, n>> \in R
      BY <2>5 DEF OpToRel
    <3>. QED  BY <2>4, <3>1
  <2>. QED  BY <1>2, <2>4, <2>5, <2>6
<1>. QED
  BY <1>3

\* ... and so on all of them, and it does not matter which element is taken.
LEMMA SumTableExists ==
    ASSUME NEW S, IsFiniteSet(S), NEW g, \A x \in S : g[x] \in Int
    PROVE  \E J : SumTable(S, g, J)
<1>1. PICK J : PartTable(S, g, Cardinality(S), J)
  BY PartTableExists, FS_CardinalityType
<1>2. /\ J \in [SUBSET S -> Int] /\ J[{}] = 0
      /\ \A s \in SUBSET S : s # {} => J[s] = g[Pick(s)] + J[s \ {Pick(s)}]
  BY <1>1, PickOne DEF PartTable
<1> DEFINE T == {s \in SUBSET S : \A x \in s : J[s] = g[x] + J[s \ {x}]}
<1>3. ASSUME NEW s \in SUBSET S, \A t \in SUBSET s : t # s => t \in T PROVE s \in T
  <2> SUFFICES ASSUME NEW x \in s PROVE J[s] = g[x] + J[s \ {x}]
    OBVIOUS
  <2> DEFINE y == Pick(s)
  <2>1. y \in s /\ J[s] = g[y] + J[s \ {y}]
    BY <1>2, PickOne
  <2> HIDE DEF y
  <2>2. CASE x = y
    BY <2>1, <2>2
  <2>3. CASE x # y
    <3>1. J[s \ {y}] = g[x] + J[(s \ {y}) \ {x}]
      <4>1. s \ {y} \in T /\ x \in s \ {y}
        BY <1>3, <2>1, <2>3
      <4>. QED  BY <4>1
    <3>2. J[s \ {x}] = g[y] + J[(s \ {x}) \ {y}]
      <4>1. s \ {x} \in T /\ y \in s \ {x}
        BY <1>3, <2>1, <2>3
      <4>. QED  BY <4>1
    <3>3. (s \ {y}) \ {x} = (s \ {x}) \ {y} /\ (s \ {x}) \ {y} \in SUBSET S
      OBVIOUS
    <3>4. g[x] \in Int /\ g[y] \in Int /\ J[(s \ {x}) \ {y}] \in Int
      BY <1>2, <2>1, <3>3
    <3>5. J[(s \ {y}) \ {x}] = J[(s \ {x}) \ {y}]
      BY <3>3, Zenon
    <3>. QED  BY ONLY <2>1, <3>1, <3>2, <3>4, <3>5
  <2>. QED  BY <2>2, <2>3
<1>4. \A s \in SUBSET S : s \in T
  <2> HIDE DEF T
  <2>. QED  BY ONLY IsFiniteSet(S), <1>3, SubsetInduction
<1>5. SumTable(S, g, J)
  BY <1>2, <1>4 DEF SumTable
<1>. QED
  BY <1>5

\* There is one such table.
LEMMA SumTableUnique ==
    ASSUME NEW S, IsFiniteSet(S), NEW g, NEW J, SumTable(S, g, J), NEW K,
           K[{}] = 0,
           \A s \in SUBSET S : s # {} => K[s] = g[Pick(s)] + K[s \ {Pick(s)}]
    PROVE  K[S] = J[S]
<1> DEFINE T == {s \in SUBSET S : K[s] = J[s]}
<1>1. ASSUME NEW s \in SUBSET S, \A t \in SUBSET s : t # s => t \in T PROVE s \in T
  <2>1. CASE s = {}
    BY <2>1 DEF SumTable
  <2>2. CASE s # {}
    <3>1. Pick(s) \in s /\ s \ {Pick(s)} \in T
      BY <1>1, <2>2, PickOne
    <3>2. J[s] = g[Pick(s)] + J[s \ {Pick(s)}]
      BY <3>1 DEF SumTable
    <3>. QED  BY <2>2, <3>1, <3>2
  <2>. QED  BY <2>1, <2>2
<1>2. \A s \in SUBSET S : s \in T
  <2> HIDE DEF T
  <2>. QED  BY ONLY IsFiniteSet(S), <1>1, SubsetInduction
<1>. QED
  BY <1>2

\* SumFunctionOnSet is the table's last entry.
LEMMA SumIsTable ==
    ASSUME NEW S, IsFiniteSet(S), NEW g, \A x \in S : g[x] \in Int,
           NEW J, SumTable(S, g, J)
    PROVE  SumFunctionOnSet(g, S) = J[S] /\ J[S] \in Int
<1> DEFINE Rec(f) == f = [s \in SUBSET S |->
                            IF s = {} THEN 0 ELSE g[Pick(s)] + f[s \ {Pick(s)}]]
           fold == CHOOSE f : Rec(f)
<1>1. J \in [SUBSET S -> Int] /\ J[{}] = 0
  BY DEF SumTable
<1>2. Rec(J)
  <2>1. ASSUME NEW s \in SUBSET S, s # {} PROVE J[s] = g[Pick(s)] + J[s \ {Pick(s)}]
    <3>1. Pick(s) \in s
      BY <2>1 DEF Pick
    <3>. QED  BY <3>1 DEF SumTable
  <2>. QED  BY <1>1, <2>1
<1>3. Rec(fold)
  <2> HIDE DEF Rec
  <2>. QED  BY <1>2
<1>4. SumFunctionOnSet(g, S) = fold[S]
  BY DEF SumFunctionOnSet, FoldFunctionOnSet, MapThenFoldSet, Pick
<1> HIDE DEF fold
<1>5. /\ fold[{}] = 0
      /\ \A s \in SUBSET S : s # {} => fold[s] = g[Pick(s)] + fold[s \ {Pick(s)}]
  BY <1>3
<1>6. fold[S] = J[S]
  BY ONLY IsFiniteSet(S), SumTable(S, g, J), <1>5, SumTableUnique
<1>. QED
  BY <1>1, <1>4, <1>6

LEMMA SumInt ==
    ASSUME NEW S, IsFiniteSet(S), NEW g, \A x \in S : g[x] \in Int
    PROVE  SumFunctionOnSet(g, S) \in Int
  BY SumTableExists, SumIsTable

\* Sums add up entry by entry.
LEMMA SumPlus ==
    ASSUME NEW S, IsFiniteSet(S), NEW g, NEW d, NEW h,
           \A x \in S : g[x] \in Int /\ d[x] \in Int /\ h[x] = g[x] + d[x]
    PROVE  SumFunctionOnSet(h, S) = SumFunctionOnSet(g, S) + SumFunctionOnSet(d, S)
<1>0. \A x \in S : h[x] \in Int
  OBVIOUS
<1>1. PICK G : SumTable(S, g, G)
  BY SumTableExists
<1>2. PICK D : SumTable(S, d, D)
  BY SumTableExists
<1>3. PICK H : SumTable(S, h, H)
  BY <1>0, SumTableExists
<1> DEFINE T == {s \in SUBSET S : H[s] = G[s] + D[s]}
<1>4. ASSUME NEW s \in SUBSET S, \A t \in SUBSET s : t # s => t \in T PROVE s \in T
  <2>1. CASE s = {}
    BY <1>1, <1>2, <1>3, <2>1 DEF SumTable
  <2>2. CASE s # {}
    <3>1. PICK x \in s : TRUE
      BY <2>2
    <3>2. s \ {x} \in T /\ s \ {x} \in SUBSET S /\ x \in S
      BY <1>4
    <3>3. /\ G[s] = g[x] + G[s \ {x}] /\ D[s] = d[x] + D[s \ {x}]
          /\ H[s] = h[x] + H[s \ {x}]
      BY <1>1, <1>2, <1>3 DEF SumTable
    <3>4. /\ G[s \ {x}] \in Int /\ D[s \ {x}] \in Int
          /\ g[x] \in Int /\ d[x] \in Int /\ h[x] = g[x] + d[x]
      BY <1>1, <1>2, <3>2 DEF SumTable
    <3>5. H[s \ {x}] = G[s \ {x}] + D[s \ {x}]
      BY <3>2
    <3>6. H[s] = G[s] + D[s]
      BY ONLY <3>3, <3>4, <3>5
    <3>. QED  BY <3>6
  <2>. QED  BY <2>1, <2>2
<1>5. \A s \in SUBSET S : s \in T
  <2> HIDE DEF T
  <2>. QED  BY ONLY IsFiniteSet(S), <1>4, SubsetInduction
<1>6. /\ SumFunctionOnSet(g, S) = G[S] /\ SumFunctionOnSet(d, S) = D[S]
      /\ SumFunctionOnSet(h, S) = H[S]
  BY <1>0, <1>1, <1>2, <1>3, SumIsTable
<1>. QED
  BY <1>5, <1>6

\* A sum of zeros.
LEMMA SumZero ==
    ASSUME NEW S, IsFiniteSet(S), NEW g, \A x \in S : g[x] = 0
    PROVE  SumFunctionOnSet(g, S) = 0
<1>1. \A x \in S : g[x] \in Int /\ g[x] \in Int /\ g[x] = g[x] + g[x]
  OBVIOUS
<1>2. SumFunctionOnSet(g, S) = SumFunctionOnSet(g, S) + SumFunctionOnSet(g, S)
  BY ONLY IsFiniteSet(S), <1>1, SumPlus
<1>3. SumFunctionOnSet(g, S) \in Int
  BY <1>1, SumInt
<1>4. ASSUME NEW n \in Int, NEW m \in Int, m = n + n, m = n PROVE n = 0
  BY ONLY <1>4
<1>. QED
  BY <1>2, <1>3, <1>4

\* One entry that is not zero is the sum.
LEMMA SumOne ==
    ASSUME NEW S, IsFiniteSet(S), NEW a \in S, NEW g, g[a] \in Int,
           \A x \in S : x # a => g[x] = 0
    PROVE  SumFunctionOnSet(g, S) = g[a]
<1>1. \A x \in S : g[x] \in Int
  OBVIOUS
<1>2. PICK G : SumTable(S, g, G)
  BY <1>1, SumTableExists
<1>3. SumFunctionOnSet(g, S) = g[a] + G[S \ {a}]
  <2>1. SumFunctionOnSet(g, S) = G[S] /\ G[S] \in Int
    BY ONLY IsFiniteSet(S), <1>1, <1>2, SumIsTable
  <2>2. G[S] = g[a] + G[S \ {a}]
    BY <1>2 DEF SumTable
  <2>. QED  BY ONLY <2>1, <2>2
<1> DEFINE T == {s \in SUBSET S : a \notin s => G[s] = 0}
<1>4. ASSUME NEW s \in SUBSET S, \A t \in SUBSET s : t # s => t \in T PROVE s \in T
  <2> SUFFICES ASSUME a \notin s PROVE G[s] = 0
    OBVIOUS
  <2>1. CASE s = {}
    BY <1>2, <2>1 DEF SumTable
  <2>2. CASE s # {}
    <3>1. PICK x \in s : TRUE
      BY <2>2
    <3>2. s \ {x} \in T
      BY <1>4
    <3>3. G[s \ {x}] = 0 /\ g[x] = 0
      BY <3>2
    <3>4. G[s] = g[x] + G[s \ {x}]
      BY <1>2 DEF SumTable
    <3>. QED  BY ONLY <3>3, <3>4
  <2>. QED  BY <2>1, <2>2
<1>5. \A s \in SUBSET S : s \in T
  <2> HIDE DEF T
  <2>. QED  BY ONLY IsFiniteSet(S), <1>4, SubsetInduction
<1>6. G[S \ {a}] = 0
  <2>1. S \ {a} \in T
    BY <1>5
  <2>. QED  BY <2>1
<1>. QED
  BY <1>3, <1>6

\* Sums of the same entries.
LEMMA SumSame ==
    ASSUME NEW S, IsFiniteSet(S), NEW g, NEW h,
           \A x \in S : g[x] \in Int /\ h[x] = g[x]
    PROVE  SumFunctionOnSet(h, S) = SumFunctionOnSet(g, S)
<1>1. PICK z : z = [x \in S |-> 0]
  OBVIOUS
<1>2. \A x \in S : g[x] \in Int /\ z[x] \in Int /\ h[x] = g[x] + z[x]
  BY <1>1
<1>3. SumFunctionOnSet(h, S) = SumFunctionOnSet(g, S) + SumFunctionOnSet(z, S)
  BY ONLY IsFiniteSet(S), <1>2, SumPlus
<1>4. SumFunctionOnSet(z, S) = 0
  BY <1>1, SumZero
<1>5. SumFunctionOnSet(g, S) \in Int
  BY SumInt
<1>. QED
  BY <1>3, <1>4, <1>5

\* Where one entry moves, the sum moves with it.
LEMMA SumMoves ==
    ASSUME NEW S, IsFiniteSet(S), NEW a \in S, NEW g, NEW h, NEW n \in Int,
           \A x \in S : g[x] \in Int,
           h[a] = g[a] + n, \A x \in S : x # a => h[x] = g[x]
    PROVE  SumFunctionOnSet(h, S) = SumFunctionOnSet(g, S) + n
<1>1. PICK z : z = [x \in S |-> IF x = a THEN n ELSE 0]
  OBVIOUS
<1>2. \A x \in S : g[x] \in Int /\ z[x] \in Int /\ h[x] = g[x] + z[x]
  BY <1>1
<1>3. SumFunctionOnSet(h, S) = SumFunctionOnSet(g, S) + SumFunctionOnSet(z, S)
  BY ONLY IsFiniteSet(S), <1>2, SumPlus
<1>4. SumFunctionOnSet(z, S) = n
  <2>1. z[a] = n /\ \A x \in S : x # a => z[x] = 0
    BY <1>1
  <2>2. SumFunctionOnSet(z, S) = z[a]
    BY ONLY IsFiniteSet(S), a \in S, n \in Int, <2>1, SumOne
  <2>. QED  BY <2>1, <2>2
<1>. QED
  BY <1>3, <1>4

\* A sum of differences.
LEMMA SumTelescopes ==
    ASSUME NEW N \in Nat, NEW l, \A k \in 0 .. N : l[k] \in Int, NEW g,
           \A k \in 1 .. N : g[k] = l[k - 1] - l[k]
    PROVE  SumFunctionOnSet(g, 1 .. N) = l[0] - l[N]
<1> DEFINE S == 1 .. N
<1>0. IsFiniteSet(S)
  BY FS_Interval
<1>1. ASSUME NEW k \in S PROVE k - 1 \in 0 .. N /\ k \in 0 .. N /\ k \in Int
  OBVIOUS
<1>2. \A k \in S : g[k] \in Int
  BY <1>1
<1>3. PICK G : SumTable(S, g, G)
  BY <1>0, <1>2, SumTableExists
<1> DEFINE T == {s \in SUBSET S : \A k \in 0 .. N : s = 1 .. k => G[s] = l[0] - l[k]}
<1>4. ASSUME NEW s \in SUBSET S, \A t \in SUBSET s : t # s => t \in T PROVE s \in T
  <2> SUFFICES ASSUME NEW k \in 0 .. N, s = 1 .. k PROVE G[s] = l[0] - l[k]
    OBVIOUS
  <2>1. CASE k = 0
    <3>1. s = {} /\ l[0] \in Int
      BY <2>1
    <3>. QED  BY <1>3, <2>1, <3>1 DEF SumTable
  <2>2. CASE k # 0
    <3>1. /\ k \in s /\ k \in S /\ k - 1 \in 0 .. N
          /\ s \ {k} = 1 .. (k - 1) /\ s \ {k} \in SUBSET s /\ s \ {k} # s
      <4>1. k \in Nat /\ k - 1 \in Nat /\ k - 1 \in 0 .. N /\ k \in 1 .. k
        BY <2>2
      <4>2. k \in s /\ k \in S
        BY <4>1
      <4>3. (1 .. k) \ {k} = 1 .. (k - 1)
        BY ONLY <4>1
      <4>. QED  BY <4>1, <4>2, <4>3
    <3>2. s \ {k} \in T
      BY <1>4, <3>1
    <3>3. G[s \ {k}] = l[0] - l[k - 1]
      BY <3>1, <3>2
    <3>4. G[s] = g[k] + G[s \ {k}]
      BY <1>3, <3>1 DEF SumTable
    <3>5. g[k] = l[k - 1] - l[k]
      BY <3>1
    <3>6. l[k] \in Int /\ l[k - 1] \in Int /\ l[0] \in Int
      BY <3>1
    <3>. QED  BY ONLY <3>3, <3>4, <3>5, <3>6
  <2>. QED  BY <2>1, <2>2
<1>5. \A s \in SUBSET S : s \in T
  <2> HIDE DEF T, S
  <2>. QED  BY ONLY <1>0, <1>4, SubsetInduction
<1>6. G[S] = l[0] - l[N]
  BY <1>5
<1>. QED
  BY <1>0, <1>2, <1>3, <1>6, SumIsTable

\* The negated entries sum to the negated sum.
LEMMA SumNegates ==
    ASSUME NEW S, IsFiniteSet(S), NEW g, NEW h,
           \A x \in S : g[x] \in Int /\ h[x] = -g[x]
    PROVE  SumFunctionOnSet(h, S) = -SumFunctionOnSet(g, S)
<1>1. PICK z : z = [x \in S |-> 0]
  OBVIOUS
<1>2. \A x \in S : g[x] \in Int /\ h[x] \in Int /\ z[x] = g[x] + h[x]
  BY <1>1
<1>3. SumFunctionOnSet(z, S) = SumFunctionOnSet(g, S) + SumFunctionOnSet(h, S)
  BY ONLY IsFiniteSet(S), <1>2, SumPlus
<1>4. SumFunctionOnSet(z, S) = 0
  BY <1>1, SumZero
<1>5. SumFunctionOnSet(g, S) \in Int /\ SumFunctionOnSet(h, S) \in Int
  BY <1>2, SumInt
<1>. QED
  BY ONLY <1>3, <1>4, <1>5

-----------------------------------------------------------------------------
(* The sums of the ledger.                                                 *)

\* The accounts money comes in by.
Inflow == Method \cup {"cash_on_hand", "cash_over_short", "opening_balance"}

\* Three accounts, or fewer.
LEMMA ThreeFinite == ASSUME NEW a, NEW b, NEW c PROVE IsFiniteSet({a, b, c})
<1>1. IsFiniteSet({a} \cup {b})
  BY FS_Singleton, FS_AddElement
<1>2. IsFiniteSet(({a} \cup {b}) \cup {c})
  BY <1>1, FS_AddElement
<1>3. {a, b, c} = ({a} \cup {b}) \cup {c}
  OBVIOUS
<1>. QED
  BY <1>2, <1>3

\* There are finitely many fees and accounts to sum over.
LEMMA FiniteBooks ==
    /\ IsFiniteSet(FeeId) /\ IsFiniteSet(Account) /\ IsFiniteSet(Inflow)
    /\ Inflow \subseteq Account /\ Method \subseteq Inflow
    /\ Inflow \cap {"patron_credit", "fine_revenue", "waiver_expense", "bad_debt_expense"} = {}
<1>1. IsFiniteSet(FeeId)
  BY BoundsAssumption, FS_Interval DEF FeeId
<1> DEFINE A == {"cash_on_hand", "bank", "card_clearing"}
           B == {"patron_credit", "fine_revenue", "waiver_expense"}
           C == {"bad_debt_expense", "cash_over_short", "opening_balance"}
<1>2. IsFiniteSet(A) /\ IsFiniteSet(B) /\ IsFiniteSet(C)
  BY ThreeFinite
<1>3. Account \subseteq (A \cup B) \cup C /\ Inflow \subseteq (A \cup B) \cup C
  BY MethodAssumption DEF Account, Inflow
<1>4. IsFiniteSet((A \cup B) \cup C)
  <2> HIDE DEF A, B, C
  <2>1. IsFiniteSet(A \cup B)
    BY <1>2, FS_Union
  <2>. QED  BY <1>2, <2>1, FS_Union
<1>5. IsFiniteSet(Account) /\ IsFiniteSet(Inflow)
  <2> HIDE DEF A, B, C
  <2>. QED  BY <1>3, <1>4, FS_Subset
<1>6. /\ Inflow \subseteq Account /\ Method \subseteq Inflow
      /\ Inflow \cap {"patron_credit", "fine_revenue", "waiver_expense", "bad_debt_expense"} = {}
  BY MethodAssumption DEF Account, Inflow
<1>. QED
  BY <1>1, <1>5, <1>6

\* A plan whose parts and credit add up to the amount makes a balanced journal.
LEMMA PlanBalances ==
    ASSUME NEW p \in Plan,
           SumFunctionOnSet(p.plan, FeeId) = p.amount - p.unapplied,
           p.kind # "payment" => p.unapplied = 0
    PROVE  Balanced(p)
<1>1. /\ p.kind \in Kind /\ p.amount \in Nat /\ p.unapplied \in Nat /\ p.into \in Account
      /\ \A f \in FeeId : p.plan[f] \in Nat
  BY DEF Plan
<1>2. PICK legs : legs = [f \in FeeId |-> ReceivableLeg(p, f)]
  OBVIOUS
<1>3. PICK credit : credit = [a \in Account |-> IF a = "patron_credit" THEN -p.unapplied ELSE 0]
  OBVIOUS
<1>4. PICK into : into = [a \in Account |-> IF a = p.into THEN Sign(p) * p.amount ELSE 0]
  OBVIOUS
<1>5. PICK other : other = OtherLegs(p)
  OBVIOUS
<1>6. Sign(p) \in {1, -1} /\ Sign(p) * p.amount \in Int
  BY <1>1 DEF Sign
<1>7. SumFunctionOnSet(legs, FeeId) = -(Sign(p) * (p.amount - p.unapplied))
  <2>1. CASE p.kind = "refund"
    <3>1. Sign(p) = -1
      BY <2>1 DEF Sign
    <3>2. \A f \in FeeId : p.plan[f] \in Int /\ legs[f] = p.plan[f]
      BY <1>1, <1>2, <3>1 DEF ReceivableLeg
    <3>3. SumFunctionOnSet(legs, FeeId) = SumFunctionOnSet(p.plan, FeeId)
      BY ONLY <3>2, FiniteBooks, SumSame
    <3>. QED  BY <1>1, <3>1, <3>3
  <2>2. CASE p.kind # "refund"
    <3>1. Sign(p) = 1
      BY <2>2 DEF Sign
    <3>2. \A f \in FeeId : p.plan[f] \in Int /\ legs[f] = -p.plan[f]
      BY <1>1, <1>2, <3>1 DEF ReceivableLeg
    <3>3. SumFunctionOnSet(legs, FeeId) = -SumFunctionOnSet(p.plan, FeeId)
      BY ONLY <3>2, FiniteBooks, SumNegates
    <3>. QED  BY <1>1, <3>1, <3>3
  <2>. QED  BY <2>1, <2>2
<1>8. SumFunctionOnSet(credit, Account) = -p.unapplied
  <2>1. /\ "patron_credit" \in Account /\ credit["patron_credit"] = -p.unapplied
        /\ -p.unapplied \in Int
        /\ \A a \in Account : a # "patron_credit" => credit[a] = 0
    BY <1>1, <1>3 DEF Account
  <2>2. SumFunctionOnSet(credit, Account) = credit["patron_credit"]
    BY ONLY <2>1, FiniteBooks, SumOne
  <2>. QED  BY <2>1, <2>2
<1>9. SumFunctionOnSet(into, Account) = Sign(p) * p.amount
  <2>1. /\ into[p.into] = Sign(p) * p.amount
        /\ \A a \in Account : a # p.into => into[a] = 0
    BY <1>1, <1>4
  <2>2. SumFunctionOnSet(into, Account) = into[p.into]
    BY ONLY <1>1, <1>6, <2>1, FiniteBooks, SumOne
  <2>. QED  BY <2>1, <2>2
<1>10. SumFunctionOnSet(other, Account)
          = SumFunctionOnSet(credit, Account) + SumFunctionOnSet(into, Account)
  <2>1. \A a \in Account : /\ credit[a] \in Int /\ into[a] \in Int
                           /\ other[a] = credit[a] + into[a]
    BY <1>1, <1>3, <1>4, <1>5, <1>6 DEF OtherLegs
  <2>. QED  BY ONLY <2>1, FiniteBooks, SumPlus
<1>11. /\ SumFunction([f \in FeeId |-> ReceivableLeg(p, f)]) = SumFunctionOnSet(legs, FeeId)
       /\ SumFunction(OtherLegs(p)) = SumFunctionOnSet(other, Account)
  <2>1. DOMAIN legs = FeeId /\ DOMAIN other = Account
    BY <1>2, <1>5 DEF OtherLegs
  <2>. QED  BY <1>2, <1>5, <2>1, Zenon DEF SumFunction
<1>12. SumFunctionOnSet(legs, FeeId) + SumFunctionOnSet(other, Account) = 0
  <2>1. CASE p.kind = "payment"
    <3>1. Sign(p) = 1
      BY <2>1 DEF Sign
    <3>. QED  BY ONLY <1>1, <1>7, <1>8, <1>9, <1>10, <3>1
  <2>2. CASE p.kind # "payment"
    <3>1. p.unapplied = 0
      BY <2>2
    <3>. QED  BY ONLY <1>1, <1>6, <1>7, <1>8, <1>9, <1>10, <3>1
  <2>. QED  BY <2>1, <2>2
<1>. QED
  BY <1>11, <1>12 DEF Balanced


\* Every planned settlement says where its money goes, and its parts and the
\* credit left of it add up to its amount.
PlanAddsUp ==
    pending # None =>
        /\ SumFunctionOnSet(pending.plan, FeeId) = pending.amount - pending.unapplied
        /\ pending.kind # "payment" => pending.unapplied = 0
        /\ pending.into \in IF pending.kind = "waiver" THEN {"waiver_expense"}
                            ELSE IF pending.kind = "write_off" THEN {"bad_debt_expense"}
                            ELSE Method

BInv == IInv /\ PlanAddsUp /\ MoneyIsAccountedFor

\* The two sides of MoneyIsAccountedFor, moved by what came in and what was paid.
LEMMA MoneyMoves ==
    ASSUME MoneyIsAccountedFor, TypeOK, TypeOK', NEW n \in Int, NEW m \in Int,
           SumFunctionOnSet(book', Inflow) = SumFunctionOnSet(book, Inflow) + n,
           SumFunctionOnSet([f \in FeeId |-> fees'[f].paid], FeeId)
              = SumFunctionOnSet([f \in FeeId |-> fees[f].paid], FeeId) + m,
           book'["patron_credit"] = book["patron_credit"] + (m - n)
    PROVE  MoneyIsAccountedFor'
<1>1. PICK paid : paid = [f \in FeeId |-> fees[f].paid]
  OBVIOUS
<1>2. PICK then : then = [f \in FeeId |-> fees'[f].paid]
  OBVIOUS
<1>3. /\ \A f \in FeeId : paid[f] \in Int
      /\ \A a \in Inflow : book[a] \in Int
      /\ book["patron_credit"] \in Int
  BY <1>1, FiniteBooks, RowTypes DEF TypeOK, Account
<1>4. SumFunctionOnSet(paid, FeeId) \in Int
  BY ONLY <1>3, FiniteBooks, SumInt
<1>5. SumFunctionOnSet(book, Inflow) \in Int
  BY ONLY <1>3, FiniteBooks, SumInt
<1>6. /\ SumFunction([f \in FeeId |-> fees[f].paid]) = SumFunctionOnSet(paid, FeeId)
      /\ SumFunction([f \in FeeId |-> fees'[f].paid]) = SumFunctionOnSet(then, FeeId)
  <2>1. DOMAIN paid = FeeId /\ DOMAIN then = FeeId
    BY <1>1, <1>2
  <2>. QED  BY <1>1, <1>2, <2>1, Zenon DEF SumFunction
<1>7. SumFunctionOnSet(book, Inflow) = SumFunctionOnSet(paid, FeeId) - book["patron_credit"]
  BY <1>6, Zenon DEF MoneyIsAccountedFor, Inflow
<1>8. SumFunctionOnSet(then, FeeId) = SumFunctionOnSet(paid, FeeId) + m
  BY <1>1, <1>2, Zenon
<1>9. SumFunctionOnSet(book', Inflow) = SumFunctionOnSet(then, FeeId) - book'["patron_credit"]
  BY ONLY <1>3, <1>4, <1>5, <1>7, <1>8, m \in Int, n \in Int,
     SumFunctionOnSet(book', Inflow) = SumFunctionOnSet(book, Inflow) + n,
     book'["patron_credit"] = book["patron_credit"] + (m - n)
<1>. QED
  BY <1>6, <1>9, Zenon DEF MoneyIsAccountedFor, Inflow

\* A step that neither takes money in nor pays a fee.
LEMMA MoneyStays ==
    ASSUME MoneyIsAccountedFor, TypeOK, TypeOK',
           \A f \in FeeId : fees'[f].paid = fees[f].paid,
           \A a \in Inflow \cup {"patron_credit"} : book'[a] = book[a]
    PROVE  MoneyIsAccountedFor'
<1>1. PICK paid : paid = [f \in FeeId |-> fees[f].paid]
  OBVIOUS
<1>2. /\ \A a \in Inflow : book[a] \in Int
      /\ book["patron_credit"] \in Int
      /\ \A f \in FeeId : paid[f] \in Int
  BY <1>1, FiniteBooks, RowTypes DEF TypeOK, Account
<1>3. SumFunctionOnSet(book', Inflow) = SumFunctionOnSet(book, Inflow)
  <2>1. \A a \in Inflow : book[a] \in Int /\ book'[a] = book[a]
    BY <1>2
  <2>. QED  BY ONLY <2>1, FiniteBooks, SumSame
<1>4. [f \in FeeId |-> fees'[f].paid] = paid
  BY <1>1
<1>5. SumFunctionOnSet(paid, FeeId) \in Int
  BY ONLY <1>2, FiniteBooks, SumInt
<1>6. SumFunctionOnSet(book, Inflow) \in Int
  BY ONLY <1>2, FiniteBooks, SumInt
<1>7. /\ 0 \in Int
      /\ SumFunctionOnSet(book', Inflow) = SumFunctionOnSet(book, Inflow) + 0
      /\ SumFunctionOnSet(paid, FeeId) = SumFunctionOnSet(paid, FeeId) + 0
      /\ book'["patron_credit"] = book["patron_credit"] + (0 - 0)
  BY <1>2, <1>3, <1>5, <1>6
<1>8. SumFunctionOnSet([f \in FeeId |-> fees'[f].paid], FeeId)
        = SumFunctionOnSet([f \in FeeId |-> fees[f].paid], FeeId) + 0
  BY <1>1, <1>4, <1>7, Zenon
<1>. QED
  BY ONLY MoneyIsAccountedFor, TypeOK, TypeOK', <1>7, <1>8, MoneyMoves


\* settle: the parts of the plan are what each fee took of the amount, so they
\* add up to the amount less what is left for the reader's credit.
LEMMA ReadOwedAddsUp ==
    ASSUME IInv, NEW kind \in Settling, NEW cents \in 1 .. MaxCents,
           NEW named \in SUBSET FeeId, NEW method \in Method,
           NEW s \in Session \cup {None}, ReadOwed(kind, cents, named, method, s)
    PROVE  PlanAddsUp'
<1> DEFINE owed == [f \in FeeId |-> IF f \in named THEN Owed(fees[f]) ELSE 0]
<1>1. PICK left \in Spread(cents, owed) :
         /\ kind # "payment" => left[MaxFees] = 0
         /\ pending' = [kind |-> kind, amount |-> cents, into |-> SettlementAccount(kind, method),
                        session |-> s, unapplied |-> left[MaxFees],
                        plan |-> [f \in FeeId |-> left[f - 1] - left[f]]]
  BY DEF ReadOwed
<1> HIDE DEF owed
<1>2. PICK plan : plan = [f \in FeeId |-> left[f - 1] - left[f]]
  OBVIOUS
<1>3. /\ left[0] = cents
      /\ \A k \in 0 .. MaxFees : left[k] \in Int
      /\ MaxFees \in Nat
      /\ \A k \in 1 .. MaxFees : plan[k] = left[k - 1] - left[k]
  BY <1>1, <1>2, BoundsAssumption DEF Spread, FeeId
<1>4. SumFunctionOnSet(plan, 1 .. MaxFees) = left[0] - left[MaxFees]
  BY ONLY <1>3, SumTelescopes
<1>5. /\ pending'.plan = plan /\ pending'.amount = cents /\ pending'.kind = kind
      /\ pending'.unapplied = left[MaxFees]
      /\ pending'.into = SettlementAccount(kind, method)
  BY <1>1, <1>2
<1>6. SettlementAccount(kind, method) \in
         IF kind = "waiver" THEN {"waiver_expense"}
         ELSE IF kind = "write_off" THEN {"bad_debt_expense"} ELSE Method
  BY DEF SettlementAccount
<1>. QED
  BY <1>1, <1>3, <1>4, <1>5, <1>6 DEF PlanAddsUp, FeeId

\* refund: the same from the newest fee back, and nothing is left.
LEMMA ReadPaidAddsUp ==
    ASSUME IInv, NEW cents \in 1 .. MaxCents,
           NEW named \in SUBSET FeeId, NEW method \in Method,
           NEW s \in Session \cup {None}, ReadPaid(cents, named, method, s)
    PROVE  PlanAddsUp'
<1> DEFINE Back(k) == MaxFees + 1 - k
           paid == [k \in FeeId |-> IF Back(k) \in named THEN Refundable(fees[Back(k)]) ELSE 0]
<1>1. PICK left \in Spread(cents, paid) :
         /\ left[MaxFees] = 0
         /\ pending' = [kind |-> "refund", amount |-> cents, into |-> method,
                        session |-> s, unapplied |-> 0,
                        plan |-> [f \in FeeId |-> left[Back(f) - 1] - left[Back(f)]]]
  BY DEF ReadPaid
<1> HIDE DEF paid
<1>2. PICK plan : plan = [f \in FeeId |-> left[Back(f) - 1] - left[Back(f)]]
  OBVIOUS
<1>3. PICK down : down = [k \in 0 .. MaxFees |-> -left[MaxFees - k]]
  OBVIOUS
<1>4. /\ left[0] = cents /\ MaxFees \in Nat /\ cents \in Int
      /\ \A k \in 0 .. MaxFees : left[k] \in Int
  BY <1>1, BoundsAssumption DEF Spread
<1>5. \A k \in 0 .. MaxFees : down[k] = -left[MaxFees - k] /\ down[k] \in Int
  BY <1>3, <1>4
<1>6. ASSUME NEW k \in 1 .. MaxFees PROVE plan[k] = down[k - 1] - down[k]
  <2>1. /\ k \in FeeId /\ k \in 0 .. MaxFees /\ k - 1 \in 0 .. MaxFees
        /\ MaxFees - (k - 1) = Back(k) /\ MaxFees - k = Back(k) - 1
        /\ MaxFees - k \in 0 .. MaxFees /\ MaxFees - (k - 1) \in 0 .. MaxFees
    BY <1>4 DEF FeeId
  <2>2. plan[k] = left[Back(k) - 1] - left[Back(k)]
    BY <1>2, <2>1
  <2>3. down[k - 1] = -left[Back(k)] /\ down[k] = -left[Back(k) - 1]
    BY <1>5, <2>1
  <2>4. left[Back(k)] \in Int /\ left[Back(k) - 1] \in Int
    BY <1>4, <2>1
  <2>. QED  BY ONLY <2>2, <2>3, <2>4
<1>7. SumFunctionOnSet(plan, 1 .. MaxFees) = down[0] - down[MaxFees]
  <2>1. \A k \in 0 .. MaxFees : down[k] \in Int
    BY <1>5
  <2>2. \A k \in 1 .. MaxFees : plan[k] = down[k - 1] - down[k]
    BY <1>6
  <2>3. MaxFees \in Nat
    BY <1>4
  <2>. QED  BY ONLY <2>1, <2>2, <2>3, SumTelescopes
<1>8. down[0] = 0 /\ down[MaxFees] = -cents
  BY <1>1, <1>4, <1>5
<1>9. /\ pending'.plan = plan /\ pending'.amount = cents /\ pending'.kind = "refund"
      /\ pending'.unapplied = 0 /\ pending'.into = method
  BY <1>1, <1>2
<1>. QED
  BY <1>4, <1>7, <1>8, <1>9 DEF PlanAddsUp, FeeId

\* What an UPDATE of applyAllocations does to the paid counter.
LEMMA AppliedPaid ==
    ASSUME NEW fee \in FeeRow, NEW kind \in Kind, NEW cents
    PROVE  Applied(fee, kind, cents).paid =
              IF kind \in {"payment", "refund"} THEN fee.paid + cents ELSE fee.paid
<1>1. CASE kind \in {"payment", "refund"}
  <2>1. CounterOf(kind) = "paid"
    BY <1>1 DEF CounterOf
  <2>. QED  BY <1>1, <2>1, Zenon DEF Applied, FeeRow
<1>2. CASE kind \notin {"payment", "refund"}
  <2>1. CounterOf(kind) \in {"waived", "written_off"}
    BY <1>2 DEF CounterOf, Kind, Settling
  <2>. QED  BY <1>2, <2>1, Zenon DEF Applied, FeeRow
<1>. QED
  BY <1>1, <1>2

\* The rest of a settlement: what came in is paid off or credited.
LEMMA CommitAccounts == ASSUME BInv, Commit PROVE MoneyIsAccountedFor'
<1> DEFINE p == pending
<1>1. /\ p \in Plan /\ p # None /\ fees \in [FeeId -> FeeRow] /\ book \in [Account -> Int]
      /\ TypeOK /\ TypeOK' /\ MoneyIsAccountedFor
  BY CommitKeeps DEF BInv, IInv, TypeOK, Commit
<1>2. /\ p.kind \in Kind /\ p.amount \in Nat /\ p.unapplied \in Nat /\ p.into \in Account
      /\ Sign(p) \in {1, -1}
      /\ \A f \in FeeId : p.plan[f] \in Nat
  BY <1>1 DEF Plan, Sign
<1>3. /\ SumFunctionOnSet(p.plan, FeeId) = p.amount - p.unapplied
      /\ p.kind # "payment" => p.unapplied = 0
      /\ p.into \in IF p.kind = "waiver" THEN {"waiver_expense"}
                    ELSE IF p.kind = "write_off" THEN {"bad_debt_expense"} ELSE Method
  BY <1>1 DEF BInv, PlanAddsUp
<1>4. \A f \in FeeId : fees'[f].paid =
         IF p.kind \in {"payment", "refund"} THEN fees[f].paid + Sign(p) * p.plan[f]
         ELSE fees[f].paid
  <2> TAKE f \in FeeId
  <2>0. fees[f] \in FeeRow /\ fees[f].paid \in Nat
    BY <1>1, RowTypes
  <2>1. fees'[f] = IF p.plan[f] = 0 THEN fees[f]
                   ELSE Applied(fees[f], p.kind, Sign(p) * p.plan[f])
    BY Zenon DEF Commit
  <2>2. CASE p.plan[f] = 0
    BY <1>2, <2>0, <2>1, <2>2
  <2>3. CASE p.plan[f] # 0
    <3>1. fees'[f] = Applied(fees[f], p.kind, Sign(p) * p.plan[f])
      BY <2>1, <2>3
    <3>2. PICK cents : cents = Sign(p) * p.plan[f]
      OBVIOUS
    <3>3. Applied(fees[f], p.kind, cents).paid =
             IF p.kind \in {"payment", "refund"} THEN fees[f].paid + cents ELSE fees[f].paid
      BY ONLY <1>2, <2>0, AppliedPaid
    <3>. QED  BY <3>1, <3>2, <3>3, Zenon
  <2>. QED  BY <2>2, <2>3
<1>5. \A a \in Account : book'[a] = book[a]
         + ((IF a = "patron_credit" THEN -p.unapplied ELSE 0)
            + (IF a = p.into THEN Sign(p) * p.amount ELSE 0))
  BY DEF Commit, OtherLegs
<1> HIDE DEF p
<1>6. CASE p.kind \notin {"payment", "refund"}
  <2>1. p.into \in {"waiver_expense", "bad_debt_expense"} /\ p.unapplied = 0
    BY <1>2, <1>3, <1>6 DEF Kind, Settling
  <2>2. \A a \in Inflow \cup {"patron_credit"} : a \in Account /\ a # p.into /\ book[a] \in Int
    BY <1>1, <2>1, FiniteBooks DEF Account
  <2>3. \A a \in Inflow \cup {"patron_credit"} : book'[a] = book[a]
    BY <1>5, <2>1, <2>2
  <2>4. \A f \in FeeId : fees'[f].paid = fees[f].paid
    BY <1>4, <1>6
  <2>. QED  BY ONLY <1>1, <2>3, <2>4, MoneyStays
<1>7. CASE p.kind \in {"payment", "refund"}
  <2>1. p.into \in Method /\ p.into \in Inflow /\ p.into # "patron_credit"
    <3>1. p.into \in Method
      BY <1>3, <1>7
    <3>. QED  BY <3>1, FiniteBooks
  <2>2. PICK n : n = Sign(p) * p.amount
    OBVIOUS
  <2>3. PICK d : d = [f \in FeeId |-> Sign(p) * p.plan[f]]
    OBVIOUS
  <2>4. PICK paid : paid = [f \in FeeId |-> fees[f].paid]
    OBVIOUS
  <2>5. PICK then : then = [f \in FeeId |-> fees'[f].paid]
    OBVIOUS
  <2>6. PICK m : m = Sign(p) * (p.amount - p.unapplied)
    OBVIOUS
  <2>7. n \in Int /\ m \in Int /\ m - n = -p.unapplied
    <3>1. CASE p.kind = "payment"
      BY <1>2, <2>2, <2>6, <3>1 DEF Sign
    <3>2. CASE p.kind = "refund"
      BY <1>2, <1>3, <2>2, <2>6, <3>2 DEF Sign
    <3>. QED  BY <1>7, <3>1, <3>2
  <2>8. SumFunctionOnSet(d, FeeId) = m
    <3>1. CASE p.kind = "refund"
      <4>1. Sign(p) = -1
        BY <3>1 DEF Sign
      <4>2. \A f \in FeeId : p.plan[f] \in Int /\ d[f] = -p.plan[f]
        BY <1>2, <2>3, <4>1
      <4>3. SumFunctionOnSet(d, FeeId) = -SumFunctionOnSet(p.plan, FeeId)
        BY ONLY <4>2, FiniteBooks, SumNegates
      <4>. QED  BY <1>2, <1>3, <2>6, <4>1, <4>3
    <3>2. CASE p.kind # "refund"
      <4>1. Sign(p) = 1
        BY <3>2 DEF Sign
      <4>2. \A f \in FeeId : p.plan[f] \in Int /\ d[f] = p.plan[f]
        BY <1>2, <2>3, <4>1
      <4>3. SumFunctionOnSet(d, FeeId) = SumFunctionOnSet(p.plan, FeeId)
        BY ONLY <4>2, FiniteBooks, SumSame
      <4>. QED  BY <1>2, <1>3, <2>6, <4>1, <4>3
    <3>. QED  BY <3>1, <3>2
  <2>9. SumFunctionOnSet(then, FeeId) = SumFunctionOnSet(paid, FeeId) + m
    <3>1. \A f \in FeeId : paid[f] \in Int /\ d[f] \in Int /\ then[f] = paid[f] + d[f]
      BY <1>1, <1>2, <1>4, <1>7, <2>3, <2>4, <2>5, RowTypes
    <3>2. SumFunctionOnSet(then, FeeId)
            = SumFunctionOnSet(paid, FeeId) + SumFunctionOnSet(d, FeeId)
      BY ONLY <3>1, FiniteBooks, SumPlus
    <3>. QED  BY <2>8, <3>2
  <2>10. SumFunctionOnSet(book', Inflow) = SumFunctionOnSet(book, Inflow) + n
    <3>1. \A a \in Inflow : a \in Account /\ book[a] \in Int /\ a # "patron_credit"
      BY <1>1, FiniteBooks
    <3>2. /\ book'[p.into] = book[p.into] + n
          /\ \A a \in Inflow : a # p.into => book'[a] = book[a]
      BY <1>5, <2>1, <2>2, <2>7, <3>1
    <3>3. \A a \in Inflow : book[a] \in Int
      BY <3>1
    <3>. QED  BY ONLY <2>1, <2>7, <3>2, <3>3, FiniteBooks, SumMoves
  <2>11. book'["patron_credit"] = book["patron_credit"] + (m - n)
    <3>1. "patron_credit" \in Account /\ "patron_credit" # p.into
      BY <2>1 DEF Account
    <3>2. book["patron_credit"] \in Int
      BY <1>1, <3>1
    <3>3. book'["patron_credit"] = book["patron_credit"] + (-p.unapplied + 0)
      BY <1>5, <3>1
    <3>. QED  BY <1>2, <2>7, <3>2, <3>3
  <2>12. SumFunctionOnSet([f \in FeeId |-> fees'[f].paid], FeeId)
          = SumFunctionOnSet([f \in FeeId |-> fees[f].paid], FeeId) + m
    BY <2>4, <2>5, <2>9, Zenon
  <2>. QED  BY ONLY <1>1, <2>7, <2>10, <2>11, <2>12, MoneyMoves
<1>. QED
  BY <1>6, <1>7


\* An imported fine that was paid brings its money in with the opening balance.
LEMMA ImportAccounts ==
    ASSUME BInv, NEW f \in FeeId, NEW cents \in 1 .. MaxCents,
           NEW kind \in {"payment", "waiver"}, ImportSettled(f, cents, kind)
    PROVE  MoneyIsAccountedFor'
<1>1. /\ fees \in [FeeId -> FeeRow] /\ book \in [Account -> Int] /\ cents \in Nat
      /\ fees[f] = Unraised /\ fees[f] \in FeeRow
      /\ TypeOK /\ TypeOK' /\ MoneyIsAccountedFor
  <2>1. IInv /\ MoneyIsAccountedFor
    BY DEF BInv
  <2>2. IInv'
    BY <2>1, ImportSettledKeeps
  <2>3. TypeOK /\ TypeOK' /\ Blank
    BY <2>1, <2>2 DEF IInv
  <2>4. fees \in [FeeId -> FeeRow] /\ book \in [Account -> Int]
    BY <2>3 DEF TypeOK
  <2>5. cents \in Nat
    BY BoundsAssumption
  <2>6. ~Raised(f)
    BY DEF ImportSettled, NextFee
  <2>. QED  BY <2>1, <2>3, <2>4, <2>5, <2>6 DEF Blank
<1> DEFINE c == CounterOf(kind)
           into == SettlementAccount(kind, "opening_balance")
           row == [fees[f] EXCEPT !.amount = cents, ![c] = cents, !.status = c, !.closed = TRUE]
<1>2. /\ fees' = [fees EXCEPT ![f] = row]
      /\ book' = [book EXCEPT !["fine_revenue"] = @ - cents, ![into] = @ + cents]
  BY Zenon DEF ImportSettled
<1>3. row.paid = IF kind = "payment" THEN cents ELSE 0
  <2>1. CASE kind = "payment"
    <3>1. c = "paid"
      BY <2>1 DEF CounterOf
    <3>. QED  BY <1>1, <2>1, <3>1, Zenon DEF FeeRow
  <2>2. CASE kind = "waiver"
    <3>1. c = "waived"
      BY <2>2 DEF CounterOf
    <3>2. row.paid = fees[f].paid
      BY <1>1, <3>1, Zenon DEF FeeRow
    <3>. QED  BY <1>1, <2>2, <3>2, UnraisedRow
  <2>. QED  BY <2>1, <2>2
<1> HIDE DEF row
<1>4. /\ fees'[f].paid = fees[f].paid + (IF kind = "payment" THEN cents ELSE 0)
      /\ \A g \in FeeId : g # f => fees'[g] = fees[g]
  BY <1>1, <1>2, <1>3, UnraisedRow
<1>5. CASE kind = "waiver"
  <2>1. into = "waiver_expense"
    BY <1>5 DEF SettlementAccount
  <2>2. \A a \in Inflow \cup {"patron_credit"} :
           a \in Account /\ a \notin {"fine_revenue", "waiver_expense"}
    BY FiniteBooks DEF Account
  <2>3. \A a \in Inflow \cup {"patron_credit"} : book'[a] = book[a]
    BY <1>1, <1>2, <2>1, <2>2
  <2>4. \A g \in FeeId : fees'[g].paid = fees[g].paid
    BY <1>1, <1>4, <1>5, RowTypes
  <2>. QED  BY ONLY <1>1, <2>3, <2>4, MoneyStays
<1>6. CASE kind = "payment"
  <2>1. into = "opening_balance"
    BY <1>6 DEF SettlementAccount
  <2>2. PICK paid : paid = [g \in FeeId |-> fees[g].paid]
    OBVIOUS
  <2>3. PICK then : then = [g \in FeeId |-> fees'[g].paid]
    OBVIOUS
  <2>4. SumFunctionOnSet(then, FeeId) = SumFunctionOnSet(paid, FeeId) + cents
    <3>1. /\ \A g \in FeeId : paid[g] \in Int
          /\ then[f] = paid[f] + cents /\ \A g \in FeeId : g # f => then[g] = paid[g]
          /\ cents \in Int
      BY <1>1, <1>4, <1>6, <2>2, <2>3, RowTypes
    <3>. QED  BY ONLY f \in FeeId, <3>1, FiniteBooks, SumMoves
  <2>5. SumFunctionOnSet(book', Inflow) = SumFunctionOnSet(book, Inflow) + cents
    <3>1. \A a \in Inflow : a \in Account /\ a # "fine_revenue" /\ book[a] \in Int
      BY <1>1, FiniteBooks
    <3>2. "opening_balance" \in Inflow /\ cents \in Int
      BY <1>1 DEF Inflow
    <3>3. /\ book'["opening_balance"] = book["opening_balance"] + cents
          /\ \A a \in Inflow : a # "opening_balance" => book'[a] = book[a]
      BY <1>1, <1>2, <2>1, <3>1, <3>2
    <3>4. \A a \in Inflow : book[a] \in Int
      BY <3>1
    <3>. QED  BY ONLY <3>2, <3>3, <3>4, FiniteBooks, SumMoves
  <2>6. /\ cents \in Int
        /\ book'["patron_credit"] = book["patron_credit"] + (cents - cents)
    <3>1. "patron_credit" \in Account
      BY DEF Account
    <3>2. book'["patron_credit"] = book["patron_credit"] /\ book["patron_credit"] \in Int
      BY <1>1, <1>2, <2>1, <3>1
    <3>. QED  BY <1>1, <3>2
  <2>7. SumFunctionOnSet([g \in FeeId |-> fees'[g].paid], FeeId)
          = SumFunctionOnSet([g \in FeeId |-> fees[g].paid], FeeId) + cents
    BY <2>2, <2>3, <2>4, Zenon
  <2>. QED  BY ONLY <1>1, <2>5, <2>6, <2>7, MoneyMoves
<1>. QED
  BY <1>5, <1>6

\* What close does to the books.
LEMMA CloseBooks ==
    ASSUME IInv, NEW c \in Clerk, NEW counted \in Count, Close(c, counted)
    PROVE  LET s == closing[c]
               v == counted - (drawer[s].float + drawer[s].cash)
           IN  /\ s \in Session /\ drawer[s] \in TillRow /\ drawer[s] # None /\ v \in Int
               /\ book'["cash_on_hand"] = book["cash_on_hand"] + v
               /\ book'["cash_over_short"] = book["cash_over_short"] - v
               /\ \A a \in Account \ {"cash_on_hand", "cash_over_short"} : book'[a] = book[a]
<1> DEFINE s == closing[c]
           v == counted - (drawer[s].float + drawer[s].cash)
<1>1. /\ book \in [Account -> Int] /\ drawer \in [Session -> TillRow \cup {None}]
      /\ closing \in [Clerk -> Session \cup {None}]
  BY DEF IInv, TypeOK
<1>2. s \in Session /\ drawer[s] # None /\ drawer[s] \in TillRow
  BY <1>1 DEF Close, IInv, ClosingOpened
<1>3. v \in Int
  BY <1>2, TillAssumption DEF TillRow
<1>4. book' = [book EXCEPT !["cash_on_hand"] = @ + v, !["cash_over_short"] = @ - v]
  BY DEF Close
<1> HIDE DEF s, v
<1>5. /\ book'["cash_on_hand"] = book["cash_on_hand"] + v
      /\ book'["cash_over_short"] = book["cash_over_short"] - v
      /\ \A a \in Account \ {"cash_on_hand", "cash_over_short"} : book'[a] = book[a]
  BY <1>1, <1>4 DEF Account
<1>. QED
  BY <1>2, <1>3, <1>5 DEF s, v

\* Closing a till moves what was counted over or short between two accounts.
LEMMA CloseAccounts ==
    ASSUME BInv, NEW c \in Clerk, NEW counted \in Count, Close(c, counted)
    PROVE  MoneyIsAccountedFor'
<1>1. /\ IInv /\ TypeOK /\ TypeOK' /\ MoneyIsAccountedFor /\ fees' = fees
      /\ book \in [Account -> Int] /\ fees \in [FeeId -> FeeRow]
  BY TillStepsKeep DEF BInv, IInv, TypeOK, Close
<1>2. PICK v \in Int :
         /\ book'["cash_on_hand"] = book["cash_on_hand"] + v
         /\ book'["cash_over_short"] = book["cash_over_short"] - v
         /\ \A a \in Account \ {"cash_on_hand", "cash_over_short"} : book'[a] = book[a]
  BY <1>1, CloseBooks
<1>3. PICK mid : mid = [a \in Account |-> IF a = "cash_on_hand" THEN book[a] + v ELSE book[a]]
  OBVIOUS
<1>4. \A a \in Inflow : a \in Account /\ book[a] \in Int
  BY <1>1, FiniteBooks
<1>5. "cash_on_hand" \in Inflow /\ "cash_over_short" \in Inflow
  BY DEF Inflow
<1>6. SumFunctionOnSet(mid, Inflow) = SumFunctionOnSet(book, Inflow) + v
  <2>1. /\ \A a \in Inflow : book[a] \in Int
        /\ mid["cash_on_hand"] = book["cash_on_hand"] + v
        /\ \A a \in Inflow : a # "cash_on_hand" => mid[a] = book[a]
    BY <1>3, <1>4, <1>5
  <2>. QED  BY ONLY v \in Int, <1>5, <2>1, FiniteBooks, SumMoves
<1>7. SumFunctionOnSet(book', Inflow) = SumFunctionOnSet(mid, Inflow) + (-v)
  <2>1. \A a \in Inflow : mid[a] \in Int
    BY <1>3, <1>4
  <2>2. /\ -v \in Int
        /\ book'["cash_over_short"] = mid["cash_over_short"] + (-v)
    BY <1>2, <1>3, <1>4, <1>5
  <2>3. \A a \in Inflow : a # "cash_over_short" => book'[a] = mid[a]
    BY <1>2, <1>3, <1>4
  <2>. QED  BY ONLY <1>5, <2>1, <2>2, <2>3, FiniteBooks, SumMoves
<1>8. SumFunctionOnSet(book, Inflow) \in Int
  BY ONLY <1>4, FiniteBooks, SumInt
<1>9. PICK paid : paid = [f \in FeeId |-> fees[f].paid]
  OBVIOUS
<1>10. SumFunctionOnSet(paid, FeeId) \in Int
  <2>1. \A f \in FeeId : paid[f] \in Int
    BY <1>1, <1>9, RowTypes
  <2>. QED  BY ONLY <2>1, FiniteBooks, SumInt
<1>11. /\ 0 \in Int
       /\ SumFunctionOnSet(book', Inflow) = SumFunctionOnSet(book, Inflow) + 0
       /\ SumFunctionOnSet(paid, FeeId) = SumFunctionOnSet(paid, FeeId) + 0
       /\ book'["patron_credit"] = book["patron_credit"] + (0 - 0)
  <2>1. book["patron_credit"] \in Int /\ book'["patron_credit"] = book["patron_credit"]
    BY <1>1, <1>2 DEF Account
  <2>2. SumFunctionOnSet(book', Inflow) = SumFunctionOnSet(book, Inflow)
    BY ONLY v \in Int, <1>6, <1>7, <1>8
  <2>. QED  BY ONLY <1>8, <1>10, <2>1, <2>2
<1>12. SumFunctionOnSet([f \in FeeId |-> fees'[f].paid], FeeId)
         = SumFunctionOnSet([f \in FeeId |-> fees[f].paid], FeeId) + 0
  BY <1>1, <1>9, <1>11, Zenon
<1>. QED
  BY ONLY <1>1, <1>11, <1>12, MoneyMoves


\* A reader with no books yet.
LEMMA InitBInv == Init => BInv
<1> SUFFICES ASSUME Init PROVE BInv
  OBVIOUS
<1>1. IInv /\ PlanAddsUp
  BY InitIInv DEF Init, PlanAddsUp
<1>2. PICK paid : paid = [f \in FeeId |-> fees[f].paid]
  OBVIOUS
<1>3. /\ \A f \in FeeId : paid[f] = 0
      /\ \A a \in Inflow : book[a] = 0
      /\ book["patron_credit"] = 0
  BY <1>2, UnraisedRow, FiniteBooks DEF Init, Account
<1>4. SumFunctionOnSet(paid, FeeId) = 0
  BY ONLY <1>3, FiniteBooks, SumZero
<1>5. SumFunctionOnSet(book, Inflow) = 0
  BY ONLY <1>3, FiniteBooks, SumZero
<1>6. SumFunction([f \in FeeId |-> fees[f].paid]) = SumFunctionOnSet(paid, FeeId)
  <2>1. DOMAIN paid = FeeId
    BY <1>2
  <2>. QED  BY <1>2, <2>1, Zenon DEF SumFunction
<1>7. MoneyIsAccountedFor
  BY <1>3, <1>4, <1>5, <1>6 DEF MoneyIsAccountedFor, Inflow
<1>. QED
  BY <1>1, <1>7 DEF BInv

\* The steps that move money between other accounts, or none, keep the sums.
LEMMA QuietStepKeeps ==
    ASSUME BInv, IInv',
           \A f \in FeeId : fees'[f].paid = fees[f].paid,
           \A a \in Inflow \cup {"patron_credit"} : book'[a] = book[a]
    PROVE  MoneyIsAccountedFor'
<1>1. MoneyIsAccountedFor /\ TypeOK /\ TypeOK'
  BY DEF BInv, IInv
<1>. QED
  BY <1>1, MoneyStays

\* A charge and the sweep post the receivable against revenue only.
LEMMA RevenueStepKeeps ==
    ASSUME BInv, IInv', NEW n,
           \A g \in FeeId : fees'[g].paid = fees[g].paid,
           book' = [book EXCEPT !["fine_revenue"] = n]
    PROVE  MoneyIsAccountedFor'
<1>1. book \in [Account -> Int]
  BY DEF BInv, IInv, TypeOK
<1>2. \A a \in Inflow \cup {"patron_credit"} : a \in Account /\ a # "fine_revenue"
  BY FiniteBooks DEF Account
<1>3. \A a \in Inflow \cup {"patron_credit"} : book'[a] = book[a]
  BY <1>1, <1>2
<1>. QED
  BY <1>3, QuietStepKeeps

\* Every step keeps the plan and the money adding up.
LEMMA NextKeepsBooks == BInv /\ [Next]_vars => BInv'
<1> SUFFICES ASSUME BInv, [Next]_vars PROVE BInv'
  OBVIOUS
<1>0. IInv /\ PlanAddsUp /\ MoneyIsAccountedFor /\ IInv'
  BY NextKeeps DEF BInv
<1>a. fees \in [FeeId -> FeeRow]
  BY <1>0 DEF IInv, TypeOK
<1>1. CASE UNCHANGED vars
  BY <1>0, <1>1, Zenon DEF BInv, vars, PlanAddsUp, MoneyIsAccountedFor
<1>2. ASSUME NEW f \in FeeId, NEW cents \in 1 .. MaxCents, Charge(f, cents) PROVE BInv'
  <2>1. PlanAddsUp'
    BY <1>0, <1>2 DEF Charge, PlanAddsUp
  <2>2. /\ fees' = [fees EXCEPT ![f] = [fees[f] EXCEPT !.amount = cents]]
        /\ book' = [book EXCEPT !["fine_revenue"] = book["fine_revenue"] - cents]
    BY <1>2, Zenon DEF Charge
  <2>3. \A g \in FeeId : fees'[g].paid = fees[g].paid
    <3>1. [fees[f] EXCEPT !.amount = cents].paid = fees[f].paid
      BY <1>a, Zenon DEF FeeRow
    <3>. QED  BY <1>a, <2>2, <3>1
  <2>4. MoneyIsAccountedFor'
    BY <1>0, <2>2, <2>3, RevenueStepKeeps
  <2>. QED  BY <1>0, <2>1, <2>4 DEF BInv
<1>3. ASSUME NEW f \in FeeId, NEW cents \in 1 .. MaxCents, NEW kind \in {"payment", "waiver"},
             ImportSettled(f, cents, kind)
      PROVE  BInv'
  <2>1. PlanAddsUp'
    BY <1>0, <1>3 DEF ImportSettled, PlanAddsUp
  <2>2. MoneyIsAccountedFor'
    BY <1>3, ImportAccounts
  <2>. QED  BY <1>0, <2>1, <2>2 DEF BInv
<1>4. ASSUME NEW cents \in 1 .. MaxCents, NEW named \in SUBSET FeeId, NEW method \in Method,
             NEW s \in Session \cup {None}, NEW kind \in Settling,
             ReadOwed(kind, cents, named, method, s)
      PROVE  BInv'
  <2>1. PlanAddsUp'
    BY <1>0, <1>4, ReadOwedAddsUp
  <2>2. MoneyIsAccountedFor'
    BY <1>0, <1>4, Zenon DEF ReadOwed, ledger, MoneyIsAccountedFor
  <2>. QED  BY <1>0, <2>1, <2>2 DEF BInv
<1>5. ASSUME NEW cents \in 1 .. MaxCents, NEW named \in SUBSET FeeId, NEW method \in Method,
             NEW s \in Session \cup {None}, ReadPaid(cents, named, method, s)
      PROVE  BInv'
  <2>1. PlanAddsUp'
    BY <1>0, <1>5, ReadPaidAddsUp
  <2>2. MoneyIsAccountedFor'
    BY <1>0, <1>5, Zenon DEF ReadPaid, ledger, MoneyIsAccountedFor
  <2>. QED  BY <1>0, <2>1, <2>2 DEF BInv
<1>6. CASE Commit
  <2>1. PlanAddsUp'
    BY <1>6 DEF Commit, PlanAddsUp
  <2>2. MoneyIsAccountedFor'
    BY <1>6, CommitAccounts
  <2>. QED  BY <1>0, <2>1, <2>2 DEF BInv
<1>7. CASE Rollback
  <2>1. PlanAddsUp'
    BY <1>7 DEF Rollback, PlanAddsUp
  <2>2. MoneyIsAccountedFor'
    BY <1>0, <1>7, Zenon DEF Rollback, ledger, MoneyIsAccountedFor
  <2>. QED  BY <1>0, <2>1, <2>2 DEF BInv
<1>8. ASSUME NEW l \in Loan, NEW total \in 1 .. MaxCents, NEW f \in FeeId, Accrue(l, total, f)
      PROVE  BInv'
  <2>1. PlanAddsUp'
    BY <1>0, <1>8 DEF Accrue, PlanAddsUp
  <2> DEFINE n == Charged(fees[f], total)
             row == [fees[f] EXCEPT !.loan = l, !.accruing = TRUE, !.amount = n]
  <2>2. /\ fees' = [fees EXCEPT ![f] = row]
        /\ book' = [book EXCEPT !["fine_revenue"] = book["fine_revenue"] - (n - carried[f])]
    BY <1>8, Zenon DEF Accrue
  <2>3. \A g \in FeeId : fees'[g].paid = fees[g].paid
    <3> HIDE DEF n
    <3>1. row.paid = fees[f].paid
      BY <1>a, Zenon DEF FeeRow
    <3> HIDE DEF row
    <3>. QED  BY <1>a, <2>2, <3>1
  <2> HIDE DEF n, row
  <2>4. MoneyIsAccountedFor'
    BY <1>0, <2>2, <2>3, RevenueStepKeeps
  <2>. QED  BY <1>0, <2>1, <2>4 DEF BInv
<1>9. ASSUME NEW s \in Session, NEW cents \in Float, OpenTill(s, cents) PROVE BInv'
  BY <1>0, <1>9, Zenon DEF OpenTill, ledger, BInv, PlanAddsUp, MoneyIsAccountedFor
<1>10. ASSUME NEW c \in Clerk, NEW s \in Session, ProbeClose(c, s) PROVE BInv'
  BY <1>0, <1>10, Zenon DEF ProbeClose, ledger, BInv, PlanAddsUp, MoneyIsAccountedFor
<1>11. ASSUME NEW c \in Clerk, NEW counted \in Count, Close(c, counted) PROVE BInv'
  <2>1. PlanAddsUp'
    BY <1>0, <1>11 DEF Close, PlanAddsUp
  <2>2. MoneyIsAccountedFor'
    BY <1>11, CloseAccounts
  <2>. QED  BY <1>0, <2>1, <2>2 DEF BInv
<1>. QED
  BY <1>1, <1>2, <1>3, <1>4, <1>5, <1>6, <1>7, <1>8, <1>9, <1>10, <1>11 DEF Next

-----------------------------------------------------------------------------
(* The general ledger as a whole.                                          *)

\* What is posted cancels out, so the ledger still does.
LEMMA LedgerAdds ==
    ASSUME TypeOK, TypeOK', LedgerSumsToZero, NEW d, NEW e,
           \A f \in FeeId : d[f] \in Int /\ carried'[f] = carried[f] + d[f],
           \A a \in Account : e[a] \in Int /\ book'[a] = book[a] + e[a],
           SumFunctionOnSet(d, FeeId) + SumFunctionOnSet(e, Account) = 0
    PROVE  LedgerSumsToZero'
<1>1. /\ DOMAIN carried = FeeId /\ DOMAIN carried' = FeeId
      /\ DOMAIN book = Account /\ DOMAIN book' = Account
      /\ \A f \in FeeId : carried[f] \in Int
      /\ \A a \in Account : book[a] \in Int
  BY DEF TypeOK
<1>2. SumFunctionOnSet(carried', FeeId) = SumFunctionOnSet(carried, FeeId) + SumFunctionOnSet(d, FeeId)
  <2>1. \A f \in FeeId : carried[f] \in Int /\ d[f] \in Int /\ carried'[f] = carried[f] + d[f]
    BY <1>1
  <2>. QED  BY ONLY <2>1, FiniteBooks, SumPlus
<1>3. SumFunctionOnSet(book', Account) = SumFunctionOnSet(book, Account) + SumFunctionOnSet(e, Account)
  <2>1. \A a \in Account : book[a] \in Int /\ e[a] \in Int /\ book'[a] = book[a] + e[a]
    BY <1>1
  <2>. QED  BY ONLY <2>1, FiniteBooks, SumPlus
<1>4. SumFunctionOnSet(carried, FeeId) \in Int
  BY ONLY <1>1, FiniteBooks, SumInt
<1>5. SumFunctionOnSet(book, Account) \in Int
  BY ONLY <1>1, FiniteBooks, SumInt
<1>6. SumFunctionOnSet(d, FeeId) \in Int
  BY FiniteBooks, SumInt
<1>7. SumFunctionOnSet(e, Account) \in Int
  BY FiniteBooks, SumInt
<1>8. /\ SumFunction(carried) = SumFunctionOnSet(carried, FeeId)
      /\ SumFunction(book) = SumFunctionOnSet(book, Account)
      /\ SumFunction(carried') = SumFunctionOnSet(carried', FeeId)
      /\ SumFunction(book') = SumFunctionOnSet(book', Account)
  BY ONLY <1>1, Zenon DEF SumFunction
<1>9. SumFunctionOnSet(carried, FeeId) + SumFunctionOnSet(book, Account) = 0
  BY <1>8, Zenon DEF LedgerSumsToZero
<1>10. SumFunctionOnSet(carried', FeeId) + SumFunctionOnSet(book', Account) = 0
  BY ONLY <1>2, <1>3, <1>4, <1>5, <1>6, <1>7, <1>9,
     SumFunctionOnSet(d, FeeId) + SumFunctionOnSet(e, Account) = 0
<1>. QED
  BY <1>8, <1>10, Zenon DEF LedgerSumsToZero

\* A journal of two legs: a receivable and one account.
LEMMA ChargeLegs ==
    ASSUME TypeOK, TypeOK', LedgerSumsToZero, NEW f \in FeeId, NEW n \in Int,
           carried' = [carried EXCEPT ![f] = carried[f] + n],
           book' = [book EXCEPT !["fine_revenue"] = book["fine_revenue"] - n]
    PROVE  LedgerSumsToZero'
<1>1. PICK d : d = [g \in FeeId |-> IF g = f THEN n ELSE 0]
  OBVIOUS
<1>2. PICK e : e = [a \in Account |-> IF a = "fine_revenue" THEN -n ELSE 0]
  OBVIOUS
<1>3. carried \in [FeeId -> Int] /\ book \in [Account -> Int] /\ "fine_revenue" \in Account
  BY DEF TypeOK, Account
<1>4. \A g \in FeeId : d[g] \in Int /\ carried'[g] = carried[g] + d[g]
  BY <1>1, <1>3
<1>5. \A a \in Account : e[a] \in Int /\ book'[a] = book[a] + e[a]
  BY <1>2, <1>3
<1>6. SumFunctionOnSet(d, FeeId) = n
  <2>1. d[f] \in Int /\ d[f] = n /\ \A g \in FeeId : g # f => d[g] = 0
    BY <1>1
  <2>2. SumFunctionOnSet(d, FeeId) = d[f]
    BY ONLY f \in FeeId, <2>1, FiniteBooks, SumOne
  <2>. QED  BY <2>1, <2>2
<1>7. SumFunctionOnSet(e, Account) = -n
  <2>1. /\ e["fine_revenue"] \in Int /\ e["fine_revenue"] = -n
        /\ \A a \in Account : a # "fine_revenue" => e[a] = 0
    BY <1>2, <1>3
  <2>2. SumFunctionOnSet(e, Account) = e["fine_revenue"]
    BY ONLY <1>3, <2>1, FiniteBooks, SumOne
  <2>. QED  BY <2>1, <2>2
<1>8. SumFunctionOnSet(d, FeeId) + SumFunctionOnSet(e, Account) = 0
  BY <1>6, <1>7
<1>. QED
  BY ONLY TypeOK, TypeOK', LedgerSumsToZero, <1>4, <1>5, <1>8, LedgerAdds

\* A journal of two legs between accounts.
LEMMA TransferLegs ==
    ASSUME TypeOK, TypeOK', LedgerSumsToZero, carried' = carried,
           NEW a \in Account, NEW b \in Account, a # b, NEW n \in Int,
           book'[a] = book[a] + n, book'[b] = book[b] - n,
           \A x \in Account \ {a, b} : book'[x] = book[x]
    PROVE  LedgerSumsToZero'
<1>1. PICK d : d = [g \in FeeId |-> 0]
  OBVIOUS
<1>2. PICK e : e = [x \in Account |-> IF x = a THEN n ELSE IF x = b THEN -n ELSE 0]
  OBVIOUS
<1>3. carried \in [FeeId -> Int] /\ book \in [Account -> Int]
  BY DEF TypeOK
<1>4. \A g \in FeeId : d[g] \in Int /\ d[g] = 0 /\ carried'[g] = carried[g] + d[g]
  BY <1>1, <1>3
<1>5. \A x \in Account : e[x] \in Int /\ book'[x] = book[x] + e[x]
  BY <1>2, <1>3
<1>6. SumFunctionOnSet(d, FeeId) = 0
  BY ONLY <1>4, FiniteBooks, SumZero
<1>7. SumFunctionOnSet(e, Account) = 0
  <2>1. PICK u : u = [x \in Account |-> IF x = a THEN n ELSE 0]
    OBVIOUS
  <2>2. SumFunctionOnSet(u, Account) = n
    <3>1. u[a] \in Int /\ u[a] = n /\ \A x \in Account : x # a => u[x] = 0
      BY <2>1
    <3>2. SumFunctionOnSet(u, Account) = u[a]
      BY ONLY a \in Account, <3>1, FiniteBooks, SumOne
    <3>. QED  BY <3>1, <3>2
  <2>3. SumFunctionOnSet(e, Account) = SumFunctionOnSet(u, Account) + (-n)
    <3>1. /\ \A x \in Account : u[x] \in Int
          /\ -n \in Int /\ e[b] = u[b] + (-n)
          /\ \A x \in Account : x # b => e[x] = u[x]
      BY <1>2, <2>1
    <3>. QED  BY ONLY b \in Account, <3>1, FiniteBooks, SumMoves
  <2>. QED  BY <2>2, <2>3
<1>8. SumFunctionOnSet(d, FeeId) + SumFunctionOnSet(e, Account) = 0
  BY <1>6, <1>7
<1>9. /\ \A g \in FeeId : d[g] \in Int /\ carried'[g] = carried[g] + d[g]
  BY <1>4
<1>. QED
  BY ONLY TypeOK, TypeOK', LedgerSumsToZero, <1>5, <1>8, <1>9, LedgerAdds

\* A settlement's journal balances: Commit asks.
LEMMA CommitLedger ==
    ASSUME TypeOK, TypeOK', LedgerSumsToZero, Commit
    PROVE  LedgerSumsToZero'
<1>1. PICK d : d = [f \in FeeId |-> ReceivableLeg(pending, f)]
  OBVIOUS
<1>2. PICK e : e = OtherLegs(pending)
  OBVIOUS
<1>3. /\ carried' = [f \in FeeId |-> carried[f] + ReceivableLeg(pending, f)]
      /\ book' = [a \in Account |-> book[a] + OtherLegs(pending)[a]]
      /\ Balanced(pending)
  BY Zenon DEF Commit
<1>4. pending \in Plan
  BY DEF TypeOK, Commit
<1>5. /\ pending.amount \in Nat /\ pending.unapplied \in Nat /\ Sign(pending) \in {1, -1}
      /\ \A f \in FeeId : pending.plan[f] \in Nat
  BY <1>4 DEF Plan, Sign
<1>6. \A f \in FeeId : d[f] \in Int /\ carried'[f] = carried[f] + d[f]
  BY <1>1, <1>3, <1>5 DEF ReceivableLeg
<1>7. \A a \in Account : e[a] \in Int /\ book'[a] = book[a] + e[a]
  <2>1. \A a \in Account : e[a] \in Int
    BY <1>2, <1>5 DEF OtherLegs
  <2>. QED  BY <1>2, <1>3, <2>1
<1>8. SumFunctionOnSet(d, FeeId) + SumFunctionOnSet(e, Account) = 0
  <2>1. DOMAIN d = FeeId /\ DOMAIN e = Account
    BY <1>1, <1>2 DEF OtherLegs
  <2>2. SumFunction(d) + SumFunction(e) = 0
    BY <1>1, <1>2, <1>3, Zenon DEF Balanced
  <2>. QED  BY <2>1, <2>2, Zenon DEF SumFunction
<1>. QED
  BY ONLY TypeOK, TypeOK', LedgerSumsToZero, <1>6, <1>7, <1>8, LedgerAdds

\* A fee that was not raised carries nothing.
LEMMA UnraisedCarries == ASSUME IInv, NEW f \in FeeId, ~Raised(f) PROVE carried[f] = 0
<1>1. fees[f] = Unraised
  BY DEF IInv, Blank
<1>2. fees[f].loan = None /\ Owed(fees[f]) = 0
  BY <1>1, UnraisedRow DEF Owed, Settled
<1>. QED
  BY <1>2 DEF IInv, ReceivableCoversOwed

LEMMA NextKeepsLedger == IInv /\ LedgerSumsToZero /\ [Next]_vars => LedgerSumsToZero'
<1> SUFFICES ASSUME IInv, LedgerSumsToZero, [Next]_vars PROVE LedgerSumsToZero'
  OBVIOUS
<1>0. TypeOK /\ TypeOK' /\ carried \in [FeeId -> Int] /\ book \in [Account -> Int]
  BY NextKeeps DEF IInv, TypeOK
<1>1. CASE carried' = carried /\ book' = book
  BY <1>1 DEF LedgerSumsToZero
<1>2. ASSUME NEW f \in FeeId, NEW cents \in 1 .. MaxCents, Charge(f, cents) PROVE LedgerSumsToZero'
  <2>1. carried[f] = 0 /\ cents \in Int
    BY <1>2, UnraisedCarries, BoundsAssumption DEF Charge, NextFee
  <2>2. cents = carried[f] + cents
    BY <2>1
  <2>3. /\ carried' = [carried EXCEPT ![f] = carried[f] + cents]
        /\ book' = [book EXCEPT !["fine_revenue"] = book["fine_revenue"] - cents]
    BY <1>2, <2>2, Zenon DEF Charge
  <2>. QED  BY ONLY <1>0, LedgerSumsToZero, f \in FeeId, <2>1, <2>3, ChargeLegs
<1>3. ASSUME NEW f \in FeeId, NEW cents \in 1 .. MaxCents, NEW kind \in {"payment", "waiver"},
             ImportSettled(f, cents, kind)
      PROVE  LedgerSumsToZero'
  <2>1. PICK into : into = SettlementAccount(kind, "opening_balance")
    OBVIOUS
  <2>2. /\ into \in Account /\ "fine_revenue" \in Account /\ into # "fine_revenue" /\ cents \in Int
    BY <2>1, BoundsAssumption DEF SettlementAccount, Account
  <2>3. /\ carried' = carried
        /\ book' = [book EXCEPT !["fine_revenue"] = @ - cents, ![into] = @ + cents]
    BY <1>3, <2>1, Zenon DEF ImportSettled
  <2>4. /\ book'[into] = book[into] + cents
        /\ book'["fine_revenue"] = book["fine_revenue"] - cents
        /\ \A x \in Account \ {into, "fine_revenue"} : book'[x] = book[x]
    BY <1>0, <2>2, <2>3
  <2>. QED  BY ONLY <1>0, LedgerSumsToZero, <2>2, <2>3, <2>4, TransferLegs
<1>4. CASE Commit
  BY <1>0, <1>4, CommitLedger
<1>5. ASSUME NEW l \in Loan, NEW total \in 1 .. MaxCents, NEW f \in FeeId, Accrue(l, total, f)
      PROVE  LedgerSumsToZero'
  <2>1. PICK n : n = Charged(fees[f], total)
    OBVIOUS
  <2>2. n \in Int /\ carried[f] \in Int
    <3>1. fees[f] \in FeeRow /\ total \in Int
      BY <1>0, BoundsAssumption DEF TypeOK
    <3>. QED  BY <1>0, <2>1, <3>1, RowTypes DEF Charged
  <2>3. n - carried[f] \in Int /\ n = carried[f] + (n - carried[f])
    BY <2>2
  <2>4. /\ carried' = [carried EXCEPT ![f] = n]
        /\ book' = [book EXCEPT !["fine_revenue"] = book["fine_revenue"] - (n - carried[f])]
    BY <1>5, <2>1, Zenon DEF Accrue
  <2>5. carried' = [carried EXCEPT ![f] = carried[f] + (n - carried[f])]
    BY <2>3, <2>4, Zenon
  <2>. QED  BY ONLY <1>0, LedgerSumsToZero, f \in FeeId, <2>3, <2>4, <2>5, ChargeLegs
<1>6. ASSUME NEW c \in Clerk, NEW counted \in Count, Close(c, counted) PROVE LedgerSumsToZero'
  <2>1. PICK v \in Int :
           /\ book'["cash_on_hand"] = book["cash_on_hand"] + v
           /\ book'["cash_over_short"] = book["cash_over_short"] - v
           /\ \A a \in Account \ {"cash_on_hand", "cash_over_short"} : book'[a] = book[a]
    BY <1>6, CloseBooks
  <2>2. /\ "cash_on_hand" \in Account /\ "cash_over_short" \in Account
        /\ "cash_on_hand" # "cash_over_short" /\ carried' = carried
    BY <1>6 DEF Account, Close
  <2>. QED  BY ONLY <1>0, LedgerSumsToZero, <2>1, <2>2, TransferLegs
<1>7. ASSUME NEW kind, NEW cents, NEW named, NEW method, NEW s,
             ReadOwed(kind, cents, named, method, s) \/ ReadPaid(cents, named, method, s)
      PROVE  LedgerSumsToZero'
  BY <1>1, <1>7 DEF ReadOwed, ReadPaid, ledger
<1>8. CASE Rollback \/ UNCHANGED vars
  BY <1>1, <1>8 DEF Rollback, ledger, vars
<1>9. ASSUME NEW s, NEW c, NEW cents, OpenTill(s, cents) \/ ProbeClose(c, s)
      PROVE  LedgerSumsToZero'
  BY <1>1, <1>9 DEF OpenTill, ProbeClose, ledger
<1>. QED
  BY <1>2, <1>3, <1>4, <1>5, <1>6, <1>7, <1>8, <1>9 DEF Next

LEMMA InitLedger == Init => LedgerSumsToZero
<1> SUFFICES ASSUME Init PROVE LedgerSumsToZero
  OBVIOUS
<1>1. /\ DOMAIN carried = FeeId /\ DOMAIN book = Account
      /\ \A f \in FeeId : carried[f] = 0
      /\ \A a \in Account : book[a] = 0
  BY DEF Init
<1>2. SumFunctionOnSet(carried, FeeId) = 0
  BY ONLY <1>1, FiniteBooks, SumZero
<1>3. SumFunctionOnSet(book, Account) = 0
  BY ONLY <1>1, FiniteBooks, SumZero
<1>4. SumFunction(carried) = SumFunctionOnSet(carried, FeeId) /\ SumFunction(book) = SumFunctionOnSet(book, Account)
  BY ONLY <1>1, Zenon DEF SumFunction
<1>. QED
  BY <1>2, <1>3, <1>4 DEF LedgerSumsToZero

\* I1 of ledger.ts and the sums over the whole ledger, for any number of fees,
\* loans, tills and payment methods: every journal a settlement or a refund
\* composes balances, so assertBalanced never turns a payment away, every cent
\* that came in is on a paid counter, in the reader's credit, or explained as a
\* till counted over or short, and the ledger as a whole sums to zero.
THEOREM BooksAlwaysAddUp == Spec => []BooksAddUp
<1>1. BInv /\ LedgerSumsToZero => BooksAddUp
  <2> SUFFICES ASSUME BInv, LedgerSumsToZero PROVE BooksAddUp
    OBVIOUS
  <2>1. TypeOK /\ MoneyIsAccountedFor
    BY DEF BInv, IInv
  <2>2. JournalsBalance
    <3> SUFFICES ASSUME pending # None PROVE Balanced(pending)
      BY DEF JournalsBalance
    <3>1. /\ pending \in Plan
          /\ SumFunctionOnSet(pending.plan, FeeId) = pending.amount - pending.unapplied
          /\ pending.kind # "payment" => pending.unapplied = 0
      BY <2>1 DEF BInv, PlanAddsUp, TypeOK
    <3>. QED  BY ONLY <3>1, PlanBalances
  <2>. QED  BY <2>1, <2>2 DEF BooksAddUp
<1>2. IInv /\ LedgerSumsToZero /\ [Next]_vars => LedgerSumsToZero'
  BY NextKeepsLedger
<1>. QED
  BY <1>1, <1>2, InitBInv, NextKeepsBooks, Inductive, InitLedger, PTL DEF Spec


-----------------------------------------------------------------------------
(* The till, closed by any number of people.                               *)

LEMMA ShortInt == ASSUME NEW till \in TillRow \cup {None} PROVE Short(till) \in Int
  BY DEF Short, TillRow

\* The gap as a sum over the sessions.
LEMMA GapSum ==
    /\ TillGap = book["cash_over_short"]
                    - SumFunctionOnSet([s \in Session |-> Short(drawer[s])], Session)
    /\ TillGap' = book'["cash_over_short"]
                    - SumFunctionOnSet([s \in Session |-> Short(drawer'[s])], Session)
<1>1. PICK f : f = [s \in Session |-> Short(drawer[s])]
  OBVIOUS
<1>2. PICK g : g = [s \in Session |-> Short(drawer'[s])]
  OBVIOUS
<1>3. DOMAIN f = Session /\ DOMAIN g = Session
  BY <1>1, <1>2
<1>4. SumFunction(f) = SumFunctionOnSet(f, Session) /\ SumFunction(g) = SumFunctionOnSet(g, Session)
  BY <1>3, Zenon DEF SumFunction
<1>5. TillGap = book["cash_over_short"] - SumFunction(f)
  BY <1>1, Zenon DEF TillGap
<1>6. TillGap' = book'["cash_over_short"] - SumFunction(g)
  BY <1>2, Zenon DEF TillGap, Short
<1>. QED
  BY <1>1, <1>2, <1>4, <1>5, <1>6, Zenon

\* A step that counts nothing and posts nothing over or short.
LEMMA GapStays ==
    ASSUME book'["cash_over_short"] = book["cash_over_short"],
           \A s \in Session : Short(drawer'[s]) = Short(drawer[s])
    PROVE  TillGap' = TillGap
<1>1. [s \in Session |-> Short(drawer'[s])] = [s \in Session |-> Short(drawer[s])]
  OBVIOUS
<1>. QED
  BY <1>1, GapSum, Zenon

\* A payment moves the cash of a session, open or not, and no count.
LEMMA CommitGap == ASSUME BInv, Commit PROVE TillGap' = TillGap
<1> DEFINE p == pending
<1>1. /\ p \in Plan /\ p # None /\ book \in [Account -> Int]
      /\ drawer \in [Session -> TillRow \cup {None}]
      /\ p.session # None => drawer[p.session] # None
  BY DEF BInv, IInv, TypeOK, PlanFits, Commit
<1>2. p.into # "cash_over_short"
  <2>1. p.into \in Method \cup {"waiver_expense", "bad_debt_expense"}
    BY <1>1 DEF BInv, PlanAddsUp
  <2>. QED  BY <2>1, MethodAssumption
<1>3. book'["cash_over_short"] = book["cash_over_short"]
  <2>1. "cash_over_short" \in Account
    BY DEF Account
  <2>2. book'["cash_over_short"] = book["cash_over_short"] + (0 + 0)
    BY <1>2, <2>1 DEF Commit, OtherLegs
  <2>. QED  BY <1>1, <2>1, <2>2
<1>4. \A s \in Session : Short(drawer'[s]) = Short(drawer[s])
  <2>1. CASE p.session = None \/ p.into # "cash_on_hand"
    <3>1. drawer' = drawer
      BY <2>1, Zenon DEF Commit
    <3>. QED  BY <3>1
  <2>2. CASE ~(p.session = None \/ p.into # "cash_on_hand")
    <3> DEFINE t == p.session
               n == drawer[t].cash + Sign(p) * p.amount
               till == [drawer[t] EXCEPT !.cash = n]
    <3>1. t \in Session /\ drawer[t] # None /\ drawer[t] \in TillRow
      BY <1>1, <2>2 DEF Plan
    <3>2. drawer' = [drawer EXCEPT ![t] = till]
      BY <2>2, Zenon DEF Commit
    <3>3. n \in Int
      BY <1>1, <3>1 DEF TillRow, Plan, Sign
    <3> HIDE DEF t, n
    <3>4. /\ till \in TillRow /\ till.closed = drawer[t].closed
          /\ till.expected = drawer[t].expected /\ till.counted = drawer[t].counted
      BY <3>1, <3>3, Zenon DEF TillRow
    <3> HIDE DEF till
    <3>5. Short(till) = Short(drawer[t])
      BY <3>1, <3>4, RowAssumption DEF Short
    <3>6. /\ drawer'[t] = till
          /\ \A s \in Session : s # t => drawer'[s] = drawer[s]
      BY <1>1, <3>1, <3>2
    <3>. QED  BY <3>5, <3>6
  <2>. QED  BY <2>1, <2>2
<1>. QED
  BY <1>3, <1>4, GapStays

\* Closing a session posts what its row comes to say, and forgets what it said.
LEMMA CloseGap ==
    ASSUME BInv, NEW c \in Clerk, NEW counted \in Count, Close(c, counted)
    PROVE  /\ TillGap \in Int
           /\ Short(drawer[closing[c]]) \in Int
           /\ TillGap' = TillGap + Short(drawer[closing[c]])
<1> DEFINE s == closing[c]
           expected == drawer[s].float + drawer[s].cash
           v == counted - expected
           till == [drawer[s] EXCEPT !.cash = drawer[s].cash + v, !.closed = TRUE,
                                     !.counted = counted, !.expected = expected]
<1>1. IInv /\ book \in [Account -> Int] /\ drawer \in [Session -> TillRow \cup {None}]
  BY DEF BInv, IInv, TypeOK
<1>2. /\ s \in Session /\ drawer[s] \in TillRow /\ drawer[s] # None /\ v \in Int
      /\ book'["cash_over_short"] = book["cash_over_short"] - v
  BY <1>1, CloseBooks
<1>4. drawer' = [drawer EXCEPT ![s] = till]
  BY Zenon DEF Close
<1>5. counted \in Int /\ expected \in Int /\ v = counted - expected
  BY <1>2, TillAssumption DEF TillRow
<1>6. till.closed /\ till.expected = expected /\ till.counted = counted
  BY <1>2, Zenon DEF TillRow
<1>7. till # None
  <2>1. counted \in Nat /\ drawer[s].cash + v \in Int
    BY <1>2, TillAssumption DEF TillRow
  <2> HIDE DEF s, v, expected
  <2>2. till \in TillRow
    BY <1>2, <1>5, <2>1, Zenon DEF TillRow
  <2> HIDE DEF till
  <2>. QED  BY <2>2, RowAssumption
<1> DEFINE old == Short(drawer[s])
<1>3. old \in Int
  BY <1>2, ShortInt
<1> HIDE DEF s, expected, v, till, old
<1>8. PICK f : f = [t \in Session |-> Short(drawer[t])]
  OBVIOUS
<1>9. PICK g : g = [t \in Session |-> Short(drawer'[t])]
  OBVIOUS
<1>a. \A t \in Session : f[t] \in Int
  BY <1>1, <1>8, ShortInt
<1>b. SumFunctionOnSet(f, Session) \in Int
  BY ONLY <1>a, SessionAssumption, SumInt
<1>10. SumFunctionOnSet(g, Session) = SumFunctionOnSet(f, Session) + (-v - old)
  <2>2. Short(till) = -v /\ f[s] = old
    BY <1>2, <1>5, <1>6, <1>7, <1>8 DEF Short, old
  <2>3. /\ drawer'[s] = till
        /\ \A t \in Session : t # s => drawer'[t] = drawer[t]
    BY <1>1, <1>2, <1>4
  <2>4. /\ g[s] = f[s] + (-v - old) /\ -v - old \in Int
        /\ \A t \in Session : t # s => g[t] = f[t]
    BY <1>2, <1>3, <1>8, <1>9, <2>2, <2>3
  <2>. QED  BY ONLY <1>2, <1>a, <2>4, SessionAssumption, SumMoves
<1>11. /\ TillGap = book["cash_over_short"] - SumFunctionOnSet(f, Session)
       /\ TillGap' = book'["cash_over_short"] - SumFunctionOnSet(g, Session)
  BY <1>8, <1>9, GapSum, Zenon
<1>12. book["cash_over_short"] \in Int
  BY <1>1 DEF Account
<1>13. TillGap \in Int /\ TillGap' = TillGap + old
  BY ONLY <1>2, <1>3, <1>b, <1>10, <1>11, <1>12
<1>. QED
  BY <1>3, <1>13 DEF old, s

\* Ledger and drawers part only when a session is closed that was closed already,
\* after somebody else had found it open, and then by what the first count had
\* recorded; for any number of sessions, clerks and fees and with payments that name
\* a session after it was closed (cash-drawer.service.ts, close).
THEOREM OnlySecondClosePartsAlways == Spec => OnlySecondCloseParts
<1> DEFINE Parts == TillGap' # TillGap =>
                       \E c \in Clerk : LET s == closing[c] IN
                           /\ s # None /\ drawer[s].closed /\ closing'[c] = None
                           /\ TillGap' = TillGap + Short(drawer[s])
<1>1. ASSUME BInv, [Next]_vars PROVE Parts
  <2>0. IInv /\ book \in [Account -> Int] /\ drawer \in [Session -> TillRow \cup {None}]
    BY <1>1 DEF BInv, IInv, TypeOK
  <2>a. CASE TillGap' = TillGap
    BY <2>a
  <2>b. ASSUME book' = book, drawer' = drawer PROVE Parts
    BY <2>a, <2>b, GapStays
  <2>c. ASSUME NEW n, book' = [book EXCEPT !["fine_revenue"] = n], drawer' = drawer PROVE Parts
    <3>1. book'["cash_over_short"] = book["cash_over_short"]
      BY <2>0, <2>c DEF Account
    <3>. QED  BY <2>a, <2>c, <3>1, GapStays
  <2>1. CASE UNCHANGED vars
    BY <2>b, <2>1, Zenon DEF vars
  <2>2. ASSUME NEW f \in FeeId, NEW cents \in 1 .. MaxCents, Charge(f, cents) PROVE Parts
    <3>1. /\ book' = [book EXCEPT !["fine_revenue"] = book["fine_revenue"] - cents]
          /\ drawer' = drawer
      BY <2>2, Zenon DEF Charge
    <3>. QED  BY <2>c, <3>1
  <2>3. ASSUME NEW f \in FeeId, NEW cents \in 1 .. MaxCents, NEW kind \in {"payment", "waiver"},
               ImportSettled(f, cents, kind)
        PROVE  Parts
    <3> DEFINE into == SettlementAccount(kind, "opening_balance")
    <3>1. /\ book' = [book EXCEPT !["fine_revenue"] = @ - cents, ![into] = @ + cents]
          /\ drawer' = drawer
      BY <2>3, Zenon DEF ImportSettled
    <3>2. into # "cash_over_short"
      BY DEF SettlementAccount
    <3> HIDE DEF into, Parts
    <3>3. book'["cash_over_short"] = book["cash_over_short"]
      BY <2>0, <3>1, <3>2 DEF Account
    <3>. QED  BY <2>a, <3>1, <3>3, GapStays
  <2>4. ASSUME NEW cents \in 1 .. MaxCents, NEW named \in SUBSET FeeId, NEW method \in Method,
               NEW s \in Session \cup {None}, NEW kind \in Settling,
               ReadOwed(kind, cents, named, method, s)
        PROVE  Parts
    BY <2>b, <2>4, Zenon DEF ReadOwed, ledger
  <2>5. ASSUME NEW cents \in 1 .. MaxCents, NEW named \in SUBSET FeeId, NEW method \in Method,
               NEW s \in Session \cup {None}, ReadPaid(cents, named, method, s)
        PROVE  Parts
    BY <2>b, <2>5, Zenon DEF ReadPaid, ledger
  <2>6. CASE Commit
    BY <1>1, <2>a, <2>6, CommitGap
  <2>7. CASE Rollback
    BY <2>b, <2>7, Zenon DEF Rollback, ledger
  <2>8. ASSUME NEW l \in Loan, NEW total \in 1 .. MaxCents, NEW f \in FeeId, Accrue(l, total, f)
        PROVE  Parts
    <3>1. PICK n : book' = [book EXCEPT !["fine_revenue"] = n] /\ drawer' = drawer
      BY <2>8, Zenon DEF Accrue
    <3>. QED  BY <2>c, <3>1
  <2>9. ASSUME NEW s \in Session, NEW cents \in Float, OpenTill(s, cents) PROVE Parts
    <3> DEFINE till == [float |-> cents, cash |-> 0, closed |-> FALSE,
                        counted |-> 0, expected |-> 0]
    <3>1. drawer[s] = None /\ book' = book /\ drawer' = [drawer EXCEPT ![s] = till]
      BY <2>9 DEF OpenTill, ledger
    <3>2. Short(till) = 0 /\ Short(drawer[s]) = 0
      BY <3>1 DEF Short
    <3> HIDE DEF till, Parts
    <3>3. \A t \in Session : Short(drawer'[t]) = Short(drawer[t])
      BY <2>0, <3>1, <3>2
    <3>. QED  BY <2>a, <3>1, <3>3, GapStays
  <2>10. ASSUME NEW c \in Clerk, NEW s \in Session, ProbeClose(c, s) PROVE Parts
    BY <2>b, <2>10, Zenon DEF ProbeClose, ledger
  <2>11. ASSUME NEW c \in Clerk, NEW counted \in Count, Close(c, counted) PROVE Parts
    <3>1. /\ TillGap \in Int /\ Short(drawer[closing[c]]) \in Int
          /\ TillGap' = TillGap + Short(drawer[closing[c]])
      BY <1>1, <2>11, CloseGap
    <3>2. closing[c] # None /\ closing'[c] = None
      BY <2>0, <2>11 DEF Close, IInv, TypeOK
    <3>3. CASE drawer[closing[c]].closed
      BY <3>1, <3>2, <3>3, Zenon
    <3>4. CASE ~drawer[closing[c]].closed
      <4>1. Short(drawer[closing[c]]) = 0
        BY <3>4 DEF Short
      <4>2. TillGap' = TillGap
        BY <3>1, <4>1
      <4>. QED  BY <2>a, <4>2
    <3>. QED  BY <3>3, <3>4
  <2> HIDE DEF Parts
  <2>. QED
    BY <1>1, <2>1, <2>2, <2>3, <2>4, <2>5, <2>6, <2>7, <2>8, <2>9, <2>10, <2>11 DEF Next
<1>2. BInv /\ [Next]_vars => BInv'
  BY NextKeepsBooks
<1>. QED
  BY <1>1, <1>2, InitBInv, PTL DEF Spec, OnlySecondCloseParts

-----------------------------------------------------------------------------
(* I3, the receivable against what is owed: where it drifts, and which way. *)

\* Whatever the desk, the till or an import does, and whatever the sweep did to a
\* settlement under way, no step but the sweep's own changes what a fee's
\* receivable carries beyond what the fee owes; and the sweep sets that to what
\* was settled on the fine so far.
OnlySweepDrifts ==
    [][\A f \in FeeId : Drift(f)' # Drift(f) =>
          /\ \E l \in Loan, total \in 1 .. MaxCents : Accrue(l, total, f)
          /\ Drift(f)' = Settled(fees[f])']_vars

\* A fee of no loan is carried at what it owes.
LEMMA NoLoanNoDrift ==
    ASSUME IInv, NEW f \in FeeId, fees[f].loan = None PROVE Drift(f) = 0
<1>1. carried[f] = Owed(fees[f]) /\ carried[f] \in Int
  BY DEF IInv, TypeOK, ReceivableCoversOwed
<1>. QED
  BY <1>1 DEF Drift

\* Raising a fee of no loan.
LEMMA RaisedNoDrift ==
    ASSUME IInv, IInv', NEW f \in FeeId, ~Raised(f), fees'[f].loan = None,
           \A g \in FeeId : g # f => fees'[g] = fees[g] /\ carried'[g] = carried[g]
    PROVE  \A g \in FeeId : Drift(g)' = Drift(g)
<1>1. fees[f] = Unraised
  BY DEF IInv, Blank
<1>2. Drift(f) = 0
  BY <1>1, NoLoanNoDrift, UnraisedRow
<1>3. Drift(f)' = 0
  <2>1. carried'[f] = Owed(fees'[f]) /\ carried'[f] \in Int
    BY DEF IInv, TypeOK, ReceivableCoversOwed
  <2>. QED  BY <2>1 DEF Drift
<1>. QED
  BY <1>2, <1>3 DEF Drift

\* OnlySweepDrifts: the drift findAccountBalanceDrift reports (FeesDrift.cfg) comes
\* from fee-accrual.ts alone, and is exactly what had been paid, waived or written
\* off when the sweep last posted.
THEOREM OnlySweepDriftsAlways == Spec => OnlySweepDrifts
<1> DEFINE Sweeps == \A f \in FeeId : Drift(f)' # Drift(f) =>
                       /\ \E l \in Loan, total \in 1 .. MaxCents : Accrue(l, total, f)
                       /\ Drift(f)' = Settled(fees[f])'
<1>1. ASSUME IInv, [Next]_vars PROVE Sweeps
  <2>0. IInv' /\ fees \in [FeeId -> FeeRow] /\ carried \in [FeeId -> Int]
    BY <1>1, NextKeeps DEF IInv, TypeOK
  <2>1. CASE fees' = fees /\ carried' = carried
    BY <2>1 DEF Drift
  <2>2. CASE \A f \in FeeId : Drift(f)' = Drift(f)
    BY <2>2
  <2> HIDE DEF Sweeps
  <2>3. ASSUME NEW f \in FeeId, NEW cents \in 1 .. MaxCents, Charge(f, cents) PROVE Sweeps
    <3>1. /\ fees' = [fees EXCEPT ![f] = [fees[f] EXCEPT !.amount = cents]]
          /\ carried' = [carried EXCEPT ![f] = cents]
          /\ ~Raised(f)
      BY <2>3, Zenon DEF Charge, NextFee
    <3>2. fees[f].loan = None
      BY <1>1, <3>1, UnraisedRow DEF IInv, Blank
    <3>3. [fees[f] EXCEPT !.amount = cents].loan = fees[f].loan
      BY <2>0, Zenon DEF FeeRow
    <3>4. /\ fees'[f].loan = None
          /\ \A g \in FeeId : g # f => fees'[g] = fees[g] /\ carried'[g] = carried[g]
      BY <2>0, <3>1, <3>2, <3>3
    <3>. QED  BY <1>1, <2>0, <2>2, <3>1, <3>4, RaisedNoDrift
  <2>4. ASSUME NEW f \in FeeId, NEW cents \in 1 .. MaxCents, NEW kind \in {"payment", "waiver"},
               ImportSettled(f, cents, kind)
        PROVE  Sweeps
    <3> DEFINE c == CounterOf(kind)
               row == [fees[f] EXCEPT !.amount = cents, ![c] = cents, !.status = c, !.closed = TRUE]
    <3>1. fees' = [fees EXCEPT ![f] = row] /\ carried' = carried /\ ~Raised(f)
      BY <2>4, Zenon DEF ImportSettled, NextFee
    <3>2. fees[f].loan = None
      BY <1>1, <3>1, UnraisedRow DEF IInv, Blank
    <3>3. row.loan = fees[f].loan
      <4>1. c \in {"paid", "waived"}
        BY DEF CounterOf
      <4>2. CASE c = "paid"
        BY <2>0, <4>2, Zenon DEF FeeRow
      <4>3. CASE c = "waived"
        BY <2>0, <4>3, Zenon DEF FeeRow
      <4>. QED  BY <4>1, <4>2, <4>3
    <3> HIDE DEF row, c
    <3>4. /\ fees'[f].loan = None
          /\ \A g \in FeeId : g # f => fees'[g] = fees[g] /\ carried'[g] = carried[g]
      BY <2>0, <3>1, <3>2, <3>3
    <3>. QED  BY <1>1, <2>0, <2>2, <3>1, <3>4, RaisedNoDrift
  <2>5. CASE Commit
    BY <1>1, <2>2, <2>5, CommitKeeps
  <2>6. ASSUME NEW l \in Loan, NEW total \in 1 .. MaxCents, NEW f \in FeeId, Accrue(l, total, f)
        PROVE  Sweeps
    <3> DEFINE n == Charged(fees[f], total)
               row == [fees[f] EXCEPT !.loan = l, !.accruing = TRUE, !.amount = n]
    <3>1. fees' = [fees EXCEPT ![f] = row] /\ carried' = [carried EXCEPT ![f] = n]
      BY <2>6, Zenon DEF Accrue
    <3>2. n \in Nat
      BY <2>0, RowTypes, BoundsAssumption DEF Charged
    <3> HIDE DEF n
    <3>3. row.amount = n /\ row.closed = fees[f].closed
      BY <2>0, Zenon DEF FeeRow
    <3> HIDE DEF row
    <3>4. ~fees[f].closed
      <4>1. CASE NextFee(f)
        BY <1>1, <4>1, UnraisedRow DEF NextFee, IInv, Blank
      <4>2. CASE ~NextFee(f)
        BY <2>6, <4>2 DEF Accrue
      <4>. QED  BY <4>1, <4>2
    <3>5. fees'[f] = row /\ carried'[f] = n
          /\ \A g \in FeeId : g # f => fees'[g] = fees[g] /\ carried'[g] = carried[g]
      BY <2>0, <3>1
    <3>6. Owed(fees'[f]) = n - Settled(fees'[f])
      BY <3>3, <3>4, <3>5 DEF Owed
    <3>7. Settled(fees'[f]) \in Nat
      <4>1. fees'[f] \in FeeRow
        BY <2>0 DEF IInv, TypeOK
      <4>. QED  BY <4>1, RowTypes
    <3>8. Drift(f)' = Settled(fees[f])'
      BY <3>2, <3>5, <3>6, <3>7 DEF Drift
    <3>9. \A g \in FeeId : g # f => Drift(g)' = Drift(g)
      BY <3>5 DEF Drift
    <3>. QED  BY <2>6, <3>8, <3>9 DEF Sweeps
  <2>7. ASSUME NEW kind, NEW cents, NEW named, NEW method, NEW s,
               ReadOwed(kind, cents, named, method, s) \/ ReadPaid(cents, named, method, s)
        PROVE  Sweeps
    BY <2>1, <2>7 DEF ReadOwed, ReadPaid, ledger
  <2>8. CASE Rollback \/ UNCHANGED vars
    BY <2>1, <2>8 DEF Rollback, ledger, vars
  <2>9. ASSUME NEW s, NEW c, NEW cents, OpenTill(s, cents) \/ ProbeClose(c, s) \/ Close(c, cents)
        PROVE  Sweeps
    BY <2>1, <2>9 DEF OpenTill, ProbeClose, Close, ledger
  <2>. QED
    BY <1>1, <2>3, <2>4, <2>5, <2>6, <2>7, <2>8, <2>9 DEF Next
<1>2. IInv /\ [Next]_vars => Sweeps
  BY <1>1
<1>. QED
  BY <1>2, Inductive, PTL DEF Spec, OnlySweepDrifts

\* A sum of amounts is not negative.
LEMMA SumNat ==
    ASSUME NEW S, IsFiniteSet(S), NEW g, \A x \in S : g[x] \in Nat
    PROVE  SumFunctionOnSet(g, S) \in Nat
<1>1. \A x \in S : g[x] \in Int
  OBVIOUS
<1>2. PICK J : SumTable(S, g, J)
  BY ONLY IsFiniteSet(S), <1>1, SumTableExists
<1> DEFINE T == {s \in SUBSET S : J[s] >= 0}
<1>3. ASSUME NEW s \in SUBSET S, \A t \in SUBSET s : t # s => t \in T PROVE s \in T
  <2>1. CASE s = {}
    BY <1>2, <2>1 DEF SumTable
  <2>2. CASE s # {}
    <3>1. PICK x \in s : TRUE
      BY <2>2
    <3>2. s \ {x} \in T /\ s \ {x} \in SUBSET S
      BY <1>3, <3>1
    <3>3. J[s] = g[x] + J[s \ {x}] /\ J[s \ {x}] \in Int
      BY <1>2, <3>1, <3>2 DEF SumTable
    <3>4. g[x] \in Nat /\ J[s \ {x}] >= 0
      BY <3>1, <3>2
    <3>. QED  BY <3>3, <3>4
  <2>. QED  BY <2>1, <2>2
<1>4. \A s \in SUBSET S : s \in T
  <2> HIDE DEF T
  <2>. QED  BY ONLY IsFiniteSet(S), <1>3, SubsetInduction
<1>5. SumFunctionOnSet(g, S) = J[S] /\ J[S] \in Int
  BY ONLY IsFiniteSet(S), <1>1, <1>2, SumIsTable
<1>. QED
  BY <1>4, <1>5

\* What the account carries is never less than its fees owe, and is just that
\* while none of them is a fine of the sweep's.
NeverShort ==
    /\ SumFunction(carried) >= SumFunction([f \in FeeId |-> Owed(fees[f])])
    /\ (\A f \in FeeId : fees[f].loan = None) => AccountReconciles

LEMMA ShortNever == IInv => NeverShort
<1> SUFFICES ASSUME IInv PROVE NeverShort
  OBVIOUS
<1>1. PICK owed : owed = [f \in FeeId |-> Owed(fees[f])]
  OBVIOUS
<1>2. PICK over : over = [f \in FeeId |-> carried[f] - Owed(fees[f])]
  OBVIOUS
<1>3. \A f \in FeeId : carried[f] \in Int /\ owed[f] \in Int /\ over[f] \in Nat
                       /\ carried[f] = owed[f] + over[f]
  <2> TAKE f \in FeeId
  <2>1. fees[f] \in FeeRow /\ carried[f] \in Int /\ carried[f] >= Owed(fees[f])
    BY DEF IInv, TypeOK, ReceivableCoversOwed
  <2>. QED  BY <1>1, <1>2, <2>1, RowTypes
<1>4. SumFunctionOnSet(carried, FeeId) = SumFunctionOnSet(owed, FeeId) + SumFunctionOnSet(over, FeeId)
  <2>1. \A f \in FeeId : owed[f] \in Int /\ over[f] \in Int /\ carried[f] = owed[f] + over[f]
    BY <1>3
  <2>. QED  BY ONLY <2>1, FiniteBooks, SumPlus
<1>5. SumFunctionOnSet(owed, FeeId) \in Int
  BY ONLY <1>3, FiniteBooks, SumInt
<1>6. SumFunctionOnSet(over, FeeId) \in Nat
  BY ONLY <1>3, FiniteBooks, SumNat
<1>7. /\ SumFunction(carried) = SumFunctionOnSet(carried, FeeId)
      /\ SumFunction([f \in FeeId |-> Owed(fees[f])]) = SumFunctionOnSet(owed, FeeId)
  <2>1. DOMAIN owed = FeeId /\ DOMAIN carried = FeeId
    BY <1>1 DEF IInv, TypeOK
  <2>. QED  BY <1>1, <2>1, Zenon DEF SumFunction
<1>8. (\A f \in FeeId : fees[f].loan = None) => SumFunctionOnSet(over, FeeId) = 0
  <2> SUFFICES ASSUME \A f \in FeeId : fees[f].loan = None PROVE SumFunctionOnSet(over, FeeId) = 0
    OBVIOUS
  <2>1. \A f \in FeeId : over[f] = 0
    BY <1>2, NoLoanNoDrift DEF Drift
  <2>. QED  BY ONLY <2>1, FiniteBooks, SumZero
<1>9. SumFunctionOnSet(carried, FeeId) >= SumFunctionOnSet(owed, FeeId)
  BY ONLY <1>4, <1>5, <1>6
<1>10. (\A f \in FeeId : fees[f].loan = None) =>
         SumFunctionOnSet(carried, FeeId) = SumFunctionOnSet(owed, FeeId)
  BY ONLY <1>4, <1>5, <1>8
<1>. QED
  BY <1>7, <1>9, <1>10, Zenon DEF NeverShort, AccountReconciles

\* NeverShort: the drift of I3 is one-sided, a reader's account may be carried at
\* more than she owes and never at less (findAccountBalanceDrift of
\* ledger-identities.ts).
THEOREM AccountNeverShort == Spec => []NeverShort
  BY Inductive, ShortNever, PTL

\* I3 itself, AccountReconciles, holds of an account as long as the sweep has no
\* overdue loan to accrue on: every desk operation, refund and import keeps it.
THEOREM ReconcilesWithoutTheSweep == ASSUME Loan = {} PROVE Spec => []AccountReconciles
<1>1. IInv => AccountReconciles
  <2> SUFFICES ASSUME IInv PROVE AccountReconciles
    OBVIOUS
  <2>1. \A f \in FeeId : fees[f].loan = None
    BY RowTypes DEF IInv, TypeOK
  <2>. QED  BY <2>1, ShortNever DEF NeverShort
<1>. QED
  BY <1>1, Inductive, PTL
=============================================================================
