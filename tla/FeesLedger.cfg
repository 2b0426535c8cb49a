SPECIFICATION Spec
CONSTANTS
    MaxFees = 2
    MaxCents = 2
    Loan = {"l1"}
    Session = {"s1"}
    Clerk = {c1, c2}
    Method = {"cash_on_hand"}
    Float = {0}
    Count = {0}
    MaxCredit = 1
    MaxTill = 1
    None = None
INVARIANTS
    BooksAddUp
    ClosedMeansSettled
    CountersAreAllocations
    ReceivableCoversOwed
    OneGrowingFine
PROPERTIES
    OnlySecondCloseParts
SYMMETRY ClerkSymmetry
CHECK_DEADLOCK FALSE
