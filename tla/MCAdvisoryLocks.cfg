SPECIFICATION FairSpec
CONSTANTS
    Txn = {t1, t2, t3}
    MaxId = 1
    Plans <- MCPlans
INVARIANTS
    NoDeadlock
PROPERTIES
    EveryCallReturns
