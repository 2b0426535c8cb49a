SPECIFICATION Spec
CONSTANTS
    Claim = {c1, c2}
    Handler = {k1, k2}
    MaxLoans = 2
    MaxRenewals = 1
    None = None
INVARIANTS
    AppliedOnce
    OneAnswer
