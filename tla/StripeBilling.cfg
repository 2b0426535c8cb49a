SPECIFICATION Spec
CONSTANTS
  Sub = {1, 2}
  Plan = {p1, p2}
  Trial = {1}
  Guarded = TRUE
  MaxRequests = 2
  MaxEvents = 3
  MaxPeriods = 1
  MaxUpsets = 1
  Starter = Starter
  Contract = Contract
  None = None
CONSTRAINT OneEventAtATime
SYMMETRY PlanSymmetry
INVARIANTS
    RowIsJustified
    NoEventIsStranded
PROPERTIES
    YieldsToLiveNewsOnly
    
CHECK_DEADLOCK FALSE
