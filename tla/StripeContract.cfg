SPECIFICATION Spec
CONSTANTS
  Sub = {1}
  Plan = {p1, p2}
  Trial = {}
  Guarded = TRUE
  MaxRequests = 1
  MaxEvents = 2
  MaxPeriods = 0
  MaxUpsets = 0
  Starter = Starter
  Contract = Contract
  None = None
PROPERTIES
    ContractStays
CHECK_DEADLOCK FALSE
