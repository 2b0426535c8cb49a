SPECIFICATION Spec
CONSTANTS
  MaxRows = 1
  Worker = {w1, w2}
  Producer = {p1}
  MaxAttempts = 2
  JobAttempts = 2
  MaxUpsets = 2
  None = None
INVARIANTS
    DuplicatesAreFaults
    DeadIsJustified
    OneWorkerPerRow
PROPERTIES
    SettledOrBlocked
CHECK_DEADLOCK FALSE
