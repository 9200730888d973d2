CONSTANTS
  MaxRuns = 1
  MaxEvents = 0
  MaxFaults = 0
  Faults = {}
SPECIFICATION Spec
INVARIANTS
  RequestIsShown
CHECK_DEADLOCK FALSE
