CONSTANTS
  MaxRuns = 2
  MaxEvents = 1
  MaxFaults = 2
  Faults = {"create", "permission", "update", "reply", "text"}
SPECIFICATION Spec
INVARIANTS
  TypeOK
  LastViewIsShown
  TextRunsShowRequest
  FinishedCardsAreClosed
PROPERTIES
  LastViewStays
CHECK_DEADLOCK FALSE
