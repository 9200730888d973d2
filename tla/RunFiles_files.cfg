SPECIFICATION Spec
CONSTANTS
  Runs = {r1, r2}
  Sessions = {s1, s2}
  None = None
  MaxCrashes = 2
  MaxFailures = 1
SYMMETRY Symmetry
CHECK_DEADLOCK FALSE
INVARIANTS
  TypeOK
  NothingIsLeftBehind
  CopiesAgreeOnEnds
  UsableSessionsAreStored
PROPERTIES
  ClosedStaysClosed
  LeftSessionIsNotReused
