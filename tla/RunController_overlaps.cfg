SPECIFICATION Spec
CONSTANTS
  Handlers = {h1, h2, h3}
  Workspaces = {w1}
  Home = w1
  None = None
  MaxRuns = 3
  MaxRequests = 1
  MaxRestarts = 0
  Agent = "codex"
  Commands = {"text", "click", "stop", "reset"}
  Faults = {"publish"}
  IdleDefault = FALSE
  OverlapStarts = TRUE
  OverlapAnswers = TRUE
SYMMETRY Symmetry
CHECK_DEADLOCK FALSE
INVARIANTS
  StuckScopeRaised
PROPERTIES
  MessagesDeliveredOnce
  StoppedRunIsLeft
