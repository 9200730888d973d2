SPECIFICATION Spec
CONSTANTS
  Handlers = {h1, h2}
  Workspaces = {w1}
  Home = w1
  None = None
  MaxRuns = 2
  MaxRequests = 1
  MaxRestarts = 0
  Agent = "codex"
  Commands = {"text"}
  Faults = {}
  IdleDefault = FALSE
  OverlapStarts = TRUE
  OverlapAnswers = FALSE
SYMMETRY Symmetry
CHECK_DEADLOCK FALSE
PROPERTIES
  ActiveRunNeverReplaced
