SPECIFICATION Spec
CONSTANTS
  Handlers = {h1, h2}
  Workspaces = {w1, w2}
  Home = w1
  None = None
  MaxRuns = 2
  MaxRequests = 1
  MaxRestarts = 1
  Agent = "opencode"
  Commands = {"text", "click", "stop", "reset", "cd", "clear", "resume", "timeout"}
  Faults = {"create", "missing", "start", "publish", "stop", "answer", "stream", "silent"}
  IdleDefault = TRUE
  OverlapStarts = TRUE
  OverlapAnswers = TRUE
SYMMETRY Symmetry
CHECK_DEADLOCK FALSE
INVARIANTS
  ActiveRunIsOpen
PROPERTIES
  FinishedRunsStayFinished
