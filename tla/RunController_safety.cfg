SPECIFICATION Spec
CONSTANTS
  Handlers = {h1, h2, h3, h4}
  Workspaces = {w1, w2}
  Home = w1
  None = None
  MaxRuns = 3
  MaxRequests = 2
  MaxRestarts = 0
  Agent = "codex"
  Commands = {"text", "click", "stop", "reset", "cd", "clear", "resume"}
  Faults = {}
  IdleDefault = FALSE
  OverlapStarts = FALSE
  OverlapAnswers = FALSE
SYMMETRY Symmetry
CHECK_DEADLOCK FALSE
INVARIANTS
  OneConsumerPerStream
  QuiescentRunAwaitsOwner
PROPERTIES
  MessagesDeliveredOnce
  TurnRunsInCurrentWorkspace
