SPECIFICATION FairSpec
CONSTANTS
  Handlers = {h1, h2, h3}
  Workspaces = {w1}
  Home = w1
  None = None
  MaxRuns = 3
  MaxRequests = 1
  MaxRestarts = 0
  Agent = "codex"
  Commands = {"text", "click", "stop", "reset", "cd"}
  Faults = {}
  IdleDefault = FALSE
  OverlapStarts = FALSE
  OverlapAnswers = FALSE

CHECK_DEADLOCK FALSE
PROPERTIES
  StopEndsItsTurn
  EndedTurnIsLeft
