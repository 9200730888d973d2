CONSTANTS
  MaxTurns = 2
  MaxEvents = 2
  MaxWire = 1
  MaxOccurs = 1
  Occurs = {"refuse", "stop", "timeout", "tokenUsage", "error", "retrying", "exit", "garbage", "malformed"}
SPECIFICATION Spec
INVARIANTS
  TypeOK
  ResultIsServers
  PausedRequestIsKept
  NoStreamLeftWaiting
PROPERTIES
  DeliversInOrder
  AnswersShownRequest
CHECK_DEADLOCK FALSE
