CONSTANTS
  MaxTurns = 2
  MaxAnswers = 1
  MaxChunks = 1
  MaxOccurs = 1
  Occurs = {"stop"}
SPECIFICATION Spec
INVARIANTS
  CompletesOwnTurn
CHECK_DEADLOCK FALSE
