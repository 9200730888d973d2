CONSTANTS
  MaxTurns = 2
  MaxAnswers = 1
  MaxChunks = 2
  MaxOccurs = 1
  Occurs = {"late", "disconnect", "refuse", "lost", "messages", "stop", "timeout", "asked", "question", "twice"}
SPECIFICATION FairSpec
INVARIANTS
  QueuesHoldOwnEvents
  TextInOrder
  CompletesOnlyAnswered
  LiveTurnIsHeard
PROPERTIES
  StreamsEnd
  CompletedTextIsWhole
CHECK_DEADLOCK FALSE
