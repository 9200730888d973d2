CONSTANTS
  MaxChats = 1
  MaxMessages = 2
  PageSize = 1
  MaxFaults = 2
  Faults = {"disconnect", "redeliver", "submit", "list", "token", "download", "crash", "age", "enter"}
SPECIFICATION FairSpec
INVARIANTS
  TypeOK
  HandedOnOncePerThread
  TextsStayInOrder
PROPERTIES
  PushedMessagesAreHandled
  BackfillLeavesNoneOut
CHECK_DEADLOCK FALSE
