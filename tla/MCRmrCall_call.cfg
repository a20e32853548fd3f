SPECIFICATION FairSpec
CONSTANTS
  MaxCalls = 3
  MaxMsgs = 3
  MaxInterrupts = 1
  Repeats = TRUE
  Nil = Nil
INVARIANTS
  TypeOK
  MessageOwned
PROPERTIES
  OwnAnswerUnlessStray
  AnswerEndsCall
  TimedCallEnds
CHECK_DEADLOCK FALSE
