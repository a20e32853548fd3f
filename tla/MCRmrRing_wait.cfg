SPECIFICATION Spec
CONSTANTS
  r1 = r1
  r2 = r2
  Receivers = {r1, r2}
  NElements = 3
  MaxMsgs = 4
  Modes = {"block", "timed"}
  SplitStores = TRUE
  Nil = Nil
INVARIANTS
  WakeUpsCover
  WokenFindsMessage
  CounterMaintained
PROPERTIES
  IsQueue
  Delivered
CHECK_DEADLOCK FALSE
