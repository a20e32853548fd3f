SPECIFICATION Spec
CONSTANTS
  r1 = r1
  r2 = r2
  Receivers = {r1, r2}
  NElements = 3
  MaxMsgs = 4
  Modes = {"block", "poll"}
  SplitStores = FALSE
  Nil = Nil
INVARIANTS
  TypeOK
PROPERTIES
  IsQueue
CHECK_DEADLOCK FALSE
