SPECIFICATION Spec
CONSTANTS
  f1 = f1
  f2 = f2
  Fds = {f1, f2}
  Streams <- MCStreams
  SzField = 3
  Normal = 4
  Fudge = 1
  MaxConns = 2
  Nil = Nil
INVARIANTS
  TypeOK
  Framed
  NoneHeldBack
  InBounds
CHECK_DEADLOCK FALSE
