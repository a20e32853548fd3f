SPECIFICATION Spec
CONSTANTS
  E2MaxTryCount = 2
  e2tMaxSubDelReqTryCount = 2
  MaxProcs = 3
INVARIANTS
  TypeOK
  RegisteredAtNode
  SuccessIsOwn
  DeletedForGood
PROPERTIES
  ProcedureEnds
CHECK_DEADLOCK FALSE
