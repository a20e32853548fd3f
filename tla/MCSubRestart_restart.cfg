SPECIFICATION RSpec
CONSTANTS
  a = a
  b = b
  Clients = {a, b}
  Endpoint <- EndpointOf
  Content <- Merging
  Policy = {}
  Routed <- Clients
  MaxId = 3
  Objects = {1, 2, 3, 4}
  MaxOps = 3
  MaxE2Events = 0
  E2Events = {}
  Faults = {}
  None = None
  MaxRestarts = 1
SYMMETRY ClientSymmetry
VIEW Remembered
INVARIANTS
  IdsRestored
  UncompletedGone
  RecordsRestored
  SuccessSurvives
CHECK_DEADLOCK FALSE
