SPECIFICATION Spec
CONSTANTS
  a = a
  b = b
  Clients = {a, b}
  Endpoint <- EndpointOf
  Content <- Merging
  Policy = {}
  Routed <- Clients
  MaxId = 2
  Objects = {1, 2, 3, 4}
  MaxOps = 2
  MaxE2Events = 1
  E2Events = {"down", "reset"}
  Faults = {"race", "sdl"}
  None = None
SYMMETRY ClientSymmetry
VIEW Remembered
INVARIANTS
  NoIdLost
CHECK_DEADLOCK FALSE
