SPECIFICATION Spec
CONSTANTS
  a = a
  b = b
  Clients = {a, b}
  Endpoint <- EndpointOf
  Content <- Merging
  Policy = {}
  Routed <- Clients
  MaxId = 1
  Objects = {1, 2, 3, 4}
  MaxOps = 4
  MaxE2Events = 0
  E2Events = {}
  Faults = {"rtmgr", "pack"}
  None = None
SYMMETRY ClientSymmetry
INVARIANTS
  TypeOK
  UniqueInstanceIds
  NoIdLost
  SuccessMeansSubscribed
  EndpointsAreOwners
  RecordsAgree
CHECK_DEADLOCK FALSE
