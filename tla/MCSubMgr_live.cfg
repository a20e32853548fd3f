SPECIFICATION Spec
CONSTANTS
  a = a
  p = p
  Clients = {a, p}
  Endpoint <- EndpointOf
  Content <- Distinct
  Policy = {p}
  Routed <- Clients
  MaxId = 2
  Objects = {1, 2, 3, 4}
  MaxOps = 3
  MaxE2Events = 0
  E2Events = {}
  Faults = {}
  None = None
INVARIANTS
  SuccessMeansSubscribed
PROPERTIES
  RequestsComplete
CHECK_DEADLOCK FALSE
