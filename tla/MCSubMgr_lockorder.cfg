SPECIFICATION Spec
CONSTANTS
  a = a
  b = b
  Clients = {a, b}
  Endpoint <- EndpointOf
  Content <- Merging
  Policy = {}
  Routed <- Clients
  MaxId = 2
  Objects = {1, 2, 3}
  MaxOps = 3
  MaxE2Events = 0
  E2Events = {}
  Faults = {}
  None = None
PROPERTIES
  RequestsComplete
CHECK_DEADLOCK FALSE
