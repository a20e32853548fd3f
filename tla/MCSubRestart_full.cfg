SPECIFICATION RSpec
CONSTANTS
  a = a
  Clients = {a}
  Endpoint <- EndpointOf
  Content <- Merging
  Policy = {}
  Routed <- Clients
  MaxId = 2
  Objects = {1, 2, 3}
  MaxOps = 3
  MaxE2Events = 0
  E2Events = {}
  Faults = {}
  None = None
  MaxRestarts = 1
PROPERTIES
  RestartCompletes
CHECK_DEADLOCK FALSE
