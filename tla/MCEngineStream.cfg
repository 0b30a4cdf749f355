\* The agent with one gRPC stream open.
CONSTANTS
  Collectors = {c1, c2}
  Modules = {m1, m2}
  Integrations = {i1}
  Handlers = {}
  Streams = {g1}
  Embeddings = {FALSE}
  Capacity = 1
  MaxEvents = 1
  MaxInjections = 1
SPECIFICATION Spec
INVARIANT EventsReachAllModules
CHECK_DEADLOCK FALSE
