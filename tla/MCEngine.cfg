\* The agent and an embedding program, two collectors with two events each, two
\* modules, one injected event, and a gRPC client that leaves.
CONSTANTS
  Collectors = {c1, c2}
  Modules = {m1, m2}
  Integrations = {i1}
  Handlers = {h1}
  Streams = {g1}
  Embeddings = {TRUE, FALSE}
  Capacity = 1
  MaxEvents = 2
  MaxInjections = 1
SPECIFICATION ClientsLeaveSpec
INVARIANTS TypeOK RoutersMeetLiveModules HandlersMeetLiveModules EventsDelivered StopIsComplete
PROPERTY ShutdownCompletes
CHECK_DEADLOCK FALSE
