\* The same program, when it waits for Stop.
CONSTANTS
  Collectors = {c1, c2}
  Modules = {m1, m2}
  Integrations = {i1}
  Handlers = {}
  Streams = {}
  Embeddings = {TRUE}
  Capacity = 1
  MaxEvents = 1
  MaxInjections = 1
SPECIFICATION FairSpec
PROPERTY StopCompletes
CHECK_DEADLOCK FALSE
