\* Each kind of collector, with up to two workers and two concurrent Stops
\* (Kubernetes differs from Kafka, and CI/CD from cloud, in nothing the model
\* tells apart); a federation of two clusters, one of them configured; two
\* runs on a page of one; two events with and without a model; two sync loops,
\* of which Close ends one, and a monitoring call.
CONSTANTS
  Kinds = {"kafka", "cloud", "logs", "adapter"}
  Workers = {w1, w2}
  Stoppers = {s1, s2}
  Capacity = 2
  MaxPolls = 4
  ClusterNames = {a, b}
  Configured = {a}
  Backlog = 1
  MaxInstances = 2
  NumRuns = 2
  LastStatus = 2
  PageSize = 1
  GraveEvents = {e1, e2}
  WithModel = {TRUE, FALSE}
  MaxRetries = 2
  Items = {i1}
  SyncLoops = {l1, l2}
  Monitors = {m1}
  MaxVersion = 2
  MaxVaultErrors = 1
SPECIFICATION MCSpec
INVARIANTS EventuallyTypeOK NoPanic FedNoPanic FedStopIsComplete
PROPERTIES StopReturns HealthAnswers ImplementsContract FedStopReturns RunsConverge
  EventsAnalysed VaultConverges
CHECK_DEADLOCK FALSE
