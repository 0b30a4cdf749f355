\* Breaker: three attempts in a window of two, so that bursts, a trip, a
\* lockout and a second trip fit in nine ticks.  The others: two actors where
\* actors race, and bounds one larger than the limits they test.
CONSTANTS
  MaxAttempts = 3
  Window = 2
  MaxTime = 9
  Fingerprints = {f1, f2}
  DedupWindow = 2
  MaxSeen = 1
  MaxAggTime = 4
  MaxAggEvents = 4
  Partitions <- TwoTopics
  LagThreshold = 1
  MaxOffset = 2
  Observers = {o1, o2}
  Readings = {1, 5}
  WindowSize = 3
  MinDataPoints = 2
  Threshold = 1
  MaxDetected = 1
  MaxAdds = 4
  Utilisations = {10, 90}
  DataRetention = 2
  MinPoints = 3
  MaxCapTime = 4
  MaxPoints = 4
  Services = {a, b, c}
  Failing = {b, c}
  MaxEdits = 7
  Runbooks = {"b1", "b2"}
  IncidentTypes = {"t1", "t2"}
  TypesOf <- TwoTypesOf
  Steps <- TwoSteps
  Executions = {x1, x2}
  Publishers = {p1, p2}
  BusHandlers = {"h1", "h2"}
  MaxPublished = 3
  Clients = {k1}
  Burst = 2
  Cost = 2
  IdleLimit = 4
  MaxLimiterTime = 12
  MaxGranted = 5
  Auditors = {u1, u2}
  MaxEntries = 2
  EntriesEach = 2
  Readers = {r1, r2}
  CacheTTL = 2
  RotationWindow = 1
  FetchLimit = 1
  MaxRotations = 2
  MaxSecretTime = 4
  Policies = {"limits", "tag", "isr"}
  Implemented = {"limits", "tag"}
  Evaluators = {v1}
  MaxViolations = 2
  MaxEvaluations = 2
SPECIFICATION MCSpec
INVARIANTS AlwaysTypeOK WindowBound DedupExact LagNotUnderstated
  WindowIsRecent SteadyThenSpike RetentionExact WalksAreExact
  ResultsAreTrue DeliveryIsCurrent RateBound AuditTrail SecretsAreRecent
  ReportIsOfItsTime LockoutBounded
CHECK_DEADLOCK FALSE
