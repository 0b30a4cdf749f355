\* One router and one REST handler, two interchangeable sources, three events, a map that
\* overflows at its second incident, a breaker that trips at the second
\* restart and two user requests.
CONSTANTS
  Routers = {r1}
  Handlers = {h1}
  Sources = {s1, s2}
  Severities = {"high"}
  WindowConfigured = TRUE
  AutoRemediate = TRUE
  MaxAttempts = 1
  MaxIncidents = 1
  MaxEvents = 3
  MaxUserOps = 2
SPECIFICATION Spec
SYMMETRY SourceSymmetry
INVARIANTS TypeOK OpenIncidentsTracked TrackedBounded EventAccounting DuplicatesBounded
PROPERTY ImplementsLifecycle
CHECK_DEADLOCK FALSE
