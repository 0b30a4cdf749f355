\* One event, and users who may answer the same incident twice.
CONSTANTS
  Routers = {r1}
  Handlers = {}
  Sources = {s1}
  Severities = {"critical", "high"}
  WindowConfigured = TRUE
  AutoRemediate = TRUE
  MaxAttempts = 1
  MaxIncidents = 3
  MaxEvents = 1
  MaxUserOps = 2
SPECIFICATION Spec
INVARIANT ResolvedMetricCountsIncidents
CHECK_DEADLOCK FALSE
