\* Two callers, two events, no user and no remediation.
CONSTANTS
  Routers = {r1}
  Handlers = {h1}
  Sources = {s1}
  Severities = {"high"}
  WindowConfigured = TRUE
  AutoRemediate = FALSE
  MaxAttempts = 1
  MaxIncidents = 3
  MaxEvents = 2
  MaxUserOps = 0
SPECIFICATION Spec
INVARIANT OneIncidentPerSource
CHECK_DEADLOCK FALSE
