\* One caller alone, with the configuration main.go builds: no correlation
\* window.
CONSTANTS
  Routers = {r1}
  Handlers = {}
  Sources = {s1}
  Severities = {"high"}
  WindowConfigured = FALSE
  AutoRemediate = FALSE
  MaxAttempts = 1
  MaxIncidents = 3
  MaxEvents = 2
  MaxUserOps = 0
SPECIFICATION Spec
INVARIANT OneIncidentPerSource
CHECK_DEADLOCK FALSE
