\* Liveness on two events: a creation, a correlation or two incidents, with
\* their remediations, two user requests and Stop in between; two WebSocket
\* clients that come and go, with room for one message each.
CONSTANTS
  Routers = {r1}
  Handlers = {h1}
  Sources = {s1}
  Severities = {"critical", "high"}
  WindowConfigured = TRUE
  AutoRemediate = TRUE
  MaxAttempts = 1
  MaxIncidents = 1
  MaxEvents = 2
  MaxUserOps = 2
  WsClients = {k1, k2}
  MaxUnread = 1
SPECIFICATION MCSpec
PROPERTIES IncidentsHandled HubServesClients
CHECK_DEADLOCK FALSE
