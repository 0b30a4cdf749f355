------------------------- MODULE MCIncidentLiveness -------------------------
(***************************************************************************)
(* The two parts whose users wait for an answer, on small instances: the   *)
(* incident responder and the WebSocket hub.  One behaviour is the         *)
(* behaviour of one part; they share no state.  A fair step of either is   *)
(* not enabled in its initial state.                                       *)
(***************************************************************************)
EXTENDS IncidentResponder, WebSocketHub

VARIABLE part

MCInit == part \in {"responder", "hub"} /\ Init /\ HubInit

MCNext ==
  /\ UNCHANGED part
  /\ \/ part = "responder" /\ Next /\ UNCHANGED hubVars
     \/ part = "hub" /\ HubNext /\ UNCHANGED vars

MCSpec == MCInit /\ [][MCNext]_<<part, vars, hubVars>> /\ Fairness /\ HubFairness
=============================================================================
