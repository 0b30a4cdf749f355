---------------------------- MODULE WebSocketHub ----------------------------
(***************************************************************************)
(* The WebSocket hub of the REST API (api/rest/websocket.go): a handler    *)
(* for each client adds it to the hub, reads until the connection breaks   *)
(* and removes it; one broadcaster writes the status to every client, in   *)
(* the random order of a map, under the read lock of the hub.              *)
(*                                                                         *)
(* The lock is a sync.RWMutex: a Lock that waits for a reader keeps new    *)
(* readers out.  A Write waits while the client has MaxUnread messages to  *)
(* read, without a deadline, because the server's ends when a connection   *)
(* is taken over.  The engine's Status is assumed to return.               *)
(***************************************************************************)
EXTENDS Naturals, FiniteSets, Sequences, SequencesExt

CONSTANTS
  WsClients,
  MaxUnread      \* messages the buffers of a connection take

ASSUME HubAssumption ==
  MaxUnread \in Nat \ {0} /\ IsFiniteSet(WsClients) /\ "none" \notin WsClients

VARIABLES
  hubClients,    \* h.clients
  hubReading,    \* the broadcaster holds the read lock
  hubWriter,     \* whose handler holds the lock, or waits for the reader
  wsHandler,     \* where each client's handler is
  wsGone,        \* the connection is broken
  unread,        \* messages written and not read
  broadcaster,   \* where the broadcaster is
  unsent         \* the clients it has still to write to, in its order

hubLockVars == <<hubReading, hubWriter>>
hubVars == <<hubClients, hubLockVars, wsHandler, wsGone, unread, broadcaster, unsent>>

HubInit ==
  /\ hubClients = {}
  /\ hubReading = FALSE
  /\ hubWriter = "none"
  /\ wsHandler = [c \in WsClients |-> "none"]
  /\ wsGone = [c \in WsClients |-> FALSE]
  /\ unread = [c \in WsClients |-> 0]
  /\ broadcaster = "asleep"
  /\ unsent = <<>>

-----------------------------------------------------------------------------
(* handleWebSocketEvents and its client, who may come again.               *)
ClientConnects(c) ==
  /\ wsHandler[c] = "none"
  /\ wsHandler' = [wsHandler EXCEPT ![c] = "adding"]
  /\ wsGone' = [wsGone EXCEPT ![c] = FALSE]
  /\ unread' = [unread EXCEPT ![c] = 0]
  /\ UNCHANGED <<hubClients, hubLockVars, broadcaster, unsent>>

HandlerLocks(c) ==
  /\ wsHandler[c] \in {"adding", "removing"}
  /\ hubWriter = "none"
  /\ hubWriter' = c
  /\ UNCHANGED <<hubClients, hubReading, wsHandler, wsGone, unread, broadcaster, unsent>>

(* add or remove, once the broadcaster has given the read lock back.       *)
HandlerUpdates(c) ==
  /\ hubWriter = c
  /\ ~hubReading
  /\ IF wsHandler[c] = "adding"
       THEN /\ hubClients' = hubClients \cup {c}
            /\ wsHandler' = [wsHandler EXCEPT ![c] = "reading"]
       ELSE /\ hubClients' = hubClients \ {c}
            /\ wsHandler' = [wsHandler EXCEPT ![c] = "none"]
  /\ hubWriter' = "none"
  /\ UNCHANGED <<hubReading, wsGone, unread, broadcaster, unsent>>

ClientReads(c) ==
  /\ ~wsGone[c]
  /\ unread[c] > 0
  /\ unread' = [unread EXCEPT ![c] = @ - 1]
  /\ UNCHANGED <<hubClients, hubLockVars, wsHandler, wsGone, broadcaster, unsent>>

ConnectionBreaks(c) ==
  /\ wsHandler[c] # "none"
  /\ ~wsGone[c]
  /\ wsGone' = [wsGone EXCEPT ![c] = TRUE]
  /\ UNCHANGED <<hubClients, hubLockVars, wsHandler, unread, broadcaster, unsent>>

ReadReturnsError(c) ==
  /\ wsHandler[c] = "reading"
  /\ wsGone[c]
  /\ wsHandler' = [wsHandler EXCEPT ![c] = "removing"]
  /\ UNCHANGED <<hubClients, hubLockVars, wsGone, unread, broadcaster, unsent>>

-----------------------------------------------------------------------------
(* The broadcaster.  A slip: the lock under which the clients are counted  *)
(* is kept for the broadcast, which takes it once more.                    *)
CountsAndKeepsLock ==
  /\ broadcaster = "asleep"
  /\ hubWriter = "none"
  /\ hubClients # {}
  /\ broadcaster' = "counted"
  /\ hubReading' = TRUE
  /\ UNCHANGED <<hubClients, hubWriter, wsHandler, wsGone, unread, unsent>>

(* A tick that finds no client changes nothing.                            *)
CountsClients ==
  /\ broadcaster = "asleep"
  /\ hubWriter = "none"
  /\ hubClients # {}
  /\ broadcaster' = "counted"
  /\ UNCHANGED <<hubClients, hubLockVars, wsHandler, wsGone, unread, unsent>>

BroadcastBegins ==
  /\ broadcaster = "counted"
  /\ hubWriter = "none"
  /\ hubReading' = TRUE
  /\ broadcaster' = "writing"
  /\ unsent' \in SetToSeqs(hubClients)
  /\ UNCHANGED <<hubClients, hubWriter, wsHandler, wsGone, unread>>

(* A Write to a broken connection fails, which is only logged.             *)
WritesNext ==
  /\ unsent # <<>>
  /\ LET c == Head(unsent)
     IN \/ wsGone[c] /\ UNCHANGED unread
        \/ ~wsGone[c] /\ unread[c] < MaxUnread /\ unread' = [unread EXCEPT ![c] = @ + 1]
  /\ unsent' = Tail(unsent)
  /\ UNCHANGED <<hubClients, hubLockVars, wsHandler, wsGone, broadcaster>>

BroadcastEnds ==
  /\ broadcaster = "writing"
  /\ unsent = <<>>
  /\ hubReading' = FALSE
  /\ broadcaster' = "asleep"
  /\ UNCHANGED <<hubClients, hubWriter, wsHandler, wsGone, unread, unsent>>

HubNext ==
  \/ \E c \in WsClients :
       \/ ClientConnects(c) \/ ClientReads(c) \/ ConnectionBreaks(c)
       \/ HandlerLocks(c) \/ HandlerUpdates(c) \/ ReadReturnsError(c)
  \/ CountsClients \/ BroadcastBegins \/ WritesNext \/ BroadcastEnds

(* A waiting Lock gets the mutex in the end (its starvation mode), and the *)
(* readers that wait get in when a writer unlocks: strong fairness.  The   *)
(* clients read what they are sent, or break: one that does neither stops  *)
(* the broadcaster, and with it every client that comes or goes.           *)
HubFairness ==
  /\ \A c \in WsClients :
       /\ SF_hubVars(HandlerLocks(c))
       /\ WF_hubVars(HandlerUpdates(c) \/ ReadReturnsError(c))
       /\ WF_hubVars(ClientReads(c))
  /\ SF_hubVars(CountsClients \/ BroadcastBegins)
  /\ WF_hubVars(WritesNext \/ BroadcastEnds)

HubSpec == HubInit /\ [][HubNext]_hubVars /\ HubFairness

-----------------------------------------------------------------------------
(* The hub's state has its types, and no client is added or removed while  *)
(* the broadcaster ranges over the map.                                    *)
HubTypeOK ==
  /\ hubClients \subseteq WsClients
  /\ hubReading \in BOOLEAN /\ hubWriter \in WsClients \cup {"none"}
  /\ wsHandler \in [WsClients -> {"none", "adding", "reading", "removing"}]
  /\ unread \in [WsClients -> 0 .. MaxUnread]
  /\ broadcaster \in {"asleep", "counted", "writing"}
  /\ ToSet(unsent) \subseteq hubClients

(* A client waits: to get into the hub, to hear of the status, or, its     *)
(* connection broken, to be forgotten.                                     *)
Unserved(c) ==
  \/ wsHandler[c] = "adding"
  \/ c \in hubClients /\ unread[c] = 0 /\ ~wsGone[c]
  \/ wsGone[c] /\ wsHandler[c] # "none"

(* No client waits for ever: it gets into the hub, hears of the status as  *)
(* long as it is connected, and is forgotten once its connection broke,    *)
(* whatever the others do: the broadcaster takes the read lock twice, one  *)
(* after the other, while handlers wait for it (websocket.go 25-97).  Nor  *)
(* does the map change while the broadcaster ranges over it.               *)
HubServesClients == []HubTypeOK /\ \A c \in WsClients : []<>~Unserved(c)
=============================================================================
