---------------------------- MODULE EngineProofs ----------------------------
(***************************************************************************)
(* Proofs about the engine between its collectors and its modules, for     *)
(* every number of either, of events, handlers and streams, and for both   *)
(* programs: routers and REST handlers meet live modules, Stop leaves      *)
(* nothing running, and events are delivered.                              *)
(*                                                                         *)
(* The first three follow from how far Start and Stop have got (Order): a  *)
(* router exists only when every module is live, and no module is stopped  *)
(* before the last router has ended; a handler gets its work only while    *)
(* the REST server is up, which is before Stop.                            *)
(***************************************************************************)
EXTENDS EngineLifecycle, TLAPS, SequenceTheorems

AllLive == \A m \in Modules : module[m] = "live"

RoutersEnded == \A c \in Collectors : router[c] \in {"none", "done"}

(* How far Start and Stop have got, and what that says of the others.      *)
Order ==
  /\ starting \in {"idle", "integrations", "modules"} =>
       \A c \in Collectors : phase[c] = "created"
  /\ \A c \in Collectors : phase[c] = "created" => router[c] = "none"
  /\ starting \in {"collectors", "started"} \/ ~RoutersEnded =>
       AllLive \/ stopping \in {"modules", "integrations", "returned"}
  /\ starting # "idle" /\ stopping = "idle" => running
  /\ main \in {"grpc", "rest", "engine"} \/ stopping # "idle" =>
       starting \in {"started", "failed"}
  /\ stopping # "idle" => main \in {"engine", "exited"}
  /\ stopping \notin {"idle", "waiting"} => RoutersEnded
  /\ stopping \in {"modules", "integrations", "returned"} =>
       \A c \in Collectors : phase[c] # "running"
  /\ stopping \in {"integrations", "returned"} =>
       \A m \in Modules : module[m] = "stopped"
  /\ stopping = "returned" => \A i \in Integrations : integration[i] = "closed"
  /\ busClosed => stopping = "returned"

(* Who injects, and until when.                                            *)
Injecting ==
  /\ (\E h \in Handlers : handler[h] # {}) => ~embedded /\ starting = "started"
  /\ main \in {"engine", "exited"} => restLate \/ \A h \in Handlers : handler[h] = {}
  /\ main \in {"rest", "engine", "exited"} => restClosed \/ starting = "failed"

(* The events waiting in a channel are there once and nowhere else.        *)
Queued(c) ==
  /\ \A j, k \in 1 .. Len(queue[c]) : queue[c][j] = queue[c][k] => j = k
  /\ \A n \in Waiting(c) :
       n \in 1 .. emitted[c] /\ n # current[c] /\ n \notin streamed[c]
       /\ \A m \in Modules : n \notin seen[c][m]

(* What has left the channel was sent, and is streamed or analysed.        *)
Taken(c) ==
  /\ streamed[c] \subseteq 1 .. emitted[c]
  /\ \A m \in Modules :
       seen[c][m] \subseteq 1 .. emitted[c] /\ seen[c][m] \cap streamed[c] = {}

(* A router between events holds none; the one it holds has been seen by   *)
(* the modules it has called.                                              *)
Held(c) ==
  /\ router[c] \in {"none", "select", "done"} => current[c] = 0 /\ todo[c] = {}
  /\ router[c] \in {"publish", "analyze"} =>
       current[c] \in 1 .. emitted[c] /\ current[c] \notin streamed[c]
  /\ router[c] = "publish" => todo[c] = {} /\ \A m \in Modules : current[c] \notin seen[c][m]
  /\ \A m \in Modules \ todo[c] : router[c] = "analyze" => current[c] \in seen[c][m]
  /\ \A m \in todo[c] : current[c] \notin seen[c][m]

InOnePlace(c) == Queued(c) /\ Taken(c) /\ Held(c)

Delivered(c) == \A n \in 1 .. emitted[c] : OnItsWay(c, n) <=> n \notin streamed[c]

EngInv ==
  /\ TypeOK
  /\ Order
  /\ Injecting
  /\ \A c \in Collectors : InOnePlace(c) /\ Delivered(c)

-----------------------------------------------------------------------------
(* Every step keeps the types. *)
LEMMA TypeStep ==
  ASSUME TypeOK, \A c \in Collectors : InOnePlace(c), [Next]_vars
  PROVE  TypeOK'
<1>0. /\ MaxEvents \in Nat /\ Capacity \in Nat /\ MaxInjections \in Nat
  BY EngineAssumption
<1> USE <1>0
<1> USE DEF startVars, flowVars, compVars, restVars, mainVars
<1>1. CASE StartBegins
  BY <1>1 DEF StartBegins, TypeOK
<1>2. CASE StartModules
  BY <1>2 DEF StartModules, TypeOK
<1>3. CASE StartCollectors
  BY <1>3 DEF StartCollectors, TypeOK
<1>4. CASE StartReturns
  BY <1>4 DEF StartReturns, TypeOK
<1>5. CASE StartFails
  BY <1>5 DEF StartFails, TypeOK
<1>6. ASSUME NEW i \in Integrations, InitializeIntegration(i) PROVE TypeOK'
  BY <1>6 DEF InitializeIntegration, TypeOK
<1>7. ASSUME NEW m \in Modules, StartModule(m) PROVE TypeOK'
  BY <1>7 DEF StartModule, TypeOK
<1>8. ASSUME NEW c \in Collectors, StartCollector(c) PROVE TypeOK'
  BY <1>8 DEF StartCollector, TypeOK
<1>9. ASSUME NEW c \in Collectors, Emit(c) PROVE TypeOK'
  BY <1>9 DEF Emit, TypeOK, RouterTo
<1>10. ASSUME NEW c \in Collectors, StreamTakes(c) PROVE TypeOK'
  BY <1>10 DEF StreamTakes, TypeOK, RouterTo
<1>11. ASSUME NEW c \in Collectors, RouterExits(c) PROVE TypeOK'
  BY <1>11 DEF RouterExits, TypeOK, RouterTo
<1>12. ASSUME NEW c \in Collectors, RouterTakes(c) PROVE TypeOK'
  BY <1>12 DEF RouterTakes, TypeOK, RouterTo
<1>13. ASSUME NEW c \in Collectors, RouterPublishes(c) PROVE TypeOK'
  BY <1>13 DEF RouterPublishes, TypeOK, RouterTo
<1>14. ASSUME NEW c \in Collectors, RouterAnalyzes(c) PROVE TypeOK'
  <2>1. PICK m \in todo[c] :
          /\ seen' = [seen EXCEPT ![c][m] = @ \cup {current[c]}]
          /\ todo' = [todo EXCEPT ![c] = @ \ {m}]
          /\ IF todo[c] = {m}
             THEN current' = [current EXCEPT ![c] = 0] /\ RouterTo(c, "select")
             ELSE UNCHANGED <<current, router>>
    BY <1>14 DEF RouterAnalyzes
  <2>2. current[c] \in 1 .. MaxEvents
    <3>1. current[c] \in 1 .. emitted[c] /\ emitted[c] \in 0 .. MaxEvents
      BY <1>14 DEF RouterAnalyzes, TypeOK, InOnePlace, Held
    <3> QED BY <3>1
  <2>3. seen' \in [Collectors -> [Modules -> SUBSET (1 .. MaxEvents)]]
    BY <2>1, <2>2 DEF TypeOK
  <2>4. todo' \in [Collectors -> SUBSET Modules]
    BY <2>1 DEF TypeOK
  <2>5. /\ current' \in [Collectors -> 0 .. MaxEvents]
        /\ router' \in [Collectors -> {"none", "select", "publish", "analyze", "done"}]
    <3>1. CASE todo[c] = {m}
      <4>1. /\ current' = [current EXCEPT ![c] = 0]
            /\ router' = [router EXCEPT ![c] = "select"]
        BY <2>1, <3>1 DEF RouterTo
      <4>2. 0 \in 0 .. MaxEvents
        BY <1>0
      <4> QED BY <4>1, <4>2 DEF TypeOK
    <3>2. CASE todo[c] # {m}
      BY <2>1, <3>2 DEF TypeOK
    <3> QED BY <3>1, <3>2
  <2> QED BY <1>14, <2>3, <2>4, <2>5 DEF RouterAnalyzes, TypeOK
<1>15. ASSUME NEW s \in Streams, ClientLeaves(s) PROVE TypeOK'
  BY <1>15 DEF ClientLeaves, TypeOK
<1>16. ASSUME NEW h \in Handlers, Inject(h) PROVE TypeOK'
  BY <1>16 DEF Inject, TypeOK
<1>17. ASSUME NEW h \in Handlers, HandlerAnalyzes(h) PROVE TypeOK'
  BY <1>17 DEF HandlerAnalyzes, TypeOK
<1>18. CASE StopBegins
  BY <1>18 DEF StopBegins, TypeOK, StopTo
<1>19. CASE StopWaits
  BY <1>19 DEF StopWaits, TypeOK, StopTo
<1>20. CASE StopModules
  BY <1>20 DEF StopModules, TypeOK, StopTo
<1>21. CASE CloseIntegrations
  BY <1>21 DEF CloseIntegrations, TypeOK, StopTo
<1>22. CASE StopReturns
  BY <1>22 DEF StopReturns, TypeOK, StopTo
<1>23. ASSUME NEW c \in Collectors, StopCollector(c) PROVE TypeOK'
  BY <1>23 DEF StopCollector, TypeOK, StopTo
<1>24. ASSUME NEW m \in Modules, StopModule(m) PROVE TypeOK'
  BY <1>24 DEF StopModule, TypeOK, StopTo
<1>25. ASSUME NEW i \in Integrations, CloseIntegration(i) PROVE TypeOK'
  BY <1>25 DEF CloseIntegration, TypeOK, StopTo
<1>26. CASE Signal
  BY <1>26 DEF Signal, TypeOK, MainTo
<1>27. CASE GrpcStops
  BY <1>27 DEF GrpcStops, TypeOK, MainTo
<1>28. CASE RestStops
  BY <1>28 DEF RestStops, TypeOK, MainTo
<1>29. CASE BusCloses
  BY <1>29 DEF BusCloses, TypeOK, MainTo
<1>30. CASE EmbedderCancels
  <2>1. ctxDone' = TRUE /\ main' = main /\ UNCHANGED <<busClosed, restClosed, restLate>>
        /\ UNCHANGED <<embedded, running, starting, flowVars, compVars, handler,
                       injections, stream, stopping>>
    BY <1>30 DEF EmbedderCancels, MainTo
  <2> QED BY <2>1 DEF TypeOK
<1>31. CASE EmbedderStops
  BY <1>31 DEF EmbedderStops, TypeOK, MainTo
<1>32. CASE UNCHANGED vars
  BY <1>32 DEF vars, TypeOK
<1> QED
  BY <1>1, <1>2, <1>3, <1>4, <1>5, <1>6, <1>7, <1>8,
     <1>9, <1>10, <1>11, <1>12, <1>13, <1>14, <1>15, <1>16,
     <1>17, <1>18, <1>19, <1>20, <1>21, <1>22, <1>23, <1>24,
     <1>25, <1>26, <1>27, <1>28, <1>29, <1>30, <1>31, <1>32
  DEF Next, Starting, Stopping, Routing

(* Every step keeps the order of Start and Stop. *)
LEMMA OrderStep ==
  ASSUME TypeOK, Order, [Next]_vars
  PROVE  Order'
<1> USE DEF startVars, flowVars, compVars, restVars, mainVars
<1>1. CASE StartBegins
  BY <1>1 DEF StartBegins, TypeOK, Order, AllLive, RoutersEnded
<1>2. CASE StartModules
  BY <1>2 DEF StartModules, TypeOK, Order, AllLive, RoutersEnded
<1>3. CASE StartCollectors
  BY <1>3 DEF StartCollectors, TypeOK, Order, AllLive, RoutersEnded
<1>4. CASE StartReturns
  BY <1>4 DEF StartReturns, TypeOK, Order, AllLive, RoutersEnded
<1>5. CASE StartFails
  BY <1>5 DEF StartFails, TypeOK, Order, AllLive, RoutersEnded
<1>6. ASSUME NEW i \in Integrations, InitializeIntegration(i) PROVE Order'
  BY <1>6 DEF InitializeIntegration, TypeOK, Order, AllLive, RoutersEnded
<1>7. ASSUME NEW m \in Modules, StartModule(m) PROVE Order'
  BY <1>7 DEF StartModule, TypeOK, Order, AllLive, RoutersEnded
<1>8. ASSUME NEW c \in Collectors, StartCollector(c) PROVE Order'
  BY <1>8 DEF StartCollector, TypeOK, Order, AllLive, RoutersEnded
<1>9. ASSUME NEW c \in Collectors, Emit(c) PROVE Order'
  BY <1>9 DEF Emit, TypeOK, Order, AllLive, RoutersEnded, RouterTo
<1>10. ASSUME NEW c \in Collectors, StreamTakes(c) PROVE Order'
  BY <1>10 DEF StreamTakes, TypeOK, Order, AllLive, RoutersEnded, RouterTo
<1>11. ASSUME NEW c \in Collectors, RouterExits(c) PROVE Order'
  BY <1>11 DEF RouterExits, TypeOK, Order, AllLive, RoutersEnded, RouterTo
<1>12. ASSUME NEW c \in Collectors, RouterTakes(c) PROVE Order'
  BY <1>12 DEF RouterTakes, TypeOK, Order, AllLive, RoutersEnded, RouterTo
<1>13. ASSUME NEW c \in Collectors, RouterPublishes(c) PROVE Order'
  BY <1>13 DEF RouterPublishes, TypeOK, Order, AllLive, RoutersEnded, RouterTo
<1>14. ASSUME NEW c \in Collectors, RouterAnalyzes(c) PROVE Order'
  BY <1>14 DEF RouterAnalyzes, TypeOK, Order, AllLive, RoutersEnded, RouterTo
<1>15. ASSUME NEW s \in Streams, ClientLeaves(s) PROVE Order'
  BY <1>15 DEF ClientLeaves, TypeOK, Order, AllLive, RoutersEnded
<1>16. ASSUME NEW h \in Handlers, Inject(h) PROVE Order'
  BY <1>16 DEF Inject, TypeOK, Order, AllLive, RoutersEnded
<1>17. ASSUME NEW h \in Handlers, HandlerAnalyzes(h) PROVE Order'
  BY <1>17 DEF HandlerAnalyzes, TypeOK, Order, AllLive, RoutersEnded
<1>18. CASE StopBegins
  BY <1>18 DEF StopBegins, TypeOK, Order, AllLive, RoutersEnded, StopTo
<1>19. CASE StopWaits
  BY <1>19 DEF StopWaits, TypeOK, Order, AllLive, RoutersEnded, StopTo
<1>20. CASE StopModules
  BY <1>20 DEF StopModules, TypeOK, Order, AllLive, RoutersEnded, StopTo
<1>21. CASE CloseIntegrations
  BY <1>21 DEF CloseIntegrations, TypeOK, Order, AllLive, RoutersEnded, StopTo
<1>22. CASE StopReturns
  BY <1>22 DEF StopReturns, TypeOK, Order, AllLive, RoutersEnded, StopTo
<1>23. ASSUME NEW c \in Collectors, StopCollector(c) PROVE Order'
  BY <1>23 DEF StopCollector, TypeOK, Order, AllLive, RoutersEnded, StopTo
<1>24. ASSUME NEW m \in Modules, StopModule(m) PROVE Order'
  BY <1>24 DEF StopModule, TypeOK, Order, AllLive, RoutersEnded, StopTo
<1>25. ASSUME NEW i \in Integrations, CloseIntegration(i) PROVE Order'
  BY <1>25 DEF CloseIntegration, TypeOK, Order, AllLive, RoutersEnded, StopTo
<1>26. CASE Signal
  BY <1>26 DEF Signal, TypeOK, Order, AllLive, RoutersEnded, MainTo
<1>27. CASE GrpcStops
  BY <1>27 DEF GrpcStops, TypeOK, Order, AllLive, RoutersEnded, MainTo
<1>28. CASE RestStops
  BY <1>28 DEF RestStops, TypeOK, Order, AllLive, RoutersEnded, MainTo
<1>29. CASE BusCloses
  BY <1>29 DEF BusCloses, TypeOK, Order, AllLive, RoutersEnded, MainTo
<1>30. CASE EmbedderCancels
  BY <1>30 DEF EmbedderCancels, TypeOK, Order, AllLive, RoutersEnded, MainTo
<1>31. CASE EmbedderStops
  BY <1>31 DEF EmbedderStops, TypeOK, Order, AllLive, RoutersEnded, MainTo
<1>32. CASE UNCHANGED vars
  BY <1>32 DEF vars, TypeOK, Order, AllLive, RoutersEnded
<1> QED
  BY <1>1, <1>2, <1>3, <1>4, <1>5, <1>6, <1>7, <1>8,
     <1>9, <1>10, <1>11, <1>12, <1>13, <1>14, <1>15, <1>16,
     <1>17, <1>18, <1>19, <1>20, <1>21, <1>22, <1>23, <1>24,
     <1>25, <1>26, <1>27, <1>28, <1>29, <1>30, <1>31, <1>32
  DEF Next, Starting, Stopping, Routing

(* Every step keeps what is known of the injecting handlers. *)
LEMMA InjectStep ==
  ASSUME TypeOK, Order, Injecting, [Next]_vars
  PROVE  Injecting'
<1> USE DEF startVars, flowVars, compVars, restVars, mainVars
<1>1. CASE StartBegins
  BY <1>1 DEF StartBegins, TypeOK, Order, Injecting
<1>2. CASE StartModules
  BY <1>2 DEF StartModules, TypeOK, Order, Injecting
<1>3. CASE StartCollectors
  BY <1>3 DEF StartCollectors, TypeOK, Order, Injecting
<1>4. CASE StartReturns
  BY <1>4 DEF StartReturns, TypeOK, Order, Injecting
<1>5. CASE StartFails
  BY <1>5 DEF StartFails, TypeOK, Order, Injecting
<1>6. ASSUME NEW i \in Integrations, InitializeIntegration(i) PROVE Injecting'
  BY <1>6 DEF InitializeIntegration, TypeOK, Order, Injecting
<1>7. ASSUME NEW m \in Modules, StartModule(m) PROVE Injecting'
  BY <1>7 DEF StartModule, TypeOK, Order, Injecting
<1>8. ASSUME NEW c \in Collectors, StartCollector(c) PROVE Injecting'
  BY <1>8 DEF StartCollector, TypeOK, Order, Injecting
<1>9. ASSUME NEW c \in Collectors, Emit(c) PROVE Injecting'
  BY <1>9 DEF Emit, TypeOK, Order, Injecting, RouterTo
<1>10. ASSUME NEW c \in Collectors, StreamTakes(c) PROVE Injecting'
  BY <1>10 DEF StreamTakes, TypeOK, Order, Injecting, RouterTo
<1>11. ASSUME NEW c \in Collectors, RouterExits(c) PROVE Injecting'
  BY <1>11 DEF RouterExits, TypeOK, Order, Injecting, RouterTo
<1>12. ASSUME NEW c \in Collectors, RouterTakes(c) PROVE Injecting'
  BY <1>12 DEF RouterTakes, TypeOK, Order, Injecting, RouterTo
<1>13. ASSUME NEW c \in Collectors, RouterPublishes(c) PROVE Injecting'
  BY <1>13 DEF RouterPublishes, TypeOK, Order, Injecting, RouterTo
<1>14. ASSUME NEW c \in Collectors, RouterAnalyzes(c) PROVE Injecting'
  BY <1>14 DEF RouterAnalyzes, TypeOK, Order, Injecting, RouterTo
<1>15. ASSUME NEW s \in Streams, ClientLeaves(s) PROVE Injecting'
  BY <1>15 DEF ClientLeaves, TypeOK, Order, Injecting
<1>16. ASSUME NEW h \in Handlers, Inject(h) PROVE Injecting'
  BY <1>16 DEF Inject, TypeOK, Order, Injecting
<1>17. ASSUME NEW h \in Handlers, HandlerAnalyzes(h) PROVE Injecting'
  BY <1>17 DEF HandlerAnalyzes, TypeOK, Order, Injecting
<1>18. CASE StopBegins
  BY <1>18 DEF StopBegins, TypeOK, Order, Injecting, StopTo
<1>19. CASE StopWaits
  BY <1>19 DEF StopWaits, TypeOK, Order, Injecting, StopTo
<1>20. CASE StopModules
  BY <1>20 DEF StopModules, TypeOK, Order, Injecting, StopTo
<1>21. CASE CloseIntegrations
  BY <1>21 DEF CloseIntegrations, TypeOK, Order, Injecting, StopTo
<1>22. CASE StopReturns
  BY <1>22 DEF StopReturns, TypeOK, Order, Injecting, StopTo
<1>23. ASSUME NEW c \in Collectors, StopCollector(c) PROVE Injecting'
  BY <1>23 DEF StopCollector, TypeOK, Order, Injecting, StopTo
<1>24. ASSUME NEW m \in Modules, StopModule(m) PROVE Injecting'
  BY <1>24 DEF StopModule, TypeOK, Order, Injecting, StopTo
<1>25. ASSUME NEW i \in Integrations, CloseIntegration(i) PROVE Injecting'
  BY <1>25 DEF CloseIntegration, TypeOK, Order, Injecting, StopTo
<1>26. CASE Signal
  BY <1>26 DEF Signal, TypeOK, Order, Injecting, MainTo
<1>27. CASE GrpcStops
  BY <1>27 DEF GrpcStops, TypeOK, Order, Injecting, MainTo
<1>28. CASE RestStops
  BY <1>28 DEF RestStops, TypeOK, Order, Injecting, MainTo
<1>29. CASE BusCloses
  BY <1>29 DEF BusCloses, TypeOK, Order, Injecting, MainTo
<1>30. CASE EmbedderCancels
  BY <1>30 DEF EmbedderCancels, TypeOK, Order, Injecting, MainTo
<1>31. CASE EmbedderStops
  BY <1>31 DEF EmbedderStops, TypeOK, Order, Injecting, MainTo
<1>32. CASE UNCHANGED vars
  BY <1>32 DEF vars, TypeOK, Order, Injecting
<1> QED
  BY <1>1, <1>2, <1>3, <1>4, <1>5, <1>6, <1>7, <1>8,
     <1>9, <1>10, <1>11, <1>12, <1>13, <1>14, <1>15, <1>16,
     <1>17, <1>18, <1>19, <1>20, <1>21, <1>22, <1>23, <1>24,
     <1>25, <1>26, <1>27, <1>28, <1>29, <1>30, <1>31, <1>32
  DEF Next, Starting, Stopping, Routing

-----------------------------------------------------------------------------
(* The elements of a queue that grows at its end, or loses its first.      *)
LEMMA QueueGrows ==
  ASSUME NEW S, NEW q \in Seq(S), NEW e \in S
  PROVE  /\ Append(q, e) \in Seq(S) /\ Len(Append(q, e)) = Len(q) + 1
         /\ \A k \in 1 .. Len(q) : Append(q, e)[k] = q[k]
         /\ Append(q, e)[Len(q) + 1] = e
         /\ Len(q) \in Nat
BY AppendProperties

LEMMA QueueShrinks ==
  ASSUME NEW S, NEW q \in Seq(S), q # <<>>
  PROVE  /\ Tail(q) \in Seq(S) /\ Len(Tail(q)) = Len(q) - 1 /\ Len(q) \in Nat \ {0}
         /\ \A k \in 1 .. Len(q) - 1 : Tail(q)[k] = q[k + 1]
         /\ Head(q) = q[1] /\ Head(q) \in S
BY HeadTailProperties, EmptySeq

(* A step that leaves the events of a collector alone.                     *)
LEMMA SameFlow ==
  ASSUME NEW c \in Collectors, InOnePlace(c), Delivered(c),
         queue'[c] = queue[c], emitted'[c] = emitted[c], current'[c] = current[c],
         todo'[c] = todo[c], seen'[c] = seen[c], streamed'[c] = streamed[c],
         \/ router'[c] = router[c]
         \/ router[c] \in {"none", "select"} /\ router'[c] \in {"none", "select", "done"}
  PROVE  InOnePlace(c)' /\ Delivered(c)'
<1>1. Waiting(c)' = Waiting(c)
  BY DEF Waiting
<1>2. InOnePlace(c)'
  BY <1>1 DEF InOnePlace, Queued, Taken, Held
<1>3. \A n : OnItsWay(c, n)' <=> OnItsWay(c, n)
  <2>1. CASE router'[c] = router[c]
    BY <1>1, <2>1 DEF OnItsWay
  <2>2. CASE router[c] \in {"none", "select"} /\ router'[c] \in {"none", "select", "done"}
    BY <1>1, <2>2 DEF OnItsWay, InOnePlace, Queued, Taken, Held
  <2> QED BY <2>1, <2>2
<1>4. Delivered(c)'
  BY <1>3 DEF Delivered
<1> QED BY <1>2, <1>4

LEMMA EmitFlow ==
  ASSUME EngInv, NEW c \in Collectors, Emit(c) PROVE InOnePlace(c)' /\ Delivered(c)'
<1> USE DEF startVars, compVars, restVars, mainVars
<1> DEFINE q == queue[c]
           e == emitted[c] + 1
<1>1. /\ q \in Seq(1 .. MaxEvents) /\ e \in 1 .. MaxEvents /\ emitted[c] \in Nat
      /\ queue'[c] = Append(q, e) /\ emitted'[c] = e
      /\ UNCHANGED <<router, current, todo, seen, streamed>>
  BY EngineAssumption DEF Emit, EngInv, TypeOK
<1>2. /\ Len(queue'[c]) = Len(q) + 1 /\ Len(q) \in Nat
      /\ \A k \in 1 .. Len(q) : queue'[c][k] = q[k]
      /\ queue'[c][Len(q) + 1] = e
  BY <1>1, QueueGrows
<1>3. Waiting(c)' = Waiting(c) \cup {e}
  BY <1>2 DEF Waiting
<1>4. InOnePlace(c) /\ Delivered(c)
  BY DEF EngInv
<1>5. \A j, k \in 1 .. Len(queue'[c]) : queue'[c][j] = queue'[c][k] => j = k
  <2>1. \A k \in 1 .. Len(q) : q[k] \in 1 .. emitted[c] /\ q[k] # e
    BY <1>1, <1>4 DEF InOnePlace, Queued, Taken, Held, Waiting
  <2> QED BY <1>2, <1>4, <2>1 DEF InOnePlace, Queued, Taken, Held
<1>6. e \notin 1 .. emitted[c] /\ 1 .. emitted'[c] = 1 .. emitted[c] \cup {e} /\ e # 0
  BY <1>1
<1>7. e # current[c] /\ e \notin streamed[c] /\ \A m \in Modules : e \notin seen[c][m]
  <2>1. router[c] \in {"none", "select", "publish", "analyze", "done"}
    BY DEF EngInv, TypeOK
  <2>2. current[c] = 0 \/ current[c] \in 1 .. emitted[c]
    BY <1>4, <2>1 DEF InOnePlace, Held
  <2> HIDE DEF e
  <2> QED BY <1>4, <1>6, <2>2 DEF InOnePlace, Taken
<1> HIDE DEF e, q
<1>8. InOnePlace(c)'
  <2>1. 1 .. emitted[c] \subseteq 1 .. emitted'[c]
    BY <1>6
  <2>2. Queued(c)'
    BY <1>1, <1>3, <1>4, <1>5, <1>6, <1>7 DEF InOnePlace, Queued
  <2>3. Taken(c)'
    BY <1>1, <1>4, <2>1 DEF InOnePlace, Taken
  <2>4. Held(c)'
    BY <1>1, <1>4, <2>1 DEF InOnePlace, Held
  <2> QED BY <2>2, <2>3, <2>4 DEF InOnePlace
<1>9. Delivered(c)'
  <2>1. \A n \in 1 .. emitted[c] : OnItsWay(c, n)' <=> OnItsWay(c, n)
    BY <1>1, <1>3, <1>6 DEF OnItsWay
  <2>2. e \in Waiting(c)'
    BY <1>3
  <2>3. ASSUME NEW n \in 1 .. emitted'[c]
        PROVE  OnItsWay(c, n)' <=> n \notin streamed'[c]
    <3>1. CASE n = e
      BY <1>1, <1>7, <2>2, <3>1 DEF OnItsWay
    <3>2. CASE n \in 1 .. emitted[c]
      BY <1>1, <1>4, <2>1, <3>2 DEF Delivered
    <3> QED BY <1>6, <2>3, <3>1, <3>2
  <2> QED BY <2>3 DEF Delivered
<1> QED BY <1>8, <1>9

(* The head of a queue leaves it for the router or a stream.               *)
LEMMA HeadLeaves ==
  ASSUME EngInv, NEW c \in Collectors, queue[c] # <<>>, queue'[c] = Tail(queue[c])
  PROVE  /\ Head(queue[c]) \in Waiting(c)
         /\ Waiting(c)' = Waiting(c) \ {Head(queue[c])}
         /\ \A j, k \in 1 .. Len(queue'[c]) : queue'[c][j] = queue'[c][k] => j = k
<1> DEFINE q == queue[c]
<1>1. q \in Seq(1 .. MaxEvents)
  BY DEF EngInv, TypeOK
<1>2. /\ Len(queue'[c]) = Len(q) - 1 /\ Len(q) \in Nat \ {0}
      /\ \A k \in 1 .. Len(q) - 1 : queue'[c][k] = q[k + 1]
      /\ Head(q) = q[1]
  BY <1>1, QueueShrinks
<1>3. \A j, k \in 1 .. Len(q) : q[j] = q[k] => j = k
  BY DEF EngInv, InOnePlace, Queued, Taken, Held
<1>4. \A k \in 1 .. Len(q) : k = 1 \/ (k - 1 \in 1 .. Len(q) - 1 /\ queue'[c][k - 1] = q[k])
  BY <1>2
<1> QED BY <1>2, <1>3, <1>4 DEF Waiting

LEMMA TakeFlow ==
  ASSUME EngInv, NEW c \in Collectors, RouterTakes(c)
  PROVE  InOnePlace(c)' /\ Delivered(c)'
<1> DEFINE h == Head(queue[c])
<1>1. /\ router[c] = "select" /\ router'[c] = "publish" /\ queue[c] # <<>>
      /\ queue'[c] = Tail(queue[c]) /\ current'[c] = h
      /\ UNCHANGED <<emitted, todo, seen, streamed>>
  BY DEF RouterTakes, RouterTo, EngInv, TypeOK
<1>2. /\ h \in Waiting(c) /\ Waiting(c)' = Waiting(c) \ {h}
      /\ \A j, k \in 1 .. Len(queue'[c]) : queue'[c][j] = queue'[c][k] => j = k
  BY <1>1, HeadLeaves
<1>3. InOnePlace(c) /\ Delivered(c)
  BY DEF EngInv
<1> HIDE DEF h
<1>4. InOnePlace(c)'
  BY <1>1, <1>2, <1>3 DEF InOnePlace, Queued, Taken, Held
<1>5. \A n \in 1 .. emitted[c] : OnItsWay(c, n)' <=> OnItsWay(c, n)
  BY <1>1, <1>2, <1>3 DEF OnItsWay, InOnePlace, Queued, Taken, Held
<1>6. Delivered(c)'
  BY <1>1, <1>3, <1>5 DEF Delivered
<1> QED BY <1>4, <1>6

LEMMA PublishFlow ==
  ASSUME EngInv, NEW c \in Collectors, RouterPublishes(c)
  PROVE  InOnePlace(c)' /\ Delivered(c)'
<1>1. /\ router[c] = "publish" /\ router'[c] = "analyze" /\ todo'[c] = Modules
      /\ UNCHANGED <<queue, emitted, current, seen, streamed>>
  BY DEF RouterPublishes, RouterTo, EngInv, TypeOK
<1>2. InOnePlace(c) /\ Delivered(c) /\ Waiting(c)' = Waiting(c)
  BY <1>1 DEF EngInv, Waiting
<1>3. InOnePlace(c)'
  BY <1>1, <1>2 DEF InOnePlace, Queued, Taken, Held
<1>4. \A n : OnItsWay(c, n)' <=> OnItsWay(c, n)
  BY <1>1, <1>2 DEF OnItsWay, InOnePlace, Queued, Taken, Held
<1>5. Delivered(c)'
  BY <1>1, <1>2, <1>4 DEF Delivered
<1> QED BY <1>3, <1>5

LEMMA AnalyzeFlow ==
  ASSUME EngInv, NEW c \in Collectors, RouterAnalyzes(c)
  PROVE  InOnePlace(c)' /\ Delivered(c)'
<1>1. PICK m \in todo[c] :
        /\ seen' = [seen EXCEPT ![c][m] = @ \cup {current[c]}]
        /\ todo' = [todo EXCEPT ![c] = @ \ {m}]
        /\ IF todo[c] = {m}
           THEN current' = [current EXCEPT ![c] = 0] /\ RouterTo(c, "select")
           ELSE UNCHANGED <<current, router>>
  BY DEF RouterAnalyzes
<1>2. /\ seen \in [Collectors -> [Modules -> SUBSET (1 .. MaxEvents)]]
      /\ todo[c] \subseteq Modules /\ todo \in [Collectors -> SUBSET Modules]
      /\ DOMAIN current = Collectors /\ DOMAIN router = Collectors
  BY DEF EngInv, TypeOK
<1>3. /\ router[c] = "analyze" /\ todo'[c] = todo[c] \ {m}
      /\ \A x \in Modules :
           seen'[c][x] = IF x = m THEN seen[c][x] \cup {current[c]} ELSE seen[c][x]
      /\ UNCHANGED <<queue, emitted, streamed>>
  BY <1>1, <1>2 DEF RouterAnalyzes
<1>4. /\ todo[c] = {m} => current'[c] = 0 /\ router'[c] = "select"
      /\ todo[c] # {m} => current'[c] = current[c] /\ router'[c] = "analyze"
  BY <1>1, <1>2, <1>3 DEF RouterTo
<1>5. InOnePlace(c) /\ Delivered(c) /\ Waiting(c)' = Waiting(c)
  BY <1>3 DEF EngInv, Waiting
<1>6. current[c] \notin Waiting(c) /\ current[c] \in 1 .. emitted[c] /\ 0 \notin 1 .. emitted[c]
  BY <1>3, <1>5 DEF InOnePlace, Queued, Taken, Held
<1>7. InOnePlace(c)'
  <2>1. current[c] \notin streamed[c] /\ current[c] \notin seen[c][m]
    BY <1>3, <1>5 DEF InOnePlace, Held
  <2>2. Queued(c)'
    <3>1. ASSUME NEW n \in Waiting(c)'
          PROVE  /\ n \in 1 .. emitted'[c] /\ n # current'[c] /\ n \notin streamed'[c]
                 /\ \A x \in Modules : n \notin seen'[c][x]
      <4>1. /\ n \in 1 .. emitted[c] /\ n # current[c] /\ n \notin streamed[c]
            /\ \A x \in Modules : n \notin seen[c][x]
        BY <1>5, <3>1 DEF InOnePlace, Queued
      <4>2. n # current'[c]
        BY <1>4, <1>6, <4>1
      <4>3. \A x \in Modules : n \notin seen'[c][x]
        BY <1>3, <4>1
      <4> QED BY <1>3, <4>1, <4>2, <4>3
    <3> QED BY <1>3, <1>5, <3>1 DEF InOnePlace, Queued
  <2>3. Taken(c)'
    <3>1. ASSUME NEW x \in Modules
          PROVE  seen'[c][x] \subseteq 1 .. emitted'[c] /\ seen'[c][x] \cap streamed'[c] = {}
      BY <1>3, <1>5, <1>6, <2>1, <3>1 DEF InOnePlace, Taken
    <3> QED BY <1>3, <1>5, <3>1 DEF InOnePlace, Taken
  <2>4. Held(c)'
    <3>1. CASE todo[c] = {m}
      <4>1. todo'[c] = {} /\ current'[c] = 0 /\ router'[c] = "select"
        BY <1>3, <1>4, <3>1
      <4> QED BY <4>1 DEF Held
    <3>2. CASE todo[c] # {m}
      BY <1>2, <1>3, <1>4, <1>5, <3>2 DEF InOnePlace, Held
    <3> QED BY <3>1, <3>2
  <2> QED BY <2>2, <2>3, <2>4 DEF InOnePlace
<1>8. \A n \in 1 .. emitted[c] : OnItsWay(c, n)' <=> OnItsWay(c, n)
  BY <1>2, <1>3, <1>4, <1>5, <1>6 DEF OnItsWay, InOnePlace, Queued, Taken, Held
<1>9. Delivered(c)'
  BY <1>3, <1>5, <1>8 DEF Delivered
<1> QED BY <1>7, <1>9

LEMMA StreamFlow ==
  ASSUME EngInv, NEW c \in Collectors, StreamTakes(c)
  PROVE  InOnePlace(c)' /\ Delivered(c)'
<1>0. PICK h : h = Head(queue[c])
  OBVIOUS
<1>1. /\ queue[c] # <<>> /\ queue'[c] = Tail(queue[c])
      /\ streamed'[c] = streamed[c] \cup {h}
      /\ UNCHANGED <<emitted, router, current, todo, seen>>
  BY <1>0 DEF StreamTakes, EngInv, TypeOK
<1>2. /\ h \in Waiting(c) /\ Waiting(c)' = Waiting(c) \ {h}
      /\ \A j, k \in 1 .. Len(queue'[c]) : queue'[c][j] = queue'[c][k] => j = k
  BY <1>0, <1>1, HeadLeaves
<1>3. InOnePlace(c) /\ Delivered(c) /\ Modules # {}
  BY EngineAssumption DEF EngInv
<1>4. h \in 1 .. emitted[c] /\ h # current[c] /\ \A m \in Modules : h \notin seen[c][m]
  BY <1>2, <1>3 DEF InOnePlace, Queued
<1>5. InOnePlace(c)'
  <2>1. Queued(c)'
    BY <1>1, <1>2, <1>3 DEF InOnePlace, Queued
  <2>2. Taken(c)'
    BY <1>1, <1>3, <1>4 DEF InOnePlace, Taken
  <2>3. Held(c)'
    BY <1>1, <1>3, <1>4 DEF InOnePlace, Held
  <2> QED BY <2>1, <2>2, <2>3 DEF InOnePlace
<1>6. Delivered(c)'
  <2>1. ASSUME NEW n \in 1 .. emitted[c]
        PROVE  OnItsWay(c, n)' <=> n \notin streamed'[c]
    <3>1. CASE n = h
      <4>1. n \notin Waiting(c)' /\ n \in streamed'[c] /\ n # current'[c]
            /\ \A m \in Modules : n \notin seen'[c][m]
        BY <1>1, <1>2, <1>4, <3>1
      <4> QED BY <1>3, <4>1 DEF OnItsWay
    <3>2. CASE n # h
      <4>1. OnItsWay(c, n)' <=> OnItsWay(c, n)
        BY <1>1, <1>2, <3>2 DEF OnItsWay
      <4> QED BY <1>1, <1>3, <3>2, <4>1 DEF Delivered
    <3> QED BY <3>1, <3>2
  <2> QED BY <1>1, <2>1 DEF Delivered
<1> QED BY <1>5, <1>6

(* Every step keeps each collector's events in one place.                  *)
LEMMA FlowStep ==
  ASSUME EngInv, [Next]_vars
  PROVE  \A c \in Collectors : InOnePlace(c)' /\ Delivered(c)'
<1> USE DEF startVars, flowVars, compVars, restVars, mainVars
<1>1. CASE UNCHANGED flowVars
  BY <1>1, SameFlow DEF EngInv
<1>2. CASE \E d \in Collectors : StartCollector(d)
  <2>1. PICK d \in Collectors : StartCollector(d)
    BY <1>2
  <2>2. /\ router[d] = "none" /\ router' = [router EXCEPT ![d] = "select"]
        /\ UNCHANGED <<queue, emitted, current, todo, seen, streamed>>
    BY <2>1 DEF StartCollector, EngInv, Order
  <2>3. \A c \in Collectors : router'[c] = router[c] \/ (router[c] = "none" /\ router'[c] = "select")
    BY <2>2 DEF EngInv, TypeOK
  <2> QED BY <2>2, <2>3, SameFlow DEF EngInv
<1>3. CASE \E d \in Collectors : RouterExits(d)
  <2>1. PICK d \in Collectors : RouterExits(d)
    BY <1>3
  <2>2. /\ router[d] = "select" /\ router' = [router EXCEPT ![d] = "done"]
        /\ UNCHANGED <<queue, emitted, current, todo, seen, streamed>>
    BY <2>1 DEF RouterExits, RouterTo
  <2>3. \A c \in Collectors : router'[c] = router[c] \/ (router[c] = "select" /\ router'[c] = "done")
    BY <2>2 DEF EngInv, TypeOK
  <2> QED BY <2>2, <2>3, SameFlow DEF EngInv
<1>4. ASSUME NEW d \in Collectors,
             Emit(d) \/ StreamTakes(d) \/ RouterTakes(d) \/ RouterPublishes(d) \/ RouterAnalyzes(d)
      PROVE  \A c \in Collectors : InOnePlace(c)' /\ Delivered(c)'
  <2>1. InOnePlace(d)' /\ Delivered(d)'
    BY <1>4, EmitFlow, StreamFlow, TakeFlow, PublishFlow, AnalyzeFlow
  <2>2. ASSUME NEW c \in Collectors \ {d}
        PROVE  /\ queue'[c] = queue[c] /\ emitted'[c] = emitted[c] /\ current'[c] = current[c]
               /\ todo'[c] = todo[c] /\ seen'[c] = seen[c] /\ streamed'[c] = streamed[c]
               /\ router'[c] = router[c]
    BY <1>4 DEF Emit, StreamTakes, RouterTakes, RouterPublishes, RouterAnalyzes, RouterTo,
                EngInv, TypeOK
  <2> QED BY <2>1, <2>2, SameFlow DEF EngInv
<1>5. CASE Starting \/ Stopping \/ Signal \/ GrpcStops \/ RestStops \/ BusCloses
           \/ EmbedderCancels \/ EmbedderStops
           \/ (\E s \in Streams : ClientLeaves(s))
           \/ (\E h \in Handlers : Inject(h) \/ HandlerAnalyzes(h))
  <2>1. UNCHANGED flowVars \/ \E d \in Collectors : StartCollector(d)
    BY <1>5 DEF Starting, StartBegins, StartModules, StartCollectors, StartReturns, StartFails,
         InitializeIntegration, StartModule,
         Stopping, StopTo, StopBegins, StopWaits, StopModules, CloseIntegrations, StopReturns,
         StopCollector, StopModule, CloseIntegration,
         MainTo, Signal, GrpcStops, RestStops, BusCloses, EmbedderCancels, EmbedderStops,
         ClientLeaves, Inject, HandlerAnalyzes
  <2> QED BY <1>1, <1>2, <2>1
<1>6. CASE UNCHANGED vars
  BY <1>1, <1>6 DEF vars
<1> QED BY <1>3, <1>4, <1>5, <1>6 DEF Next, Routing

-----------------------------------------------------------------------------
LEMMA EngInit == Init => EngInv
<1> SUFFICES ASSUME Init PROVE EngInv
  OBVIOUS
<1>0. MaxEvents \in Nat /\ Capacity \in Nat /\ MaxInjections \in Nat
  BY EngineAssumption
<1>1. TypeOK
  <2>1. <<>> \in Seq(1 .. MaxEvents) /\ Len(<<>>) = 0
    OBVIOUS
  <2>2. /\ 0 \in 0 .. MaxEvents /\ 0 \in 0 .. MaxInjections /\ 0 <= Capacity
        /\ {} \in SUBSET (1 .. MaxEvents) /\ {} \in SUBSET Modules
    BY <1>0
  <2>3. /\ queue \in [Collectors -> Seq(1 .. MaxEvents)]
        /\ \A c \in Collectors : Len(queue[c]) <= Capacity
    BY <2>1, <2>2 DEF Init
  <2>4. seen \in [Collectors -> [Modules -> SUBSET (1 .. MaxEvents)]]
    BY <2>2 DEF Init
  <2> QED BY <2>2, <2>3, <2>4 DEF Init, TypeOK
<1>2. Order /\ Injecting
  BY DEF Init, Order, RoutersEnded, AllLive, Injecting
<1>3. ASSUME NEW c \in Collectors PROVE InOnePlace(c) /\ Delivered(c)
  <2>1. /\ queue[c] = <<>> /\ emitted[c] = 0 /\ router[c] = "none" /\ current[c] = 0
        /\ todo[c] = {} /\ streamed[c] = {} /\ \A m \in Modules : seen[c][m] = {}
    BY DEF Init
  <2>2. 1 .. emitted[c] = {} /\ 1 .. Len(queue[c]) = {} /\ Waiting(c) = {}
    BY <2>1 DEF Waiting
  <2> QED BY <2>1, <2>2 DEF InOnePlace, Queued, Taken, Held, Delivered
<1> QED BY <1>1, <1>2, <1>3 DEF EngInv

LEMMA EngNext == EngInv /\ [Next]_vars => EngInv'
<1> SUFFICES ASSUME EngInv, [Next]_vars PROVE EngInv'
  OBVIOUS
<1>1. TypeOK' /\ Order' /\ Injecting'
  BY TypeStep, OrderStep, InjectStep DEF EngInv
<1>2. \A c \in Collectors : InOnePlace(c)' /\ Delivered(c)'
  BY FlowStep
<1> QED BY <1>1, <1>2 DEF EngInv

LEMMA EngInductive == Spec => []EngInv
<1> QED BY EngInit, EngNext, PTL DEF Spec

(* Of every number of components, the engine's state has its types.        *)
THEOREM EngineTypes == Spec => []TypeOK
<1>1. EngInv => TypeOK
  BY DEF EngInv
<1> QED BY <1>1, EngInductive, PTL

(* No router meets a module that is not started or already stopped, or a   *)
(* closed bus: Stop stops no module before every router has returned       *)
(* (engine.go 58-74, 133-149).                                             *)
THEOREM RoutersSafe == Spec => []RoutersMeetLiveModules
<1>1. ASSUME EngInv PROVE RoutersMeetLiveModules
  <2>1. SUFFICES ASSUME NEW c \in Collectors, router[c] \in {"publish", "analyze"}
                 PROVE  AllLive /\ ~busClosed
    BY DEF RoutersMeetLiveModules, AllLive
  <2>2. ~RoutersEnded
    BY <2>1 DEF RoutersEnded
  <2>3. stopping \in {"idle", "waiting"}
    BY <1>1, <2>2 DEF EngInv, Order
  <2> QED BY <1>1, <2>2, <2>3 DEF EngInv, Order
<1> QED BY <1>1, EngInductive, PTL

(* No REST handler meets a module that is not started or already stopped,  *)
(* unless the REST server gave up waiting for it (main.go 341-350).        *)
THEOREM HandlersSafe == Spec => []HandlersMeetLiveModules
<1>1. ASSUME EngInv PROVE HandlersMeetLiveModules
  <2>1. SUFFICES ASSUME NEW h \in Handlers, NEW m \in handler[h], ~restLate
                 PROVE  module[m] = "live"
    BY DEF HandlersMeetLiveModules
  <2>2. starting = "started" /\ main \notin {"engine", "exited"} /\ m \in Modules
    BY <1>1, <2>1 DEF EngInv, Injecting, TypeOK
  <2>3. stopping = "idle"
    BY <1>1, <2>2 DEF EngInv, Order
  <2> QED BY <1>1, <2>2, <2>3 DEF EngInv, Order, AllLive
<1> QED BY <1>1, EngInductive, PTL

(* Stop leaves no router, collector, module or integration running, also   *)
(* after a Start that failed half-way (engine.go 50-77, 116-160).          *)
THEOREM StopComplete == Spec => []StopIsComplete
<1>1. ASSUME EngInv PROVE StopIsComplete
  BY <1>1 DEF EngInv, Order, RoutersEnded, StopIsComplete
<1> QED BY <1>1, EngInductive, PTL

(* Every event a collector has sent and no stream has taken is on its way  *)
(* to every module or has reached it, and no other (engine.go 80-113).     *)
THEOREM NoEventLost == Spec => []EventsDelivered
<1>1. EngInv => EventsDelivered
  BY DEF EngInv, Delivered, EventsDelivered
<1> QED BY <1>1, EngInductive, PTL
=============================================================================
