--------------------------- MODULE EngineLifecycle ---------------------------
(***************************************************************************)
(* The engine (core/engine/engine.go) between its collectors and its       *)
(* intelligence modules, from Start to the end of the shutdown sequence of *)
(* cmd/kronveil/main.go, with the other users of the same objects: REST    *)
(* handlers that call Analyze and gRPC streams that receive from the       *)
(* collectors' channels.                                                   *)
(*                                                                         *)
(* A collector is what CollectorContract promises, with a Stop that        *)
(* returns; modules, integrations and the bus are live or not.  The        *)
(* registry keeps its components in maps, so every loop over them takes    *)
(* them in any order.  The events of a collector are numbered.             *)
(***************************************************************************)
EXTENDS Naturals, Sequences, FiniteSets

CONSTANTS
  Collectors, Modules, Integrations,
  Handlers,     \* REST handlers that inject events
  Streams,      \* gRPC event streams; a stream ends when its client leaves
  Embeddings,   \* a set of Booleans, the programs to consider.  FALSE: the
                \* agent of main.go, which cancels its context before it stops
                \* the engine; TRUE: a program that relies on Stop, as
                \* core/engine/engine_test.go does
  Capacity,     \* of a collector's channel
  MaxEvents,    \* bound on the events of a collector
  MaxInjections \* bound on the injected events

ASSUME EngineAssumption ==
  /\ Embeddings \subseteq BOOLEAN
  /\ Modules # {}
  /\ Capacity \in Nat /\ MaxEvents \in Nat /\ MaxInjections \in Nat

VARIABLES
  embedded,   \* which program this is; never changes
  running,    \* e.running
  starting,   \* where Start is
  ctxDone,    \* the context given to Start is cancelled
  phase,      \* of each collector: created, running or halted
  queue,      \* the events in each collector's channel
  emitted,    \* events each collector has sent
  router,     \* where the goroutine routeEvents of each collector is
  current,    \* the event it routes (0: none)
  todo,       \* the modules that have not analysed that event
  seen,       \* history: events of a collector each module has analysed
  streamed,   \* history: events of a collector a gRPC stream has taken
  module,     \* of each module: new, live or stopped
  integration,\* of each integration: new, live or closed
  stopping,   \* where Stop is
  main,       \* where main.go is
  busClosed,  \* the event bus is closed
  handler,    \* the modules each REST handler has still to call
  injections, \* injected events
  restClosed, \* the REST server takes no more requests
  restLate,   \* its shutdown gave up waiting for requests under way
  stream      \* the open gRPC streams

startVars == <<embedded, running, starting, ctxDone>>
flowVars  == <<queue, emitted, router, current, todo, seen, streamed>>
compVars  == <<phase, module, integration>>
restVars  == <<handler, injections, restClosed, restLate>>
mainVars  == <<main, busClosed, stream>>
vars == <<startVars, flowVars, compVars, restVars, mainVars, stopping>>

Init ==
  /\ embedded \in Embeddings
  /\ running = FALSE
  /\ starting = "idle"
  /\ ctxDone = FALSE
  /\ phase = [c \in Collectors |-> "created"]
  /\ queue = [c \in Collectors |-> <<>>]
  /\ emitted = [c \in Collectors |-> 0]
  /\ router = [c \in Collectors |-> "none"]
  /\ current = [c \in Collectors |-> 0]
  /\ todo = [c \in Collectors |-> {}]
  /\ seen = [c \in Collectors |-> [m \in Modules |-> {}]]
  /\ streamed = [c \in Collectors |-> {}]
  /\ module = [m \in Modules |-> "new"]
  /\ integration = [i \in Integrations |-> "new"]
  /\ stopping = "idle"
  /\ main = "up"
  /\ busClosed = FALSE
  /\ handler = [h \in Handlers |-> {}]
  /\ injections = 0
  /\ restClosed = FALSE
  /\ restLate = FALSE
  /\ stream = Streams

-----------------------------------------------------------------------------
(* Start.  Any component may refuse to start: Start returns the error and  *)
(* leaves what it has started as it is.                                    *)

StartBegins ==
  /\ starting = "idle"
  /\ ~running
  /\ running' = TRUE
  /\ starting' = "integrations"
  /\ UNCHANGED <<embedded, ctxDone, flowVars, compVars, restVars, mainVars, stopping>>

InitializeIntegration(i) ==
  /\ starting = "integrations"
  /\ integration[i] = "new"
  /\ integration' = [integration EXCEPT ![i] = "live"]
  /\ UNCHANGED <<startVars, flowVars, phase, module, restVars, mainVars, stopping>>

StartModules ==
  /\ starting = "integrations"
  /\ \A i \in Integrations : integration[i] = "live"
  /\ starting' = "modules"
  /\ UNCHANGED <<embedded, running, ctxDone, flowVars, compVars, restVars, mainVars, stopping>>

StartModule(m) ==
  /\ starting = "modules"
  /\ module[m] = "new"
  /\ module' = [module EXCEPT ![m] = "live"]
  /\ UNCHANGED <<startVars, flowVars, phase, integration, restVars, mainVars, stopping>>

(* A slip: starting the collectors while modules are still being started.  *)
StartCollectorsEarly ==
  /\ starting = "modules"
  /\ starting' = "collectors"
  /\ UNCHANGED <<embedded, running, ctxDone, flowVars, compVars, restVars, mainVars, stopping>>

StartCollectors ==
  /\ starting = "modules"
  /\ \A m \in Modules : module[m] = "live"
  /\ starting' = "collectors"
  /\ UNCHANGED <<embedded, running, ctxDone, flowVars, compVars, restVars, mainVars, stopping>>

(* col.Start, e.wg.Add(1) and go e.routeEvents.                            *)
StartCollector(c) ==
  /\ starting = "collectors"
  /\ phase[c] = "created"
  /\ phase' = [phase EXCEPT ![c] = "running"]
  /\ router' = [router EXCEPT ![c] = "select"]
  /\ UNCHANGED <<startVars, queue, emitted, current, todo, seen, streamed, module,
                 integration, restVars, mainVars, stopping>>

StartReturns ==
  /\ starting = "collectors"
  /\ \A c \in Collectors : phase[c] # "created"
  /\ starting' = "started"
  /\ UNCHANGED <<embedded, running, ctxDone, flowVars, compVars, restVars, mainVars, stopping>>

StartFails ==
  /\ \/ starting = "integrations" /\ \E i \in Integrations : integration[i] = "new"
     \/ starting = "modules" /\ \E m \in Modules : module[m] = "new"
     \/ starting = "collectors" /\ \E c \in Collectors : phase[c] = "created"
  /\ starting' = "failed"
  /\ main' = IF embedded THEN main ELSE "exited"   \* log.Fatalf
  /\ UNCHANGED <<embedded, running, ctxDone, flowVars, compVars, restVars, busClosed,
                 stream, stopping>>

-----------------------------------------------------------------------------
(* Events: from a collector through its router to every module.            *)

(* A slip: a channel without a bound.                                      *)
EmitUnbounded(c) ==
  /\ phase[c] = "running"
  /\ emitted[c] < MaxEvents
  /\ emitted' = [emitted EXCEPT ![c] = @ + 1]
  /\ queue' = [queue EXCEPT ![c] = Append(@, emitted[c] + 1)]
  /\ UNCHANGED <<startVars, router, current, todo, seen, streamed, compVars, restVars,
                 mainVars, stopping>>

(* A running collector sends without blocking.                             *)
Emit(c) ==
  /\ phase[c] = "running"
  /\ emitted[c] < MaxEvents
  /\ Len(queue[c]) < Capacity
  /\ emitted' = [emitted EXCEPT ![c] = @ + 1]
  /\ queue' = [queue EXCEPT ![c] = Append(@, emitted[c] + 1)]
  /\ UNCHANGED <<startVars, router, current, todo, seen, streamed, compVars, restVars,
                 mainVars, stopping>>

RouterTo(c, step) == router' = [router EXCEPT ![c] = step]

(* A slip: leaving only when the channel is closed.                        *)
RouterExitsOnClose(c) ==
  /\ router[c] = "select"
  /\ phase[c] = "halted" /\ queue[c] = <<>>
  /\ RouterTo(c, "done")
  /\ UNCHANGED <<startVars, queue, emitted, current, todo, seen, streamed, compVars,
                 restVars, mainVars, stopping>>

(* The context is done, or the channel is closed and empty.                *)
RouterExits(c) ==
  /\ router[c] = "select"
  /\ ctxDone \/ (phase[c] = "halted" /\ queue[c] = <<>>)
  /\ RouterTo(c, "done")
  /\ UNCHANGED <<startVars, queue, emitted, current, todo, seen, streamed, compVars,
                 restVars, mainVars, stopping>>

(* select may choose the event although the context is done.               *)
RouterTakes(c) ==
  /\ router[c] = "select"
  /\ queue[c] # <<>>
  /\ current' = [current EXCEPT ![c] = Head(queue[c])]
  /\ queue' = [queue EXCEPT ![c] = Tail(@)]
  /\ RouterTo(c, "publish")
  /\ UNCHANGED <<startVars, emitted, todo, seen, streamed, compVars, restVars,
                 mainVars, stopping>>

(* A slip: an error of the bus keeps the event from the modules.           *)
PublishOrSkip(c) ==
  /\ router[c] = "publish"
  /\ \/ /\ todo' = [todo EXCEPT ![c] = Modules]
        /\ RouterTo(c, "analyze")
        /\ UNCHANGED current
     \/ /\ current' = [current EXCEPT ![c] = 0]
        /\ RouterTo(c, "select")
        /\ UNCHANGED todo
  /\ UNCHANGED <<startVars, queue, emitted, seen, streamed, compVars, restVars,
                 mainVars, stopping>>

(* Whether the bus accepts the event or not, the modules get it.           *)
RouterPublishes(c) ==
  /\ router[c] = "publish"
  /\ todo' = [todo EXCEPT ![c] = Modules]
  /\ RouterTo(c, "analyze")
  /\ UNCHANGED <<startVars, queue, emitted, current, seen, streamed, compVars,
                 restVars, mainVars, stopping>>

RouterAnalyzes(c) ==
  /\ router[c] = "analyze"
  /\ \E m \in todo[c] :
       /\ seen' = [seen EXCEPT ![c][m] = @ \cup {current[c]}]
       /\ todo' = [todo EXCEPT ![c] = @ \ {m}]
       /\ IF todo[c] = {m}
          THEN current' = [current EXCEPT ![c] = 0] /\ RouterTo(c, "select")
          ELSE UNCHANGED <<current, router>>
  /\ UNCHANGED <<startVars, queue, emitted, streamed, compVars, restVars, mainVars,
                 stopping>>

(* handleStreamEvents receives from the same channel as the router; the    *)
(* gRPC server starts after the engine.                                    *)
StreamTakes(c) ==
  /\ ~embedded
  /\ starting = "started"
  /\ stream # {}
  /\ queue[c] # <<>>
  /\ streamed' = [streamed EXCEPT ![c] = @ \cup {Head(queue[c])}]
  /\ queue' = [queue EXCEPT ![c] = Tail(@)]
  /\ UNCHANGED <<startVars, emitted, router, current, todo, seen, compVars,
                 restVars, mainVars, stopping>>

ClientLeaves(s) ==
  /\ s \in stream
  /\ stream' = stream \ {s}
  /\ UNCHANGED <<startVars, flowVars, compVars, restVars, main, busClosed,
                 stopping>>

(* A REST request injects an event; its goroutine calls every module.      *)
Inject(h) ==
  /\ ~embedded
  /\ starting = "started"
  /\ ~restClosed
  /\ injections < MaxInjections
  /\ handler[h] = {}
  /\ handler' = [handler EXCEPT ![h] = Modules]
  /\ injections' = injections + 1
  /\ UNCHANGED <<startVars, flowVars, compVars, restClosed, restLate, mainVars,
                 stopping>>

HandlerAnalyzes(h) ==
  /\ \E m \in handler[h] : handler' = [handler EXCEPT ![h] = @ \ {m}]
  /\ UNCHANGED <<startVars, flowVars, compVars, injections, restClosed,
                 restLate, mainVars, stopping>>

-----------------------------------------------------------------------------
(* Stop.  Its e.cancel() cancels a context nobody watches.                 *)

StopTo(step) ==
  /\ stopping' = step
  /\ UNCHANGED <<embedded, ctxDone, starting, flowVars, restVars, mainVars>>

StopBegins ==
  /\ main = "engine"
  /\ stopping = "idle"
  /\ running' = FALSE
  /\ StopTo(IF running THEN "waiting" ELSE "returned")
  /\ UNCHANGED compVars

(* A slip: not waiting for the routers.                                    *)
StopSkipsWait ==
  /\ stopping = "waiting"
  /\ StopTo("collectors")
  /\ UNCHANGED <<running, compVars>>

(* e.wg.Wait().                                                            *)
StopWaits ==
  /\ stopping = "waiting"
  /\ \A c \in Collectors : router[c] \in {"none", "done"}
  /\ StopTo("collectors")
  /\ UNCHANGED <<running, compVars>>

StopCollector(c) ==
  /\ stopping = "collectors"
  /\ phase[c] = "running"
  /\ phase' = [phase EXCEPT ![c] = "halted"]
  /\ StopTo(stopping)
  /\ UNCHANGED <<running, module, integration>>

StopModules ==
  /\ stopping = "collectors"
  /\ \A c \in Collectors : phase[c] # "running"
  /\ StopTo("modules")
  /\ UNCHANGED <<running, compVars>>

(* Every registered module, started or not.                                *)
StopModule(m) ==
  /\ stopping = "modules"
  /\ module[m] # "stopped"
  /\ module' = [module EXCEPT ![m] = "stopped"]
  /\ StopTo(stopping)
  /\ UNCHANGED <<running, phase, integration>>

CloseIntegrations ==
  /\ stopping = "modules"
  /\ \A m \in Modules : module[m] = "stopped"
  /\ StopTo("integrations")
  /\ UNCHANGED <<running, compVars>>

CloseIntegration(i) ==
  /\ stopping = "integrations"
  /\ integration[i] # "closed"
  /\ integration' = [integration EXCEPT ![i] = "closed"]
  /\ StopTo(stopping)
  /\ UNCHANGED <<running, phase, module>>

StopReturns ==
  /\ stopping = "integrations"
  /\ \A i \in Integrations : integration[i] = "closed"
  /\ StopTo("returned")
  /\ UNCHANGED <<running, compVars>>

-----------------------------------------------------------------------------
(* main.go after the signal: cancel, stop gRPC, stop REST, stop the        *)
(* engine, close the bus.                                                  *)

MainTo(step) ==
  /\ main' = step
  /\ UNCHANGED <<embedded, running, starting, flowVars, compVars, handler, injections,
                 stream, stopping>>

Signal ==
  /\ main = "up"
  /\ ~embedded
  /\ starting = "started"
  /\ ctxDone' = TRUE
  /\ MainTo("grpc")
  /\ UNCHANGED <<busClosed, restClosed, restLate>>

(* A slip: leaving the REST server up.                                     *)
GrpcStopsOnly ==
  /\ main = "grpc"
  /\ stream = {}
  /\ MainTo("rest")
  /\ UNCHANGED <<ctxDone, busClosed, restClosed, restLate>>

(* GracefulStop waits for every stream that is open; then REST's Shutdown  *)
(* begins.                                                                 *)
GrpcStops ==
  /\ main = "grpc"
  /\ stream = {}
  /\ restClosed' = TRUE
  /\ MainTo("rest")
  /\ UNCHANGED <<ctxDone, busClosed, restLate>>

(* Shutdown waits for the requests under way, for ten seconds.             *)
RestStops ==
  /\ main = "rest"
  /\ restLate' = \E h \in Handlers : handler[h] # {}
  /\ MainTo("engine")
  /\ UNCHANGED <<ctxDone, busClosed, restClosed>>

(* An embedding program calls Stop after a Start that returned, and owes   *)
(* the context nothing.                                                    *)
EmbedderCancels ==
  /\ embedded
  /\ ~ctxDone
  /\ ctxDone' = TRUE
  /\ MainTo(main)
  /\ UNCHANGED <<busClosed, restClosed, restLate>>

EmbedderStops ==
  /\ main = "up"
  /\ embedded
  /\ starting \in {"started", "failed"}
  /\ restClosed' = TRUE
  /\ MainTo("engine")
  /\ UNCHANGED <<ctxDone, busClosed, restLate>>

BusCloses ==
  /\ main = "engine"
  /\ stopping = "returned"
  /\ busClosed' = TRUE
  /\ MainTo("exited")
  /\ UNCHANGED <<ctxDone, restClosed, restLate>>

-----------------------------------------------------------------------------
Starting ==
  \/ StartBegins \/ StartModules \/ StartCollectors \/ StartReturns \/ StartFails
  \/ \E i \in Integrations : InitializeIntegration(i)
  \/ \E m \in Modules : StartModule(m)
  \/ \E c \in Collectors : StartCollector(c)

Routing(c) == RouterExits(c) \/ RouterTakes(c) \/ RouterPublishes(c) \/ RouterAnalyzes(c)

Stopping ==
  \/ StopBegins \/ StopWaits \/ StopModules \/ CloseIntegrations \/ StopReturns
  \/ \E c \in Collectors : StopCollector(c)
  \/ \E m \in Modules : StopModule(m)
  \/ \E i \in Integrations : CloseIntegration(i)

Next ==
  /\ main # "exited"
  /\ \/ Starting
     \/ \E c \in Collectors : Emit(c) \/ StreamTakes(c) \/ Routing(c)
     \/ \E s \in Streams : ClientLeaves(s)
     \/ \E h \in Handlers : Inject(h) \/ HandlerAnalyzes(h)
     \/ Stopping
     \/ Signal \/ GrpcStops \/ RestStops \/ BusCloses
     \/ EmbedderCancels \/ EmbedderStops

Spec == Init /\ [][Next]_vars

(* Goroutines that can run are scheduled.  Collectors need not emit, REST  *)
(* and gRPC clients need not come or leave, and no signal need arrive.     *)
Fairness ==
  /\ WF_vars(main # "exited" /\ Starting)
  /\ \A c \in Collectors : WF_vars(main # "exited" /\ Routing(c))
  /\ WF_vars(main # "exited" /\ Stopping)
  /\ WF_vars(GrpcStops) /\ WF_vars(RestStops) /\ WF_vars(BusCloses)

FairSpec == Spec /\ Fairness

(* The clients of the gRPC streams leave of themselves.                    *)
ClientsLeaveSpec == FairSpec /\ \A s \in Streams : WF_vars(ClientLeaves(s))

-----------------------------------------------------------------------------
(* The engine's state has its types.                                       *)
TypeOK ==
  /\ embedded \in Embeddings
  /\ running \in BOOLEAN
  /\ starting \in {"idle", "integrations", "modules", "collectors", "started", "failed"}
  /\ ctxDone \in BOOLEAN
  /\ phase \in [Collectors -> {"created", "running", "halted"}]
  /\ queue \in [Collectors -> Seq(1 .. MaxEvents)]
  /\ \A c \in Collectors : Len(queue[c]) <= Capacity
  /\ emitted \in [Collectors -> 0 .. MaxEvents]
  /\ router \in [Collectors -> {"none", "select", "publish", "analyze", "done"}]
  /\ current \in [Collectors -> 0 .. MaxEvents]
  /\ todo \in [Collectors -> SUBSET Modules]
  /\ seen \in [Collectors -> [Modules -> SUBSET (1 .. MaxEvents)]]
  /\ streamed \in [Collectors -> SUBSET (1 .. MaxEvents)]
  /\ module \in [Modules -> {"new", "live", "stopped"}]
  /\ integration \in [Integrations -> {"new", "live", "closed"}]
  /\ stopping \in {"idle", "waiting", "collectors", "modules", "integrations", "returned"}
  /\ main \in {"up", "grpc", "rest", "engine", "exited"}
  /\ busClosed \in BOOLEAN
  /\ handler \in [Handlers -> SUBSET Modules]
  /\ injections \in 0 .. MaxInjections
  /\ restClosed \in BOOLEAN
  /\ restLate \in BOOLEAN
  /\ stream \in SUBSET Streams

(* A router meets only modules that are started and not stopped, and an    *)
(* open bus: modules start before the first router and stop after the last *)
(* one has returned, although Stop runs in another goroutine than the      *)
(* routers (engine.go 58-74, 133-149).  A stopped module panics on the     *)
(* event, its channel being closed.                                        *)
RoutersMeetLiveModules ==
  \A c \in Collectors :
    router[c] \in {"publish", "analyze"} =>
      (\A m \in Modules : module[m] = "live") /\ ~busClosed

(* A REST request meets a stopped module only if the REST server gave up   *)
(* waiting for it (api/rest/server.go 203-211, main.go 341-350).           *)
HandlersMeetLiveModules ==
  \A h \in Handlers : \A m \in handler[h] : module[m] = "live" \/ restLate

(* The events in a collector's channel.                                   *)
Waiting(c) == {queue[c][k] : k \in 1 .. Len(queue[c])}

(* Event n of a collector waits in its channel, is being routed, or has    *)
(* been analysed by every module.                                          *)
OnItsWay(c, n) ==
  \/ n \in Waiting(c)
  \/ \A m \in Modules :
       \/ n \in seen[c][m]
       \/ n = current[c] /\ (router[c] = "publish" \/ m \in todo[c])

(* No event is lost between a collector and the modules, also those on the *)
(* way when the context is cancelled or the bus refuses them, except to a  *)
(* gRPC stream, and no event is both streamed and analysed                 *)
(* (engine.go 80-113, grpc/service.go 267-305).                            *)
EventsDelivered ==
  \A c \in Collectors : \A n \in 1 .. emitted[c] :
    OnItsWay(c, n) <=> n \notin streamed[c]

(* What the engine says of its routers, "routeEvents reads events from a   *)
(* collector and fans them out to intelligence modules." (engine.go 80).   *)
EventsReachAllModules ==
  \A c \in Collectors : \A n \in 1 .. emitted[c] : OnItsWay(c, n)

(* When Stop has returned nothing of the engine is left running, also if   *)
(* Start had failed half-way (engine.go 50-77, 116-160).                   *)
StopIsComplete ==
  stopping = "returned" =>
    /\ \A c \in Collectors : router[c] \in {"none", "done"} /\ phase[c] # "running"
    /\ \A m \in Modules : module[m] # "live"
    /\ \A i \in Integrations : integration[i] # "live"

(* The agent gets through its shutdown sequence after a signal: each wait  *)
(* of main.go 341-353 ends, GracefulStop's when the clients have left, the *)
(* engine's own because the routers watch the context cancelled first.     *)
ShutdownCompletes == main = "grpc" ~> main = "exited"

(* A program that calls Stop gets it back: "Cancel context to signal all   *)
(* goroutines. [...] Wait for event routing goroutines to finish."         *)
(* (engine.go 127-133).                                                    *)
StopCompletes == stopping = "waiting" ~> stopping = "returned"
=============================================================================
