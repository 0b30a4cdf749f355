# Kronveil in TLA+

Kronveil is an observability agent written in Go. Collectors poll
infrastructure and send telemetry events on channels; an engine routes every
event to a bus and to intelligence modules; one of the modules opens incidents
and remediates them; REST and gRPC servers let people look and intervene. All
of it is goroutines, mutexes and channels in one process, and nothing it
persists is read back, so the hard behaviours are interleavings and shutdown, not crashes.

This directory holds TLA+ models of that program, TLC configurations that
check them on small instances, and TLAPS proofs. References such as
`engine.go 127-133` are files and lines of the repository.

## Inventory

What each part keeps and does, what is hard in it, and what makes it correct.
The last column says where it stands here.

| Part | State and operations | Hard behaviour | Correct when | Here |
|---|---|---|---|---|
| Incident responder `intelligence/incident/responder.go` | map of incidents, counter; `Analyze`, `AcknowledgeIncident`, `ResolveIncident`, eviction, a goroutine per remediation, `Stop` | two critical sections per event; remediation races users and eviction | no open incident lost, bounded map, every event accounted for, every incident handled | modelled, safety proved |
| Circuit breaker `intelligence/incident/remediation.go` | attempts, last attempt, tripped | one counter stands for a sliding window | bounds the rate of restarts; a lockout ends | modelled, proved |
| Engine `core/engine/engine.go` | running flag, a router per collector, wait group; `Start`, `routeEvents`, `Stop` | order of start and stop; half-failed start; who watches which context | nothing meets a stopped module; every event reaches every module; Stop ends and leaves nothing | modelled, safety proved |
| Registry `core/engine/registry.go` | maps of components | iteration in any order | (part of the engine) | partly |
| Main program `cmd/kronveil/main.go` | wiring, shutdown sequence | each wait must end | shutdown completes | partly |
| Collectors `collectors/*`, SDK adapter `sdk/collector/plugin.go` | running flag, mutex, workers, events channel; `Start`, `Stop`, `Health` | waiting under a mutex; closing a channel with senders | Stop returns; no send on a closed channel | lifecycle modelled, safety proved |
| Kafka lag `collectors/kafka` | offsets, lag per partition | offsets and ends fetched apart; monitor keyed by number | a report is not below the lag of the partitions in Kafka's answer | modelled, proved |
| CI/CD runs `collectors/cicd` | the runs a poll and webhooks both write | stale page, late webhook | listed runs converge to GitHub's status | modelled, types proved |
| REST `api/rest` | server, rate limiter, test injection, WebSocket hub | requests outliving the shutdown timeout; a lock held while writing to clients | handlers meet live modules; rate bound; every client is served | injection, shutdown, limiter and hub (safety proved) |
| gRPC `api/grpc` | server, event streams | streams share the collectors' channels | streams do not starve the modules; stop ends | streams and shutdown |
| Event bus `core/eventbus` | one handler per topic, closed flag, counters | flag read without the lock, handlers outside it | delivery to what was subscribed during the call | modelled, proved |
| Federation `core/federation` | clusters, unified channel, dedup table | adding and removing while starting and stopping | no panic, no leak; one event per window | modelled, safety proved |
| Anomaly detector `intelligence/anomaly` | a ring buffer per signal | window updated outside the lock | window is the last n values | modelled, proved |
| Capacity planner `intelligence/capacity` | series of points | points read after unlock; percentile | the series is what is retained | modelled, proved |
| Root cause `intelligence/rootcause` | goroutine per event with retries, dependency graph | map order, cycles; a model that fails | every event analysed; walks agree with reachability | modelled; graph proved |
| Runbooks `intelligence/runbook` | runbooks, type index, executions | an index beside the map; failing and late steps | index agrees with the runbooks; results tell what happened | modelled, proved |
| Policy `core/policy` | policies, violations | evaluation of a copy; a check for two ids only | reports what was enabled throughout, of the policies with a check | modelled, proved |
| AWS secrets `integrations/aws-secrets` | cache, rotation monitor | slow answers; Stop waits under the lock | what is served was current not long ago | modelled, proved |
| Vault `integrations/vault` | tracked metadata, sync loops | reads stored late; two loops, one cancel | tracked metadata converges | modelled, types proved |
| Audit store `internal/audit` | bounded log, file | memory and file in two critical sections; failed writes | both keep the order of calls; the file has nothing else, and may miss any | modelled, proved |
| Rest of `integrations`, `internal`, `core/metrics` | clients, formatting, configuration | network I/O | - | not modelled |
| `dashboard`, `helm`, `deploy` | user interface, deployment | - | - | not modelled |

Interactions: a collector and its router share a channel (and gRPC streams
read the same one); routers and REST handlers call `Analyze` of each module;
users and remediation goroutines change incidents; `main` cancels one context,
stops gRPC, REST and the engine, then closes the bus. The federation manager
runs collectors of its own.

The hazards found while reading are listed in `PROJECT.json`, each at its line,
with the properties that would notice it or with the reason why none does.

## Modules

| Module | Models | Extends / uses |
|---|---|---|
| `BreakerLogic` | one call of `circuitBreakerCheck`, as operators | |
| `CircuitBreaker` | the breaker against a clock | extends `BreakerLogic` |
| `IncidentLifecycle` | abstract: what users rely on | |
| `IncidentResponder` | the responder and everybody who enters it | extends `BreakerLogic`, implements `IncidentLifecycle` |
| `MCIncidentResponder` | symmetry for TLC | |
| `CollectorContract` | abstract: what the engine assumes of a collector | |
| `CollectorLifecycle` | start, workers, stop and health of one collector | implements `CollectorContract` |
| `EngineLifecycle` | engine, modules, main, REST and gRPC from start to exit | uses the contract of a collector |
| `FederationManager` | clusters, their forwarders, the unified channel | |
| `PipelineRuns` | CI/CD polls against webhooks | |
| `RootCauseAnalyzer` | analyses in goroutines, model calls with retries | |
| `VaultSync` | sync loops, monitoring calls, Close | |
| `WebSocketHub` | clients and their handlers, the broadcaster, the read-write lock | |
| `MCIncidentLiveness` | the responder and the hub, whose users wait | composes them for TLC |
| `MCEventually` | five other parts of which something must end: collector, federation, CI/CD, root cause, Vault | composes them for TLC |
| `Aggregator` | deduplication and pruning | |
| `KafkaLag` | measuring the lag, and the lag monitor | |
| `AnomalyDetector` | the window of a signal, its racing callers, the test | |
| `CapacityPlanner` | recording, trimming, recommendation, the racy forecast | |
| `DependencyGraph` | the graph and its three walks | |
| `RunbookExecutor` | registration, index, executions | |
| `EventBus` | publish, subscribe, close | |
| `RateLimiter` | token bucket and its sweep | |
| `AuditStore` | memory and file | |
| `SecretsCache` | cache, rotation monitor, Stop | |
| `PolicyEngine` | evaluation against changes of the policies | |
| `MCAlways` | the eleven from `Aggregator` on, and the breaker, of which only safety is asked | composes them for TLC |
| `*Proofs` | theorems: see Proofs | |

Some definitions are commented "A slip": the form the definition above or
below would take after a plausible mistake. They take part in no
specification; substituting one for the real definition makes the property
named for it in `PROJECT.json` fail.

### Incident responder

An incident is its number (`INC-0007` is 7), so the counter and the created
metric are `Len(inc)`. `inc` keeps every incident ever created, because a
remediation goroutine may still point to an evicted one; `tracked` is the map.
A caller of `Analyze` passes through the critical sections of the code:

| Code | Action |
|---|---|
| scan under `RLock` (98-106) | `AnalyzeCorrelates`, `AnalyzeFindsNone` |
| `addToIncident` (195-211) | `AddToIncident` |
| `createIncident` with its eviction and its send (144-193) | `CreateIncident` |
| notifiers and `go attemptRemediation` (111-121) | `NotifyAndRemediate` |
| `AcknowledgeIncident`, `ResolveIncident` (214-251) | actions of the same names |
| `attemptRemediation` up to the strategy's result, and after it (309-362) | `ExecuteRemediation`, `CompleteRemediation` |
| `Stop` (80-89) | `Stop` |

Time appears as two nondeterministic actions: the oldest incident leaves the
correlation window (`WindowElapses`), and ten minutes pass for the breaker
(`BreakerIdles`). Timelines, titles and durations are left out, and so are
events below high severity, which return at once.

### Collectors

The collectors have the same structure and differ in four points, which
depend on the variable `kind` (the header of `CollectorLifecycle` has the
table). What matters is who takes the mutex while `Stop` waits. A short critical
section is one step that needs the mutex free; a `Stop` that waits under the
mutex holds it over many steps.

### Engine

`EngineLifecycle` follows the loops of `Start` and `Stop` component by
component, with any component able to fail in `Start`, and the steps of
`routeEvents`. Collectors behave as `CollectorContract` says, with a `Stop`
that returns; that this last assumption fails for some of them is the subject
of `MCKafkaStop`. `embedded` selects the caller: the agent's `main`, which
cancels its context before anything else, or a program that calls `Stop` and
may or may not cancel, as the package's tests do.

### Federation

Every start of a cluster makes an *instance*: a collector, a context and a
forwarder. The map holds names and, behind each, the current instance; an
instance may outlive its place in the map, which is the whole difficulty.
`Start` is several steps, because it sets `running`, gives the lock up and takes
it again for the map (manager.go 66-88); `AddCluster` can come in between and is
then started twice. A cluster that `AddCluster` starts lives on its caller's
context, which `Stop` does not cancel. `Stop` goes through the map collector by
collector (177-185), and like `RemoveCluster` (270-274) it calls the Stop of a
Kubernetes collector with the manager's mutex held. That Stop may return or
hang, as `CollectorLifecycle` shows, and it does either in these models
(`FedStopsCollector`, `RemoveHangs`); once one hangs nobody gets the mutex again
(`HangIsForGood`). The aggregator behind the unified channel
is a module of its own: its `Process` holds a mutex throughout.

### CI/CD, root cause, Vault

`PipelineRuns` splits a poll into the critical sections of the code (fetch a
page, look up, compare, store) with webhooks between any two of them; a status
is a number that grows. `RootCauseAnalyzer` has a goroutine per grave event with
the retries of the Bedrock client, whose backoff watches the context.
`VaultSync` has reads that are stored later, a second `StartBackgroundSync` that
overwrites the cancel of the first, and a `Close` that waits for both; a loop
also ends with the context it was started with.

### WebSocket hub

A client's handler adds it, reads until the connection breaks and removes it;
the broadcaster counts the clients under the read lock and takes the lock again
for the broadcast, during which it writes to each. The lock is modelled as a
`sync.RWMutex`, where a waiting `Lock` keeps new readers out, which is what
would make a read lock within a read lock fatal (`CountsAndKeepsLock`). `Write`
has no deadline: a client that neither reads nor breaks would stop the
broadcaster in the middle of a broadcast, and with it every client that comes
or goes. That clients read or break is therefore an assumption of
`HubServesClients`, not something the code ensures.

### Small components

- `KafkaLag`: committed offsets in one request, ends of partitions in one each,
  with producers and consumers in between; an answer with some of the
  partitions and, in place of some offsets, errors, neither of which the code
  looks at; the monitor's entries by partition *number*.
- `AnomalyDetector`: every read and write of a window's `pos` and `full` is a
  step, since they happen outside the lock. The z-score test is squared into
  integers, with the formula in the header.
- `CapacityPlanner`: `Analyze` in one step; `GenerateForecast` reads the series'
  length, values and points in three, outside the lock.
- `DependencyGraph`: a walk is one step per visited node, with neighbours in any
  order; the answer is compared with reachability defined by closed sets.
- `RunbookExecutor`: an execution is checks and acts, with two time limits. The
  types of a runbook are a set: one that names a type twice is indexed twice.
- `EventBus`: a publisher looks up and delivers in two steps.
- `RateLimiter`: one unit of refill a tick and `Cost` units a request, so that
  rate and burst are integers.
- `AuditStore`, `SecretsCache`, `PolicyEngine`: one step per critical section,
  with history variables for what was true during a call. A write to the audit
  file makes a line or none, since `Log` drops its error (`store.go` 112). Of the
  policies, `Implemented` are those `evaluatePolicy` has a case for.

## Runs

| Run | Checks | Shows |
|---|---|---|
| `MCIncidentResponder` | `TypeOK OpenIncidentsTracked TrackedBounded EventAccounting DuplicatesBounded ImplementsLifecycle` | eviction, remediation and users never lose an open incident; the map is bounded; an event ends in exactly one incident of its source unless that was evicted in between; duplicates never outnumber the callers; the lifecycle is implemented |
| `MCIncidentLiveness`, responder | `IncidentsHandled` | incidents are notified and remediations end |
| , hub | `HubServesClients` | clients get in, hear of the status and are forgotten, whoever holds or awaits the lock; the map stays as it is while it is ranged over |
| `MCEngine` | `TypeOK RoutersMeetLiveModules HandlersMeetLiveModules EventsDelivered StopIsComplete ShutdownCompletes` | order of start and stop, delivery, clean-up after a half-failed Start, the end of the shutdown |
| `MCEventually`, collector | `NoPanic StopReturns HealthAnswers ImplementsContract` | every kind of collector is safe with two Stops at once; Stop and Health return where Stop may wait as it does |
| , federation | `FedNoPanic FedStopIsComplete FedStopReturns` | no forwarder meets the closed channel; a Stop that returns leaves nothing but a displaced collector, and it returns unless the Stop of a cluster's collector hangs, under it or under `RemoveCluster`, or a caller of `AddCluster` never ends his context |
| , CI/CD | `RunsConverge` | late webhooks and stale pages are repaired by the next polls |
| , root cause | `EventsAnalysed` | every event taken up gets an analysis, with or without a model, through retries and cancellation |
| , Vault | `VaultConverges` | late stores are repaired while a sync loop lives |
| `MCAlways`, breaker | `WindowBound LockoutBounded` | any `MaxAttempts + 1` restarts span more than the window; rejected checks do not prolong a lockout |
| , aggregator and lag | `DedupExact LagNotUnderstated` | pruning changes no answer; a report is not below what the partitions in Kafka's answer lagged when it began, if all of them could be read |
| , anomaly and capacity | `WindowIsRecent SteadyThenSpike RetentionExact` | the ring buffer, what the test can see at all, and trimming at its boundary |
| , graph and runbooks | `WalksAreExact ResultsAreTrue` | the walks agree with reachability over cycles and unknown services; results are true, and the type index agrees with the runbooks (a conjunct of the types) |
| , bus, limiter, audit | `DeliveryIsCurrent RateBound AuditTrail` | delivery to what was subscribed during the call; no more than burst + rate * time for a remote address and port, across evictions; both trails in the order of calls, whichever writes to the file fail |
| , secrets and policies | `SecretsAreRecent ReportIsOfItsTime` | how old a secret may be; which policies a concurrent evaluation speaks for, of those with a check |

`MCIncidentLiveness`, `MCEventually` and `MCAlways` hold parts that share no
state. The variable `part` chooses one of them in the initial state and only
that one steps, so a behaviour of the run is a behaviour of one part. The last
two also check the types of all of their parts (`EventuallyTypeOK`,
`AlwaysTypeOK`); the responder's are checked by `MCIncidentResponder` and the
hub's are part of `HubServesClients`.

Seven runs have a violation as their result. Each is a disagreement between
the code and something the repository says of it:

| Run | The code | What the repository says |
|---|---|---|
| `MCDuplicateIncidents` | two concurrent events of one source open two incidents | "expected 1 incident (correlated)" (`responder_test.go` 88) |
| `MCNoCorrelation` | the agent's configuration leaves the window at zero: no correlation at all | the same test; `DefaultConfig` has five minutes |
| `MCResolvedMetric` | an incident resolved twice is counted twice | "Total number of incidents resolved" (`exporter.go` 84) |
| `MCKafkaStop` | Stop holds the mutex its workers need, and waits for them | "Stop halts the Kafka collector." (`collector.go` 98) |
| `MCEngineStop` | Stop cancels a context nobody watches, and waits | "Cancel context to signal all goroutines." (`engine.go` 127) |
| `MCEngineStream` | a gRPC stream takes events away from the modules | "fans them out to intelligence modules" (`engine.go` 80) |
| `MCPolicies` | only two policy ids have a check; of the other three built-in policies, and of any added later, nothing is reported | "checks an input resource against all enabled policies" (`policy/engine.go` 81) |

The properties of the passing runs say what holds in spite of these:
`DuplicatesBounded` bounds the duplicates by the number of callers,
`StopReturns` and `HealthAnswers` exclude the collectors whose workers need the
mutex, `EventsDelivered` excludes exactly the streamed events,
`ReportIsOfItsTime` speaks of the policies with a check.

Three more disagreements have no run of their own. `percentile95`
(`planner.go` 330-342) copies the series into `sorted` and never sorts it, so
that a busy resource with a low recent point is taken for "Over-provisioned: p95
usage < 30%." (252): one call of a sequential function shows it, and
`CapacityPlanner` has it as it is. `StartBackgroundSync` of the Vault client
"runs until the provided context is cancelled or Close is called" (`client.go`
160-161), but a second call overwrites the cancel of the first, and `Close` then
waits for a loop it did not cancel; what ends that wait is a theorem (see Waits
that do not end, below). `withRateLimit` "applies per-client rate limiting"
(`middleware.go` 55), by remote address *and port* unless a proxy forwards one:
`RateBound` is of that key.

Some hazards are in the models without being anybody's broken promise: a
forecast may read past a series that was trimmed meanwhile (`forecastRan`),
racing callers may slice a window out of range (`outOfRange`), `Stop` of the AWS
client may wait for a monitor that waits for its lock, a failed write leaves an
entry out of the audit file, and errors inside Kafka's answer pass for offsets or
for partitions that are not there. No run is about them; the properties state
what is left.

### Bounds

- `IncidentResponder`: `MaxIncidents = 1` makes the map overflow at the second
  incident, so eviction with and without a resolved victim happens; a breaker
  of one attempt trips at the second restart; three events and two user
  requests let a correlation be overtaken by a resolution, a creation and an
  eviction. The router and the handler are distinct roles, so two callers are
  the smallest set with every interleaving of the two critical sections. The
  two sources are interchangeable and declared symmetric; the liveness run has
  no symmetry, one source and both severities.
- `WebSocketHub`: two clients, so that one may hold the other up, and room for
  one message each, so that a write waits.
- `EngineLifecycle`: both programs; two collectors and two modules, so that one
  can be started or stopped and the other not; a channel of one and two events,
  so that it is full with its second event.
- `MCEventually`: four kinds of collector (Kubernetes differs from Kafka, and
  CI/CD from cloud, in nothing the model tells apart), two workers, two Stops,
  four polls and a channel of two, which fills, drains, and sees two Stops race.
  Two clusters, one of them configured, so that starting and adding differ, and
  two instances, so that one cluster can be started twice. Two runs on a page of
  one, so that a run leaves the page. Two events, with and without a model, and
  two retries. Two sync loops, of which Close ends one, and a monitoring call,
  on one item of three versions.
- `MCAlways`: for the breaker three attempts, window 2 and nine ticks, which fit
  a burst, a trip, a lockout that ends and a second trip; for the bucket twelve
  ticks and a sweep after four, so that a bucket is forgotten and made anew; a
  graph of three services and seven edits, enough for every graph on them; a
  window of three values that turns once over. Elsewhere two actors where actors
  race, and bounds one larger than the limits they test, so that each limit is
  met, passed and trimmed to.

Deadlock checking is off throughout: the bounds, and a completed shutdown, end
every behaviour. What a deadlock would mean is checked as liveness.

### Fairness

Weak fairness is assumed of steps that a scheduled goroutine takes with
nothing left to wait for: a call of `Analyze` under way, a remediation, a
worker at its select when its context is done, `Stop` once its condition
holds, the main sequence, an analysis, a round of a sync loop. Nothing is
assumed of the world: events need not come, users need not act, windows need not
elapse, no signal need arrive. A worker need not be polled and an emission need
not happen. That the Stop of a cluster's collector returns is not assumed of the
federation either.

For the collectors other than the adapter, `main` is assumed to cancel their
context, as it does before it stops the engine (`main.go` 341-350). For
`ShutdownCompletes` the clients of gRPC streams are assumed to leave, because
`GracefulStop` waits for them and `handleStreamEvents` ends only when they do
(`grpc/server.go` 112, `grpc/service.go` 267-305): a client that stays keeps the
agent from shutting down. A mutex is taken by a step of its own that is enabled
when it is free; since a critical section of the collectors is one step, and
only one Stop can be waiting under the mutex, weak fairness suffices for the
lock.

Strong fairness is assumed in three places. Two are selects with two ready
cases, among which Go chooses at random: a forwarder of the federation, and a
sync loop of Vault, cannot for ever take the event, or the tick, and never the
cancelled context. The third is the lock of the WebSocket hub: a mutex in its
starvation mode is handed to whoever waits longest, and an `Unlock` admits the
readers that wait. The hub's clients are assumed to read what they were sent,
or to break. `RunsConverge` assumes that the poll loop polls on; the polls may
end when the collector does.

## Proofs

`tlapm M.tla` checks every obligation of each of the eight modules below, for
every value of the constants that satisfies the assumptions of the modules
(`MaxAttemptsAssumption`, `ResponderAssumption`, `CollectorAssumption` and the
like). They ask for positive limits and natural bounds; for finite sets where
something is counted or ranged over (services, partitions, observers,
publishers, policies with a check, WebSocket clients: a map of a running program
is finite); and for `Steps` and `TypesOf` to give each runbook a list of steps
and a set of types. TLC evaluates the assumptions in the runs. The bounds that
TLC needs are parameters like the others: no proof depends on their size.

Every invariant that a passing run checks is a theorem, and so are the two
refinements.

| Module | About | Theorems |
|---|---|---|
| `IncidentResponderProofs` | responder | types, `OpenIncidentsAreTracked`, `Refinement` |
| `IncidentAccountingProofs` | responder | `MapIsBounded`, `DuplicatesAreBounded`, `EventsAreAccounted` |
| `EngineProofs` | engine | types, `RoutersSafe`, `HandlersSafe`, `StopComplete`, `NoEventLost` |
| `CollectionProofs` | collectors | types, `CollectorsNeverPanic`, `CollectorsKeepContract`, `StuckForEver` |
| | federation | `ForwardersNeverPanic`, `StopLeavesNothing`, `HangIsForGood` |
| | Vault | `OnlyTheCallerEndsTheLoop` |
| | all parts of `MCEventually` | `EventuallyTypesHold` |
| `SafeguardProofs` | breaker | types, `RestartsAreBounded`, `LockoutIsBounded` |
| | REST rate limiter, hub | types, `RateBoundHolds`; `HubTypesHold` |
| | audit store, runbooks | `AuditTrailHolds`, `RunbookResultsHold` |
| `SnapshotProofs` | bus, policies | types, `BusDelivers`, `ReportsAreOfTheirTime` |
| | AWS secrets | types, `SecretsStayRecent`, `MonitorStuckForEver` |
| | aggregator, Kafka lag | types, `DedupIsExact`, `LagHolds` |
| `AnalysisProofs` | dependency graph | `WalksExact` |
| | anomaly detector | `WindowHolds`, `SpikeHolds` |
| | capacity planner | `RetentionHolds` |
| | all parts of `MCAlways` | `AlwaysTypesHold` |
| `DataLemmas` | folds, sums and lists | lemmas the others cite |

**Circuit breaker.** `WindowBound` is not inductive, as the counter says nothing
of when attempts were made. `IInv` adds that the last `Run` grants are those
since the last reset (`Run` is the counter up to the limit), that the grant
before them is more than a window older than the first of them (`Separated`),
that grants are in order and not after `lastAttempt`, and that rejections come
at most a window after it. A granted check either extends the run, which is
then at most `MaxAttempts` long, or starts one after a silence.

**Incident responder.** `TypeCorrectness` needs that what a caller holds
between two critical sections exists (`CallersHold`): an event it took, an
incident it matched. `OpenIncidentsAreTracked` holds because only
`OldestResolved` leaves the map, acknowledging reopens only what is in the
map, and nothing returns. `Refinement` shows each action to be an `Open`, a
`Settle` or a stutter of `IncidentLifecycle` with `status` the statuses in
`inc` and `remembered` the map. `Cardinality` is imported by both
specifications from `FiniteSets`; the proof expands both definitions to see
that they are the same operator.

**Accounting.** `TrackedBounded` is inductive with the types once eviction is
known to find somebody: a resolved incident, if there is one, has a least
number (`LeastNumber`). `DuplicatesInv` counts current incidents of a source
together with the callers about to create another, which never outnumber the
callers, because whoever creates saw no current one to join. `AccountingInv`
says where an event is: pending with one caller, in one incident, or lost by a
caller who came back to an evicted one, which takes a map that overflowed.

**Collectors.** The channel is closed by the one Stop that cleared `running`,
after the workers have ended. `CollInv` says who that is (`OneStopCloses`); the
refinement maps the phases of `CollectorContract` from `running`, `closed` and
the workers.

**Engine.** `EngInv` is the types, `Order` (how far Start and Stop have got, and
what that implies for routers, modules and handlers), and for each collector
`InOnePlace` and `Delivered`: an event waits in the queue, is taken by the
router, was streamed, or has reached every module, and is in one of these places
only. The first three theorems follow from `Order`; `NoEventLost` from the rest.

**Federation.** `FedInv` says who may still start an instance (`Phases`), that a
collector Start started is found in the map until it is halted (`MapAgrees`), that a forwarder has ended for a reason (`EndedForCause`), and that all have
once `Stop` has waited for them (`ForwardersGone`). The exception in
`StopLeavesNothing`, a place in the map taken by a second start, is needed: TLC
finds the leak at once without it.

**Rate limiter and hub.** `RateBound` speaks of past grants only. `Credit` adds
what the bucket holds: the grants since any one of them and the tokens left were
paid for by the burst and the refills since; for a forgotten client the idle time
alone has paid, because it is longer than a bucket takes to fill. In the hub the
read lock is held exactly while the broadcaster writes (`HubInv`), so that no
handler changes the map it ranges over.

**Audit store and runbooks.** Memory and file are written in two critical
sections, so calls that overlap may stand in a different order in each, and any
write to the file may fail. `UnderWayIsLater` says that what a caller has under
way is later than what he has put in either, which keeps his own order in both.
`TimeInv` says that what had returned when an entry's call began has returned
still; who appends has not, so he can stand behind nobody who came after him.
`GivenFirst` says that what is being written to the file was given to the memory,
and `MemoryIsLatest` that the memory is the end of what it was given. For a runbook, `TrueSoFar` relates the results written so far
to the place the execution has reached; the index is rebuilt by a fold
(`WithoutFolds`), which keeps it without gaps and repetitions.

**Snapshots.** Five components look at shared state in one critical section and
act on it later; each invariant says how far what was seen may lag. On the bus,
what is subscribed now is among what a call under way was offered. In the policy
engine the copy stands between what was enabled all the while and what was
enabled at some moment; what has no check is in no report. In the secrets cache an entry is dated at most
`FetchLimit` after its version was superseded. In the aggregator the table has an
entry, at least as late, for every event let through less than a window ago. For
the lag, `EnoughLeft` says that what a poll has added up, and what the partitions
of the answer it has not read would still add, are not less than these lagged at
its start: an end read later is only higher, and an offset that is an error
counts as -1. A sum over partitions is a recursive function
of CHOOSE-picked members; `SumChosen` lets it be taken apart at any of them.

**Graph.** `DepthFirst` says that what a walk has visited and has no longer on its
path has all its neighbours visited, so that an empty path means the visited
services are closed under edges, and that they all concern the origin: they are
then what is reachable. `Sorted` says that a node's degree counts what depends on
it and is not in the answer, and that what is free is in the answer or the queue.
When the queue is empty, every node left over has another one left over that
depends on it; going back along these in a finite graph must meet a cycle. All
orders of the maps and all cycles are covered.

**Anomaly detector.** Callers write the window and move its position in separate
steps without a lock, and its properties speak of callers no other overtook.
`SlotsCounted` says that no more slots are taken than values came, and
`OneByOne` that while callers come one by one the slot before the position has
the last value, the one before it the one before that, through every turn of the
ring. `SpikeArithmetic` is the rule on a window of `n - 1` equal values and another:
the size of the step cancels out and `(n-1)^2 >= Threshold^2 n` is left.

**Capacity planner.** The series is what was recorded without its first points,
which are exactly those that had expired when the last one came, because time
does not go back.

**Waits that do not end.** Four theorems are about hangs, and say that they are
for good. `StuckForEver`: once a collector's Stop waits, under the mutex, for a
worker that waits for that mutex, it waits for ever, and Health with it; how it
comes to that is what `MCKafkaStop` shows, in collectors of the kinds that wait
under their mutex. `MonitorStuckForEver`: the same of the AWS client, its rotation
monitor and its readers; starting it, a tick of the monitor and a Stop lead there.
`HangIsForGood`: once the Stop of a cluster's collector hangs, the federation's
Stop never returns, if it has not yet, and no cluster is added or removed again.
`OnlyTheCallerEndsTheLoop`: a Close of the Vault client that waits for a loop it
did not cancel (two calls of `StartBackgroundSync`, then `Close`) waits until that
loop's own context ends.

**Inductions over data.** The library's induction theorems take an operator as a
parameter and cannot be used here. What is proved about folds, sums and finite
sets rests on `LeastNumber` in `DataLemmas` instead: a set of numbers that is not empty has
a least member. From it follow induction over a set of numbers
(`NatInductionOn`), the existence of the function that a fold chooses
(`FoldExists`, `PrefixFold`), and with that what the fold computes.

**Only model-checked.** Liveness and everything with fairness
(`IncidentsHandled`, `ShutdownCompletes`, `StopReturns`, `HealthAnswers`,
`FedStopReturns`, `RunsConverge`, `EventsAnalysed`, `VaultConverges`, and
`HubServesClients` but for its first conjunct, which is `HubTypesHold`): together
with `ENABLED` it is beyond the installed provers.

## Not modelled

- Authentication and the reading handlers of the REST API, which keep no state.
- What the Kubernetes, cloud and log collectors read from the outside, and the
  matching of log lines: the content of events is data to everything here.
- A webhook after the CI/CD collector's `Stop`: `HandleWebhook`, which sends on
  the channel that Stop closes, is called by nobody in the repository.
- EWMA, trend, regression, confidence and scores: floating point.
- The composite metrics recorder, the clients for Prometheus, Grafana, Slack,
  PagerDuty and OpenTelemetry, configuration, logging and version: they format,
  send or forward and share nothing that can get out of step.
- Policies' Rego, which the code stores and never evaluates.
- The rates of the event bus's `Metrics`, computed from an unlocked baseline:
  they are only displayed.
- `Status` of the engine asking a collector that hangs in `Stop`: the hang itself
  is `MCKafkaStop`; the chain from there is not composed.
- The dashboard and the deployment descriptions.

## Plan

What would come next: the safety lemmas under the liveness properties (that a
component that waits is waiting for something that can happen); the chain from
`Status` through the registry's lock to a stuck collector; `CollectorLifecycle`
in the place of the two outcomes of a collector's `Stop` in the federation; a
`Stop` of a collector that overtakes a `Start` under way, which nobody in the
repository does; the tail of a log file.
