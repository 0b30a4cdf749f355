-------------------------- MODULE IncidentResponder --------------------------
(***************************************************************************)
(* The incident responder (intelligence/incident/responder.go) with the    *)
(* goroutines that enter it: the engine's routers and the REST handlers    *)
(* that call Analyze, the users who acknowledge and resolve through REST   *)
(* or gRPC, and one goroutine per automatic remediation.                   *)
(*                                                                         *)
(* An incident is named by its number (the code prints it as INC-0001), so *)
(* r.counter and the created metric are Len(inc), and the map r.incidents  *)
(* is `tracked` with the incidents it points to in `inc`; an evicted       *)
(* incident stays in `inc` because a remediation goroutine may still hold  *)
(* its pointer.  CreatedAt is taken under r.mu, so numbers are in creation *)
(* order and the correlation window closes on them in that order.          *)
(* Timelines, titles and durations are left out.  incidentCh has no        *)
(* receiver in the program and a full channel is skipped, so only its      *)
(* being closed is kept.                                                   *)
(***************************************************************************)
EXTENDS BreakerLogic, Sequences, FiniteSets

CONSTANTS
  Routers,         \* engine goroutines that call Analyze (core/engine)
  Handlers,        \* REST handlers that call Analyze (api/rest)
  Sources,         \* event sources
  Severities,      \* the severities of the events that are not filtered out
  WindowConfigured,\* TRUE: CorrelationWindow > 0; FALSE: the zero of main.go
  AutoRemediate,   \* config.AutoRemediate
  MaxIncidents,    \* maxIncidents (10000)
  MaxEvents,       \* bound on the events analysed
  MaxUserOps       \* bound on the acknowledge and resolve requests

ASSUME ResponderAssumption ==
  /\ Routers \cap Handlers = {}
  /\ IsFiniteSet(Routers \cup Handlers)
  /\ Severities \subseteq {"critical", "high"}
  /\ WindowConfigured \in BOOLEAN
  /\ AutoRemediate \in BOOLEAN
  /\ MaxIncidents \in Nat
  /\ MaxEvents \in Nat
  /\ MaxUserOps \in Nat

VARIABLES
  inc,         \* every incident ever created, by number
  tracked,     \* the numbers in r.incidents
  expired,     \* incidents up to this number are past the correlation window
  closed,      \* Stop has closed incidentCh
  log,         \* the events given to Analyze
  pc,          \* where each caller of Analyze is
  event,       \* the event each caller analyses (0: none)
  target,      \* the incident each caller matched or created (0: none)
  lost,        \* history: events addToIncident found no incident for
  notified,    \* history: incidents given to the notifiers
  rem,         \* state of each incident's remediation goroutine
  breaker,     \* the circuit breaker's entry
  breakerIdle, \* more than ten minutes since its lastAttempt
  resolutions, \* the resolved metric (RecordIncidentResolved)
  userOps,     \* acknowledge and resolve requests so far
  peakOpen     \* history: most unresolved incidents tracked at one time

callVars == <<log, pc, event, target, lost, notified>>
remVars  == <<rem, breaker, breakerIdle>>
vars == <<inc, tracked, expired, closed, callVars, remVars, resolutions,
          userOps, peakOpen>>

Callers    == Routers \cup Handlers
Statuses   == {"active", "acknowledged", "resolved"}
RemStates  == {"none", "pending", "succeeded", "failed", "completed"}

Incident == [source : Sources, severity : Severities, status : Statuses,
             recovered : BOOLEAN,      \* ResolvedAt is set
             events : SUBSET Nat]      \* CorrelatedEvents

Open(incidents, ids) == {id \in ids : incidents[id].status # "resolved"}

Larger(a, b) == IF a >= b THEN a ELSE b

Init ==
  /\ inc = <<>>
  /\ tracked = {}
  /\ expired = 0
  /\ closed = FALSE
  /\ log = <<>>
  /\ pc = [c \in Callers |-> "idle"]
  /\ event = [c \in Callers |-> 0]
  /\ target = [c \in Callers |-> 0]
  /\ lost = {}
  /\ notified = {}
  /\ rem = <<>>
  /\ breaker = FreshBreaker
  /\ breakerIdle = FALSE
  /\ resolutions = 0
  /\ userOps = 0
  /\ peakOpen = 0

-----------------------------------------------------------------------------
(* Analyze: the scan under the read lock.                                  *)

(* eventsCorrelate: the window is open and the source is affected.         *)
EventsCorrelate(source, id) ==
  /\ WindowConfigured
  /\ id > expired
  /\ inc[id].source = source

(* A slip: forgetting that an acknowledged incident is still open.         *)
MatchingActiveOnly(source) ==
  {id \in tracked : inc[id].status = "active" /\ EventsCorrelate(source, id)}

(* A slip: correlating events of any source.                               *)
MatchingAnySource(source) ==
  {id \in tracked : inc[id].status # "resolved" /\ WindowConfigured /\ id > expired}

Matching(source) ==
  {id \in tracked : inc[id].status # "resolved" /\ EventsCorrelate(source, id)}

(* Events below high severity return at once and change nothing.  The      *)
(* engine stops its modules after its routers have returned                *)
(* (core/engine/engine.go 133-146); a REST handler may be later.           *)
Arrives(c, source, severity) ==
  /\ pc[c] = "idle"
  /\ Len(log) < MaxEvents
  /\ c \in Routers => ~closed
  /\ log' = Append(log, [source |-> source, severity |-> severity])
  /\ event' = [event EXCEPT ![c] = Len(log) + 1]

AnalyzeCorrelates(c, source, severity) ==
  /\ Arrives(c, source, severity)
  /\ \E id \in Matching(source) : target' = [target EXCEPT ![c] = id]
  /\ pc' = [pc EXCEPT ![c] = "add"]
  /\ UNCHANGED <<inc, tracked, expired, closed, lost, notified, remVars,
                 resolutions, userOps, peakOpen>>

AnalyzeFindsNone(c, source, severity) ==
  /\ Arrives(c, source, severity)
  /\ Matching(source) = {}
  /\ pc' = [pc EXCEPT ![c] = "create"]
  /\ UNCHANGED <<inc, tracked, expired, closed, target, lost, notified,
                 remVars, resolutions, userOps, peakOpen>>

Returns(c) ==
  /\ pc' = [pc EXCEPT ![c] = "idle"]
  /\ event' = [event EXCEPT ![c] = 0]
  /\ target' = [target EXCEPT ![c] = 0]

(* addToIncident: the lock was released since the scan, so the incident    *)
(* may be resolved by now, or gone.                                        *)
AddToIncident(c) ==
  /\ pc[c] = "add"
  /\ \/ /\ target[c] \in tracked
        /\ inc' = [inc EXCEPT ![target[c]].events = @ \cup {event[c]}]
        /\ UNCHANGED lost
     \/ /\ target[c] \notin tracked
        /\ lost' = lost \cup {event[c]}
        /\ UNCHANGED inc
  /\ Returns(c)
  /\ UNCHANGED <<tracked, expired, closed, log, notified, remVars,
                 resolutions, userOps, peakOpen>>

-----------------------------------------------------------------------------
(* createIncident and the rest of Analyze.                                 *)

(* A slip: evicting the oldest incident whatever its status.               *)
OldestOfAll(ids) == {id \in ids : \A other \in ids : id <= other}

(* evictResolved: the oldest resolved incident, if there is one.           *)
OldestResolved(ids) ==
  {id \in ids : /\ inc[id].status = "resolved"
                /\ \A other \in ids : inc[other].status = "resolved" => id <= other}

(* A slip: never evicting.                                                 *)
TrackedWithoutEviction(id) == tracked \cup {id}

TrackedAfter(id) ==
  IF Cardinality(tracked \cup {id}) > MaxIncidents
  THEN (tracked \ OldestResolved(tracked)) \cup {id}
  ELSE tracked \cup {id}

(* Everything createIncident does under r.mu.  On a closed incidentCh the  *)
(* send panics after the incident is stored and counted: net/http recovers *)
(* the handler's goroutine, and nobody is notified.                        *)
CreateIncident(c) ==
  LET id    == Len(inc) + 1
      fresh == [source    |-> log[event[c]].source,
                severity  |-> log[event[c]].severity,
                status    |-> "active",
                recovered |-> FALSE,
                events    |-> {event[c]}]
  IN  /\ pc[c] = "create"
      /\ inc' = Append(inc, fresh)
      /\ tracked' = TrackedAfter(id)
      /\ rem' = Append(rem, "none")
      /\ peakOpen' = Larger(peakOpen, Cardinality(Open(inc, tracked)) + 1)
      /\ \/ /\ ~closed
            /\ pc' = [pc EXCEPT ![c] = "notify"]
            /\ target' = [target EXCEPT ![c] = id]
            /\ UNCHANGED event
         \/ /\ closed
            /\ Returns(c)
      /\ UNCHANGED <<expired, closed, log, lost, notified, breaker,
                     breakerIdle, resolutions, userOps>>

(* A slip: notifying without starting the remediation.                     *)
NotifyOnly(c) ==
  /\ pc[c] = "notify"
  /\ notified' = notified \cup {target[c]}
  /\ Returns(c)
  /\ UNCHANGED <<inc, tracked, expired, closed, log, lost, remVars,
                 resolutions, userOps, peakOpen>>

(* The notifiers are called (their errors are only logged), then the       *)
(* remediation goroutine is started.                                       *)
NotifyAndRemediate(c) ==
  /\ pc[c] = "notify"
  /\ notified' = notified \cup {target[c]}
  /\ rem' = IF AutoRemediate THEN [rem EXCEPT ![target[c]] = "pending"] ELSE rem
  /\ Returns(c)
  /\ UNCHANGED <<inc, tracked, expired, closed, log, lost, breaker,
                 breakerIdle, resolutions, userOps, peakOpen>>

-----------------------------------------------------------------------------
(* ResolveIncident and AcknowledgeIncident: only the map decides.          *)

Recovered(id) ==
  [inc EXCEPT ![id] = [@ EXCEPT !.status = "resolved", !.recovered = TRUE]]

AcknowledgeIncident(id) ==
  /\ userOps < MaxUserOps
  /\ id \in tracked
  /\ inc' = [inc EXCEPT ![id].status = "acknowledged"]
  /\ peakOpen' = Larger(peakOpen, Cardinality(Open(inc', tracked)))
  /\ userOps' = userOps + 1
  /\ UNCHANGED <<tracked, expired, closed, callVars, remVars, resolutions>>

ResolveIncident(id) ==
  /\ userOps < MaxUserOps
  /\ id \in tracked
  /\ inc' = Recovered(id)
  /\ resolutions' = resolutions + 1
  /\ userOps' = userOps + 1
  /\ UNCHANGED <<tracked, expired, closed, callVars, remVars, peakOpen>>

(* attemptRemediation up to the strategy's result: a critical incident     *)
(* scales a deployment, which always succeeds; a high one restarts a pod   *)
(* if the breaker lets it.  A dry run succeeds in the same way.            *)
ExecuteRemediation(id) ==
  /\ rem[id] = "pending"
  /\ \/ /\ inc[id].severity = "critical"
        /\ rem' = [rem EXCEPT ![id] = "succeeded"]
        /\ UNCHANGED <<breaker, breakerIdle>>
     \/ /\ inc[id].severity = "high"
        /\ breaker' = Checked(breaker, breakerIdle)
        /\ breakerIdle' = (breakerIdle /\ ~Counted(breaker, breakerIdle))
        /\ rem' = [rem EXCEPT ![id] = IF Allowed(breaker, breakerIdle)
                                      THEN "succeeded" ELSE "failed"]
  /\ UNCHANGED <<inc, tracked, expired, closed, callVars, resolutions,
                 userOps, peakOpen>>

(* attemptRemediation after a success: ResolveIncident by number, which is *)
(* an error that is only logged when the incident has been evicted.        *)
CompleteRemediation(id) ==
  /\ rem[id] = "succeeded"
  /\ rem' = [rem EXCEPT ![id] = "completed"]
  /\ \/ /\ id \in tracked
        /\ inc' = Recovered(id)
        /\ resolutions' = resolutions + 1
     \/ /\ id \notin tracked
        /\ UNCHANGED <<inc, resolutions>>
  /\ UNCHANGED <<tracked, expired, closed, callVars, breaker, breakerIdle,
                 userOps, peakOpen>>

-----------------------------------------------------------------------------
(* Time, and the end.                                                      *)

(* The oldest incident inside the correlation window leaves it.            *)
WindowElapses ==
  /\ expired < Len(inc)
  /\ expired' = expired + 1
  /\ UNCHANGED <<inc, tracked, closed, callVars, remVars, resolutions,
                 userOps, peakOpen>>

BreakerIdles ==
  /\ ~breakerIdle
  /\ breaker # FreshBreaker
  /\ breakerIdle' = TRUE
  /\ UNCHANGED <<inc, tracked, expired, closed, callVars, rem, breaker,
                 resolutions, userOps, peakOpen>>

(* Stop, which the engine calls once its routers have returned.            *)
Stop ==
  /\ ~closed
  /\ \A c \in Routers : pc[c] = "idle"
  /\ closed' = TRUE
  /\ UNCHANGED <<inc, tracked, expired, callVars, remVars, resolutions,
                 userOps, peakOpen>>

Analyze(c) ==
  \/ \E source \in Sources, severity \in Severities :
       \/ AnalyzeCorrelates(c, source, severity)
       \/ AnalyzeFindsNone(c, source, severity)
  \/ AddToIncident(c)
  \/ CreateIncident(c)
  \/ NotifyAndRemediate(c)

Remediation(id) == ExecuteRemediation(id) \/ CompleteRemediation(id)

Next ==
  \/ \E c \in Callers : Analyze(c)
  \/ \E id \in tracked : AcknowledgeIncident(id) \/ ResolveIncident(id)
  \/ \E id \in DOMAIN inc : Remediation(id)
  \/ WindowElapses
  \/ BreakerIdles
  \/ Stop

Spec == Init /\ [][Next]_vars

(* A goroutine that has begun is scheduled again: the steps of a call that *)
(* is under way and of a remediation.  Events, users, time and Stop owe    *)
(* nothing.                                                                *)
Fairness ==
  /\ \A c \in Callers :
       WF_vars(AddToIncident(c) \/ CreateIncident(c) \/ NotifyAndRemediate(c))
  /\ \A id \in 1 .. MaxEvents : WF_vars(id \in DOMAIN inc /\ Remediation(id))

FairSpec == Spec /\ Fairness

-----------------------------------------------------------------------------
IncidentsOK ==
  /\ inc \in Seq(Incident)
  /\ tracked \subseteq 1 .. Len(inc)
  /\ expired \in 0 .. Len(inc)

CallersOK ==
  /\ log \in Seq([source : Sources, severity : Severities])
  /\ pc \in [Callers -> {"idle", "add", "create", "notify"}]
  /\ event \in [Callers -> 0 .. Len(log)]
  /\ target \in [Callers -> 0 .. Len(inc)]
  /\ lost \subseteq 1 .. Len(log)
  /\ notified \subseteq 1 .. Len(inc)

RemediationOK ==
  /\ rem \in Seq(RemStates)
  /\ Len(rem) = Len(inc)
  /\ breaker \in Breaker
  /\ breakerIdle \in BOOLEAN

CountersOK ==
  /\ closed \in BOOLEAN
  /\ resolutions \in Nat
  /\ userOps \in Nat
  /\ peakOpen \in Nat

(* The responder's state has its types: every number of an incident or an  *)
(* event that some goroutine holds is one that was given out.              *)
TypeOK == IncidentsOK /\ CallersOK /\ RemediationOK /\ CountersOK

(* An incident nobody has resolved can always be looked up: eviction under *)
(* pressure, an acknowledgement that reopens a resolved incident and a     *)
(* remediation that outlives its incident never leave an open one outside  *)
(* the map (responder.go 178-180, 195-252, 280-294).                       *)
OpenIncidentsTracked ==
  \A id \in DOMAIN inc : inc[id].status # "resolved" => id \in tracked

(* The map outgrows maxIncidents only as far as unresolved incidents once  *)
(* forced it to: its size is bounded by the cap or by the most incidents   *)
(* that were ever open together, although each creation evicts at most     *)
(* one incident (responder.go 175-180, 280-294).                           *)
TrackedBounded ==
  Cardinality(tracked) <= Larger(MaxIncidents, peakOpen)

(* An event on its way, or one whose incident was evicted.                 *)
Unsettled(e) ==
  e \in lost \/ \E c \in Callers : event[c] = e /\ pc[c] \in {"add", "create"}

(* An event given to Analyze ends in the record of exactly one incident,   *)
(* of its own source.  The only other outcome is that the incident it      *)
(* matched was evicted between the scan and addToIncident, which cannot    *)
(* happen before more than maxIncidents incidents have been created        *)
(* (responder.go 98-111, 195-204).                                         *)
EventAccounting ==
  /\ \A e \in 1 .. Len(log) :
       IF Unsettled(e)
       THEN \A id \in DOMAIN inc : e \notin inc[id].events
       ELSE \E id \in DOMAIN inc :
              /\ inc[id].source = log[e].source
              /\ \A other \in DOMAIN inc : e \in inc[other].events <=> other = id
  /\ lost # {} => Len(inc) > MaxIncidents

(* The incidents a new event of this source should be added to.            *)
Current(source) ==
  {id \in tracked : /\ id > expired
                    /\ inc[id].source = source
                    /\ inc[id].status # "resolved"
                    /\ ~inc[id].recovered}

(* The scan and the creation are two critical sections, so concurrent      *)
(* events of one source can each open an incident; but a caller that opens *)
(* one sees the others from then on, so there are never more such          *)
(* duplicates than callers (responder.go 98-109).                          *)
DuplicatesBounded ==
  WindowConfigured =>
    \A source \in Sources :
      Cardinality(Current(source)) <= Cardinality(Callers)

(* Every incident opened before Stop reaches the notifiers and, when       *)
(* auto-remediation is on, its remediation runs to an end, whatever users, *)
(* eviction and Stop do meanwhile (responder.go 109-121, 335-354).         *)
IncidentsHandled ==
  \A id \in 1 .. MaxEvents :
    (id \in DOMAIN inc /\ ~closed) ~>
      /\ id \in notified
      /\ AutoRemediate => rem[id] \in {"failed", "completed"}

Lifecycle == INSTANCE IncidentLifecycle
               WITH status <- [id \in DOMAIN inc |-> inc[id].status],
                    remembered <- tracked,
                    Capacity <- MaxIncidents

(* The responder implements the lifecycle its users rely on: numbered      *)
(* openings, and only settled incidents forgotten (responder.go 144-294).  *)
ImplementsLifecycle == Lifecycle!Spec

(* What TestCorrelation_SameSource expects of two events of one source     *)
(* inside the window, "expected 1 incident (correlated)"                   *)
(* (responder_test.go 88): one current incident per source.                *)
OneIncidentPerSource ==
  \A source \in Sources : Cardinality(Current(source)) <= 1

(* What the help text of kronveil_incidents_resolved_total says, "Total    *)
(* number of incidents resolved" (integrations/prometheus/exporter.go 84): *)
(* the metric counts incidents.                                            *)
ResolvedMetricCountsIncidents ==
  resolutions = Cardinality({id \in DOMAIN inc : inc[id].recovered})
=============================================================================
