---------------------- MODULE IncidentAccountingProofs ----------------------
(***************************************************************************)
(* What the incident responder promises in numbers, for every set of       *)
(* callers and sources and every bound: how far its map can grow, how many *)
(* incidents of one source can be open side by side, and where every event *)
(* ends.  These are about Cardinality and about pairs of incidents, and    *)
(* rest on the types and the effects of the actions.                       *)
(***************************************************************************)
EXTENDS IncidentResponderProofs, DataLemmas

-----------------------------------------------------------------------------
(* What the steps do to the incidents.                                     *)

(* The callers whose event is in no incident yet.                          *)
Pending(c) == pc[c] \in {"add", "create"}

(* A step that changes no source, no events, and undoes no recovery.       *)
Settling ==
  /\ Len(inc') = Len(inc)
  /\ \A j \in 1 .. Len(inc) :
       /\ inc'[j].source = inc[j].source
       /\ inc'[j].events = inc[j].events
       /\ inc[j].recovered => inc'[j].recovered
       /\ inc'[j].status = "resolved" => inc[j].status = "resolved" \/ inc'[j].recovered
  /\ tracked' = tracked /\ expired' = expired
  /\ UNCHANGED callVars
  /\ peakOpen' = peakOpen \/ peakOpen' = Larger(peakOpen, Cardinality(Open(inc', tracked)))

LEMMA IncidentFields ==
  ASSUME IInv
  PROVE  /\ Len(inc) \in Nat /\ DOMAIN inc = 1 .. Len(inc)
         /\ \A j \in 1 .. Len(inc) : inc[j] \in Incident
         /\ Len(log) \in Nat
         /\ \A e \in 1 .. Len(log) : log[e] \in [source : Sources, severity : Severities]
<1>1. inc \in Seq(Incident) /\ log \in Seq([source : Sources, severity : Severities])
  BY DEF IInv, TypeOK, IncidentsOK, CallersOK
<1>2. \A j \in 1 .. Len(inc) : inc[j] \in Incident
  BY <1>1, Element
<1>3. \A e \in 1 .. Len(log) : log[e] \in [source : Sources, severity : Severities]
  BY <1>1, Element
<1>4. Len(inc) \in Nat /\ Len(log) \in Nat /\ DOMAIN inc = 1 .. Len(inc)
  BY <1>1
<1> QED BY <1>2, <1>3, <1>4

LEMMA AcknowledgeSettles ==
  ASSUME IInv, NEW id \in tracked, AcknowledgeIncident(id)
  PROVE  Settling
<1>1. /\ inc' = [inc EXCEPT ![id].status = "acknowledged"]
      /\ UNCHANGED <<tracked, expired, callVars>>
      /\ peakOpen' = Larger(peakOpen, Cardinality(Open(inc', tracked)))
  BY DEF AcknowledgeIncident
<1>2. id \in 1 .. Len(inc) /\ inc \in Seq(Incident)
  BY DEF IInv, TypeOK, IncidentsOK
<1>3. Len(inc') = Len(inc)
  BY <1>1, <1>2
<1>4. \A j \in 1 .. Len(inc) :
        inc'[j] = IF j = id THEN [inc[id] EXCEPT !.status = "acknowledged"] ELSE inc[j]
  BY <1>1, <1>2
<1>5. inc[id] \in Incident
  BY <1>2
<1>6. \A j \in 1 .. Len(inc) :
        /\ inc'[j].source = inc[j].source /\ inc'[j].events = inc[j].events
        /\ inc'[j].recovered = inc[j].recovered
        /\ inc'[j].status = "resolved" => inc[j].status = "resolved"
  BY <1>4, <1>5 DEF Incident
<1> QED BY <1>1, <1>3, <1>6 DEF Settling

LEMMA RecoverSettles ==
  ASSUME IInv, NEW id \in tracked, inc' = Recovered(id),
         UNCHANGED <<tracked, expired, callVars, peakOpen>>
  PROVE  Settling
<1>1. id \in 1 .. Len(inc) /\ inc \in Seq(Incident)
  BY DEF IInv, TypeOK, IncidentsOK
<1>2. Len(inc') = Len(inc)
  BY <1>1 DEF Recovered
<1>3. \A j \in 1 .. Len(inc) :
        inc'[j] = IF j = id THEN [inc[id] EXCEPT !.status = "resolved", !.recovered = TRUE]
                  ELSE inc[j]
  BY <1>1 DEF Recovered
<1>4. inc[id] \in Incident
  BY <1>1
<1>5. \A j \in 1 .. Len(inc) :
        /\ inc'[j].source = inc[j].source /\ inc'[j].events = inc[j].events
        /\ inc[j].recovered => inc'[j].recovered
        /\ inc'[j].status = "resolved" => inc[j].status = "resolved" \/ inc'[j].recovered
  BY <1>3, <1>4 DEF Incident
<1> QED BY <1>2, <1>5 DEF Settling

(* Users and remediations settle incidents; time passes beside them.       *)
LEMMA OthersSettle ==
  ASSUME IInv,
         \/ \E id \in tracked : AcknowledgeIncident(id) \/ ResolveIncident(id)
         \/ \E id \in DOMAIN inc : Remediation(id)
         \/ BreakerIdles
         \/ Stop
         \/ UNCHANGED vars
  PROVE  Settling
<1>1. CASE UNCHANGED <<inc, tracked, expired, callVars, peakOpen>>
  BY <1>1 DEF Settling
<1>2. ASSUME NEW id \in tracked, AcknowledgeIncident(id) PROVE Settling
  BY <1>2, AcknowledgeSettles
<1>3. ASSUME NEW id \in tracked, ResolveIncident(id) PROVE Settling
  BY <1>3, RecoverSettles DEF ResolveIncident
<1>4. ASSUME NEW id \in DOMAIN inc, ExecuteRemediation(id) PROVE Settling
  BY <1>1, <1>4 DEF ExecuteRemediation
<1>5. ASSUME NEW id \in DOMAIN inc, CompleteRemediation(id) PROVE Settling
  <2>1. CASE id \in tracked
    BY <1>5, <2>1, RecoverSettles DEF CompleteRemediation
  <2>2. CASE id \notin tracked
    BY <1>1, <1>5, <2>2 DEF CompleteRemediation
  <2> QED BY <2>1, <2>2
<1>6. CASE BreakerIdles
  BY <1>1, <1>6 DEF BreakerIdles
<1>7. CASE Stop
  BY <1>1, <1>7 DEF Stop
<1>8. CASE UNCHANGED vars
  BY <1>1, <1>8 DEF vars
<1> QED BY <1>2, <1>3, <1>4, <1>5, <1>6, <1>7, <1>8 DEF Remediation

(* addToIncident adds the caller's event to its incident, or loses it.     *)
LEMMA AddEffect ==
  ASSUME IInv, NEW c \in Callers, AddToIncident(c)
  PROVE  /\ event[c] \in 1 .. Len(log) /\ target[c] \in 1 .. Len(inc)
         /\ Len(inc') = Len(inc)
         /\ \A j \in 1 .. Len(inc) :
              /\ inc'[j].source = inc[j].source /\ inc'[j].status = inc[j].status
              /\ inc'[j].recovered = inc[j].recovered
         /\ \/ /\ target[c] \in tracked /\ lost' = lost
               /\ \A j \in 1 .. Len(inc) :
                    inc'[j].events = IF j = target[c] THEN inc[j].events \cup {event[c]}
                                     ELSE inc[j].events
            \/ /\ target[c] \notin tracked /\ lost' = lost \cup {event[c]}
               /\ \A j \in 1 .. Len(inc) : inc'[j].events = inc[j].events
<1> DEFINE t == target[c]
<1>1. pc[c] = "add"
  BY DEF AddToIncident
<1>2. event[c] \in 1 .. Len(log) /\ t \in 1 .. Len(inc) /\ inc \in Seq(Incident)
  BY <1>1 DEF IInv, CallersHold, TypeOK, IncidentsOK
<1>3. CASE /\ t \in tracked /\ lost' = lost
           /\ inc' = [inc EXCEPT ![t].events = @ \cup {event[c]}]
  <2> DEFINE entry == [inc[t] EXCEPT !.events = @ \cup {event[c]}]
  <2>1. inc' = [inc EXCEPT ![t] = entry]
    BY <1>3
  <2>2. inc[t] \in Incident /\ event[c] \in Nat
    BY <1>2, IncidentFields
  <2>3. /\ entry \in Incident
        /\ entry.source = inc[t].source /\ entry.status = inc[t].status
        /\ entry.recovered = inc[t].recovered
        /\ entry.events = inc[t].events \cup {event[c]}
    BY <2>2 DEF Incident
  <2> HIDE DEF entry
  <2>4. /\ Len(inc') = Len(inc) /\ inc'[t] = entry
        /\ \A j \in 1 .. Len(inc) : j # t => inc'[j] = inc[j]
    BY <1>2, <2>1, <2>3, Updated
  <2>5. \A j \in 1 .. Len(inc) :
          /\ inc'[j].source = inc[j].source /\ inc'[j].status = inc[j].status
          /\ inc'[j].recovered = inc[j].recovered
          /\ inc'[j].events = IF j = t THEN inc[j].events \cup {event[c]}
                              ELSE inc[j].events
    <3>1. TAKE j \in 1 .. Len(inc)
    <3>2. CASE j = t
      BY <2>3, <2>4, <3>2
    <3>3. CASE j # t
      BY <2>4, <3>3
    <3> QED BY <3>2, <3>3
  <2> QED BY <1>2, <1>3, <2>4, <2>5
<1>4. CASE t \notin tracked /\ lost' = lost \cup {event[c]} /\ inc' = inc
  BY <1>2, <1>4
<1> QED BY <1>3, <1>4 DEF AddToIncident

(* createIncident appends one incident with the caller's event.            *)
LEMMA CreateEffect ==
  ASSUME IInv, NEW c \in Callers, CreateIncident(c)
  PROVE  /\ event[c] \in 1 .. Len(log)
         /\ Len(inc') = Len(inc) + 1
         /\ \A j \in 1 .. Len(inc) : inc'[j] = inc[j]
         /\ inc'[Len(inc) + 1].source = log[event[c]].source
         /\ inc'[Len(inc) + 1].events = {event[c]}
         /\ inc'[Len(inc) + 1].status = "active"
         /\ pc' \in [Callers -> {"idle", "add", "create", "notify"}]
         /\ pc'[c] \in {"idle", "notify"}
         /\ \A d \in Callers \ {c} :
              pc'[d] = pc[d] /\ event'[d] = event[d] /\ target'[d] = target[d]
         /\ UNCHANGED <<expired, log, lost>>
         /\ peakOpen' = Larger(peakOpen, Cardinality(Open(inc, tracked)) + 1)
<1> DEFINE fresh == [source    |-> log[event[c]].source,
                     severity  |-> log[event[c]].severity,
                     status    |-> "active",
                     recovered |-> FALSE,
                     events    |-> {event[c]}]
<1>1. /\ pc[c] = "create" /\ inc' = Append(inc, fresh)
      /\ UNCHANGED <<expired, log, lost>>
      /\ peakOpen' = Larger(peakOpen, Cardinality(Open(inc, tracked)) + 1)
  BY DEF CreateIncident
<1>2. event[c] \in 1 .. Len(log)
  BY <1>1 DEF IInv, CallersHold
<1>3. log[event[c]] \in [source : Sources, severity : Severities]
  BY <1>2, IncidentFields
<1>4. fresh \in Incident
  <2>1. event[c] \in Nat
    BY <1>2, IncidentFields
  <2> QED BY <1>3, <2>1 DEF Incident, Statuses
<1>5. inc \in Seq(Incident)
  BY DEF IInv, TypeOK, IncidentsOK
<1> HIDE DEF fresh
<1>6. /\ Len(inc') = Len(inc) + 1 /\ inc'[Len(inc) + 1] = fresh
      /\ \A j \in 1 .. Len(inc) : inc'[j] = inc[j]
  BY <1>1, <1>4, <1>5, Appended
<1>7. /\ fresh.source = log[event[c]].source /\ fresh.events = {event[c]}
      /\ fresh.status = "active"
  BY DEF fresh
<1>8. /\ pc' \in [Callers -> {"idle", "add", "create", "notify"}]
      /\ pc'[c] \in {"idle", "notify"}
      /\ \A d \in Callers \ {c} :
           pc'[d] = pc[d] /\ event'[d] = event[d] /\ target'[d] = target[d]
  <2>1. CASE closed
    BY <2>1, ReturnsOK DEF CreateIncident
  <2>2. CASE ~closed
    BY <2>2 DEF CreateIncident, IInv, TypeOK, CallersOK
  <2> QED BY <2>1, <2>2
<1> QED BY <1>1, <1>2, <1>6, <1>7, <1>8

-----------------------------------------------------------------------------
(* evictResolved finds a resolved incident if there is one.                *)
LEMMA NoneResolved ==
  ASSUME IncidentsOK, OldestResolved(tracked) = {}
  PROVE  \A j \in tracked : inc[j].status # "resolved"
<1> DEFINE T == {j \in tracked : inc[j].status = "resolved"}
<1>1. T \subseteq Nat
  <2>1. Len(inc) \in Nat /\ tracked \subseteq 1 .. Len(inc)
    BY SMT DEF IncidentsOK
  <2>2. tracked \subseteq Nat
    BY <2>1
  <2> QED BY <2>2, Zenon
<1>2. ASSUME T # {} PROVE FALSE
  <2>1. PICK x \in T : \A y \in T : x <= y
    BY <1>1, <1>2, LeastNumber
  <2> QED BY <2>1 DEF OldestResolved
<1> QED BY <1>2

-----------------------------------------------------------------------------
(* The size of the map.  A creation that finds nothing to evict finds the  *)
(* whole map unresolved, which is then what peakOpen has seen.             *)
LEMMA TrackedBoundedStep ==
  ASSUME IInv, TrackedBounded, [Next]_vars
  PROVE  TrackedBounded'
<1>1. /\ MaxIncidents \in Nat /\ peakOpen \in Nat /\ IncidentsOK
      /\ Cardinality(tracked) \in Nat /\ IsFiniteSet(tracked)
  BY ResponderAssumption, TrackedFinite DEF IInv, TypeOK, CountersOK
<1>2. CASE tracked' = tracked /\ peakOpen' \in Nat /\ peakOpen' >= peakOpen
  BY <1>1, <1>2 DEF TrackedBounded, Larger
<1>3. ASSUME NEW c \in Callers, CreateIncident(c) PROVE TrackedBounded'
  <2> DEFINE id == Len(inc) + 1
             open == Cardinality(Open(inc, tracked)) + 1
  <2>1. tracked' = TrackedAfter(id) /\ peakOpen' = Larger(peakOpen, open)
    BY <1>3 DEF CreateIncident
  <2>2. open \in Nat
    BY <1>1, TrackedFinite
  <2>3. peakOpen' \in Nat /\ peakOpen' >= peakOpen /\ peakOpen' >= open
    BY <1>1, <2>1, <2>2, LargerNat
  <2> HIDE DEF open
  <2>a. \A n \in Nat : n <= MaxIncidents \/ n <= peakOpen' => n <= Larger(MaxIncidents, peakOpen')
    BY <1>1, <2>3, LargerNat DEF Larger
  <2>4. id \notin tracked
    BY <1>1 DEF IncidentsOK
  <2>5. /\ IsFiniteSet(tracked \cup {id})
        /\ Cardinality(tracked \cup {id}) = Cardinality(tracked) + 1
    BY <1>1, <2>4, FS_AddElement
  <2>6. CASE Cardinality(tracked \cup {id}) <= MaxIncidents
    <3>1. tracked' = tracked \cup {id}
      BY <1>1, <2>1, <2>5, <2>6 DEF TrackedAfter
    <3> QED BY <1>1, <2>5, <2>6, <2>a, <3>1, FS_CardinalityType DEF TrackedBounded
  <2>7. CASE Cardinality(tracked \cup {id}) > MaxIncidents
    <3>1. tracked' = (tracked \ OldestResolved(tracked)) \cup {id}
      BY <2>1, <2>7 DEF TrackedAfter
    <3>2. CASE \E old \in tracked : inc[old].status = "resolved" /\ OldestResolved(tracked) = {old}
      <4>1. PICK old \in tracked : OldestResolved(tracked) = {old}
        BY <3>2
      <4>2. /\ IsFiniteSet(tracked \ {old})
            /\ Cardinality(tracked \ {old}) = Cardinality(tracked) - 1
        BY <1>1, FS_RemoveElement
      <4>3. id \notin tracked \ {old}
        BY <2>4
      <4>4. Cardinality((tracked \ {old}) \cup {id}) = Cardinality(tracked \ {old}) + 1
        BY <4>2, <4>3, FS_AddElement
      <4>5. Cardinality(tracked') = Cardinality(tracked)
        BY <1>1, <3>1, <4>1, <4>2, <4>4
      <4> QED BY <1>1, <2>3, <2>a, <4>5 DEF TrackedBounded, Larger
    <3>3. CASE OldestResolved(tracked) = {}
      <4>1. \A j \in tracked : inc[j].status # "resolved"
        BY <1>1, <3>3, NoneResolved
      <4>2. Open(inc, tracked) = tracked
        BY <4>1 DEF Open
      <4>3. tracked' = tracked \cup {id}
        BY <3>1, <3>3
      <4>4. Cardinality(tracked') = open
        BY <2>5, <4>2, <4>3 DEF open
      <4> QED BY <2>2, <2>3, <2>a, <4>4 DEF TrackedBounded
    <3> QED BY <1>1, <3>2, <3>3, OldestResolvedUnique
  <2> QED BY <1>1, <2>5, <2>6, <2>7
<1>4. ASSUME Settling PROVE TrackedBounded'
  <2>1. IncidentsOK /\ tracked' = tracked
    BY <1>1, <1>4 DEF Settling
  <2>2. Cardinality(Open(inc', tracked)) \in Nat
    BY <1>1, TrackedFinite
  <2>3. peakOpen' \in Nat /\ peakOpen' >= peakOpen
    <3>1. CASE peakOpen' = peakOpen
      BY <1>1, <3>1
    <3>2. CASE peakOpen' = Larger(peakOpen, Cardinality(Open(inc', tracked)))
      BY <1>1, <2>2, <3>2, LargerNat
    <3> QED BY <1>4, <3>1, <3>2 DEF Settling
  <2> QED BY <1>2, <2>1, <2>3
<1>5. ASSUME UNCHANGED <<tracked, peakOpen>> PROVE TrackedBounded'
  BY <1>1, <1>2, <1>5
<1>6. ASSUME NEW c \in Callers, Analyze(c) PROVE TrackedBounded'
  BY <1>3, <1>5, <1>6 DEF Analyze, AnalyzeCorrelates, AnalyzeFindsNone, AddToIncident,
                          NotifyAndRemediate
<1>7. CASE WindowElapses
  BY <1>5, <1>7 DEF WindowElapses
<1> QED BY <1>4, <1>6, <1>7, OthersSettle DEF Next

(* The map never outgrows maxIncidents but for what was once unresolved    *)
(* together (responder.go 175-180, 280-294).                               *)
THEOREM MapIsBounded == Spec => []TrackedBounded
<1>1. Init => TrackedBounded
  <2>1. Cardinality({}) = 0
    BY FS_EmptySet
  <2> QED BY <2>1, ResponderAssumption DEF Init, TrackedBounded, Larger
<1>2. IInv /\ TrackedBounded /\ [Next]_vars => TrackedBounded'
  BY TrackedBoundedStep
<1> QED BY <1>1, <1>2, Invariance, PTL DEF Spec

-----------------------------------------------------------------------------
(* Incidents open side by side.                                            *)

(* The callers that will open an incident for this source.                 *)
Creators(source) ==
  {c \in Callers : pc[c] = "create" /\ log[event[c]].source = source}

(* An incident is resolved only by way of a recovery, and every current    *)
(* incident of a source, and every one about to be opened, has a caller of *)
(* its own: a caller that opens one has found none when it began.          *)
DuplicatesInv ==
  /\ \A id \in 1 .. Len(inc) : inc[id].status = "resolved" => inc[id].recovered
  /\ WindowConfigured =>
       \A source \in Sources :
         Cardinality(Current(source)) + Cardinality(Creators(source)) <= Cardinality(Callers)

LEMMA CountsFinite ==
  ASSUME IInv
  PROVE  /\ IsFiniteSet(Callers) /\ Cardinality(Callers) \in Nat
         /\ \A source \in Sources :
              /\ IsFiniteSet(Current(source)) /\ Cardinality(Current(source)) \in Nat
              /\ IsFiniteSet(Creators(source)) /\ Cardinality(Creators(source)) \in Nat
              /\ Cardinality(Creators(source)) <= Cardinality(Callers)
<1>1. IsFiniteSet(Callers) /\ IsFiniteSet(tracked)
  BY ResponderAssumption, TrackedFinite DEF IInv, TypeOK, Callers
<1>2. ASSUME NEW source \in Sources
      PROVE  Current(source) \in SUBSET tracked /\ Creators(source) \in SUBSET Callers
  BY DEF Current, Creators
<1>3. Cardinality(Callers) \in Nat
  BY <1>1, FS_CardinalityType
<1>4. ASSUME NEW source \in Sources
      PROVE  /\ IsFiniteSet(Current(source)) /\ IsFiniteSet(Creators(source))
             /\ Cardinality(Creators(source)) <= Cardinality(Callers)
  BY <1>1, <1>2, FS_Subset
<1> QED BY <1>1, <1>3, <1>4, FS_CardinalityType

(* Neither set grows: the bound is kept.                                   *)
LEMMA CountsShrink ==
  ASSUME IInv, NEW source \in Sources,
         Cardinality(Current(source)) + Cardinality(Creators(source)) <= Cardinality(Callers),
         NEW A \in SUBSET Current(source), NEW B \in SUBSET Creators(source)
  PROVE  Cardinality(A) + Cardinality(B) <= Cardinality(Callers)
<1>1. /\ IsFiniteSet(A) /\ Cardinality(A) <= Cardinality(Current(source))
      /\ IsFiniteSet(B) /\ Cardinality(B) <= Cardinality(Creators(source))
  BY CountsFinite, FS_Subset
<1>2. Cardinality(A) \in Nat /\ Cardinality(B) \in Nat
  BY <1>1, FS_CardinalityType
<1> QED BY <1>1, <1>2, CountsFinite

LEMMA DuplicatesArrive ==
  ASSUME IInv, IInv', DuplicatesInv, NEW c \in Callers, NEW source \in Sources,
         NEW severity \in Severities,
         \/ AnalyzeCorrelates(c, source, severity)
         \/ AnalyzeFindsNone(c, source, severity)
  PROVE  DuplicatesInv'
<1>1. /\ Arrives(c, source, severity) /\ UNCHANGED <<inc, tracked, expired>>
      /\ pc[c] = "idle"
  BY DEF AnalyzeCorrelates, AnalyzeFindsNone, Arrives
<1>2. \A s \in Sources : Current(s)' = Current(s)
  BY <1>1 DEF Current
<1>3. \A d \in Callers \ {c} : pc'[d] = pc[d] /\ event'[d] = event[d]
  BY <1>1, ArrivesOK DEF AnalyzeCorrelates, AnalyzeFindsNone, IInv, TypeOK, CallersOK
<1>4. \A e \in 1 .. Len(log) : log'[e] = log[e]
  BY <1>1, Appended DEF Arrives, IInv, TypeOK, CallersOK
<1>5. \A d \in Callers \ {c} : \A s \in Sources : d \in Creators(s)' <=> d \in Creators(s)
  <2>1. \A d \in Callers : pc[d] = "create" => event[d] \in 1 .. Len(log)
    BY DEF IInv, CallersHold
  <2> QED BY <1>3, <1>4, <2>1 DEF Creators
<1>6. log'[event'[c]].source = source
  <2>1. log' = Append(log, [source |-> source, severity |-> severity])
        /\ event'[c] = Len(log) + 1
    BY <1>1, ArrivesOK DEF Arrives, IInv, TypeOK, CallersOK
  <2>2. log'[Len(log) + 1] = [source |-> source, severity |-> severity]
    BY <2>1, Appended DEF IInv, TypeOK, CallersOK
  <2> QED BY <2>1, <2>2
<1>7. ASSUME WindowConfigured, NEW s \in Sources
      PROVE  Cardinality(Current(s)') + Cardinality(Creators(s)') <= Cardinality(Callers)
  <2>1. CASE c \notin Creators(s)'
    <3>1. Creators(s)' \in SUBSET Creators(s)
      <4>1. Creators(s)' \subseteq Callers
        BY DEF Creators
      <4> QED BY <1>5, <2>1, <4>1
    <3> QED BY <1>2, <1>7, <3>1, CountsShrink DEF DuplicatesInv
  <2>2. CASE c \in Creators(s)'
    <3>1. pc'[c] = "create" /\ s = source
      BY <1>6, <2>2 DEF Creators
    <3>2. Matching(source) = {}
      BY <3>1 DEF AnalyzeCorrelates, AnalyzeFindsNone, IInv, TypeOK, CallersOK
    <3>3. Current(s) = {}
      BY <1>7, <3>1, <3>2 DEF Current, Matching, EventsCorrelate
    <3>4. Cardinality(Creators(s)') <= Cardinality(Callers)
      <4>1. Creators(s)' \in SUBSET Callers
        BY DEF Creators
      <4> QED BY <4>1, CountsFinite, FS_Subset
    <3>5. Cardinality(Current(s)') = 0 /\ Cardinality(Creators(s)') \in Nat
      <4>1. Creators(s)' \in SUBSET Callers
        BY DEF Creators
      <4> QED BY <1>2, <3>3, <4>1, CountsFinite, FS_EmptySet, FS_Subset, FS_CardinalityType
    <3> QED BY <3>4, <3>5, CountsFinite
  <2> QED BY <2>1, <2>2
<1>8. \A id \in 1 .. Len(inc)' : inc'[id].status = "resolved" => inc'[id].recovered
  BY <1>1 DEF DuplicatesInv
<1> QED BY <1>7, <1>8 DEF DuplicatesInv

LEMMA DuplicatesCreate ==
  ASSUME IInv, IInv', DuplicatesInv, NEW c \in Callers, CreateIncident(c)
  PROVE  DuplicatesInv'
<1> DEFINE id == Len(inc) + 1
<1>1. PICK own : own = log[event[c]].source
  OBVIOUS
<1>2. /\ Len(inc') = Len(inc) + 1 /\ \A j \in 1 .. Len(inc) : inc'[j] = inc[j]
      /\ inc'[Len(inc) + 1].source = own /\ inc'[Len(inc) + 1].status = "active"
      /\ pc'[c] # "create" /\ pc[c] = "create"
      /\ \A d \in Callers \ {c} : pc'[d] = pc[d] /\ event'[d] = event[d]
      /\ UNCHANGED <<expired, log>> /\ own \in Sources
  <2>1. pc[c] = "create"
    BY DEF CreateIncident
  <2>2. own \in Sources
    <3>1. event[c] \in 1 .. Len(log)
      BY CreateEffect
    <3> QED BY <1>1, <3>1, IncidentFields
  <2> QED BY <1>1, <2>1, <2>2, CreateEffect
<1>3. tracked' \subseteq tracked \cup {id}
  BY DEF CreateIncident, TrackedAfter
<1>4. tracked \subseteq 1 .. Len(inc) /\ Len(inc) \in Nat
  BY IncidentFields DEF IInv, TypeOK, IncidentsOK
<1>5. \A s \in Sources : Current(s)' \subseteq Current(s) \cup (IF s = own THEN {id} ELSE {})
  <2>1. ASSUME NEW s \in Sources, NEW j \in Current(s)'
        PROVE  j \in Current(s) \cup (IF s = own THEN {id} ELSE {})
    <3>1. /\ j \in tracked' /\ j > expired' /\ inc'[j].source = s
          /\ inc'[j].status # "resolved" /\ ~inc'[j].recovered
      BY <2>1 DEF Current
    <3>2. CASE j = id
      BY <1>2, <3>1, <3>2
    <3>3. CASE j \in tracked
      BY <1>2, <1>4, <3>1, <3>3 DEF Current
    <3> QED BY <1>3, <3>1, <3>2, <3>3
  <2> QED BY <2>1
<1>6. \A s \in Sources : Creators(s)' = IF s = own THEN Creators(s) \ {c} ELSE Creators(s)
  BY <1>1, <1>2 DEF Creators
<1>7. ASSUME WindowConfigured, NEW s \in Sources
      PROVE  Cardinality(Current(s)') + Cardinality(Creators(s)') <= Cardinality(Callers)
  <2>1. CASE s # own
    <3>1. Current(s)' \in SUBSET Current(s) /\ Creators(s)' \in SUBSET Creators(s)
      BY <1>5, <1>6, <2>1
    <3> QED BY <1>7, <3>1, CountsShrink DEF DuplicatesInv
  <2>2. CASE s = own
    <3>1. /\ IsFiniteSet(Current(s)) /\ Cardinality(Current(s)) \in Nat
          /\ IsFiniteSet(Creators(s)) /\ Cardinality(Creators(s)) \in Nat
          /\ Cardinality(Current(s)) + Cardinality(Creators(s)) <= Cardinality(Callers)
          /\ Cardinality(Callers) \in Nat
      BY <1>7, CountsFinite DEF DuplicatesInv
    <3>2. c \in Creators(s)
      BY <1>1, <1>2, <2>2 DEF Creators
    <3>3. Cardinality(Creators(s)') = Cardinality(Creators(s)) - 1
      BY <1>6, <2>2, <3>1, <3>2, FS_RemoveElement
    <3>4. /\ IsFiniteSet(Current(s) \cup {id})
          /\ Cardinality(Current(s) \cup {id}) <= Cardinality(Current(s)) + 1
      <4>1. /\ IsFiniteSet(Current(s) \cup {id})
            /\ Cardinality(Current(s) \cup {id})
                 = IF id \in Current(s) THEN Cardinality(Current(s))
                   ELSE Cardinality(Current(s)) + 1
        BY <3>1, FS_AddElement
      <4> QED BY <3>1, <4>1
    <3>5. Current(s)' \in SUBSET (Current(s) \cup {id})
      BY <1>5, <2>2
    <3>6. /\ Cardinality(Current(s)') <= Cardinality(Current(s) \cup {id})
          /\ Cardinality(Current(s)') \in Nat /\ Cardinality(Current(s) \cup {id}) \in Nat
      BY <3>4, <3>5, FS_Subset, FS_CardinalityType
    <3> QED BY <3>1, <3>3, <3>4, <3>6
  <2> QED BY <2>1, <2>2
<1>8. \A j \in 1 .. Len(inc') : inc'[j].status = "resolved" => inc'[j].recovered
  BY <1>2, <1>4 DEF DuplicatesInv
<1> QED BY <1>7, <1>8 DEF DuplicatesInv

(* A step by which no incident of a source comes to be, and no creator.    *)
LEMMA DuplicatesKept ==
  ASSUME IInv, DuplicatesInv, Len(inc') = Len(inc), tracked' = tracked,
         expired \in Nat, expired' \in Nat, expired' >= expired, log' = log,
         \A j \in 1 .. Len(inc) :
           /\ inc'[j].source = inc[j].source
           /\ inc[j].recovered => inc'[j].recovered
           /\ inc'[j].status = "resolved" => inc[j].status = "resolved" \/ inc'[j].recovered,
         \A d \in Callers : pc'[d] = "create" => pc[d] = "create" /\ event'[d] = event[d]
  PROVE  DuplicatesInv'
<1>1. tracked \subseteq 1 .. Len(inc) /\ Len(inc) \in Nat
  BY IncidentFields DEF IInv, TypeOK, IncidentsOK
<1>2. ASSUME NEW s \in Sources
      PROVE  Current(s)' \in SUBSET Current(s) /\ Creators(s)' \in SUBSET Creators(s)
  <2>1. ASSUME NEW j \in Current(s)' PROVE j \in Current(s)
    <3>1. /\ j \in tracked /\ j > expired' /\ inc'[j].source = s
          /\ inc'[j].status # "resolved" /\ ~inc'[j].recovered
      BY <2>1 DEF Current
    <3>2. j \in 1 .. Len(inc) /\ j > expired
      BY <1>1, <3>1
    <3>3. inc[j].source = s /\ ~inc[j].recovered
      BY <3>1, <3>2
    <3>4. inc[j].status # "resolved"
      BY <3>2, <3>3 DEF DuplicatesInv
    <3> QED BY <3>1, <3>2, <3>3, <3>4 DEF Current
  <2>2. Creators(s)' \subseteq Creators(s)
    BY DEF Creators
  <2> QED BY <2>1, <2>2
<1>3. \A j \in 1 .. Len(inc') : inc'[j].status = "resolved" => inc'[j].recovered
  BY DEF DuplicatesInv
<1>4. ASSUME WindowConfigured, NEW s \in Sources
      PROVE  Cardinality(Current(s)') + Cardinality(Creators(s)') <= Cardinality(Callers)
  BY <1>2, <1>4, CountsShrink DEF DuplicatesInv
<1> QED BY <1>3, <1>4 DEF DuplicatesInv

LEMMA DuplicatesStep ==
  ASSUME IInv, IInv', DuplicatesInv, [Next]_vars
  PROVE  DuplicatesInv'
<1>0. expired \in Nat /\ expired' \in Nat
  <2>1. Len(inc) \in Nat /\ Len(inc') \in Nat
    BY IncidentFields DEF IInv, TypeOK, IncidentsOK
  <2> QED BY <2>1 DEF IInv, TypeOK, IncidentsOK
<1>1. ASSUME NEW c \in Callers, AddToIncident(c) PROVE DuplicatesInv'
  <2>1. Returns(c) /\ UNCHANGED <<tracked, expired, log>>
    BY <1>1 DEF AddToIncident
  <2>2. \A d \in Callers : pc'[d] = "create" => pc[d] = "create" /\ event'[d] = event[d]
    BY <2>1, ReturnsOK
  <2>3. /\ Len(inc') = Len(inc)
        /\ \A j \in 1 .. Len(inc) :
             /\ inc'[j].source = inc[j].source /\ inc'[j].status = inc[j].status
             /\ inc'[j].recovered = inc[j].recovered
    BY <1>1, AddEffect
  <2> QED BY <1>0, <2>1, <2>2, <2>3, DuplicatesKept
<1>2. ASSUME NEW c \in Callers, NotifyAndRemediate(c) PROVE DuplicatesInv'
  <2>1. Returns(c) /\ UNCHANGED <<inc, tracked, expired, log>>
    BY <1>2 DEF NotifyAndRemediate
  <2>2. \A d \in Callers : pc'[d] = "create" => pc[d] = "create" /\ event'[d] = event[d]
    BY <2>1, ReturnsOK
  <2> QED BY <1>0, <2>1, <2>2, DuplicatesKept
<1>3. CASE WindowElapses
  <2>1. expired' >= expired /\ UNCHANGED <<inc, tracked, log, pc, event>>
    BY <1>0, <1>3 DEF WindowElapses, callVars
  <2> QED BY <1>0, <2>1, DuplicatesKept
<1>4. CASE Settling
  <2>1. /\ UNCHANGED <<tracked, expired, log, pc, event>> /\ Len(inc') = Len(inc)
        /\ \A j \in 1 .. Len(inc) :
             /\ inc'[j].source = inc[j].source
             /\ inc[j].recovered => inc'[j].recovered
             /\ inc'[j].status = "resolved" => inc[j].status = "resolved" \/ inc'[j].recovered
    BY <1>4 DEF Settling, callVars
  <2> QED BY <1>0, <2>1, DuplicatesKept
<1>5. ASSUME NEW c \in Callers, Analyze(c) PROVE DuplicatesInv'
  BY <1>1, <1>2, <1>5, DuplicatesArrive, DuplicatesCreate DEF Analyze
<1> QED BY <1>3, <1>4, <1>5, OthersSettle DEF Next

(* There are never more current incidents of one source than callers of    *)
(* Analyze (responder.go 98-109).                                          *)
THEOREM DuplicatesAreBounded == Spec => []DuplicatesBounded
<1>1. Init => DuplicatesInv
  <2> SUFFICES ASSUME Init PROVE DuplicatesInv
    OBVIOUS
  <2>1. \A s \in Sources : Current(s) = {} /\ Creators(s) = {}
    BY DEF Init, Current, Creators
  <2>2. 1 .. Len(inc) = {}
    BY DEF Init
  <2>3. Cardinality(Callers) \in Nat /\ Cardinality({}) = 0
    BY ResponderAssumption, FS_CardinalityType, FS_EmptySet DEF Callers
  <2>4. \A s \in Sources :
          Cardinality(Current(s)) + Cardinality(Creators(s)) <= Cardinality(Callers)
    BY <2>1, <2>3
  <2> QED BY <2>2, <2>4 DEF DuplicatesInv
<1>2. IInv /\ IInv' /\ DuplicatesInv /\ [Next]_vars => DuplicatesInv'
  BY DuplicatesStep
<1>3. IInv /\ DuplicatesInv => DuplicatesBounded
  <2> SUFFICES ASSUME IInv, DuplicatesInv, WindowConfigured, NEW s \in Sources
               PROVE  Cardinality(Current(s)) <= Cardinality(Callers)
    BY DEF DuplicatesBounded
  <2>1. Cardinality(Current(s)) + Cardinality(Creators(s)) <= Cardinality(Callers)
    BY DEF DuplicatesInv
  <2> QED BY <2>1, CountsFinite
<1> QED BY <1>1, <1>2, <1>3, Invariance, PTL DEF Spec

-----------------------------------------------------------------------------
(* Where events end.                                                       *)

(* The events of an incident are its own and of its source.                *)
RecordsInv ==
  \A id \in 1 .. Len(inc) :
    /\ inc[id].events \subseteq 1 .. Len(log)
    /\ \A e \in inc[id].events :
         /\ log[e].source = inc[id].source
         /\ e \notin lost
         /\ \A other \in 1 .. Len(inc) : e \in inc[other].events => other = id

(* A caller under way holds an event nobody else has, and matched an       *)
(* incident of its source.                                                 *)
PendingInv ==
  \A c \in Callers : Pending(c) =>
    /\ event[c] \notin lost
    /\ \A id \in 1 .. Len(inc) : event[c] \notin inc[id].events
    /\ \A d \in Callers \ {c} : Pending(d) => event[d] # event[c]
    /\ pc[c] = "add" => inc[target[c]].source = log[event[c]].source

(* Every event is somewhere.                                               *)
Placed(e) == Unsettled(e) \/ \E id \in 1 .. Len(inc) : e \in inc[id].events

(* Nothing is evicted, so nothing lost, before the map has overflowed.     *)
OverflowInv ==
  /\ tracked # 1 .. Len(inc) => Len(inc) > MaxIncidents
  /\ lost # {} => Len(inc) > MaxIncidents

AccountingInv ==
  /\ RecordsInv
  /\ PendingInv
  /\ \A e \in 1 .. Len(log) : Placed(e)
  /\ OverflowInv

LEMMA AccountingImplies ==
  ASSUME IInv, AccountingInv
  PROVE  EventAccounting
<1>1. DOMAIN inc = 1 .. Len(inc)
  BY IncidentFields
<1>2. ASSUME NEW e \in 1 .. Len(log), Unsettled(e), NEW id \in 1 .. Len(inc)
      PROVE  e \notin inc[id].events
  <2>1. CASE e \in lost
    BY <2>1 DEF AccountingInv, RecordsInv
  <2>2. CASE \E c \in Callers : event[c] = e /\ pc[c] \in {"add", "create"}
    BY <2>2 DEF AccountingInv, PendingInv, Pending
  <2> QED BY <1>2, <2>1, <2>2 DEF Unsettled
<1>3. ASSUME NEW e \in 1 .. Len(log), ~Unsettled(e)
      PROVE  \E id \in 1 .. Len(inc) :
               /\ inc[id].source = log[e].source
               /\ \A other \in 1 .. Len(inc) : e \in inc[other].events <=> other = id
  <2>1. PICK id \in 1 .. Len(inc) : e \in inc[id].events
    BY <1>3 DEF AccountingInv, Placed
  <2>2. /\ inc[id].source = log[e].source
        /\ \A other \in 1 .. Len(inc) : e \in inc[other].events <=> other = id
    BY <2>1 DEF AccountingInv, RecordsInv
  <2> QED BY <2>2
<1>4. lost # {} => Len(inc) > MaxIncidents
  BY DEF AccountingInv, OverflowInv
<1> QED BY <1>1, <1>2, <1>3, <1>4 DEF EventAccounting

(* A step that moves no event.                                             *)
LEMMA AccountingKept ==
  ASSUME IInv, AccountingInv, Len(inc') = Len(inc),
         \A j \in 1 .. Len(inc) : inc'[j].source = inc[j].source /\ inc'[j].events = inc[j].events,
         tracked' = tracked, log' = log, lost' = lost,
         \A c \in Callers : (Pending(c)' \/ Pending(c)) =>
           pc'[c] = pc[c] /\ event'[c] = event[c] /\ target'[c] = target[c]
  PROVE  AccountingInv'
<1>1. RecordsInv'
  BY DEF AccountingInv, RecordsInv
<1>2. \A c \in Callers : Pending(c)' <=> Pending(c)
  BY DEF Pending
<1>3. PendingInv'
  <2>1. \A c \in Callers : pc[c] = "add" => target[c] \in 1 .. Len(inc)
    BY DEF IInv, CallersHold
  <2> QED BY <1>2, <2>1 DEF AccountingInv, PendingInv, Pending
<1>4. \A e \in 1 .. Len(log) : Placed(e)'
  <2>1. \A e : Unsettled(e) => Unsettled(e)'
    BY <1>2 DEF Unsettled, Pending
  <2> QED BY <2>1 DEF AccountingInv, Placed
<1>5. OverflowInv'
  BY DEF AccountingInv, OverflowInv
<1> QED BY <1>1, <1>3, <1>4, <1>5 DEF AccountingInv

LEMMA AccountingArrive ==
  ASSUME IInv, IInv', AccountingInv, NEW c \in Callers, NEW source \in Sources,
         NEW severity \in Severities,
         \/ AnalyzeCorrelates(c, source, severity)
         \/ AnalyzeFindsNone(c, source, severity)
  PROVE  AccountingInv'
<1>1. /\ Arrives(c, source, severity) /\ UNCHANGED <<inc, tracked, lost>>
      /\ pc[c] = "idle" /\ pc'[c] \in {"add", "create"}
      /\ \A d \in Callers \ {c} : pc'[d] = pc[d] /\ target'[d] = target[d]
  BY DEF AnalyzeCorrelates, AnalyzeFindsNone, Arrives, IInv, TypeOK, CallersOK
<1>2. PICK n : n = Len(log) + 1
  OBVIOUS
<1>3. /\ Len(log') = n /\ n \notin 1 .. Len(log) /\ n \in 1 .. Len(log')
      /\ 1 .. Len(log') = 1 .. Len(log) \cup {n} /\ event'[c] = n
      /\ \A d \in Callers \ {c} : event'[d] = event[d]
  <2>1. /\ Len(log) \in Nat /\ Len(log') = Len(log) + 1 /\ event'[c] = Len(log')
        /\ \A d \in Callers \ {c} : event'[d] = event[d]
    BY <1>1, ArrivesOK
  <2> QED BY <1>2, <2>1
<1>4. /\ log'[n] = [source |-> source, severity |-> severity]
      /\ \A e \in 1 .. Len(log) : log'[e] = log[e]
  BY <1>1, <1>2, Appended DEF Arrives, IInv, TypeOK, CallersOK
<1>5. /\ lost \subseteq 1 .. Len(log)
      /\ \A id \in 1 .. Len(inc) : inc[id].events \subseteq 1 .. Len(log)
      /\ \A d \in Callers : Pending(d) => event[d] \in 1 .. Len(log)
  BY DEF AccountingInv, RecordsInv, IInv, TypeOK, CallersOK, CallersHold, Pending
<1>6. RecordsInv'
  BY <1>1, <1>3, <1>4, <1>5 DEF AccountingInv, RecordsInv
<1>7. \A d \in Callers \ {c} : Pending(d)' <=> Pending(d)
  BY <1>1 DEF Pending
<1>8. pc'[c] = "add" => inc'[target'[c]].source = source
  <2>1. SUFFICES ASSUME pc'[c] = "add" PROVE inc'[target'[c]].source = source
    OBVIOUS
  <2>2. AnalyzeCorrelates(c, source, severity)
    BY <2>1 DEF AnalyzeFindsNone, IInv, TypeOK, CallersOK
  <2>3. PICK id \in Matching(source) : target' = [target EXCEPT ![c] = id]
    BY <2>2 DEF AnalyzeCorrelates
  <2>4. target'[c] = id
    BY <2>3 DEF IInv, TypeOK, CallersOK
  <2> QED BY <1>1, <2>3, <2>4 DEF Matching, EventsCorrelate
<1>9. PendingInv'
  <2>1. ASSUME NEW d \in Callers, Pending(d)'
        PROVE  /\ event'[d] \notin lost'
               /\ \A id \in 1 .. Len(inc') : event'[d] \notin inc'[id].events
               /\ \A f \in Callers \ {d} : Pending(f)' => event'[f] # event'[d]
               /\ pc'[d] = "add" => inc'[target'[d]].source = log'[event'[d]].source
    <3>1. CASE d = c
      <4>1. event'[d] \notin lost' /\ \A id \in 1 .. Len(inc') : event'[d] \notin inc'[id].events
        BY <1>1, <1>3, <1>5, <3>1
      <4>2. \A f \in Callers \ {d} : Pending(f)' => event'[f] # event'[d]
        BY <1>3, <1>5, <1>7, <3>1
      <4>3. pc'[d] = "add" => inc'[target'[d]].source = log'[event'[d]].source
        BY <1>3, <1>4, <1>8, <3>1
      <4> QED BY <4>1, <4>2, <4>3
    <3>2. CASE d # c
      <4>1. Pending(d) /\ event'[d] = event[d] /\ event[d] \in 1 .. Len(log)
            /\ pc'[d] = pc[d] /\ target'[d] = target[d]
        BY <1>1, <1>3, <1>5, <1>7, <2>1, <3>2
      <4>2. event'[d] \notin lost' /\ \A id \in 1 .. Len(inc') : event'[d] \notin inc'[id].events
        BY <1>1, <4>1 DEF AccountingInv, PendingInv
      <4>3. ASSUME NEW f \in Callers \ {d}, Pending(f)' PROVE event'[f] # event'[d]
        <5>1. CASE f = c
          BY <1>3, <4>1, <5>1
        <5>2. CASE f # c
          BY <1>3, <1>7, <4>1, <4>3, <5>2 DEF AccountingInv, PendingInv
        <5> QED BY <5>1, <5>2
      <4>4. pc'[d] = "add" => inc'[target'[d]].source = log'[event'[d]].source
        <5>1. pc[d] = "add" => inc[target[d]].source = log[event[d]].source
          BY <4>1 DEF AccountingInv, PendingInv
        <5>2. log'[event[d]] = log[event[d]]
          BY <1>4, <4>1
        <5> QED BY <1>1, <4>1, <5>1, <5>2
      <4> QED BY <4>2, <4>3, <4>4
    <3> QED BY <3>1, <3>2
  <2> QED BY <2>1 DEF PendingInv
<1>10. \A e \in 1 .. Len(log') : Placed(e)'
  <2>1. Unsettled(n)'
    BY <1>1, <1>3 DEF Unsettled
  <2>2. ASSUME NEW e \in 1 .. Len(log) PROVE Placed(e)'
    <3>1. ASSUME NEW d \in Callers, event[d] = e, pc[d] \in {"add", "create"} PROVE Unsettled(e)'
      BY <1>1, <1>3, <3>1 DEF Unsettled
    <3>2. CASE e \in lost
      BY <1>1, <3>2 DEF Placed, Unsettled
    <3>3. CASE \E id \in 1 .. Len(inc) : e \in inc[id].events
      BY <1>1, <3>3 DEF Placed
    <3> QED BY <3>1, <3>2, <3>3 DEF AccountingInv, Placed, Unsettled
  <2>3. ASSUME NEW e \in 1 .. Len(log'), e = n PROVE Placed(e)'
    BY <1>1, <1>3, <2>3 DEF Placed, Unsettled
  <2> QED BY <1>3, <2>2, <2>3
<1>11. OverflowInv'
  BY <1>1 DEF AccountingInv, OverflowInv
<1> QED BY <1>6, <1>9, <1>10, <1>11 DEF AccountingInv

LEMMA AccountingAdd ==
  ASSUME IInv, IInv', AccountingInv, NEW c \in Callers, AddToIncident(c)
  PROVE  AccountingInv'
<1> DEFINE t == target[c]
<1>0. PICK n : n = event[c]
  OBVIOUS
<1>1. /\ pc[c] = "add" /\ Returns(c) /\ UNCHANGED <<tracked, log>>
      /\ n \in 1 .. Len(log) /\ t \in 1 .. Len(inc) /\ Len(inc') = Len(inc)
      /\ \A j \in 1 .. Len(inc) : inc'[j].source = inc[j].source
  BY <1>0, AddEffect DEF AddToIncident
<1>2. /\ ~Pending(c)' /\ Pending(c)
      /\ \A d \in Callers \ {c} :
           pc'[d] = pc[d] /\ event'[d] = event[d] /\ target'[d] = target[d]
           /\ (Pending(d)' <=> Pending(d))
  BY <1>1, ReturnsOK DEF Pending
<1>3. /\ n \notin lost /\ \A id \in 1 .. Len(inc) : n \notin inc[id].events
      /\ \A d \in Callers \ {c} : Pending(d) => event[d] # n
      /\ inc[t].source = log[n].source
  BY <1>0, <1>1, <1>2 DEF AccountingInv, PendingInv
<1>4. \A d \in Callers : Pending(d) /\ pc[d] = "add" => target[d] \in 1 .. Len(inc)
  BY DEF IInv, CallersHold, Pending
<1>5. \/ /\ lost' = lost
         /\ \A j \in 1 .. Len(inc) :
              inc'[j].events = IF j = t THEN inc[j].events \cup {n} ELSE inc[j].events
      \/ /\ t \notin tracked /\ lost' = lost \cup {n}
         /\ \A j \in 1 .. Len(inc) : inc'[j].events = inc[j].events
  BY <1>0, AddEffect
<1> HIDE DEF t
<1>6. /\ lost' \subseteq lost \cup {n}
      /\ \A j \in 1 .. Len(inc) : inc'[j].events \subseteq inc[j].events \cup {n}
      /\ \A j \in 1 .. Len(inc) : inc[j].events \subseteq inc'[j].events
      /\ lost \subseteq lost'
      /\ \A j \in 1 .. Len(inc) : n \in inc'[j].events => j = t /\ n \notin lost'
      /\ n \in lost' \/ n \in inc'[t].events
  BY <1>1, <1>3, <1>5
<1>7. RecordsInv'
  <2>1. ASSUME NEW id \in 1 .. Len(inc)
        PROVE  /\ inc'[id].events \subseteq 1 .. Len(log)
               /\ \A e \in inc'[id].events :
                    /\ log[e].source = inc'[id].source /\ e \notin lost'
                    /\ \A other \in 1 .. Len(inc) : e \in inc'[other].events => other = id
    <3>1. inc'[id].events \subseteq 1 .. Len(log)
      BY <1>1, <1>6 DEF AccountingInv, RecordsInv
    <3>2. ASSUME NEW e \in inc'[id].events
          PROVE  /\ log[e].source = inc'[id].source /\ e \notin lost'
                 /\ \A other \in 1 .. Len(inc) : e \in inc'[other].events => other = id
      <4>1. CASE e = n
        BY <1>1, <1>3, <1>6, <3>2, <4>1
      <4>2. CASE e # n
        <5>1. e \in inc[id].events /\ \A other \in 1 .. Len(inc) :
                e \in inc'[other].events => e \in inc[other].events
          BY <1>6, <3>2, <4>2
        <5>2. e \notin lost'
          BY <1>6, <4>2, <5>1 DEF AccountingInv, RecordsInv
        <5> QED BY <1>1, <5>1, <5>2 DEF AccountingInv, RecordsInv
      <4> QED BY <4>1, <4>2
    <3> QED BY <3>1, <3>2
  <2> QED BY <1>1, <2>1 DEF RecordsInv
<1>8. PendingInv'
  <2>1. ASSUME NEW d \in Callers, Pending(d)'
        PROVE  /\ event'[d] \notin lost'
               /\ \A id \in 1 .. Len(inc') : event'[d] \notin inc'[id].events
               /\ \A f \in Callers \ {d} : Pending(f)' => event'[f] # event'[d]
               /\ pc'[d] = "add" => inc'[target'[d]].source = log'[event'[d]].source
    <3>1. /\ d # c /\ Pending(d) /\ event'[d] = event[d] /\ event[d] # n
          /\ pc'[d] = pc[d] /\ target'[d] = target[d]
      BY <1>2, <1>3, <2>1
    <3>2. event'[d] \notin lost' /\ \A id \in 1 .. Len(inc') : event'[d] \notin inc'[id].events
      BY <1>1, <1>6, <3>1 DEF AccountingInv, PendingInv
    <3>3. ASSUME NEW f \in Callers \ {d}, Pending(f)' PROVE event'[f] # event'[d]
      <4>1. f # c /\ Pending(f) /\ event'[f] = event[f]
        BY <1>2, <3>3
      <4> QED BY <3>1, <3>3, <4>1 DEF AccountingInv, PendingInv
    <3>4. pc'[d] = "add" => inc'[target'[d]].source = log'[event'[d]].source
      BY <1>1, <1>4, <3>1 DEF AccountingInv, PendingInv
    <3> QED BY <3>2, <3>3, <3>4
  <2> QED BY <2>1 DEF PendingInv
<1>9. ASSUME NEW e \in 1 .. Len(log) PROVE Placed(e)'
  <2>1. CASE e = n
    BY <1>1, <1>6, <2>1 DEF Placed, Unsettled
  <2>2. CASE e # n /\ e \in lost
    BY <1>6, <2>2 DEF Placed, Unsettled
  <2>3. CASE \E id \in 1 .. Len(inc) : e \in inc[id].events
    BY <1>1, <1>6, <2>3 DEF Placed
  <2>4. ASSUME e # n, NEW d \in Callers, event[d] = e, pc[d] \in {"add", "create"}
        PROVE  Placed(e)'
    <3>1. d # c
      BY <1>0, <2>4
    <3>2. event'[d] = e /\ pc'[d] \in {"add", "create"}
      BY <1>2, <2>4, <3>1
    <3> QED BY <3>2 DEF Placed, Unsettled
  <2> QED BY <2>1, <2>2, <2>3, <2>4 DEF AccountingInv, Placed, Unsettled
<1>10. OverflowInv'
  <2>1. CASE lost' = lost
    BY <1>1, <2>1 DEF AccountingInv, OverflowInv
  <2>2. CASE t \notin tracked
    BY <1>1, <2>2 DEF AccountingInv, OverflowInv
  <2> QED BY <1>5, <2>1, <2>2
<1> QED BY <1>1, <1>7, <1>8, <1>9, <1>10 DEF AccountingInv

LEMMA AccountingCreate ==
  ASSUME IInv, IInv', AccountingInv, NEW c \in Callers, CreateIncident(c)
  PROVE  AccountingInv'
<1>0. PICK n, new : n = event[c] /\ new = Len(inc) + 1
  OBVIOUS
<1>1. /\ pc[c] = "create" /\ n \in 1 .. Len(log) /\ UNCHANGED <<log, lost>>
      /\ Len(inc') = new /\ \A j \in 1 .. Len(inc) : inc'[j] = inc[j]
      /\ inc'[new].source = log[n].source /\ inc'[new].events = {n}
  BY <1>0, CreateEffect DEF CreateIncident
<1>2. /\ ~Pending(c)' /\ Pending(c)
      /\ \A d \in Callers \ {c} :
           pc'[d] = pc[d] /\ event'[d] = event[d] /\ target'[d] = target[d]
           /\ (Pending(d)' <=> Pending(d))
  BY <1>1, CreateEffect DEF Pending
<1>3. /\ n \notin lost /\ \A id \in 1 .. Len(inc) : n \notin inc[id].events
      /\ \A d \in Callers \ {c} : Pending(d) => event[d] # n
  BY <1>0, <1>2 DEF AccountingInv, PendingInv
<1>4. \A d \in Callers : Pending(d) /\ pc[d] = "add" => target[d] \in 1 .. Len(inc)
  BY DEF IInv, CallersHold, Pending
<1>5. 1 .. Len(inc') = 1 .. Len(inc) \cup {new} /\ new \notin 1 .. Len(inc) /\ Len(inc) \in Nat
  BY <1>0, <1>1, IncidentFields
<1>6. RecordsInv'
  <2>1. ASSUME NEW id \in 1 .. Len(inc')
        PROVE  /\ inc'[id].events \subseteq 1 .. Len(log)
               /\ \A e \in inc'[id].events :
                    /\ log[e].source = inc'[id].source /\ e \notin lost
                    /\ \A other \in 1 .. Len(inc') : e \in inc'[other].events => other = id
    <3>1. CASE id = new
      BY <1>1, <1>3, <1>5, <3>1
    <3>2. CASE id \in 1 .. Len(inc)
      <4>1. /\ inc[id].events \subseteq 1 .. Len(log)
            /\ \A e \in inc[id].events :
                 /\ log[e].source = inc[id].source /\ e \notin lost
                 /\ \A other \in 1 .. Len(inc) : e \in inc[other].events => other = id
        BY <3>2 DEF AccountingInv, RecordsInv
      <4>2. inc'[id] = inc[id] /\ n \notin inc[id].events
        BY <1>1, <1>3, <3>2
      <4>3. ASSUME NEW e \in inc[id].events, NEW other \in 1 .. Len(inc'),
                   e \in inc'[other].events
            PROVE  other = id
        <5>1. other # new
          BY <1>1, <4>2, <4>3
        <5>2. other \in 1 .. Len(inc)
          BY <1>5, <5>1
        <5> QED BY <1>1, <4>1, <4>3, <5>2
      <4> QED BY <4>1, <4>2, <4>3
    <3> QED BY <1>5, <3>1, <3>2
  <2> QED BY <1>1, <2>1 DEF RecordsInv
<1>7. PendingInv'
  <2>1. ASSUME NEW d \in Callers, Pending(d)'
        PROVE  /\ event'[d] \notin lost'
               /\ \A id \in 1 .. Len(inc') : event'[d] \notin inc'[id].events
               /\ \A f \in Callers \ {d} : Pending(f)' => event'[f] # event'[d]
               /\ pc'[d] = "add" => inc'[target'[d]].source = log'[event'[d]].source
    <3>1. /\ d # c /\ Pending(d) /\ event'[d] = event[d] /\ event[d] # n
          /\ pc'[d] = pc[d] /\ target'[d] = target[d]
      BY <1>2, <1>3, <2>1
    <3>2. event'[d] \notin lost' /\ \A id \in 1 .. Len(inc') : event'[d] \notin inc'[id].events
      BY <1>1, <1>5, <3>1 DEF AccountingInv, PendingInv
    <3>3. ASSUME NEW f \in Callers \ {d}, Pending(f)' PROVE event'[f] # event'[d]
      <4>1. f # c /\ Pending(f) /\ event'[f] = event[f]
        BY <1>2, <3>3
      <4> QED BY <3>1, <3>3, <4>1 DEF AccountingInv, PendingInv
    <3>4. pc'[d] = "add" => inc'[target'[d]].source = log'[event'[d]].source
      BY <1>1, <1>4, <3>1 DEF AccountingInv, PendingInv
    <3> QED BY <3>2, <3>3, <3>4
  <2> QED BY <2>1 DEF PendingInv
<1>8. ASSUME NEW e \in 1 .. Len(log) PROVE Placed(e)'
  <2>1. CASE e = n
    BY <1>1, <1>5, <2>1 DEF Placed
  <2>2. CASE e \in lost
    BY <1>1, <2>2 DEF Placed, Unsettled
  <2>3. CASE \E id \in 1 .. Len(inc) : e \in inc[id].events
    BY <1>1, <1>5, <2>3 DEF Placed
  <2>4. ASSUME e # n, NEW d \in Callers, event[d] = e, pc[d] \in {"add", "create"}
        PROVE  Placed(e)'
    <3>1. d # c
      BY <1>0, <2>4
    <3>2. event'[d] = e /\ pc'[d] \in {"add", "create"}
      BY <1>2, <2>4, <3>1
    <3> QED BY <3>2 DEF Placed, Unsettled
  <2> QED BY <2>1, <2>2, <2>3, <2>4 DEF AccountingInv, Placed, Unsettled
<1>9. OverflowInv'
  <2>1. MaxIncidents \in Nat /\ IncidentsOK
    BY ResponderAssumption DEF IInv, TypeOK
  <2>2. CASE tracked' = tracked \cup {new}
    <3>1. tracked' # 1 .. Len(inc') => tracked # 1 .. Len(inc)
      BY <1>5, <2>2
    <3>2. Len(inc) > MaxIncidents => Len(inc') > MaxIncidents
      BY <1>0, <1>1, <1>5, <2>1
    <3> QED BY <1>1, <3>1, <3>2 DEF AccountingInv, OverflowInv
  <2>3. CASE Cardinality(tracked) >= MaxIncidents
    <3>1. Cardinality(tracked) <= Len(inc) /\ Cardinality(tracked) \in Nat
      <4>1. IsFiniteSet(1 .. Len(inc)) /\ Cardinality(1 .. Len(inc)) = Len(inc)
        <5>1. /\ IsFiniteSet(1 .. Len(inc))
              /\ Cardinality(1 .. Len(inc)) = IF 1 > Len(inc) THEN 0 ELSE Len(inc) - 1 + 1
          <6>1. 1 \in Int /\ Len(inc) \in Int
            BY <1>5
          <6> QED BY <6>1, FS_Interval
        <5> QED BY <1>5, <5>1
      <4>2. tracked \in SUBSET (1 .. Len(inc))
        BY <2>1 DEF IncidentsOK
      <4> QED BY <2>1, <4>1, <4>2, FS_Subset, TrackedFinite
    <3>2. Len(inc') > MaxIncidents
      BY <1>0, <1>1, <1>5, <2>1, <2>3, <3>1
    <3> QED BY <3>2 DEF OverflowInv
  <2>4. tracked' = TrackedAfter(new)
    BY <1>0 DEF CreateIncident
  <2> QED BY <1>0, <2>1, <2>2, <2>3, <2>4, TrackedAfterCases
<1> QED BY <1>1, <1>6, <1>7, <1>8, <1>9 DEF AccountingInv

LEMMA AccountingStep ==
  ASSUME IInv, IInv', AccountingInv, [Next]_vars
  PROVE  AccountingInv'
<1>1. ASSUME NEW c \in Callers, NotifyAndRemediate(c) PROVE AccountingInv'
  <2>1. pc[c] = "notify" /\ Returns(c) /\ UNCHANGED <<inc, tracked, log, lost>>
    BY <1>1 DEF NotifyAndRemediate
  <2>2. \A d \in Callers : (Pending(d)' \/ Pending(d)) =>
          pc'[d] = pc[d] /\ event'[d] = event[d] /\ target'[d] = target[d]
    BY <2>1, ReturnsOK DEF Pending
  <2> QED BY <2>1, <2>2, AccountingKept
<1>2. CASE WindowElapses
  BY <1>2, AccountingKept DEF WindowElapses, callVars
<1>3. CASE Settling
  BY <1>3, AccountingKept DEF Settling, callVars
<1>4. ASSUME NEW c \in Callers, Analyze(c) PROVE AccountingInv'
  BY <1>1, <1>4, AccountingArrive, AccountingAdd, AccountingCreate DEF Analyze
<1> QED BY <1>2, <1>3, <1>4, OthersSettle DEF Next

(* An event given to Analyze ends in exactly one incident, of its source,  *)
(* or is lost with an incident that was evicted, for which the map must    *)
(* have overflowed (responder.go 98-111, 195-204).                         *)
THEOREM EventsAreAccounted == Spec => []EventAccounting
<1>1. Init => AccountingInv
  <2> SUFFICES ASSUME Init PROVE AccountingInv
    OBVIOUS
  <2>1. 1 .. Len(inc) = {} /\ 1 .. Len(log) = {} /\ tracked = {} /\ lost = {}
    BY DEF Init
  <2>2. \A c \in Callers : ~Pending(c)
    BY DEF Init, Pending
  <2> QED BY <2>1, <2>2 DEF AccountingInv, RecordsInv, PendingInv, OverflowInv
<1>2. IInv /\ IInv' /\ AccountingInv /\ [Next]_vars => AccountingInv'
  BY AccountingStep
<1>3. IInv /\ AccountingInv => EventAccounting
  BY AccountingImplies
<1> QED BY <1>1, <1>2, <1>3, Invariance, PTL DEF Spec
=============================================================================
