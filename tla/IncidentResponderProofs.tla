----------------------- MODULE IncidentResponderProofs -----------------------
(***************************************************************************)
(* The incident responder, for every set of callers, sources and every     *)
(* bound: its state keeps its types, and no unresolved incident is ever    *)
(* lost from the map.                                                      *)
(*                                                                         *)
(* Types alone are not inductive: a caller between two critical sections   *)
(* uses an event and an incident it read before, so IInv says that these   *)
(* exist at every program point that uses them, and that the breaker's     *)
(* counter has passed its bound exactly when the breaker has tripped.      *)
(***************************************************************************)
EXTENDS IncidentResponder, FiniteSetTheorems, TLAPS

(* What a caller holds between its critical sections exists.               *)
CallersHold ==
  \A c \in Callers :
    /\ pc[c] # "idle" => event[c] \in 1 .. Len(log)
    /\ pc[c] \in {"add", "notify"} => target[c] \in 1 .. Len(inc)

BreakerOK == breaker.tripped <=> breaker.attempts = MaxAttempts + 1

IInv == TypeOK /\ CallersHold /\ BreakerOK

-----------------------------------------------------------------------------
(* A check keeps the breaker's entry a breaker's entry.                    *)
LEMMA CheckedBreaker ==
  ASSUME NEW cb \in Breaker, NEW idle \in BOOLEAN,
         cb.tripped <=> cb.attempts = MaxAttempts + 1
  PROVE  /\ Checked(cb, idle) \in Breaker
         /\ Checked(cb, idle).tripped
              <=> Checked(cb, idle).attempts = MaxAttempts + 1
<1> DEFINE entry == AfterIdle(cb, idle)
<1>1. entry \in Breaker /\ (entry.tripped <=> entry.attempts = MaxAttempts + 1)
  <2>1. CASE idle
    BY <2>1, MaxAttemptsAssumption, SMT DEF AfterIdle, FreshBreaker, Breaker
  <2>2. CASE ~idle
    BY <2>2 DEF AfterIdle
  <2>q. QED
    BY <2>1, <2>2
<1> HIDE DEF entry
<1>2. entry.attempts \in 0 .. MaxAttempts + 1 /\ entry.tripped \in BOOLEAN
  BY <1>1 DEF Breaker
<1>3. CASE entry.tripped
  <2>1. Checked(cb, idle) = entry
    BY <1>3 DEF Checked, entry
  <2>q. QED
    BY <1>1, <2>1
<1>4. CASE ~entry.tripped
  <2> DEFINE n == entry.attempts + 1
  <2>1. Checked(cb, idle) = [attempts |-> n, tripped |-> n > MaxAttempts]
    BY <1>4 DEF Checked, entry
  <2>2. n \in 0 .. MaxAttempts + 1 /\ (n > MaxAttempts <=> n = MaxAttempts + 1)
    BY <1>1, <1>2, <1>4, MaxAttemptsAssumption, SMT
  <2> DEFINE late == n > MaxAttempts
  <2>3. late \in BOOLEAN /\ (late <=> n = MaxAttempts + 1)
    BY <2>2
  <2>4. Checked(cb, idle) = [attempts |-> n, tripped |-> late]
    BY <2>1
  <2> HIDE DEF n, late
  <2>5. Checked(cb, idle).attempts = n /\ Checked(cb, idle).tripped = late
    BY <2>4
  <2>6. Checked(cb, idle) \in Breaker
    BY <2>2, <2>3, <2>4 DEF Breaker
  <2>q. QED
    BY <2>3, <2>5, <2>6
<1>q. QED
  BY <1>3, <1>4

(* What appending to a sequence changes.                                   *)
LEMMA Appended ==
  ASSUME NEW S, NEW s \in Seq(S), NEW e \in S
  PROVE  /\ Len(s) \in Nat
         /\ DOMAIN s = 1 .. Len(s)
         /\ Append(s, e) \in Seq(S)
         /\ Len(Append(s, e)) = Len(s) + 1
         /\ DOMAIN Append(s, e) = 1 .. Len(s) + 1
         /\ \A i \in 1 .. Len(s) : Append(s, e)[i] = s[i]
         /\ Append(s, e)[Len(s) + 1] = e
  BY SMT

LEMMA Element ==
  ASSUME NEW S, NEW s \in Seq(S), NEW i \in 1 .. Len(s)
  PROVE  s[i] \in S
  BY SMT

(* What updating a field of one element of a sequence changes.             *)
LEMMA Updated ==
  ASSUME NEW S, NEW s \in Seq(S), NEW i \in 1 .. Len(s), NEW e \in S
  PROVE  /\ [s EXCEPT ![i] = e] \in Seq(S)
         /\ Len([s EXCEPT ![i] = e]) = Len(s)
         /\ [s EXCEPT ![i] = e][i] = e
         /\ \A j \in 1 .. Len(s) : j # i => [s EXCEPT ![i] = e][j] = s[j]
  BY SMT

(* The initial state satisfies the invariant.                              *)
LEMMA InitIInv == Init => IInv
<1> SUFFICES ASSUME Init PROVE IInv
  OBVIOUS
<1>1. BreakerOK
  BY MaxAttemptsAssumption, SMT DEF Init, FreshBreaker, BreakerOK
<1>2. IncidentsOK
  BY SMT DEF Init, IncidentsOK
<1>3. CallersOK
  BY SMT DEF Init, CallersOK
<1>4. RemediationOK
  <2>1. breaker \in Breaker
    BY MaxAttemptsAssumption, SMT DEF Init, FreshBreaker, Breaker
  <2>2. <<>> \in Seq(RemStates) /\ Len(<<>>) = Len(<<>>)
    BY SMT
  <2>q. QED
    BY <2>1, <2>2 DEF Init, RemediationOK
<1>5. CountersOK
  BY DEF Init, CountersOK
<1>6. CallersHold
  BY DEF Init, CallersHold
<1>q. QED
  BY <1>1, <1>2, <1>3, <1>4, <1>5, <1>6 DEF IInv, TypeOK

-----------------------------------------------------------------------------
(* The invariant is kept, one lemma per action.                            *)

(* An arriving event is a new one, and belongs to its caller.              *)
LEMMA ArrivesOK ==
  ASSUME IInv, NEW c \in Callers, NEW source \in Sources,
         NEW severity \in Severities, Arrives(c, source, severity)
  PROVE  /\ log' \in Seq([source : Sources, severity : Severities])
         /\ Len(log) \in Nat /\ Len(log') = Len(log) + 1
         /\ event' \in [Callers -> 0 .. Len(log')]
         /\ event'[c] = Len(log')
         /\ \A d \in Callers \ {c} : event'[d] = event[d]
         /\ 1 .. Len(log) \subseteq 1 .. Len(log')
<1>1. /\ log \in Seq([source : Sources, severity : Severities])
      /\ event \in [Callers -> 0 .. Len(log)]
  BY DEF IInv, TypeOK, CallersOK
<1>2. /\ log' = Append(log, [source |-> source, severity |-> severity])
      /\ event' = [event EXCEPT ![c] = Len(log) + 1]
  BY DEF Arrives
<1>3. /\ log' \in Seq([source : Sources, severity : Severities])
      /\ Len(log) \in Nat /\ Len(log') = Len(log) + 1
  BY <1>1, <1>2, Appended
<1>q. QED
  BY <1>1, <1>2, <1>3, SMT

LEMMA AnalyzeCorrelatesIInv ==
  ASSUME IInv, NEW c \in Callers, NEW source \in Sources,
         NEW severity \in Severities, AnalyzeCorrelates(c, source, severity)
  PROVE  IInv'
<1>1. Arrives(c, source, severity)
  BY DEF AnalyzeCorrelates
<1>2. PICK id \in Matching(source) : target' = [target EXCEPT ![c] = id]
  BY DEF AnalyzeCorrelates
<1>3. id \in 1 .. Len(inc)
  BY <1>2 DEF Matching, IInv, TypeOK, IncidentsOK
<1>4. /\ pc' = [pc EXCEPT ![c] = "add"]
      /\ UNCHANGED <<inc, tracked, expired, closed, lost, notified, remVars,
                     resolutions, userOps, peakOpen>>
  BY DEF AnalyzeCorrelates
<1>5. CallersOK /\ CallersHold
  BY DEF IInv, TypeOK
<1>6. /\ pc' \in [Callers -> {"idle", "add", "create", "notify"}]
      /\ target' \in [Callers -> 0 .. Len(inc)] /\ target'[c] = id
      /\ \A d \in Callers \ {c} : pc'[d] = pc[d] /\ target'[d] = target[d]
  BY <1>2, <1>3, <1>4, <1>5, SMT DEF CallersOK
<1>7. CallersOK'
  BY <1>1, <1>4, <1>5, <1>6, ArrivesOK DEF CallersOK
<1>8. CallersHold'
  <2>1. ASSUME NEW d \in Callers
        PROVE  /\ pc'[d] # "idle" => event'[d] \in 1 .. Len(log')
               /\ pc'[d] \in {"add", "notify"} => target'[d] \in 1 .. Len(inc')
    <3>1. CASE d = c
      <4>1. Len(log') \in 1 .. Len(log')
        BY <1>1, ArrivesOK, SMT
      <4>q. QED
        BY <1>1, <1>3, <1>4, <1>6, <3>1, <4>1, ArrivesOK
    <3>2. CASE d # c
      BY <1>1, <1>4, <1>5, <1>6, <3>2, ArrivesOK DEF CallersHold
    <3>q. QED
      BY <3>1, <3>2
  <2>q. QED
    BY <2>1 DEF CallersHold
<1>q. QED
  BY <1>4, <1>7, <1>8 DEF IInv, TypeOK, IncidentsOK, RemediationOK, CountersOK,
                          BreakerOK, remVars

LEMMA AnalyzeFindsNoneIInv ==
  ASSUME IInv, NEW c \in Callers, NEW source \in Sources,
         NEW severity \in Severities, AnalyzeFindsNone(c, source, severity)
  PROVE  IInv'
<1>1. Arrives(c, source, severity)
  BY DEF AnalyzeFindsNone
<1>2. /\ pc' = [pc EXCEPT ![c] = "create"]
      /\ UNCHANGED <<inc, tracked, expired, closed, target, lost, notified,
                     remVars, resolutions, userOps, peakOpen>>
  BY DEF AnalyzeFindsNone
<1>3. CallersOK /\ CallersHold
  BY DEF IInv, TypeOK
<1>4. /\ pc' \in [Callers -> {"idle", "add", "create", "notify"}]
      /\ pc'[c] = "create" /\ \A d \in Callers \ {c} : pc'[d] = pc[d]
  BY <1>2, <1>3, SMT DEF CallersOK
<1>5. CallersOK'
  BY <1>1, <1>2, <1>3, <1>4, ArrivesOK DEF CallersOK
<1>6. CallersHold'
  <2>1. ASSUME NEW d \in Callers
        PROVE  /\ pc'[d] # "idle" => event'[d] \in 1 .. Len(log')
               /\ pc'[d] \in {"add", "notify"} => target'[d] \in 1 .. Len(inc')
    <3>1. CASE d = c
      <4>1. Len(log') \in 1 .. Len(log')
        BY <1>1, ArrivesOK, SMT
      <4>q. QED
        BY <1>1, <1>4, <3>1, <4>1, ArrivesOK
    <3>2. CASE d # c
      BY <1>1, <1>2, <1>3, <1>4, <3>2, ArrivesOK DEF CallersHold
    <3>q. QED
      BY <3>1, <3>2
  <2>q. QED
    BY <2>1 DEF CallersHold
<1>q. QED
  BY <1>2, <1>5, <1>6 DEF IInv, TypeOK, IncidentsOK, RemediationOK, CountersOK,
                          BreakerOK, remVars

(* A caller that returns holds nothing.                                    *)
LEMMA ReturnsOK ==
  ASSUME IInv, NEW c \in Callers, Returns(c)
  PROVE  /\ pc' \in [Callers -> {"idle", "add", "create", "notify"}]
         /\ event' \in [Callers -> 0 .. Len(log)]
         /\ target' \in [Callers -> 0 .. Len(inc)]
         /\ pc'[c] = "idle"
         /\ \A d \in Callers \ {c} :
              pc'[d] = pc[d] /\ event'[d] = event[d] /\ target'[d] = target[d]
<1>1. Len(log) \in Nat /\ Len(inc) \in Nat
  BY SMT DEF IInv, TypeOK, CallersOK, IncidentsOK
<1>2. 0 \in 0 .. Len(log) /\ 0 \in 0 .. Len(inc)
  BY <1>1, SMT
<1>q. QED
  BY <1>2, SMT DEF Returns, IInv, TypeOK, CallersOK

LEMMA AddToIncidentIInv ==
  ASSUME IInv, NEW c \in Callers, AddToIncident(c)
  PROVE  IInv'
<1>1. /\ pc[c] = "add" /\ Returns(c)
      /\ UNCHANGED <<tracked, expired, closed, log, notified, remVars,
                     resolutions, userOps, peakOpen>>
  BY DEF AddToIncident
<1>2. /\ event[c] \in 1 .. Len(log) /\ event[c] \in Nat
      /\ target[c] \in 1 .. Len(inc)
  BY <1>1, SMT DEF IInv, CallersHold, TypeOK, CallersOK
<1>3. inc' \in Seq(Incident) /\ Len(inc') = Len(inc) /\ lost' \subseteq 1 .. Len(log)
  <2>1. CASE inc' = [inc EXCEPT ![target[c]].events = @ \cup {event[c]}] /\ UNCHANGED lost
    <3> DEFINE t == target[c]
               entry == [inc[t] EXCEPT !.events = @ \cup {event[c]}]
    <3>1. inc \in Seq(Incident) /\ inc[t] \in Incident
      BY <1>2, SMT DEF IInv, TypeOK, IncidentsOK
    <3>2. entry \in Incident
      BY <1>2, <3>1 DEF Incident
    <3>3. inc' = [inc EXCEPT ![t] = entry]
      BY <2>1
    <3> HIDE DEF entry, t
    <3>4. t \in 1 .. Len(inc)
      BY <1>2 DEF t
    <3>5. inc' \in Seq(Incident) /\ Len(inc') = Len(inc)
      BY <3>1, <3>2, <3>3, <3>4, Updated
    <3>q. QED
      BY <2>1, <3>5 DEF IInv, TypeOK, CallersOK
  <2>2. CASE lost' = lost \cup {event[c]} /\ UNCHANGED inc
    BY <1>2, <2>2 DEF IInv, TypeOK, CallersOK, IncidentsOK
  <2>q. QED
    BY <2>1, <2>2 DEF AddToIncident
<1>4. IncidentsOK'
  BY <1>1, <1>3 DEF IInv, TypeOK, IncidentsOK
<1>5. CallersOK'
  BY <1>1, <1>3, ReturnsOK DEF IInv, TypeOK, CallersOK
<1>6. CallersHold'
  BY <1>1, <1>3, ReturnsOK DEF IInv, CallersHold
<1>7. RemediationOK' /\ CountersOK' /\ BreakerOK'
  BY <1>1, <1>3 DEF IInv, TypeOK, RemediationOK, CountersOK, BreakerOK, remVars
<1>q. QED
  BY <1>4, <1>5, <1>6, <1>7 DEF IInv, TypeOK

(* The map is finite, so its unresolved incidents can be counted.          *)
LEMMA TrackedFinite ==
  ASSUME IncidentsOK
  PROVE  /\ IsFiniteSet(tracked) /\ Cardinality(tracked) \in Nat
         /\ \A incidents : /\ IsFiniteSet(Open(incidents, tracked))
                           /\ Cardinality(Open(incidents, tracked)) \in Nat
<1>1. Len(inc) \in Nat
  BY SMT DEF IncidentsOK
<1>2. IsFiniteSet(1 .. Len(inc))
  BY <1>1, FS_Interval, SMT
<1>3. IsFiniteSet(tracked)
  BY <1>2, FS_Subset DEF IncidentsOK
<1>4. \A incidents : IsFiniteSet(Open(incidents, tracked))
  <2>1. TAKE incidents
  <2>2. Open(incidents, tracked) \in SUBSET tracked
    BY DEF Open
  <2>q. QED
    BY <1>3, <2>2, FS_Subset
<1>q. QED
  BY <1>3, <1>4, FS_CardinalityType

LEMMA LargerNat ==
  ASSUME NEW a \in Nat, NEW b \in Nat
  PROVE  Larger(a, b) \in Nat /\ Larger(a, b) >= a /\ Larger(a, b) >= b
  BY SMT DEF Larger

LEMMA CreateIncidentIInv ==
  ASSUME IInv, NEW c \in Callers, CreateIncident(c)
  PROVE  IInv'
<1> DEFINE id == Len(inc) + 1
           fresh == [source    |-> log[event[c]].source,
                     severity  |-> log[event[c]].severity,
                     status    |-> "active",
                     recovered |-> FALSE,
                     events    |-> {event[c]}]
<1>1. /\ pc[c] = "create"
      /\ inc' = Append(inc, fresh)
      /\ tracked' = TrackedAfter(id)
      /\ rem' = Append(rem, "none")
      /\ peakOpen' = Larger(peakOpen, Cardinality(Open(inc, tracked)) + 1)
      /\ UNCHANGED <<expired, closed, log, lost, notified, breaker,
                     breakerIdle, resolutions, userOps>>
  BY DEF CreateIncident
<1>2. event[c] \in 1 .. Len(log) /\ event[c] \in Nat
  BY <1>1, SMT DEF IInv, CallersHold, TypeOK, CallersOK
<1>3. fresh \in Incident
  <2>1. log[event[c]] \in [source : Sources, severity : Severities]
    BY <1>2, Element DEF IInv, TypeOK, CallersOK
  <2>q. QED
    BY <1>2, <2>1 DEF Incident, Statuses
<1> HIDE DEF fresh
<1>4. /\ inc' \in Seq(Incident) /\ Len(inc) \in Nat /\ Len(inc') = id
      /\ rem' \in Seq(RemStates) /\ Len(rem') = id
  <2>1. inc \in Seq(Incident) /\ rem \in Seq(RemStates) /\ Len(rem) = Len(inc)
    BY DEF IInv, TypeOK, IncidentsOK, RemediationOK
  <2>2. "none" \in RemStates
    BY DEF RemStates
  <2>q. QED
    BY <1>1, <1>3, <2>1, <2>2, Appended
<1>5. 1 .. Len(inc) \subseteq 1 .. id /\ 0 .. Len(inc) \subseteq 0 .. id /\ id \in 1 .. id
  BY <1>4, SMT
<1>6. IncidentsOK'
  <2>1. tracked' \subseteq tracked \cup {id}
    BY <1>1 DEF TrackedAfter
  <2>q. QED
    BY <1>1, <1>4, <1>5, <2>1 DEF IInv, TypeOK, IncidentsOK
<1>7. /\ pc' \in [Callers -> {"idle", "add", "create", "notify"}]
      /\ event' \in [Callers -> 0 .. Len(log)]
      /\ target' \in [Callers -> 0 .. id]
      /\ \/ pc'[c] = "idle"
         \/ event'[c] = event[c] /\ target'[c] = id
      /\ \A d \in Callers \ {c} :
           pc'[d] = pc[d] /\ event'[d] = event[d] /\ target'[d] = target[d]
  <2>1. CASE /\ pc' = [pc EXCEPT ![c] = "notify"]
             /\ target' = [target EXCEPT ![c] = id]
             /\ UNCHANGED event
    BY <1>5, <2>1, SMT DEF IInv, TypeOK, CallersOK
  <2>2. CASE Returns(c)
    BY <1>5, <2>2, ReturnsOK, SMT
  <2>q. QED
    BY <2>1, <2>2 DEF CreateIncident
<1>8. CallersOK'
  BY <1>1, <1>4, <1>5, <1>7 DEF IInv, TypeOK, CallersOK
<1>9. CallersHold'
  BY <1>1, <1>2, <1>4, <1>5, <1>7 DEF IInv, CallersHold
<1>10. RemediationOK' /\ BreakerOK'
  BY <1>1, <1>4 DEF IInv, TypeOK, RemediationOK, BreakerOK
<1>11. CountersOK'
  <2>1. Cardinality(Open(inc, tracked)) + 1 \in Nat /\ peakOpen \in Nat
    BY TrackedFinite, SMT DEF IInv, TypeOK, CountersOK
  <2>q. QED
    BY <1>1, <2>1, LargerNat DEF IInv, TypeOK, CountersOK
<1>q. QED
  BY <1>6, <1>8, <1>9, <1>10, <1>11 DEF IInv, TypeOK

LEMMA NotifyAndRemediateIInv ==
  ASSUME IInv, NEW c \in Callers, NotifyAndRemediate(c)
  PROVE  IInv'
<1>1. /\ pc[c] = "notify" /\ Returns(c)
      /\ notified' = notified \cup {target[c]}
      /\ UNCHANGED <<inc, tracked, expired, closed, log, lost, breaker,
                     breakerIdle, resolutions, userOps, peakOpen>>
  BY DEF NotifyAndRemediate
<1>2. target[c] \in 1 .. Len(inc)
  BY <1>1 DEF IInv, CallersHold
<1>3. rem' \in Seq(RemStates) /\ Len(rem') = Len(inc)
  <2>1. rem \in Seq(RemStates) /\ Len(rem) = Len(inc) /\ "pending" \in RemStates
    BY DEF IInv, TypeOK, RemediationOK, RemStates
  <2>2. CASE rem' = [rem EXCEPT ![target[c]] = "pending"]
    BY <1>2, <2>1, <2>2, Updated
  <2>3. CASE rem' = rem
    BY <2>1, <2>3
  <2>q. QED
    BY <2>2, <2>3 DEF NotifyAndRemediate
<1>4. CallersOK'
  BY <1>1, <1>2, ReturnsOK DEF IInv, TypeOK, CallersOK
<1>5. CallersHold'
  BY <1>1, ReturnsOK DEF IInv, CallersHold
<1>6. IncidentsOK' /\ RemediationOK' /\ CountersOK' /\ BreakerOK'
  BY <1>1, <1>3 DEF IInv, TypeOK, IncidentsOK, RemediationOK, CountersOK, BreakerOK
<1>q. QED
  BY <1>4, <1>5, <1>6 DEF IInv, TypeOK

(* A tracked incident exists.                                              *)
LEMMA TrackedExists ==
  ASSUME IInv, NEW id \in tracked
  PROVE  inc \in Seq(Incident) /\ id \in 1 .. Len(inc) /\ inc[id] \in Incident
<1>1. inc \in Seq(Incident) /\ id \in 1 .. Len(inc)
  BY DEF IInv, TypeOK, IncidentsOK
<1>q. QED
  BY <1>1, Element

LEMMA AcknowledgedOK ==
  ASSUME IInv, NEW id \in tracked,
         inc' = [inc EXCEPT ![id].status = "acknowledged"]
  PROVE  /\ inc' \in Seq(Incident) /\ Len(inc') = Len(inc)
         /\ inc'[id].status = "acknowledged"
         /\ \A other \in 1 .. Len(inc) : other # id => inc'[other] = inc[other]
<1> DEFINE entry == [inc[id] EXCEPT !.status = "acknowledged"]
<1>1. entry \in Incident /\ entry.status = "acknowledged"
  BY TrackedExists DEF Incident, Statuses
<1>2. inc' = [inc EXCEPT ![id] = entry]
  OBVIOUS
<1> HIDE DEF entry
<1>q. QED
  BY <1>1, <1>2, TrackedExists, Updated

LEMMA RecoveredOK ==
  ASSUME IInv, NEW id \in tracked, inc' = Recovered(id)
  PROVE  /\ inc' \in Seq(Incident) /\ Len(inc') = Len(inc)
         /\ inc'[id].status = "resolved"
         /\ \A other \in 1 .. Len(inc) : other # id => inc'[other] = inc[other]
<1> DEFINE entry == [inc[id] EXCEPT !.status = "resolved", !.recovered = TRUE]
<1>1. entry \in Incident /\ entry.status = "resolved"
  BY TrackedExists DEF Incident, Statuses
<1>2. inc' = [inc EXCEPT ![id] = entry]
  BY DEF Recovered
<1> HIDE DEF entry
<1>q. QED
  BY <1>1, <1>2, TrackedExists, Updated

LEMMA AcknowledgeIncidentIInv ==
  ASSUME IInv, NEW id \in tracked, AcknowledgeIncident(id)
  PROVE  IInv'
<1>1. /\ inc' = [inc EXCEPT ![id].status = "acknowledged"]
      /\ peakOpen' = Larger(peakOpen, Cardinality(Open(inc', tracked)))
      /\ userOps' = userOps + 1
      /\ UNCHANGED <<tracked, expired, closed, callVars, remVars, resolutions>>
  BY DEF AcknowledgeIncident
<1>2. inc' \in Seq(Incident) /\ Len(inc') = Len(inc)
  BY <1>1, AcknowledgedOK
<1>3. CountersOK'
  <2>1. peakOpen \in Nat /\ userOps + 1 \in Nat
    BY SMT DEF IInv, TypeOK, CountersOK
  <2>2. Cardinality(Open(inc', tracked)) \in Nat
    BY TrackedFinite DEF IInv, TypeOK
  <2>q. QED
    BY <1>1, <2>1, <2>2, LargerNat DEF IInv, TypeOK, CountersOK
<1>4. IncidentsOK' /\ CallersOK' /\ CallersHold'
  BY <1>1, <1>2 DEF IInv, TypeOK, IncidentsOK, CallersOK, CallersHold, callVars
<1>5. RemediationOK' /\ BreakerOK'
  BY <1>1, <1>2 DEF IInv, TypeOK, RemediationOK, BreakerOK, remVars
<1>q. QED
  BY <1>3, <1>4, <1>5 DEF IInv, TypeOK

LEMMA ResolveIncidentIInv ==
  ASSUME IInv, NEW id \in tracked, ResolveIncident(id)
  PROVE  IInv'
<1>1. /\ inc' = Recovered(id)
      /\ resolutions' = resolutions + 1 /\ userOps' = userOps + 1
      /\ UNCHANGED <<tracked, expired, closed, callVars, remVars, peakOpen>>
  BY DEF ResolveIncident
<1>2. inc' \in Seq(Incident) /\ Len(inc') = Len(inc)
  BY <1>1, RecoveredOK
<1>3. CountersOK'
  BY <1>1, SMT DEF IInv, TypeOK, CountersOK
<1>4. IncidentsOK' /\ CallersOK' /\ CallersHold'
  BY <1>1, <1>2 DEF IInv, TypeOK, IncidentsOK, CallersOK, CallersHold, callVars
<1>5. RemediationOK' /\ BreakerOK'
  BY <1>1, <1>2 DEF IInv, TypeOK, RemediationOK, BreakerOK, remVars
<1>q. QED
  BY <1>3, <1>4, <1>5 DEF IInv, TypeOK

LEMMA ExecuteRemediationIInv ==
  ASSUME IInv, NEW id \in DOMAIN inc, ExecuteRemediation(id)
  PROVE  IInv'
<1>1. UNCHANGED <<inc, tracked, expired, closed, callVars, resolutions,
                  userOps, peakOpen>>
  BY DEF ExecuteRemediation
<1>2. /\ id \in 1 .. Len(rem) /\ rem \in Seq(RemStates) /\ Len(rem) = Len(inc)
      /\ breaker \in Breaker /\ breakerIdle \in BOOLEAN /\ BreakerOK
  BY SMT DEF IInv, TypeOK, IncidentsOK, RemediationOK
<1>3. PICK state \in {"succeeded", "failed"} : rem' = [rem EXCEPT ![id] = state]
  BY DEF ExecuteRemediation
<1>4. rem' \in Seq(RemStates) /\ Len(rem') = Len(inc)
  <2>1. state \in RemStates
    BY <1>3 DEF RemStates
  <2>q. QED
    BY <1>2, <1>3, <2>1, Updated
<1>5. /\ \/ breaker' = breaker \/ breaker' = Checked(breaker, breakerIdle)
      /\ breakerIdle' \in BOOLEAN
  BY <1>2 DEF ExecuteRemediation
<1>6. breaker' \in Breaker /\ BreakerOK'
  BY <1>2, <1>5, CheckedBreaker DEF BreakerOK
<1>7. RemediationOK'
  BY <1>1, <1>4, <1>5, <1>6 DEF RemediationOK
<1>8. IncidentsOK' /\ CallersOK' /\ CountersOK' /\ CallersHold'
  BY <1>1 DEF IInv, TypeOK, IncidentsOK, CallersOK, CountersOK, CallersHold, callVars
<1>q. QED
  BY <1>6, <1>7, <1>8 DEF IInv, TypeOK

LEMMA CompleteRemediationIInv ==
  ASSUME IInv, NEW id \in DOMAIN inc, CompleteRemediation(id)
  PROVE  IInv'
<1>1. /\ rem' = [rem EXCEPT ![id] = "completed"]
      /\ UNCHANGED <<tracked, expired, closed, callVars, breaker, breakerIdle,
                     userOps, peakOpen>>
  BY DEF CompleteRemediation
<1>2. /\ id \in 1 .. Len(rem) /\ rem \in Seq(RemStates) /\ Len(rem) = Len(inc)
      /\ "completed" \in RemStates
  BY SMT DEF IInv, TypeOK, IncidentsOK, RemediationOK, RemStates
<1>3. rem' \in Seq(RemStates) /\ Len(rem') = Len(inc)
  BY <1>1, <1>2, Updated
<1>4. inc' \in Seq(Incident) /\ Len(inc') = Len(inc) /\ resolutions' \in Nat
  <2>1. CASE id \in tracked /\ inc' = Recovered(id) /\ resolutions' = resolutions + 1
    <3>1. resolutions' \in Nat
      BY <2>1, SMT DEF IInv, TypeOK, CountersOK
    <3>q. QED
      BY <2>1, <3>1, RecoveredOK
  <2>2. CASE UNCHANGED <<inc, resolutions>>
    BY <2>2 DEF IInv, TypeOK, IncidentsOK, CountersOK
  <2>q. QED
    BY <2>1, <2>2 DEF CompleteRemediation
<1>5. IncidentsOK' /\ CallersOK' /\ CallersHold'
  BY <1>1, <1>4 DEF IInv, TypeOK, IncidentsOK, CallersOK, CallersHold, callVars
<1>6. RemediationOK' /\ CountersOK' /\ BreakerOK'
  BY <1>1, <1>3, <1>4 DEF IInv, TypeOK, RemediationOK, CountersOK, BreakerOK
<1>q. QED
  BY <1>5, <1>6 DEF IInv, TypeOK

(* The passing of time and Stop touch no incident.                         *)
LEMMA TimeIInv ==
  ASSUME IInv, WindowElapses \/ BreakerIdles \/ Stop
  PROVE  IInv'
<1>1. CASE WindowElapses
  <2>1. expired' \in 0 .. Len(inc)
    BY <1>1, SMT DEF WindowElapses, IInv, TypeOK, IncidentsOK
  <2>q. QED
    BY <1>1, <2>1 DEF WindowElapses, IInv, TypeOK, IncidentsOK, CallersOK,
         RemediationOK, CountersOK, CallersHold, BreakerOK, callVars, remVars
<1>2. CASE BreakerIdles
  BY <1>2 DEF BreakerIdles, IInv, TypeOK, IncidentsOK, CallersOK,
       RemediationOK, CountersOK, CallersHold, BreakerOK, callVars
<1>3. CASE Stop
  BY <1>3 DEF Stop, IInv, TypeOK, IncidentsOK, CallersOK,
       RemediationOK, CountersOK, CallersHold, BreakerOK, callVars, remVars
<1>q. QED
  BY <1>1, <1>2, <1>3

(* Every step keeps the invariant.                                         *)
LEMMA NextIInv == IInv /\ [Next]_vars => IInv'
<1>1. SUFFICES ASSUME IInv, [Next]_vars PROVE IInv'
  OBVIOUS
<1>2. ASSUME NEW c \in Callers, Analyze(c) PROVE IInv'
  BY <1>1, <1>2, AnalyzeCorrelatesIInv, AnalyzeFindsNoneIInv, AddToIncidentIInv,
     CreateIncidentIInv, NotifyAndRemediateIInv DEF Analyze
<1>3. ASSUME NEW id \in tracked, AcknowledgeIncident(id) \/ ResolveIncident(id)
      PROVE  IInv'
  BY <1>1, <1>3, AcknowledgeIncidentIInv, ResolveIncidentIInv
<1>4. ASSUME NEW id \in DOMAIN inc, Remediation(id) PROVE IInv'
  BY <1>1, <1>4, ExecuteRemediationIInv, CompleteRemediationIInv DEF Remediation
<1>5. CASE WindowElapses \/ BreakerIdles \/ Stop
  BY <1>1, <1>5, TimeIInv
<1>6. CASE UNCHANGED vars
  BY <1>1, <1>6 DEF vars, callVars, remVars, IInv, TypeOK, IncidentsOK,
       CallersOK, RemediationOK, CountersOK, CallersHold, BreakerOK
<1>q. QED
  BY <1>1, <1>2, <1>3, <1>4, <1>5, <1>6 DEF Next

-----------------------------------------------------------------------------
(* The inductive invariant holds in every behaviour.                       *)
THEOREM Invariance == Spec => []IInv
  BY InitIInv, NextIInv, PTL DEF Spec

(* The responder's state keeps its types: in particular no caller ever     *)
(* uses an event or an incident that does not exist, although it releases  *)
(* the lock between its steps (responder.go 98-121).                       *)
THEOREM TypeCorrectness == Spec => []TypeOK
<1>1. IInv => TypeOK
  BY DEF IInv
<1>q. QED
  BY <1>1, Invariance, PTL

-----------------------------------------------------------------------------
(* The responder implements the lifecycle.                                 *)

(* The refinement mapping's status, of any list of incidents.              *)
StatusOf(incidents) == [id \in DOMAIN incidents |-> incidents[id].status]

LEMMA StatusSeq ==
  ASSUME NEW incidents \in Seq(Incident)
  PROVE  /\ StatusOf(incidents) \in Seq(Statuses)
         /\ Len(StatusOf(incidents)) = Len(incidents)
         /\ DOMAIN incidents = 1 .. Len(incidents) /\ Len(incidents) \in Nat
         /\ \A id \in 1 .. Len(incidents) :
              StatusOf(incidents)[id] = incidents[id].status
<1>1. DOMAIN incidents = 1 .. Len(incidents) /\ Len(incidents) \in Nat
  BY SMT
<1>2. ASSUME NEW id \in 1 .. Len(incidents) PROVE incidents[id].status \in Statuses
  <2>1. incidents[id] \in Incident
    BY Element
  <2>q. QED
    BY <2>1 DEF Incident
<1>q. QED
  BY <1>1, <1>2, SMT DEF StatusOf

LEMMA SameSequence ==
  ASSUME NEW S, NEW s \in Seq(S), NEW t \in Seq(S), Len(s) = Len(t),
         \A i \in 1 .. Len(s) : s[i] = t[i]
  PROVE  s = t
  BY SMT

(* A step that changes the status of no incident.                          *)
LEMMA StatusUnchanged ==
  ASSUME inc \in Seq(Incident), inc' \in Seq(Incident), Len(inc') = Len(inc),
         \A id \in 1 .. Len(inc) : inc'[id].status = inc[id].status
  PROVE  StatusOf(inc') = StatusOf(inc)
<1>1. /\ StatusOf(inc) \in Seq(Statuses) /\ Len(StatusOf(inc)) = Len(inc)
      /\ \A id \in 1 .. Len(inc) : StatusOf(inc)[id] = inc[id].status
  BY StatusSeq
<1>2. /\ StatusOf(inc') \in Seq(Statuses) /\ Len(StatusOf(inc')) = Len(inc')
      /\ \A id \in 1 .. Len(inc') : StatusOf(inc')[id] = inc'[id].status
  BY StatusSeq
<1>q. QED
  BY <1>1, <1>2, SameSequence

(* A step that settles one incident.                                       *)
LEMMA StatusSettled ==
  ASSUME inc \in Seq(Incident), inc' \in Seq(Incident), Len(inc') = Len(inc),
         NEW id \in 1 .. Len(inc),
         \A other \in 1 .. Len(inc) : other # id => inc'[other] = inc[other]
  PROVE  StatusOf(inc') = [StatusOf(inc) EXCEPT ![id] = inc'[id].status]
<1> DEFINE t == [StatusOf(inc) EXCEPT ![id] = inc'[id].status]
<1>1. /\ StatusOf(inc) \in Seq(Statuses) /\ Len(StatusOf(inc)) = Len(inc)
      /\ \A i \in 1 .. Len(inc) : StatusOf(inc)[i] = inc[i].status
  BY StatusSeq
<1>2. /\ StatusOf(inc') \in Seq(Statuses) /\ Len(StatusOf(inc')) = Len(inc')
      /\ \A i \in 1 .. Len(inc') : StatusOf(inc')[i] = inc'[i].status
  BY StatusSeq
<1>3. inc'[id].status \in Statuses
  BY <1>2, Element
<1>4. /\ t \in Seq(Statuses) /\ Len(t) = Len(inc) /\ t[id] = inc'[id].status
      /\ \A i \in 1 .. Len(inc) : i # id => t[i] = StatusOf(inc)[i]
  BY <1>1, <1>3, Updated
<1> HIDE DEF t
<1>5. \A i \in 1 .. Len(inc) : StatusOf(inc')[i] = t[i]
  BY <1>1, <1>2, <1>4
<1>6. StatusOf(inc') = t
  BY <1>2, <1>4, <1>5, SameSequence
<1>q. QED
  BY <1>6 DEF t

(* A step that opens an incident.                                          *)
LEMMA StatusOpened ==
  ASSUME inc \in Seq(Incident), inc' \in Seq(Incident), NEW fresh, inc' = Append(inc, fresh),
         fresh.status = "active", fresh \in Incident
  PROVE  StatusOf(inc') = Append(StatusOf(inc), "active")
<1> DEFINE t == Append(StatusOf(inc), "active")
<1>1. /\ StatusOf(inc) \in Seq(Statuses) /\ Len(StatusOf(inc)) = Len(inc)
      /\ \A i \in 1 .. Len(inc) : StatusOf(inc)[i] = inc[i].status
  BY StatusSeq
<1>2. /\ StatusOf(inc') \in Seq(Statuses) /\ Len(StatusOf(inc')) = Len(inc')
      /\ \A i \in 1 .. Len(inc') : StatusOf(inc')[i] = inc'[i].status
  BY StatusSeq
<1>3. /\ Len(inc) \in Nat /\ Len(inc') = Len(inc) + 1
      /\ \A i \in 1 .. Len(inc) : inc'[i] = inc[i]
      /\ inc'[Len(inc) + 1] = fresh
  BY Appended
<1>4. "active" \in Statuses
  BY DEF Statuses
<1>5. /\ t \in Seq(Statuses) /\ Len(t) = Len(inc) + 1
      /\ \A i \in 1 .. Len(inc) : t[i] = StatusOf(inc)[i]
      /\ t[Len(inc) + 1] = "active"
  BY <1>1, <1>4, Appended
<1> HIDE DEF t
<1>6. ASSUME NEW i \in 1 .. Len(inc) + 1 PROVE StatusOf(inc')[i] = t[i]
  <2>1. i \in 1 .. Len(inc) \/ i = Len(inc) + 1
    BY <1>3, SMT
  <2>q. QED
    BY <1>1, <1>2, <1>3, <1>5, <2>1
<1>7. StatusOf(inc') = t
  BY <1>2, <1>3, <1>5, <1>6, SameSequence
<1>q. QED
  BY <1>7 DEF t

(* evictResolved finds at most one incident, and a resolved one.           *)
LEMMA OldestResolvedUnique ==
  ASSUME IncidentsOK
  PROVE  \/ OldestResolved(tracked) = {}
         \/ \E old \in tracked : /\ inc[old].status = "resolved"
                                /\ OldestResolved(tracked) = {old}
<1>1. SUFFICES ASSUME NEW old \in OldestResolved(tracked)
               PROVE  OldestResolved(tracked) = {old}
  BY DEF OldestResolved
<1>2. ASSUME NEW other \in OldestResolved(tracked) PROVE other = old
  <2>1. old <= other /\ other <= old
    BY DEF OldestResolved
  <2>2. old \in Nat /\ other \in Nat
    BY SMT DEF OldestResolved, IncidentsOK
  <2>q. QED
    BY <2>1, <2>2, SMT
<1>q. QED
  BY <1>2

(* What createIncident does to the map.                                    *)
LEMMA TrackedAfterCases ==
  ASSUME IncidentsOK, NEW id, id = Len(inc) + 1, MaxIncidents \in Nat
  PROVE  \/ TrackedAfter(id) = tracked \cup {id}
         \/ /\ Cardinality(tracked) >= MaxIncidents
            /\ \E old \in tracked :
                 /\ inc[old].status = "resolved"
                 /\ TrackedAfter(id) = (tracked \ {old}) \cup {id}
<1>1. CASE Cardinality(tracked \cup {id}) > MaxIncidents
  <2>1. id \notin tracked
    BY SMT DEF IncidentsOK
  <2>2. Cardinality(tracked \cup {id}) = Cardinality(tracked) + 1
    BY <2>1, TrackedFinite, FS_AddElement
  <2>3. Cardinality(tracked) >= MaxIncidents
    BY <1>1, <2>2, TrackedFinite, SMT
  <2>4. TrackedAfter(id) = (tracked \ OldestResolved(tracked)) \cup {id}
    BY <1>1 DEF TrackedAfter
  <2>5. CASE OldestResolved(tracked) = {}
    BY <2>4, <2>5
  <2>q. QED
    BY <2>3, <2>4, <2>5, OldestResolvedUnique
<1>2. CASE ~(Cardinality(tracked \cup {id}) > MaxIncidents)
  BY <1>2 DEF TrackedAfter
<1>q. QED
  BY <1>1, <1>2

(* createIncident opens an incident of the lifecycle.                      *)
LEMMA CreateOpens ==
  ASSUME IInv, IInv', NEW c \in Callers, CreateIncident(c)
  PROVE  Lifecycle!Open
<1> DEFINE fresh == [source    |-> log[event[c]].source,
                     severity  |-> log[event[c]].severity,
                     status    |-> "active",
                     recovered |-> FALSE,
                     events    |-> {event[c]}]
<1>1. /\ inc \in Seq(Incident) /\ inc' \in Seq(Incident) /\ IncidentsOK
      /\ inc' = Append(inc, fresh) /\ fresh.status = "active"
      /\ tracked' = TrackedAfter(Len(inc) + 1)
  BY DEF CreateIncident, IInv, TypeOK, IncidentsOK
<1>2. fresh \in Incident
  <2>1. event[c] \in 1 .. Len(log) /\ event[c] \in Nat
    BY SMT DEF CreateIncident, IInv, CallersHold, TypeOK, CallersOK
  <2>2. log[event[c]] \in [source : Sources, severity : Severities]
    BY <2>1, Element DEF IInv, TypeOK, CallersOK
  <2>q. QED
    BY <2>1, <2>2 DEF Incident, Statuses
<1> HIDE DEF fresh
<1>3. StatusOf(inc') = Append(StatusOf(inc), "active")
  BY <1>1, <1>2, StatusOpened
<1>4. Len(StatusOf(inc)) = Len(inc)
  BY <1>1, StatusSeq
<1>5. \A id \in tracked : StatusOf(inc)[id] = inc[id].status
  BY <1>1, StatusSeq DEF IncidentsOK
<1>6. \/ tracked' = tracked \cup {Len(inc) + 1}
      \/ /\ Cardinality(tracked) >= MaxIncidents
         /\ \E old \in tracked :
              /\ inc[old].status = "resolved"
              /\ tracked' = (tracked \ {old}) \cup {Len(inc) + 1}
  BY <1>1, TrackedAfterCases, ResponderAssumption
<1> DEFINE status == [id \in DOMAIN inc |-> inc[id].status]
<1>7. /\ [id \in DOMAIN inc |-> inc[id].status]' = Append(status, "active")
      /\ Len(status) = Len(inc)
      /\ \A id \in tracked : status[id] = inc[id].status
  BY <1>3, <1>4, <1>5 DEF StatusOf
<1>8. CASE tracked' = tracked \cup {Len(inc) + 1}
  BY <1>7, <1>8, Zenon DEF Lifecycle!Open
<1>9. ASSUME Cardinality(tracked) >= MaxIncidents, NEW old \in tracked,
             inc[old].status = "resolved",
             tracked' = (tracked \ {old}) \cup {Len(inc) + 1}
      PROVE  Lifecycle!Open
  <2>1. old \in Lifecycle!Forgettable
    BY <1>7, <1>9 DEF Lifecycle!Forgettable
  <2>2. tracked' = (tracked \ {old}) \cup {Len(status) + 1}
    BY <1>7, <1>9
  <2>3. \E gone \in Lifecycle!Forgettable :
          tracked' = (tracked \ {gone}) \cup {Len(status) + 1}
    BY <2>1, <2>2
  <2>4. Lifecycle!Cardinality(tracked) = Cardinality(tracked)
    BY DEF Lifecycle!Cardinality, Cardinality
  <2>q. QED
    BY <1>7, <1>9, <2>3, <2>4, Zenon DEF Lifecycle!Open
<1>q. QED
  BY <1>6, <1>8, <1>9

(* Acknowledging and resolving settle an incident of the lifecycle.        *)
LEMMA SettlingSettles ==
  ASSUME IInv, IInv', NEW id \in tracked, UNCHANGED tracked,
         \/ inc' = [inc EXCEPT ![id].status = "acknowledged"]
         \/ inc' = Recovered(id)
  PROVE  Lifecycle!Settle
<1>1. /\ inc \in Seq(Incident) /\ inc' \in Seq(Incident)
      /\ Len(inc') = Len(inc) /\ id \in 1 .. Len(inc)
      /\ inc'[id].status \in {"acknowledged", "resolved"}
      /\ \A other \in 1 .. Len(inc) : other # id => inc'[other] = inc[other]
  BY AcknowledgedOK, RecoveredOK, TrackedExists
<1>2. StatusOf(inc') = [StatusOf(inc) EXCEPT ![id] = inc'[id].status]
  BY <1>1, StatusSettled
<1>3. inc'[id].status \in Lifecycle!Statuses \ {"active"}
  BY <1>1 DEF Lifecycle!Statuses
<1>q. QED
  BY <1>2, <1>3 DEF Lifecycle!Settle, StatusOf

(* addToIncident changes no status.                                        *)
LEMMA AddingStutters ==
  ASSUME IInv, IInv', NEW c \in Callers, AddToIncident(c)
  PROVE  UNCHANGED Lifecycle!vars
<1>1. inc \in Seq(Incident) /\ inc' \in Seq(Incident) /\ UNCHANGED tracked
  BY DEF AddToIncident, IInv, TypeOK, IncidentsOK
<1>2. CASE inc' = [inc EXCEPT ![target[c]].events = @ \cup {event[c]}]
  <2> DEFINE t == target[c]
             entry == [inc[t] EXCEPT !.events = @ \cup {event[c]}]
  <2>1. t \in 1 .. Len(inc)
    BY DEF AddToIncident, IInv, CallersHold
  <2>2. inc[t] \in Incident /\ event[c] \in Nat
    <3>1. event[c] \in 1 .. Len(log)
      BY DEF AddToIncident, IInv, CallersHold
    <3>q. QED
      BY <1>1, <2>1, <3>1, Element, SMT
  <2>3. entry \in Incident /\ entry.status = inc[t].status
    BY <2>2 DEF Incident
  <2>4. inc' = [inc EXCEPT ![t] = entry]
    BY <1>2
  <2> HIDE DEF entry, t
  <2>5. /\ Len(inc') = Len(inc) /\ inc'[t] = entry
        /\ \A j \in 1 .. Len(inc) : j # t => inc'[j] = inc[j]
    BY <1>1, <2>1, <2>3, <2>4, Updated
  <2>6. \A j \in 1 .. Len(inc) : inc'[j].status = inc[j].status
    BY <2>3, <2>5
  <2>7. StatusOf(inc') = StatusOf(inc)
    BY <1>1, <2>5, <2>6, StatusUnchanged
  <2>q. QED
    BY <1>1, <2>7 DEF Lifecycle!vars, StatusOf
<1>3. CASE UNCHANGED inc
  BY <1>1, <1>3 DEF Lifecycle!vars
<1>q. QED
  BY <1>2, <1>3 DEF AddToIncident

(* Every step of the responder is a step of the lifecycle, or none.        *)
LEMMA StepSimulation ==
  IInv /\ IInv' /\ [Next]_vars => [Lifecycle!Next]_(Lifecycle!vars)
<1>1. SUFFICES ASSUME IInv, IInv', [Next]_vars
               PROVE  Lifecycle!Next \/ UNCHANGED Lifecycle!vars
  OBVIOUS
<1>2. ASSUME NEW c \in Callers, Analyze(c)
      PROVE  Lifecycle!Next \/ UNCHANGED Lifecycle!vars
  <2>1. CASE CreateIncident(c)
    BY <1>1, <2>1, CreateOpens DEF Lifecycle!Next
  <2>2. CASE AddToIncident(c)
    BY <1>1, <2>2, AddingStutters
  <2>3. CASE UNCHANGED <<inc, tracked>>
    BY <2>3 DEF Lifecycle!vars
  <2>q. QED
    BY <1>2, <2>1, <2>2, <2>3
       DEF Analyze, AnalyzeCorrelates, AnalyzeFindsNone, NotifyAndRemediate
<1>3. ASSUME NEW id \in tracked, AcknowledgeIncident(id) \/ ResolveIncident(id)
      PROVE  Lifecycle!Next
  BY <1>1, <1>3, SettlingSettles
     DEF AcknowledgeIncident, ResolveIncident, Lifecycle!Next
<1>4. ASSUME NEW id \in DOMAIN inc, Remediation(id)
      PROVE  Lifecycle!Next \/ UNCHANGED Lifecycle!vars
  <2>1. CASE id \in tracked /\ inc' = Recovered(id) /\ UNCHANGED tracked
    BY <1>1, <2>1, SettlingSettles DEF Lifecycle!Next
  <2>2. CASE UNCHANGED <<inc, tracked>>
    BY <2>2 DEF Lifecycle!vars
  <2>q. QED
    BY <1>4, <2>1, <2>2 DEF Remediation, ExecuteRemediation, CompleteRemediation
<1>5. CASE WindowElapses \/ BreakerIdles \/ Stop \/ UNCHANGED vars
  BY <1>5 DEF WindowElapses, BreakerIdles, Stop, vars, Lifecycle!vars
<1>q. QED
  BY <1>1, <1>2, <1>3, <1>4, <1>5 DEF Next

(* The responder implements IncidentLifecycle: incidents are opened one by *)
(* one and active, change status only while they can be looked up, and     *)
(* leave the map only resolved, one at a time and at capacity              *)
(* (responder.go 144-294, 309-352).                                        *)
THEOREM Refinement == Spec => ImplementsLifecycle
<1>1. Init => Lifecycle!Init
  <2>1. SUFFICES ASSUME inc = <<>>, tracked = {}
                 PROVE  [id \in DOMAIN inc |-> inc[id].status] = <<>> /\ tracked = {}
    BY DEF Init, Lifecycle!Init
  <2>q. QED
    BY <2>1, SMT
<1>q. QED
  BY <1>1, Invariance, StepSimulation, PTL DEF Spec, ImplementsLifecycle, Lifecycle!Spec

-----------------------------------------------------------------------------
(* No unresolved incident is lost.                                         *)

LEMMA OpenIncidentsTrackedStep ==
  ASSUME IInv, IInv', OpenIncidentsTracked,
         Lifecycle!Next \/ UNCHANGED Lifecycle!vars
  PROVE  OpenIncidentsTracked'
<1>1. /\ inc \in Seq(Incident) /\ inc' \in Seq(Incident)
      /\ tracked \subseteq 1 .. Len(inc)
  BY DEF IInv, TypeOK, IncidentsOK
<1>2. /\ DOMAIN inc = 1 .. Len(inc) /\ DOMAIN inc' = 1 .. Len(inc')
      /\ StatusOf(inc) \in Seq(Statuses)
      /\ Len(StatusOf(inc)) = Len(inc) /\ Len(StatusOf(inc')) = Len(inc')
      /\ \A id \in 1 .. Len(inc) : StatusOf(inc)[id] = inc[id].status
      /\ \A id \in 1 .. Len(inc') : StatusOf(inc')[id] = inc'[id].status
      /\ Len(inc) \in Nat
  BY <1>1, StatusSeq
<1>3. CASE Lifecycle!Open
  <2>1. /\ StatusOf(inc') = Append(StatusOf(inc), "active")
        /\ \/ tracked' = tracked \cup {Len(inc) + 1}
           \/ \E old \in tracked :
                /\ inc[old].status = "resolved"
                /\ tracked' = (tracked \ {old}) \cup {Len(inc) + 1}
    <3>1. \A id \in tracked : StatusOf(inc)[id] = inc[id].status
      BY <1>1, <1>2
    <3>q. QED
      BY <1>2, <1>3, <3>1 DEF Lifecycle!Open, Lifecycle!Forgettable, StatusOf
  <2>2. "active" \in Statuses
    BY DEF Statuses
  <2>3. /\ Len(inc') = Len(inc) + 1
        /\ \A id \in 1 .. Len(inc) : StatusOf(inc')[id] = StatusOf(inc)[id]
    <3>1. /\ Len(Append(StatusOf(inc), "active")) = Len(StatusOf(inc)) + 1
          /\ \A id \in 1 .. Len(StatusOf(inc)) :
               Append(StatusOf(inc), "active")[id] = StatusOf(inc)[id]
      BY <1>2, <2>2, Appended
    <3>2. StatusOf(inc') = Append(StatusOf(inc), "active")
      BY <2>1
    <3>q. QED
      BY <1>2, <3>1, <3>2, Zenon
  <2>4. ASSUME NEW id \in 1 .. Len(inc'), inc'[id].status # "resolved"
        PROVE  id \in tracked'
    <3>1. CASE id = Len(inc) + 1
      BY <2>1, <3>1
    <3>2. CASE id \in 1 .. Len(inc)
      <4>1. inc[id].status # "resolved"
        BY <1>2, <2>3, <2>4, <3>2
      <4>q. QED
        BY <1>2, <2>1, <3>2, <4>1 DEF OpenIncidentsTracked
    <3>q. QED
      BY <1>2, <2>3, <2>4, <3>1, <3>2, SMT
  <2>q. QED
    BY <1>2, <2>4 DEF OpenIncidentsTracked
<1>4. CASE Lifecycle!Settle
  <2>1. PICK id \in tracked, s \in Lifecycle!Statuses \ {"active"} :
             StatusOf(inc') = [StatusOf(inc) EXCEPT ![id] = s]
    BY <1>4 DEF Lifecycle!Settle, StatusOf
  <2>2. tracked' = tracked
    BY <1>4 DEF Lifecycle!Settle
  <2>3. s \in Statuses /\ id \in 1 .. Len(inc)
    BY <1>1, <2>1 DEF Statuses, Lifecycle!Statuses
  <2>4. /\ Len(inc') = Len(inc)
        /\ \A other \in 1 .. Len(inc) :
             other # id => StatusOf(inc')[other] = StatusOf(inc)[other]
    <3>1. /\ Len([StatusOf(inc) EXCEPT ![id] = s]) = Len(StatusOf(inc))
          /\ \A other \in 1 .. Len(StatusOf(inc)) :
               other # id =>
                 [StatusOf(inc) EXCEPT ![id] = s][other] = StatusOf(inc)[other]
      BY <1>2, <2>3, Updated
    <3>q. QED
      BY <1>2, <2>1, <3>1, Zenon
  <2>q. QED
    BY <1>2, <2>1, <2>2, <2>4 DEF OpenIncidentsTracked
<1>5. CASE UNCHANGED Lifecycle!vars
  <2>1. StatusOf(inc') = StatusOf(inc) /\ tracked' = tracked
    BY <1>5 DEF Lifecycle!vars, StatusOf
  <2>q. QED
    BY <1>2, <2>1 DEF OpenIncidentsTracked
<1>q. QED
  BY <1>3, <1>4, <1>5 DEF Lifecycle!Next

(* An incident nobody has resolved can always be looked up, whatever       *)
(* eviction, acknowledgement and remediation do to the others              *)
(* (responder.go 178-180, 195-252, 280-294).                               *)
THEOREM OpenIncidentsAreTracked == Spec => []OpenIncidentsTracked
<1>1. Init => OpenIncidentsTracked
  BY SMT DEF Init, OpenIncidentsTracked
<1>2. IInv /\ IInv' /\ OpenIncidentsTracked /\ [Next]_vars => OpenIncidentsTracked'
  BY StepSimulation, OpenIncidentsTrackedStep
<1>q. QED
  BY <1>1, <1>2, Invariance, PTL DEF Spec
=============================================================================
