-------------------------- MODULE CollectionProofs --------------------------
(***************************************************************************)
(* Proofs about starting and stopping what collects. The collectors, for   *)
(* every kind, any workers and any number of concurrent Stops: no send on  *)
(* a closed channel and no second close, and the contract the engine       *)
(* relies on. The federation manager, for every set of clusters and every  *)
(* number of starts: no forwarder sends on the closed channel, and Stop    *)
(* leaves behind no forwarder, and no collector but one whose place in the *)
(* map was taken.                                                          *)
(*                                                                         *)
(* A collector's channel is closed by the one Stop that cleared running,   *)
(* after the workers have ended. CollInv says who that is: a worker that   *)
(* has not ended has a running collector or a waiting Stop, running        *)
(* excludes a waiting Stop, two do not wait, and nothing is left once the  *)
(* channel is closed.                                                      *)
(*                                                                         *)
(* In the federation both facts rest on who may still start an instance.   *)
(* Stop comes after Start and clears running, so from then on AddCluster   *)
(* only writes the map; a forwarder that has ended had its context done or *)
(* its collector halted; and a collector that Start started can always be  *)
(* found in the map until it is halted, because Start visits every cluster *)
(* once.                                                                   *)
(*                                                                         *)
(* StopStuck and CloseStuck are the waits that do not end, where a Stop of *)
(* a collector, or the Close of the Vault client, waits for what waits for *)
(* it, or for what it has not cancelled.                                   *)
(*                                                                         *)
(* The last section has the types of all parts that MCEventually puts      *)
(* together.                                                               *)
(***************************************************************************)
EXTENDS MCEventually, TLAPS, SequenceTheorems

-----------------------------------------------------------------------------
(* The collectors.                                                         *)

Waiting(s) == stopper[s] = "waiting"

Ended == \A w \in Workers : worker[w] \in {"none", "done"}

OneStopCloses ==
  /\ running => ~closed /\ \A s \in Stoppers : ~Waiting(s)
  /\ \A s \in Stoppers : Waiting(s) => ~closed
  /\ \A s, t \in Stoppers : Waiting(s) /\ Waiting(t) => s = t
  /\ closed => Ended /\ \E s \in Stoppers : stopper[s] # "idle"
  /\ ~Ended => running \/ \E s \in Stoppers : Waiting(s)

CollInv == TypeOK /\ OneStopCloses /\ NoPanic

-----------------------------------------------------------------------------
(* The initial state: nobody runs, nobody waits.                           *)
LEMMA CollInitInv == Init => CollInv
<1> SUFFICES ASSUME Init PROVE CollInv
  OBVIOUS
<1>1. TypeOK
  <2>1. 0 \in 0 .. Capacity /\ 0 \in 0 .. MaxPolls
    BY CollectorAssumption
  <2> QED BY <2>1 DEF Init, TypeOK
<1>2. OneStopCloses /\ NoPanic
  BY DEF Init, OneStopCloses, Waiting, Ended, NoPanic
<1> QED BY <1>1, <1>2 DEF CollInv

(* A worker of a collector that is closed has ended.                       *)
LEMMA LiveWorker ==
  ASSUME CollInv, NEW w \in Workers, worker[w] \notin {"none", "done"}
  PROVE  ~closed /\ (running \/ \E s \in Stoppers : Waiting(s))
BY DEF CollInv, OneStopCloses, Ended

LEMMA StartKeepsInv == ASSUME CollInv, Start PROVE CollInv'
<1>1. /\ ~running /\ running' /\ \A s \in Stoppers : stopper[s] = "idle"
      /\ worker' \in [Workers -> {"none", "select", "poll"}]
      /\ UNCHANGED <<kind, mu, parentDone, ownDone, stopper, health, queued, closed,
                     panicked, polls>>
  BY DEF Start
<1>2. ~closed
  BY <1>1 DEF CollInv, OneStopCloses
<1>3. TypeOK'
  BY <1>1 DEF CollInv, TypeOK
<1> QED BY <1>1, <1>2, <1>3 DEF CollInv, OneStopCloses, NoPanic, Waiting

LEMMA WorkerKeepsInv ==
  ASSUME CollInv, NEW w \in Workers, WorkerPolls(w) \/ WorkerStep(w) PROVE CollInv'
<1>1. /\ worker[w] \notin {"none", "done"}
      /\ \E step \in {"select", "poll", "lock", "done"} :
           worker' = [worker EXCEPT ![w] = step]
      /\ UNCHANGED <<kind, mu, running, parentDone, ownDone, stopper, health, closed>>
  BY DEF WorkerPolls, WorkerStep, WorkerExits, WorkerEmits, WorkerFails, WorkerLocks, WorkerTo
<1>2. ~closed /\ (running \/ \E s \in Stoppers : Waiting(s))
  BY <1>1, LiveWorker
<1>3. queued' \in 0 .. Capacity /\ polls' \in 0 .. MaxPolls /\ panicked' \in BOOLEAN
      /\ ~panicked'
  BY <1>2, CollectorAssumption
     DEF CollInv, TypeOK, NoPanic, WorkerPolls, WorkerStep, WorkerExits, WorkerEmits,
         WorkerFails, WorkerLocks
<1>4. TypeOK'
  <2>1. worker' \in [Workers -> {"none", "select", "poll", "lock", "done"}]
    BY <1>1 DEF CollInv, TypeOK
  <2> QED BY <1>1, <1>3, <2>1 DEF CollInv, TypeOK
<1> QED BY <1>1, <1>2, <1>3, <1>4 DEF CollInv, OneStopCloses, NoPanic, Waiting

LEMMA StopKeepsInv ==
  ASSUME CollInv, NEW s \in Stoppers, CallStop(s) \/ StopBegins(s) \/ StopCloses(s)
  PROVE  CollInv'
<1>1. stopper \in [Stoppers -> {"idle", "called", "waiting", "returned"}]
  BY DEF CollInv, TypeOK
<1>2. CASE CallStop(s)
  <2>1. /\ stopper' = [stopper EXCEPT ![s] = "called"] /\ stopper[s] = "idle"
        /\ UNCHANGED <<kind, mu, running, parentDone, ownDone, worker, health, queued,
                       closed, panicked, polls>>
    BY <1>2 DEF CallStop
  <2>2. \A t \in Stoppers : /\ Waiting(t)' <=> Waiting(t)
                            /\ stopper[t] # "idle" => stopper'[t] # "idle"
    BY <1>1, <2>1 DEF Waiting
  <2>3. TypeOK'
    BY <1>1, <2>1 DEF CollInv, TypeOK
  <2> QED BY <2>1, <2>2, <2>3 DEF CollInv, OneStopCloses, Ended, NoPanic
<1>3. CASE StopBegins(s) /\ ~running
  <2>1. /\ stopper' = [stopper EXCEPT ![s] = "returned"] /\ stopper[s] = "called"
        /\ UNCHANGED <<kind, mu, running, parentDone, ownDone, worker, health, queued,
                       closed, panicked, polls>>
    BY <1>3 DEF StopBegins
  <2>2. \A t \in Stoppers : /\ Waiting(t)' <=> Waiting(t)
                            /\ stopper[t] # "idle" => stopper'[t] # "idle"
    BY <1>1, <2>1 DEF Waiting
  <2>3. TypeOK'
    BY <1>1, <2>1 DEF CollInv, TypeOK
  <2> QED BY <2>1, <2>2, <2>3 DEF CollInv, OneStopCloses, Ended, NoPanic
<1>4. CASE StopBegins(s) /\ running
  <2>1. /\ stopper' = [stopper EXCEPT ![s] = "waiting"] /\ stopper[s] = "called"
        /\ ~running' /\ running' \in BOOLEAN /\ ownDone' = TRUE
        /\ mu' \in Stoppers \cup {"nobody"}
        /\ UNCHANGED <<kind, parentDone, worker, health, queued, closed, panicked, polls>>
    BY <1>4 DEF StopBegins
  <2>2. ~closed /\ \A t \in Stoppers : ~Waiting(t)
    BY <1>4 DEF CollInv, OneStopCloses
  <2>3. \A t \in Stoppers : Waiting(t)' <=> t = s
    BY <1>1, <2>1, <2>2 DEF Waiting
  <2>4. TypeOK'
    BY <1>1, <2>1 DEF CollInv, TypeOK
  <2> QED BY <2>1, <2>2, <2>3, <2>4 DEF CollInv, OneStopCloses, Ended, NoPanic
<1>5. CASE StopCloses(s)
  <2>1. /\ stopper' = [stopper EXCEPT ![s] = "returned"] /\ Waiting(s) /\ Ended
        /\ mu' = "nobody" /\ panicked' = closed /\ closed' = TRUE
        /\ UNCHANGED <<kind, running, parentDone, ownDone, worker, health, queued, polls>>
    BY <1>5 DEF StopCloses, Waiting, Ended
  <2>2. ~closed /\ ~running /\ \A t \in Stoppers : Waiting(t) => t = s
    BY <2>1 DEF CollInv, OneStopCloses
  <2>3. stopper'[s] = "returned" /\ \A t \in Stoppers : ~Waiting(t)'
    BY <1>1, <2>1, <2>2 DEF Waiting
  <2>4. TypeOK'
    BY <1>1, <2>1 DEF CollInv, TypeOK
  <2> QED BY <2>1, <2>2, <2>3, <2>4 DEF CollInv, OneStopCloses, Ended, NoPanic
<1> QED BY <1>2, <1>3, <1>4, <1>5

LEMMA OutsideKeepsInv ==
  ASSUME CollInv, CancelParent \/ AskHealth \/ AnswerHealth \/ Receive PROVE CollInv'
<1>1. UNCHANGED <<kind, mu, running, ownDone, worker, stopper, closed, panicked, polls>>
  BY DEF CancelParent, AskHealth, AnswerHealth, Receive
<1>2. queued' \in 0 .. Capacity
  <2>1. queued \in 0 .. Capacity /\ Capacity \in Nat
    BY CollectorAssumption DEF CollInv, TypeOK
  <2> QED BY <2>1 DEF CancelParent, AskHealth, AnswerHealth, Receive
<1>3. parentDone' \in BOOLEAN /\ health' \in {"idle", "asking"}
  BY DEF CollInv, TypeOK, CancelParent, AskHealth, AnswerHealth, Receive
<1> QED BY <1>1, <1>2, <1>3 DEF CollInv, TypeOK, OneStopCloses, Waiting, Ended, NoPanic

LEMMA CollNextInv == CollInv /\ [Next]_vars => CollInv'
<1> SUFFICES ASSUME CollInv, [Next]_vars PROVE CollInv'
  OBVIOUS
<1>1. CASE UNCHANGED vars
  BY <1>1 DEF vars, CollInv, TypeOK, OneStopCloses, Waiting, Ended, NoPanic
<1>2. CASE Next
  BY <1>2, StartKeepsInv, WorkerKeepsInv, StopKeepsInv, OutsideKeepsInv DEF Next
<1> QED BY <1>1, <1>2

LEMMA CollInductive == Spec => []CollInv
BY CollInitInv, CollNextInv, PTL DEF Spec

(* The collector's state keeps its types.                                  *)
THEOREM CollectorTypes == Spec => []TypeOK
<1>1. CollInv => TypeOK
  BY DEF CollInv
<1> QED BY CollInductive, <1>1, PTL

(* No worker sends on the closed channel and no two Stops close it,        *)
(* however many follow a Start (kafka/collector.go 99-112, plugin.go       *)
(* 148-165).                                                               *)
THEOREM CollectorsNeverPanic == Spec => []NoPanic
<1>1. CollInv => NoPanic
  BY DEF CollInv
<1> QED BY CollInductive, <1>1, PTL

-----------------------------------------------------------------------------
(* Refinement.  Each step is a step of the contract, or leaves phase and   *)
(* channel as they are.                                                    *)
LEMMA StepOfContract ==
  ASSUME CollInv, [Next]_vars
  PROVE  Contract!Next \/ UNCHANGED Contract!vars
<1> USE DEF Contract!vars
<1>1. CASE Start
  <2>1. Phase = "created" /\ Phase' = "running" /\ queued' = queued
    BY <1>1 DEF Start, Phase, CollInv, OneStopCloses
  <2> QED BY <2>1 DEF Contract!Next, Contract!Begin
<1>2. CASE \E w \in Workers : WorkerEmits(w)
  <2>1. PICK w \in Workers : WorkerEmits(w)
    BY <1>2
  <2>2. Phase = "running" /\ Phase' = Phase
    <3>1. ~closed /\ (running \/ \E s \in Stoppers : Waiting(s))
      BY <2>1, LiveWorker DEF WorkerEmits
    <3> QED BY <2>1, <3>1 DEF Phase, WorkerEmits, Waiting
  <2>3. queued' = queued \/ (queued < Capacity /\ queued' = queued + 1)
    BY <2>1 DEF WorkerEmits
  <2> QED BY <2>2, <2>3 DEF Contract!Next, Contract!Emit
<1>3. CASE \E w \in Workers :
             WorkerPolls(w) \/ WorkerExits(w) \/ WorkerFails(w) \/ WorkerLocks(w)
  BY <1>3 DEF WorkerPolls, WorkerExits, WorkerFails, WorkerLocks, Phase
<1>4. CASE \E s \in Stoppers : CallStop(s) \/ StopBegins(s)
  <2>1. PICK s \in Stoppers : CallStop(s) \/ StopBegins(s)
    BY <1>4
  <2>2. stopper \in [Stoppers -> {"idle", "called", "waiting", "returned"}]
        /\ UNCHANGED <<queued, closed>>
    BY <2>1 DEF CollInv, TypeOK, CallStop, StopBegins
  <2>3. CASE StopBegins(s) /\ running
    BY <2>2, <2>3 DEF StopBegins, Phase
  <2>4. CASE CallStop(s) \/ (StopBegins(s) /\ ~running)
    <3>1. running' = running
          /\ \A t \in Stoppers : stopper'[t] = "waiting" <=> stopper[t] = "waiting"
      BY <2>2, <2>4 DEF StopBegins, CallStop
    <3> QED BY <2>2, <3>1 DEF Phase
  <2> QED BY <2>1, <2>3, <2>4
<1>5. CASE \E s \in Stoppers : StopCloses(s)
  <2>1. PICK s \in Stoppers : StopCloses(s)
    BY <1>5
  <2>2. Phase = "running" /\ Phase' = "halted" /\ queued' = queued
    BY <2>1 DEF StopCloses, Phase, CollInv, OneStopCloses, Waiting
  <2> QED BY <2>2 DEF Contract!Next, Contract!Halt
<1>6. CASE Receive
  BY <1>6 DEF Receive, Phase, Contract!Next, Contract!Receive
<1>7. CASE CancelParent \/ AskHealth \/ AnswerHealth \/ UNCHANGED vars
  BY <1>7 DEF CancelParent, AskHealth, AnswerHealth, vars, Phase
<1> QED BY <1>1, <1>2, <1>3, <1>4, <1>5, <1>6, <1>7 DEF Next, WorkerStep

(* Every kind of collector implements the contract of the interface, with  *)
(* any number of Stops (core/engine/types.go).                             *)
THEOREM CollectorsKeepContract == Spec => ImplementsContract
<1>1. Init => Contract!Init
  BY DEF Init, Contract!Init, Phase
<1>2. CollInv /\ [Next]_vars => [Contract!Next]_(Contract!vars)
  BY StepOfContract
<1> QED BY <1>1, <1>2, CollInductive, PTL DEF Spec, ImplementsContract, Contract!Spec

-----------------------------------------------------------------------------
(* A Stop that waits under the mutex for a worker that waits for it.       *)
StopStuck(s, w) == mu = s /\ stopper[s] = "waiting" /\ worker[w] = "lock"

(* A caller of Health who has met it.                                      *)
HealthStuck(s, w) == StopStuck(s, w) /\ health = "asking"

(* Whose workers take the mutex, of those Health takes it too.             *)
LockIsForHealth == \A w \in Workers : worker[w] = "lock" => "health" \in LockReasons

LEMMA LockIsForHealthKept ==
  /\ Init => LockIsForHealth
  /\ CollInv /\ LockIsForHealth /\ [Next]_vars => LockIsForHealth'
<1>1. Init => LockIsForHealth
  BY DEF Init, LockIsForHealth
<1>2. ASSUME CollInv, LockIsForHealth, [Next]_vars PROVE LockIsForHealth'
  <2>0. worker \in [Workers -> {"none", "select", "poll", "lock", "done"}]
    BY <1>2 DEF CollInv, TypeOK
  <2>1. kind' = kind /\ LockReasons' = LockReasons
    BY <1>2, Zenon DEF Next, vars, Start, CancelParent, WorkerPolls, WorkerStep, WorkerExits,
       WorkerEmits, WorkerFails, WorkerLocks, CallStop, StopBegins, StopCloses, AskHealth,
       AnswerHealth, Receive, LockReasons
  <2>2. \A w \in Workers : worker'[w] = "lock" =>
          worker[w] = "lock" \/ "count" \in LockReasons \/ "error" \in LockReasons
    BY <1>2, <2>0 DEF Next, vars, Start, CancelParent, WorkerPolls, WorkerStep, WorkerExits,
       WorkerEmits, WorkerFails, WorkerLocks, WorkerTo, CallStop, StopBegins, StopCloses,
       AskHealth, AnswerHealth, Receive
  <2>3. "count" \in LockReasons \/ "error" \in LockReasons => "health" \in LockReasons
    BY <1>2, CollectorAssumption DEF LockReasons, CollInv, TypeOK
  <2> QED BY <1>2, <2>1, <2>2, <2>3 DEF LockIsForHealth
<1> QED BY <1>1, <1>2

LEMMA StuckKept ==
  ASSUME NEW s \in Stoppers, NEW w \in Workers, CollInv, LockIsForHealth, [Next]_vars
  PROVE  /\ StopStuck(s, w) => StopStuck(s, w)'
         /\ HealthStuck(s, w) => HealthStuck(s, w)'
<1> SUFFICES ASSUME StopStuck(s, w)
             PROVE  StopStuck(s, w)' /\ (health = "asking" => health' = "asking")
  BY DEF HealthStuck
<1>1. /\ mu = s /\ mu # "nobody" /\ stopper[s] = "waiting" /\ worker[w] = "lock"
      /\ stopper \in [Stoppers -> {"idle", "called", "waiting", "returned"}]
      /\ worker \in [Workers -> {"none", "select", "poll", "lock", "done"}]
      /\ "health" \in LockReasons
  BY CollectorAssumption DEF StopStuck, CollInv, TypeOK, LockIsForHealth
<1>2. /\ ~Start /\ ~AnswerHealth
      /\ \A r \in Stoppers : ~StopBegins(r) /\ ~StopCloses(r)
      /\ \A v \in Workers : ~WorkerLocks(v)
  BY <1>1 DEF Start, AnswerHealth, StopBegins, StopCloses, WorkerLocks
<1>3. ASSUME NEW v \in Workers, WorkerPolls(v) \/ WorkerStep(v)
      PROVE  UNCHANGED <<mu, stopper, health>> /\ worker'[w] = worker[w]
  BY <1>1, <1>2, <1>3 DEF WorkerPolls, WorkerStep, WorkerExits, WorkerEmits, WorkerFails, WorkerTo
<1>4. ASSUME NEW r \in Stoppers, CallStop(r)
      PROVE  UNCHANGED <<mu, worker, health>> /\ stopper'[s] = stopper[s]
  BY <1>1, <1>4 DEF CallStop
<1>5. CancelParent \/ AskHealth \/ Receive \/ UNCHANGED vars =>
        UNCHANGED <<mu, worker, stopper>> /\ (health = "asking" => health' = "asking")
  BY DEF CancelParent, AskHealth, Receive, vars
<1> QED BY <1>1, <1>2, <1>3, <1>4, <1>5 DEF Next, StopStuck

(* Once a Stop waits, under the mutex, for a worker that waits for that    *)
(* mutex, it waits for ever, and so does every caller of Health, whatever  *)
(* is cancelled (kafka/collector.go 99-112, kubernetes/collector.go        *)
(* 137-151): the run MCKafkaStop shows how it comes to that.               *)
THEOREM StuckForEver ==
  ASSUME NEW s \in Stoppers, NEW w \in Workers
  PROVE  Spec => /\ [](StopStuck(s, w) => []StopStuck(s, w))
                 /\ [](HealthStuck(s, w) => []HealthStuck(s, w))
<1>1. CollInv /\ LockIsForHealth /\ StopStuck(s, w) /\ [Next]_vars => StopStuck(s, w)'
  BY StuckKept
<1>2. CollInv /\ LockIsForHealth /\ HealthStuck(s, w) /\ [Next]_vars => HealthStuck(s, w)'
  BY StuckKept
<1>3. CollInv /\ LockIsForHealth /\ [Next]_vars => LockIsForHealth'
  BY LockIsForHealthKept
<1>4. Init => LockIsForHealth
  BY LockIsForHealthKept
<1> QED BY <1>1, <1>2, <1>3, <1>4, CollInductive, PTL DEF Spec

-----------------------------------------------------------------------------
(* The federation manager.                                                 *)

Instance == [foreign : BOOLEAN, cancelled : BOOLEAN,
             collector : {"running", "halted", "hangs"}, queued : Nat,
             forwarder : {"select", "have", "done"}]

Indices == 1 .. Len(instance)

FedTypes ==
  /\ instance \in Seq(Instance)
  /\ clusters \subseteq ClusterNames
  /\ toStart \subseteq clusters
  /\ current \in [ClusterNames -> 0 .. Len(instance)]

(* Who may start instances, and when.                                      *)
Phases ==
  /\ toStart # {} => fedStart = "looping"
  /\ fedStop # "idle" => fedStart = "done"
  /\ fedStop \notin {"idle", "called"} => ~fedRunning
  /\ fedClosed => fedStop = "returned"
  /\ fedStart \in {"idle", "unlocked"} => \A i \in Indices : instance[i].foreign

(* What is in the map: a cluster that is not has no instance, one that     *)
(* Start has still to visit has none of Start's, and all others of Start's *)
(* are there or halted.                                                    *)
MapAgrees ==
  /\ \A n \in ClusterNames \ clusters : current[n] = 0
  /\ \A n \in toStart : current[n] # 0 => instance[current[n]].foreign
  /\ \A i \in Indices :
       instance[i].foreign \/ instance[i].collector = "halted" \/ i \in Mapped

(* Why a forwarder has ended.                                              *)
EndedForCause ==
  \A i \in Indices :
    instance[i].forwarder = "done" =>
      instance[i].collector = "halted" \/ InstanceDone(i)

(* Once Stop has waited for the forwarders, they stay ended.               *)
ForwardersGone ==
  fedStop \in {"stopping", "returned"} =>
    \A i \in Indices : instance[i].forwarder = "done"

FedInv ==
  /\ FedTypes
  /\ Phases
  /\ MapAgrees
  /\ EndedForCause
  /\ ForwardersGone
  /\ FedStopIsComplete
  /\ FedNoPanic

-----------------------------------------------------------------------------
(* A step that changes one instance, in what its forwarder and its         *)
(* channel do, keeps the invariant if it ends the forwarder for a cause    *)
(* and revives none after Stop.                                            *)
LEMMA ForwarderStep ==
  ASSUME FedInv, NEW i \in Indices, NEW r \in Instance,
         instance' = [instance EXCEPT ![i] = r],
         r.foreign = instance[i].foreign,
         r.cancelled = instance[i].cancelled,
         r.collector = instance[i].collector,
         r.forwarder = "done" =>
           \/ instance[i].forwarder = "done"
           \/ instance[i].collector = "halted" \/ InstanceDone(i),
         fedStop \in {"stopping", "returned"} => r.forwarder = "done",
         UNCHANGED <<fedControl, fedMap, fedClosed>>,
         ~fedPanicked'
  PROVE  FedInv'
<1> USE DEF fedControl, fedMap
<1>1. /\ instance' \in Seq(Instance)
      /\ Len(instance') = Len(instance)
      /\ \A j \in Indices : instance'[j] = IF j = i THEN r ELSE instance[j]
  <2>1. instance \in Seq(Instance)
    BY DEF FedInv, FedTypes
  <2> QED BY <2>1, ExceptSeq DEF Indices
<1>2. Indices' = Indices
  BY <1>1 DEF Indices
<1>3. \A j \in Indices : /\ instance'[j].foreign = instance[j].foreign
                         /\ instance'[j].cancelled = instance[j].cancelled
                         /\ instance'[j].collector = instance[j].collector
                         /\ InstanceDone(j)' <=> InstanceDone(j)
  BY <1>1 DEF InstanceDone
<1>4. FedTypes'
  BY <1>1 DEF FedInv, FedTypes
<1>5. Phases'
  BY <1>2, <1>3 DEF FedInv, Phases
<1>6. MapAgrees'
  <2>1. Mapped' = Mapped
    BY DEF Mapped
  <2>2. \A n \in toStart : current[n] # 0 => current[n] \in Indices
    BY DEF FedInv, FedTypes, Indices
  <2> QED BY <1>2, <1>3, <2>1, <2>2 DEF FedInv, MapAgrees
<1>7. EndedForCause'
  BY <1>1, <1>2, <1>3 DEF FedInv, EndedForCause
<1>8. FedStopIsComplete'
  <2>1. Mapped' = Mapped
    BY DEF Mapped
  <2> QED BY <1>1, <1>2, <1>3, <2>1 DEF FedInv, FedStopIsComplete, Indices
<1>9. FedNoPanic'
  BY DEF FedNoPanic
<1>10. ForwardersGone'
  BY <1>1, <1>2 DEF FedInv, ForwardersGone
<1> QED BY <1>4, <1>5, <1>6, <1>7, <1>8, <1>9, <1>10 DEF FedInv

LEMMA EmitKeepsInv == ASSUME FedInv, NEW i \in Indices, ClusterEmits(i) PROVE FedInv'
<1> DEFINE r == [instance[i] EXCEPT !.queued = @ + 1]
<1>1. instance[i] \in Instance
  BY DEF FedInv, FedTypes, Indices
<1>2. r \in Instance
  BY <1>1 DEF Instance
<1>3. instance' = [instance EXCEPT ![i] = r]
  BY DEF ClusterEmits
<1>4. /\ r.foreign = instance[i].foreign /\ r.cancelled = instance[i].cancelled
      /\ r.collector = instance[i].collector /\ r.forwarder = instance[i].forwarder
  BY <1>1 DEF Instance
<1>5. fedStop \in {"stopping", "returned"} => r.forwarder = "done"
  BY <1>4 DEF FedInv, ForwardersGone
<1>6. UNCHANGED <<fedControl, fedMap, fedClosed>> /\ ~fedPanicked'
  BY DEF ClusterEmits, FedInv, FedNoPanic
<1> HIDE DEF r
<1> QED BY <1>2, <1>3, <1>4, <1>5, <1>6, ForwarderStep

LEMMA ForwarderKeepsInv == ASSUME FedInv, NEW i \in Indices, Forwarder(i) PROVE FedInv'
<1>1. instance[i] \in Instance
  BY DEF FedInv, FedTypes, Indices
<1>2. instance[i].forwarder # "done"
  BY DEF Forwarder, ForwarderTakes, ForwarderForwards, ForwarderExits
<1>3. fedStop \notin {"stopping", "returned"} /\ ~fedClosed
  BY <1>2 DEF FedInv, ForwardersGone, Phases
<1>4. CASE ForwarderTakes(i)
  <2> DEFINE r == [instance[i] EXCEPT !.queued = @ - 1, !.forwarder = "have"]
  <2>1. r \in Instance
    <3>1. instance[i].queued - 1 \in Nat
      BY <1>1, <1>4 DEF Instance, ForwarderTakes
    <3> QED BY <1>1, <3>1 DEF Instance
  <2>2. instance' = [instance EXCEPT ![i] = r]
    BY <1>4 DEF ForwarderTakes
  <2>3. /\ r.foreign = instance[i].foreign /\ r.cancelled = instance[i].cancelled
        /\ r.collector = instance[i].collector /\ r.forwarder = "have"
    BY <1>1 DEF Instance
  <2>4. UNCHANGED <<fedControl, fedMap, fedClosed>> /\ ~fedPanicked'
    BY <1>4 DEF ForwarderTakes, FedInv, FedNoPanic
  <2> HIDE DEF r
  <2> QED BY <1>3, <2>1, <2>2, <2>3, <2>4, ForwarderStep
<1>5. CASE ForwarderForwards(i)
  <2> DEFINE r == [instance[i] EXCEPT !.forwarder = "select"]
  <2>1. r \in Instance
    BY <1>1 DEF Instance
  <2>2. instance' = [instance EXCEPT ![i] = r]
    BY <1>5 DEF ForwarderForwards
  <2>3. /\ r.foreign = instance[i].foreign /\ r.cancelled = instance[i].cancelled
        /\ r.collector = instance[i].collector /\ r.forwarder = "select"
    BY <1>1 DEF Instance
  <2>4. UNCHANGED <<fedControl, fedMap, fedClosed>>
    BY <1>5 DEF ForwarderForwards
  <2>5. ~fedPanicked'
    BY <1>3, <1>5 DEF ForwarderForwards, FedInv, FedNoPanic
  <2> HIDE DEF r
  <2> QED BY <1>3, <2>1, <2>2, <2>3, <2>4, <2>5, ForwarderStep
<1>6. CASE ForwarderExits(i)
  <2> DEFINE r == [instance[i] EXCEPT !.forwarder = "done"]
  <2>1. r \in Instance
    BY <1>1 DEF Instance
  <2>2. instance' = [instance EXCEPT ![i] = r]
    BY <1>6 DEF ForwarderExits
  <2>3. /\ r.foreign = instance[i].foreign /\ r.cancelled = instance[i].cancelled
        /\ r.collector = instance[i].collector
    BY <1>1 DEF Instance
  <2>4. instance[i].collector = "halted" \/ InstanceDone(i)
    BY <1>6 DEF ForwarderExits
  <2>5. UNCHANGED <<fedControl, fedMap, fedClosed>> /\ ~fedPanicked'
    BY <1>6 DEF ForwarderExits, FedInv, FedNoPanic
  <2> HIDE DEF r
  <2> QED BY <1>3, <2>1, <2>2, <2>3, <2>4, <2>5, ForwarderStep
<1> QED BY <1>4, <1>5, <1>6 DEF Forwarder

-----------------------------------------------------------------------------
(* Steps of control: no instance changes, nor the map.                     *)
LEMMA ControlKeepsInv ==
  ASSUME FedInv,
         \/ FedStartBegins \/ FedStartLoops \/ FedStartReturns
         \/ FedContextEnds \/ FedStopCalled \/ FedStopBegins \/ FedStopCancels
         \/ FedStopLoops
  PROVE  FedInv'
<1> USE DEF fedControl, fedMap
<1>1. UNCHANGED <<fedMap, instance, fedClosed, fedPanicked>>
  BY DEF FedStartBegins, FedStartLoops, FedStartReturns, FedContextEnds, FedStopCalled,
         FedStopBegins, FedStopCancels, FedStopLoops
<1>2. /\ toStart' = toStart \/ (toStart' = clusters /\ fedStart = "unlocked")
      /\ mgrDone => mgrDone'
      /\ callerDone => callerDone'
      /\ fedStop' = "returned" => fedStop = "returned"
  BY DEF FedStartBegins, FedStartLoops, FedStartReturns, FedContextEnds, FedStopCalled,
         FedStopBegins, FedStopCancels, FedStopLoops
<1>3. Indices' = Indices /\ Mapped' = Mapped
  BY <1>1 DEF Indices, Mapped
<1>4. \A i \in Indices : InstanceDone(i) => InstanceDone(i)'
  BY <1>1, <1>2 DEF InstanceDone
<1>5. FedTypes'
  BY <1>1, <1>2 DEF FedInv, FedTypes
<1>6. Phases'
  BY <1>1, <1>3 DEF FedInv, Phases, FedStartBegins, FedStartLoops, FedStartReturns,
                    FedContextEnds, FedStopCalled, FedStopBegins, FedStopCancels,
                    FedStopLoops
<1>7. MapAgrees'
  <2>1. \A n \in ClusterNames :
          current[n] # 0 /\ fedStart = "unlocked" => instance[current[n]].foreign
    BY DEF FedInv, FedTypes, Phases, Indices
  <2>2. clusters \subseteq ClusterNames
    BY DEF FedInv, FedTypes
  <2> QED BY <1>1, <1>2, <1>3, <2>1, <2>2 DEF FedInv, MapAgrees
<1>8. EndedForCause'
  BY <1>1, <1>3, <1>4 DEF FedInv, EndedForCause
<1>9. FedStopIsComplete'
  BY <1>1, <1>2, <1>3, <1>4 DEF FedInv, FedStopIsComplete, Indices
<1>10. FedNoPanic'
  BY <1>1 DEF FedInv, FedNoPanic
<1>11. ForwardersGone'
  <2>1. CASE FedStopLoops
    BY <1>1, <1>3, <2>1 DEF FedStopLoops, AllForwardersDone, ForwardersGone, Indices
  <2>2. CASE ~FedStopLoops
    <3>1. fedStop' \in {"stopping", "returned"} => fedStop' = fedStop
      BY <2>2 DEF FedStartBegins, FedStartLoops, FedStartReturns, FedContextEnds, FedStopCalled,
                  FedStopBegins, FedStopCancels
    <3> QED BY <1>1, <1>3, <3>1 DEF FedInv, ForwardersGone
  <2> QED BY <2>1, <2>2
<1> QED BY <1>5, <1>6, <1>7, <1>8, <1>9, <1>10, <1>11 DEF FedInv

-----------------------------------------------------------------------------
(* Starting a cluster adds at most one instance, at the end.               *)
LEMMA InstanceAppended ==
  ASSUME FedInv, NEW foreign \in BOOLEAN,
         instance' = Append(instance, InstanceOf(foreign))
  PROVE  /\ instance' \in Seq(Instance)
         /\ Len(instance) \in Nat
         /\ Len(instance') = Len(instance) + 1
         /\ \A j \in Indices : instance'[j] = instance[j]
         /\ instance'[Len(instance) + 1] = InstanceOf(foreign)
<1>1. instance \in Seq(Instance)
  BY DEF FedInv, FedTypes
<1>2. InstanceOf(foreign) \in Instance
  BY DEF InstanceOf, Instance
<1> QED BY <1>1, <1>2, AppendProperties DEF Indices

(* The parts of the invariant that hold however a start turns out, as long *)
(* as Stop has not begun.                                                  *)
LEMMA StartClusterKeeps ==
  ASSUME FedInv, NEW n \in ClusterNames, NEW foreign \in BOOLEAN,
         StartCluster(n, foreign),
         UNCHANGED <<mgrDone, callerDone, fedPanicked>>
  PROVE  /\ instance' \in Seq(Instance)
         /\ current' \in [ClusterNames -> 0 .. Len(instance')]
         /\ \A m \in ClusterNames \ {n} : current'[m] = current[m]
         /\ Indices \subseteq Indices'
         /\ \A j \in Indices : instance'[j] = instance[j]
         /\ \A j \in Indices' \ Indices :
              j = current'[n] /\ instance'[j] = InstanceOf(foreign)
         /\ EndedForCause'
         /\ FedNoPanic'
<1>1. instance \in Seq(Instance) /\ Len(instance) \in Nat
      /\ current \in [ClusterNames -> 0 .. Len(instance)]
  BY DEF FedInv, FedTypes
<1>2. FedNoPanic'
  BY DEF FedInv, FedNoPanic
<1>3. CASE /\ instance' = Append(instance, InstanceOf(foreign))
           /\ current' = [current EXCEPT ![n] = Len(instance) + 1]
  <2>1. /\ instance' \in Seq(Instance)
        /\ Len(instance') = Len(instance) + 1
        /\ \A j \in Indices : instance'[j] = instance[j]
        /\ instance'[Len(instance) + 1] = InstanceOf(foreign)
    BY <1>3, InstanceAppended
  <2>2. current' \in [ClusterNames -> 0 .. Len(instance')]
    BY <1>1, <1>3, <2>1
  <2>3. Indices' = Indices \cup {Len(instance) + 1}
    BY <1>1, <2>1 DEF Indices
  <2>4. current'[n] = Len(instance) + 1 /\ \A m \in ClusterNames \ {n} : current'[m] = current[m]
    BY <1>1, <1>3
  <2>5. EndedForCause'
    <3>1. \A j \in Indices : InstanceDone(j)' <=> InstanceDone(j)
      BY <2>1 DEF InstanceDone
    <3>2. InstanceOf(foreign).forwarder # "done"
      BY DEF InstanceOf
    <3> QED BY <2>1, <2>3, <3>1, <3>2 DEF FedInv, EndedForCause
  <2> QED BY <1>2, <2>1, <2>2, <2>3, <2>4, <2>5
<1>4. CASE current' = [current EXCEPT ![n] = 0] /\ UNCHANGED instance
  <2>1. Indices' = Indices
    BY <1>4 DEF Indices
  <2>2. EndedForCause'
    <3>1. \A j \in Indices : InstanceDone(j)' <=> InstanceDone(j)
      BY <1>4 DEF InstanceDone
    <3> QED BY <1>4, <2>1, <3>1 DEF FedInv, EndedForCause
  <2>3. current' \in [ClusterNames -> 0 .. Len(instance')]
    BY <1>1, <1>4
  <2> QED BY <1>1, <1>2, <1>4, <2>1, <2>2, <2>3
<1> QED BY <1>3, <1>4 DEF StartCluster

LEMMA LoopKeepsInv ==
  ASSUME FedInv, NEW n \in ClusterNames, FedStartsCluster(n) PROVE FedInv'
<1> USE DEF fedControl, fedMap
<1>1. n \in toStart /\ toStart' = toStart \ {n} /\ StartCluster(n, FALSE)
      /\ UNCHANGED <<fedRunning, fedStart, fedStop, mgrDone, callerDone, clusters,
                     fedClosed, fedPanicked>>
  BY DEF FedStartsCluster
<1>2. fedStart = "looping" /\ fedStop = "idle" /\ ~fedClosed
  BY <1>1 DEF FedInv, Phases
<1>3. /\ instance' \in Seq(Instance)
      /\ current' \in [ClusterNames -> 0 .. Len(instance')]
      /\ \A m \in ClusterNames \ {n} : current'[m] = current[m]
      /\ Indices \subseteq Indices'
      /\ \A j \in Indices : instance'[j] = instance[j]
      /\ \A j \in Indices' \ Indices : j = current'[n]
      /\ EndedForCause' /\ FedNoPanic'
  BY <1>1, StartClusterKeeps
<1>4. FedTypes'
  BY <1>1, <1>3 DEF FedInv, FedTypes
<1>5. Phases'
  BY <1>1, <1>2 DEF FedInv, Phases
<1>6. MapAgrees'
  <2>1. clusters \subseteq ClusterNames /\ n \in clusters /\ toStart \subseteq clusters
    BY <1>1 DEF FedInv, FedTypes
  <2>2. \A m \in ClusterNames \ clusters' : current'[m] = 0
    BY <1>1, <1>3, <2>1 DEF FedInv, MapAgrees
  <2>3. \A m \in toStart' : current'[m] # 0 => instance'[current'[m]].foreign
    <3> SUFFICES ASSUME NEW m \in toStart', current'[m] # 0
                 PROVE  instance'[current'[m]].foreign
      OBVIOUS
    <3>1. m \in toStart /\ m \in ClusterNames \ {n} /\ current'[m] = current[m]
      BY <1>1, <1>3, <2>1
    <3>2. current[m] \in Indices
      BY <3>1 DEF FedInv, FedTypes, Indices
    <3> QED BY <1>3, <3>1, <3>2 DEF FedInv, MapAgrees
  <2>4. ASSUME NEW i \in Indices'
        PROVE  \/ instance'[i].foreign \/ instance'[i].collector = "halted"
               \/ i \in Mapped'
    <3>1. CASE i \in Indices' \ Indices
      BY <1>1, <1>3, <2>1, <3>1 DEF Mapped
    <3>2. CASE i \in Indices
      <4>1. instance'[i] = instance[i]
        BY <1>3, <3>2
      <4>2. CASE i \in Mapped
        <5>1. PICK m \in clusters : i = current[m]
          BY <4>2 DEF Mapped
        <5>2. CASE m = n
          <6>1. i # 0
            BY <3>2 DEF FedInv, FedTypes, Indices
          <6> QED BY <1>1, <4>1, <5>1, <5>2, <6>1 DEF FedInv, MapAgrees
        <5>3. CASE m # n
          BY <1>1, <1>3, <2>1, <5>1, <5>3 DEF Mapped
        <5> QED BY <5>2, <5>3
      <4> QED BY <3>2, <4>1, <4>2 DEF FedInv, MapAgrees
    <3> QED BY <3>1, <3>2
  <2> QED BY <2>2, <2>3, <2>4 DEF MapAgrees
<1>7. FedStopIsComplete'
  BY <1>1, <1>2 DEF FedStopIsComplete
<1>8. ForwardersGone'
  BY <1>1, <1>2 DEF ForwardersGone
<1> QED BY <1>3, <1>4, <1>5, <1>6, <1>7, <1>8 DEF FedInv

LEMMA AddKeepsInv ==
  ASSUME FedInv, NEW n \in ClusterNames, AddCluster(n) PROVE FedInv'
<1> USE DEF fedControl, fedMap
<1>1. /\ n \notin clusters
      /\ UNCHANGED <<fedRunning, fedStart, toStart, fedStop, mgrDone, callerDone,
                     fedClosed, fedPanicked>>
  BY DEF AddCluster
<1>2. toStart = {}
  BY DEF AddCluster, WriteLockFree, FedInv, Phases
<1>3. current[n] = 0
  BY <1>1 DEF FedInv, MapAgrees
<1>4. CASE ~fedRunning /\ clusters' = clusters \cup {n} /\ UNCHANGED <<current, instance>>
  <2>1. Indices' = Indices /\ Mapped' = Mapped \cup {0}
    BY <1>3, <1>4 DEF Indices, Mapped
  <2>2. \A i \in Indices : i # 0 /\ (InstanceDone(i)' <=> InstanceDone(i))
    BY <1>1, <1>4 DEF FedInv, FedTypes, Indices, InstanceDone
  <2>3. FedTypes'
    BY <1>1, <1>4 DEF FedInv, FedTypes
  <2>4. Phases'
    BY <1>1, <1>4, <2>1 DEF FedInv, Phases
  <2>5. MapAgrees'
    BY <1>1, <1>2, <1>3, <1>4, <2>1, <2>2 DEF FedInv, MapAgrees
  <2>6. EndedForCause'
    BY <1>4, <2>1, <2>2 DEF FedInv, EndedForCause
  <2>7. FedStopIsComplete'
    BY <1>1, <1>4, <2>1, <2>2 DEF FedInv, FedStopIsComplete, Indices
  <2>8. FedNoPanic'
    BY <1>1 DEF FedInv, FedNoPanic
  <2>9. ForwardersGone'
    BY <1>1, <1>4, <2>1 DEF FedInv, ForwardersGone
  <2> QED BY <2>3, <2>4, <2>5, <2>6, <2>7, <2>8, <2>9 DEF FedInv
<1>5. CASE /\ fedRunning
           /\ StartCluster(n, TRUE)
           /\ clusters' = IF current'[n] = 0 THEN clusters ELSE clusters \cup {n}
  <2>1. fedStop \in {"idle", "called"} /\ ~fedClosed
    BY <1>5 DEF FedInv, Phases
  <2>2. /\ instance' \in Seq(Instance)
        /\ current' \in [ClusterNames -> 0 .. Len(instance')]
        /\ \A m \in ClusterNames \ {n} : current'[m] = current[m]
        /\ Indices \subseteq Indices'
        /\ \A j \in Indices : instance'[j] = instance[j]
        /\ \A j \in Indices' \ Indices :
             j = current'[n] /\ instance'[j] = InstanceOf(TRUE)
        /\ EndedForCause' /\ FedNoPanic'
    BY <1>1, <1>5, StartClusterKeeps
  <2>3. \A j \in Indices' \ Indices : instance'[j].foreign
    BY <2>2 DEF InstanceOf
  <2>4. FedTypes'
    BY <1>1, <1>2, <1>5, <2>2 DEF FedInv, FedTypes
  <2>5. Phases'
    BY <1>1, <1>2, <1>5, <2>1, <2>2, <2>3 DEF FedInv, Phases
  <2>6. MapAgrees'
    <3>1. \A m \in ClusterNames \ clusters' : current'[m] = 0
      BY <1>1, <1>5, <2>2 DEF FedInv, MapAgrees
    <3>2. toStart' = {}
      BY <1>1, <1>2
    <3>3. ASSUME NEW i \in Indices' , ~instance'[i].foreign
          PROVE  instance'[i].collector = "halted" \/ i \in Mapped'
      <4>1. i \in Indices /\ instance'[i] = instance[i] /\ i # 0
        BY <2>2, <2>3, <3>3 DEF FedInv, FedTypes, Indices
      <4>2. CASE i \in Mapped
        <5>1. PICK m \in clusters : i = current[m]
          BY <4>2 DEF Mapped
        <5>2. m # n /\ m \in ClusterNames /\ m \in clusters'
          BY <1>1, <1>5, <5>1 DEF FedInv, FedTypes
        <5> QED BY <2>2, <5>1, <5>2 DEF Mapped
      <4> QED BY <3>3, <4>1, <4>2 DEF FedInv, MapAgrees
    <3> QED BY <3>1, <3>2, <3>3 DEF MapAgrees
  <2>7. FedStopIsComplete'
    BY <1>1, <2>1 DEF FedStopIsComplete
  <2>8. ForwardersGone'
    BY <1>1, <2>1 DEF ForwardersGone
  <2> QED BY <2>2, <2>4, <2>5, <2>6, <2>7, <2>8 DEF FedInv
<1> QED BY <1>4, <1>5 DEF AddCluster

LEMMA RemoveKeepsInv ==
  ASSUME FedInv, NEW n \in ClusterNames, RemoveCluster(n) PROVE FedInv'
<1> USE DEF fedControl, fedMap
<1> DEFINE c == current[n]
<1>1. /\ n \in clusters /\ clusters' = clusters \ {n}
      /\ current' = [current EXCEPT ![n] = 0]
      /\ UNCHANGED <<fedRunning, fedStart, toStart, fedStop, mgrDone, callerDone,
                     fedClosed, fedPanicked>>
  BY DEF RemoveCluster
<1>2. toStart = {}
  BY DEF RemoveCluster, WriteLockFree, FedInv, Phases
<1>3. /\ instance \in Seq(Instance) /\ c \in 0 .. Len(instance)
      /\ current \in [ClusterNames -> 0 .. Len(instance)]
  BY DEF FedInv, FedTypes
<1>4. /\ instance' \in Seq(Instance)
      /\ Len(instance') = Len(instance)
      /\ \A j \in Indices :
           /\ instance'[j].foreign = instance[j].foreign
           /\ instance'[j].forwarder = instance[j].forwarder
           /\ instance[j].cancelled => instance'[j].cancelled
           /\ instance[j].collector = "halted" => instance'[j].collector = "halted"
           /\ j = c => instance'[j].collector = "halted"
  <2>1. CASE c = 0
    BY <1>3, <2>1 DEF RemoveCluster, Indices
  <2>2. CASE c # 0
    <3> DEFINE r == [instance[c] EXCEPT !.cancelled = TRUE, !.collector = "halted"]
    <3>1. c \in Indices /\ instance[c] \in Instance
      BY <1>3, <2>2 DEF Indices
    <3>2. r \in Instance /\ r.foreign = instance[c].foreign
          /\ r.forwarder = instance[c].forwarder /\ r.cancelled /\ r.collector = "halted"
      BY <3>1 DEF Instance
    <3>3. instance' = [instance EXCEPT ![c] = r]
      BY <2>2 DEF RemoveCluster
    <3> HIDE DEF r
    <3>4. /\ instance' \in Seq(Instance)
          /\ Len(instance') = Len(instance)
          /\ \A j \in Indices : instance'[j] = IF j = c THEN r ELSE instance[j]
      BY <1>3, <3>1, <3>2, <3>3, ExceptSeq DEF Indices
    <3> QED BY <3>2, <3>4
  <2> QED BY <2>1, <2>2
<1>5. Indices' = Indices
  BY <1>4 DEF Indices
<1>6. Mapped' \subseteq Mapped /\ Mapped \subseteq Mapped' \cup {c}
  BY <1>1, <1>3 DEF FedInv, FedTypes, Mapped
<1>7. \A j \in Indices : InstanceDone(j) => InstanceDone(j)'
  BY <1>1, <1>4 DEF InstanceDone
<1>8. FedTypes'
  BY <1>1, <1>2, <1>3, <1>4 DEF FedInv, FedTypes
<1>9. Phases'
  BY <1>1, <1>4, <1>5 DEF FedInv, Phases
<1>10. MapAgrees'
  BY <1>1, <1>2, <1>3, <1>4, <1>5, <1>6 DEF FedInv, MapAgrees
<1>11. EndedForCause'
  BY <1>4, <1>5, <1>7 DEF FedInv, EndedForCause
<1>12. FedStopIsComplete'
  BY <1>1, <1>4, <1>5, <1>6, <1>7 DEF FedInv, FedStopIsComplete, Indices
<1>13. FedNoPanic'
  BY <1>1 DEF FedInv, FedNoPanic
<1>14. ForwardersGone'
  BY <1>1, <1>4, <1>5 DEF FedInv, ForwardersGone
<1> QED BY <1>8, <1>9, <1>10, <1>11, <1>12, <1>13, <1>14 DEF FedInv

-----------------------------------------------------------------------------
(* The Stop of one collector that is in the map and runs, of which nothing *)
(* but its context and itself changes, once its context is done.           *)
LEMMA CollectorStep ==
  ASSUME FedInv, NEW c \in Indices, NEW r \in Instance,
         instance' = [instance EXCEPT ![c] = r],
         c \in Mapped, instance[c].collector = "running", toStart = {},
         r.foreign = instance[c].foreign,
         r.forwarder = instance[c].forwarder,
         r.cancelled \/ (instance[c].forwarder = "done" /\ r.cancelled = instance[c].cancelled),
         UNCHANGED <<fedControl, fedMap, fedClosed, fedPanicked>>
  PROVE  FedInv'
<1> USE DEF fedControl, fedMap
<1>1. /\ instance' \in Seq(Instance)
      /\ Len(instance') = Len(instance)
      /\ \A j \in Indices : instance'[j] = IF j = c THEN r ELSE instance[j]
  <2>1. instance \in Seq(Instance)
    BY DEF FedInv, FedTypes
  <2> QED BY <2>1, ExceptSeq DEF Indices
<1>2. Indices' = Indices
  BY <1>1 DEF Indices
<1>3. Mapped' = Mapped
  BY DEF Mapped
<1>4. \A j \in Indices : /\ instance'[j].foreign = instance[j].foreign
                         /\ instance'[j].forwarder = instance[j].forwarder
                         /\ j # c => instance'[j].collector = instance[j].collector
                         /\ j # c => (InstanceDone(j)' <=> InstanceDone(j))
  BY <1>1 DEF InstanceDone
<1>5. instance[c].forwarder = "done" => InstanceDone(c)'
  <2>1. CASE r.cancelled
    BY <1>1, <2>1 DEF InstanceDone
  <2>2. CASE instance[c].forwarder = "done" /\ r.cancelled = instance[c].cancelled
    <3>1. InstanceDone(c)
      BY <2>2 DEF FedInv, EndedForCause
    <3> QED BY <1>1, <2>2, <3>1 DEF InstanceDone
  <2> QED BY <2>1, <2>2
<1>6. FedTypes'
  BY <1>1 DEF FedInv, FedTypes
<1>7. Phases'
  BY <1>2, <1>4 DEF FedInv, Phases
<1>8. MapAgrees'
  BY <1>2, <1>3, <1>4 DEF FedInv, MapAgrees
<1>9. EndedForCause'
  BY <1>2, <1>4, <1>5 DEF FedInv, EndedForCause
<1>10. ForwardersGone'
  BY <1>2, <1>4 DEF FedInv, ForwardersGone
<1>11. FedStopIsComplete'
  <2>1. fedStop # "returned"
    BY DEF FedInv, FedStopIsComplete, Indices
  <2> QED BY <2>1 DEF FedStopIsComplete
<1>12. FedNoPanic'
  BY DEF FedInv, FedNoPanic
<1> QED BY <1>6, <1>7, <1>8, <1>9, <1>10, <1>11, <1>12 DEF FedInv

LEMMA RemoveHangsKeepsInv ==
  ASSUME FedInv, NEW n \in ClusterNames, RemoveHangs(n) PROVE FedInv'
<1> DEFINE c == current[n]
           r == [instance[c] EXCEPT !.cancelled = TRUE, !.collector = "hangs"]
<1>1. c \in Indices /\ instance[c] \in Instance
  BY DEF RemoveHangs, FedInv, FedTypes, Indices
<1>2. c \in Mapped /\ instance[c].collector = "running"
  BY DEF RemoveHangs, Mapped
<1>3. instance' = [instance EXCEPT ![c] = r]
  BY DEF RemoveHangs
<1>4. /\ r \in Instance /\ r.foreign = instance[c].foreign
      /\ r.forwarder = instance[c].forwarder /\ r.cancelled
  BY <1>1 DEF Instance
<1>5. toStart = {}
  BY DEF RemoveHangs, WriteLockFree, FedInv, Phases
<1>6. UNCHANGED <<fedControl, fedMap, fedClosed, fedPanicked>>
  BY DEF RemoveHangs
<1> HIDE DEF c, r
<1> QED BY <1>1, <1>2, <1>3, <1>4, <1>5, <1>6, CollectorStep

(* Stop calls Stop of the collectors after the forwarders have ended.      *)
LEMMA StopsCollectorKeepsInv ==
  ASSUME FedInv, NEW c \in Indices, FedStopsCollector(c) PROVE FedInv'
<1>1. PICK outcome \in {"halted", "hangs"} :
        instance' = [instance EXCEPT ![c].collector = outcome]
  BY DEF FedStopsCollector
<1> DEFINE r == [instance[c] EXCEPT !.collector = outcome]
<1>2. instance[c] \in Instance
  BY DEF FedInv, FedTypes, Indices
<1>3. c \in Mapped /\ instance[c].collector = "running"
  BY DEF FedStopsCollector, LeftToStop
<1>4. instance' = [instance EXCEPT ![c] = r]
  BY <1>1
<1>5. /\ r \in Instance /\ r.foreign = instance[c].foreign
      /\ r.forwarder = instance[c].forwarder /\ r.cancelled = instance[c].cancelled
  BY <1>2 DEF Instance
<1>6. toStart = {} /\ instance[c].forwarder = "done"
  BY DEF FedStopsCollector, FedInv, Phases, ForwardersGone
<1>7. UNCHANGED <<fedControl, fedMap, fedClosed, fedPanicked>>
  BY DEF FedStopsCollector
<1> HIDE DEF r
<1> QED BY <1>2, <1>3, <1>4, <1>5, <1>6, <1>7, CollectorStep

(* The end of Stop: no collector in the map runs and none hangs, so that   *)
(* all are halted; what is not in the map was halted before or is an       *)
(* AddCluster's whose forwarder its context ended.                         *)
LEMMA CloseKeepsInv == ASSUME FedInv, FedStopCloses PROVE FedInv'
<1> USE DEF fedControl, fedMap
<1>1. /\ fedStop = "stopping" /\ ~CollectorHangs /\ LeftToStop = {}
      /\ fedClosed' /\ fedStop' = "returned"
      /\ UNCHANGED <<fedRunning, fedStart, toStart, mgrDone, callerDone, fedMap, instance,
                     fedPanicked>>
  BY DEF FedStopCloses
<1>2. Indices' = Indices /\ Mapped' = Mapped
  BY <1>1 DEF Indices, Mapped
<1>3. \A i \in Indices : InstanceDone(i)' <=> InstanceDone(i)
  BY <1>1 DEF InstanceDone
<1>4. FedTypes'
  BY <1>1 DEF FedInv, FedTypes
<1>5. Phases'
  BY <1>1, <1>2 DEF FedInv, Phases
<1>6. MapAgrees'
  BY <1>1, <1>2 DEF FedInv, MapAgrees
<1>7. EndedForCause'
  BY <1>1, <1>2, <1>3 DEF FedInv, EndedForCause
<1>8. ForwardersGone'
  BY <1>1, <1>2 DEF FedInv, ForwardersGone
<1>9. FedStopIsComplete'
  <2> SUFFICES ASSUME NEW i \in Indices
               PROVE  /\ instance[i].forwarder = "done"
                      /\ \/ instance[i].collector = "halted"
                         \/ instance[i].foreign /\ i \notin Mapped /\ InstanceDone(i)
    BY <1>1, <1>2, <1>3 DEF FedStopIsComplete, Indices
  <2>1. instance[i].forwarder = "done"
    BY <1>1 DEF FedInv, ForwardersGone
  <2>2. instance[i].collector = "halted" \/ InstanceDone(i)
    BY <2>1 DEF FedInv, EndedForCause
  <2>3. instance[i].foreign \/ instance[i].collector = "halted" \/ i \in Mapped
    BY DEF FedInv, MapAgrees
  <2>4. i \in Mapped => instance[i].collector = "halted"
    <3>0. i # 0 /\ instance[i] \in Instance
      BY DEF FedInv, FedTypes, Indices
    <3>1. instance[i].collector \in {"running", "halted", "hangs"}
      BY <3>0, Zenon DEF Instance
    <3>2. instance[i].collector # "hangs"
      BY <1>1 DEF CollectorHangs, Indices
    <3> QED BY <1>1, <3>0, <3>1, <3>2 DEF LeftToStop
  <2> QED BY <2>1, <2>2, <2>3, <2>4
<1>10. FedNoPanic'
  BY <1>1 DEF FedInv, FedNoPanic
<1> QED BY <1>4, <1>5, <1>6, <1>7, <1>8, <1>9, <1>10 DEF FedInv

-----------------------------------------------------------------------------
LEMMA FedInitInv == FedInit => FedInv
<1> SUFFICES ASSUME FedInit PROVE FedInv
  OBVIOUS
<1>1. instance = <<>> /\ instance \in Seq(Instance) /\ Indices = {}
  BY DEF FedInit, Indices
<1>2. FedTypes
  BY <1>1, FederationAssumption DEF FedInit, FedTypes
<1> QED BY <1>1, <1>2 DEF FedInit, FedInv, Phases, MapAgrees, EndedForCause,
                          ForwardersGone, FedStopIsComplete, FedNoPanic

LEMMA FedNextInv == FedInv /\ [FedNext]_fedVars => FedInv'
<1> SUFFICES ASSUME FedInv, [FedNext]_fedVars PROVE FedInv'
  OBVIOUS
<1>1. CASE UNCHANGED fedVars
  BY <1>1 DEF fedVars, fedControl, fedMap, FedInv, FedTypes, Phases, MapAgrees, EndedForCause,
              ForwardersGone, FedStopIsComplete, FedNoPanic, Indices, Mapped, InstanceDone
<1>2. CASE FedStartBegins \/ FedStartLoops \/ FedStartReturns \/ FedContextEnds
           \/ FedStopCalled \/ FedStopBegins \/ FedStopCancels \/ FedStopLoops
  BY <1>2, ControlKeepsInv
<1>3. CASE \E n \in ClusterNames : \/ FedStartsCluster(n) \/ AddCluster(n) \/ RemoveCluster(n)
                                  \/ RemoveHangs(n)
  BY <1>3, LoopKeepsInv, AddKeepsInv, RemoveKeepsInv, RemoveHangsKeepsInv
<1>4. CASE \E i \in 1 .. Len(instance) : ClusterEmits(i) \/ Forwarder(i) \/ FedStopsCollector(i)
  BY <1>4, EmitKeepsInv, ForwarderKeepsInv, StopsCollectorKeepsInv DEF Indices
<1>5. CASE FedStopCloses
  BY <1>5, CloseKeepsInv
<1> QED BY <1>1, <1>2, <1>3, <1>4, <1>5 DEF FedNext

LEMMA FedInductive == FedSpec => []FedInv
BY FedInitInv, FedNextInv, PTL DEF FedSpec

(* No forwarder sends on the closed channel (manager.go 126-190).          *)
THEOREM ForwardersNeverPanic == FedSpec => []FedNoPanic
<1>1. FedInv => FedNoPanic
  BY DEF FedInv
<1> QED BY FedInductive, <1>1, PTL

(* Stop leaves no forwarder behind, and no collector but a displaced one   *)
(* (manager.go 66-88, 160-190, 237-255).                                   *)
THEOREM StopLeavesNothing == FedSpec => []FedStopIsComplete
<1>1. FedInv => FedStopIsComplete
  BY DEF FedInv
<1> QED BY FedInductive, <1>1, PTL

-----------------------------------------------------------------------------
(* A collector whose Stop hangs under the manager's lock.                  *)

HangsOutsideStart == CollectorHangs => fedStart # "looping"

ManagerStuck == CollectorHangs /\ fedStop # "returned"

(* A step of a forwarder or of emitEvent leaves the collectors as they are.*)
LEMMA SameCollectors ==
  ASSUME FedInv, NEW j \in 1 .. Len(instance), ClusterEmits(j) \/ Forwarder(j)
  PROVE  Len(instance') = Len(instance) /\ \A i \in Indices : instance'[i].collector = instance[i].collector
<1>1. instance \in Seq(Instance) /\ instance[j] \in Instance
  BY DEF FedInv, FedTypes
<1>2. ASSUME NEW r, instance' = [instance EXCEPT ![j] = r], r.collector = instance[j].collector
      PROVE  Len(instance') = Len(instance) /\ \A i \in Indices : instance'[i].collector = instance[i].collector
  BY <1>1, <1>2 DEF Indices
<1>3. CASE ClusterEmits(j)
  <2> DEFINE r == [instance[j] EXCEPT !.queued = @ + 1]
  <2>1. instance' = [instance EXCEPT ![j] = r]
    BY <1>3 DEF ClusterEmits
  <2>2. r.collector = instance[j].collector
    BY <1>1 DEF Instance
  <2> HIDE DEF r
  <2> QED BY <1>2, <2>1, <2>2
<1>4. CASE ForwarderTakes(j)
  <2> DEFINE r == [instance[j] EXCEPT !.queued = @ - 1, !.forwarder = "have"]
  <2>1. instance' = [instance EXCEPT ![j] = r]
    BY <1>4 DEF ForwarderTakes
  <2>2. r.collector = instance[j].collector
    BY <1>1 DEF Instance
  <2> HIDE DEF r
  <2> QED BY <1>2, <2>1, <2>2
<1>5. CASE ForwarderForwards(j)
  <2> DEFINE r == [instance[j] EXCEPT !.forwarder = "select"]
  <2>1. instance' = [instance EXCEPT ![j] = r]
    BY <1>5 DEF ForwarderForwards
  <2>2. r.collector = instance[j].collector
    BY <1>1 DEF Instance
  <2> HIDE DEF r
  <2> QED BY <1>2, <2>1, <2>2
<1>6. CASE ForwarderExits(j)
  <2> DEFINE r == [instance[j] EXCEPT !.forwarder = "done"]
  <2>1. instance' = [instance EXCEPT ![j] = r]
    BY <1>6 DEF ForwarderExits
  <2>2. r.collector = instance[j].collector
    BY <1>1 DEF Instance
  <2> HIDE DEF r
  <2> QED BY <1>2, <2>1, <2>2
<1> QED BY <1>3, <1>4, <1>5, <1>6 DEF Forwarder

(* While it hangs, nothing that needs the lock happens.                    *)
LEMMA ClustersStayStuck ==
  ASSUME FedInv, HangsOutsideStart, CollectorHangs, [FedNext]_fedVars
  PROVE  /\ CollectorHangs' /\ clusters' = clusters
         /\ fedStop # "returned" => fedStop' # "returned"
<1>1. toStart = {} /\ fedStart # "looping"
  BY DEF FedInv, Phases, HangsOutsideStart
<1>2. CASE UNCHANGED <<instance, clusters>> /\ fedStop' \in {fedStop, "called", "waiting"}
  BY <1>2 DEF CollectorHangs
<1>3. ASSUME NEW j \in 1 .. Len(instance), ClusterEmits(j) \/ Forwarder(j)
      PROVE  CollectorHangs' /\ clusters' = clusters /\ fedStop' = fedStop
  <2>1. Len(instance') = Len(instance) /\ \A i \in Indices : instance'[i].collector = instance[i].collector
    BY <1>3, SameCollectors
  <2>2. clusters' = clusters /\ fedStop' = fedStop
    BY <1>3 DEF ClusterEmits, Forwarder, ForwarderTakes, ForwarderForwards, ForwarderExits, fedMap, fedControl
  <2> QED BY <2>1, <2>2 DEF CollectorHangs, Indices
<1>4. ASSUME FedNext
      PROVE  \/ UNCHANGED <<instance, clusters>> /\ fedStop' \in {fedStop, "called", "waiting"}
             \/ \E j \in 1 .. Len(instance) : ClusterEmits(j) \/ Forwarder(j)
  <2>1. CASE FedStartBegins \/ FedStartReturns \/ FedContextEnds \/ FedStopCalled \/ FedStopCancels
    BY <2>1 DEF FedStartBegins, FedStartReturns, FedContextEnds, FedStopCalled, FedStopCancels, fedMap
  <2>2. ~FedStartLoops /\ ~FedStopBegins /\ ~FedStopLoops /\ ~FedStopCloses
    BY DEF FedStartLoops, FedStopBegins, FedStopLoops, FedStopCloses
  <2>3. ASSUME NEW n \in ClusterNames
        PROVE  ~FedStartsCluster(n) /\ ~AddCluster(n) /\ ~RemoveCluster(n) /\ ~RemoveHangs(n)
    BY <1>1 DEF FedStartsCluster, AddCluster, RemoveCluster, RemoveHangs, WriteLockFree
  <2>4. ASSUME NEW j \in 1 .. Len(instance) PROVE ~FedStopsCollector(j)
    BY DEF FedStopsCollector
  <2> QED BY <1>4, <2>1, <2>2, <2>3, <2>4 DEF FedNext
<1>5. CASE UNCHANGED fedVars
  BY <1>2, <1>5 DEF fedVars, fedControl, fedMap
<1> QED BY <1>2, <1>3, <1>4, <1>5

(* No collector is stopped while Start goes through the map.               *)
LEMMA HangsOutsideStartKept ==
  FedInv /\ HangsOutsideStart /\ [FedNext]_fedVars => HangsOutsideStart'
<1> SUFFICES ASSUME FedInv, HangsOutsideStart, [FedNext]_fedVars, CollectorHangs'
             PROVE  fedStart' # "looping"
  BY DEF HangsOutsideStart
<1>1. CASE CollectorHangs
  <2>1. fedStart # "looping"
    BY <1>1 DEF HangsOutsideStart
  <2> QED BY <1>1, <2>1 DEF FedNext, FedStartBegins, FedStartLoops, FedStartReturns, FedContextEnds,
       FedStopCalled, FedStopBegins, FedStopCancels, FedStopLoops, FedStopCloses, FedStartsCluster,
       AddCluster, RemoveCluster, RemoveHangs, ClusterEmits, Forwarder, ForwarderTakes,
       ForwarderForwards, ForwarderExits, FedStopsCollector, fedControl, fedVars
<1>2. CASE ~CollectorHangs
  <2>1. ASSUME NEW n \in ClusterNames, RemoveHangs(n) PROVE fedStart' # "looping"
    BY <2>1 DEF RemoveHangs, WriteLockFree, fedControl
  <2>2. ASSUME NEW i \in 1 .. Len(instance), FedStopsCollector(i) PROVE fedStart' # "looping"
    BY <2>2 DEF FedStopsCollector, fedControl, FedInv, Phases
  <2>3. instance \in Seq(Instance) /\ current \in [ClusterNames -> 0 .. Len(instance)]
        /\ \A i \in 1 .. Len(instance) : instance[i].collector # "hangs"
    BY <1>2 DEF FedInv, FedTypes, CollectorHangs
  <2>4. ~UNCHANGED instance
    BY <2>3 DEF CollectorHangs
  <2>5. ASSUME NEW n \in ClusterNames, NEW foreign \in BOOLEAN, StartCluster(n, foreign) PROVE FALSE
    <3>1. InstanceOf(foreign).collector = "running"
      BY DEF InstanceOf
    <3>2. CASE instance' = Append(instance, InstanceOf(foreign))
      <4>1. \A i \in 1 .. Len(instance') : instance'[i] = InstanceOf(foreign) \/
              (i \in 1 .. Len(instance) /\ instance'[i] = instance[i])
        BY <2>3, <3>2
      <4> QED BY <2>3, <3>1, <4>1 DEF CollectorHangs
    <3>3. UNCHANGED instance \/ instance' = Append(instance, InstanceOf(foreign))
      BY <2>5, Zenon DEF StartCluster
    <3> QED BY <2>4, <3>2, <3>3
  <2>6. ASSUME NEW n \in ClusterNames, RemoveCluster(n) PROVE FALSE
    <3>1. CASE current[n] # 0
      <4> DEFINE c == current[n]
                 r == [instance[c] EXCEPT !.cancelled = TRUE, !.collector = "halted"]
      <4>1. c \in 1 .. Len(instance)
        BY <2>3, <3>1
      <4>2. instance[c] \in Instance
        BY <2>3, <4>1
      <4>3. instance' = [instance EXCEPT ![c] = r]
        BY <2>6, <3>1 DEF RemoveCluster
      <4>4. r.collector = "halted"
        BY <4>2 DEF Instance
      <4> HIDE DEF r, c
      <4> QED BY <2>3, <4>1, <4>3, <4>4 DEF CollectorHangs
    <3>2. CASE current[n] = 0
      BY <2>4, <2>6, <3>2, Zenon DEF RemoveCluster
    <3> QED BY <3>1, <3>2
  <2>7. ASSUME NEW j \in 1 .. Len(instance), ClusterEmits(j) \/ Forwarder(j) PROVE FALSE
    BY <2>3, <2>7, SameCollectors DEF CollectorHangs, Indices
  <2>8. CASE FedStartBegins \/ FedStartLoops \/ FedStartReturns \/ FedContextEnds
             \/ FedStopCalled \/ FedStopBegins \/ FedStopCancels \/ FedStopLoops \/ FedStopCloses
    BY <2>4, <2>8 DEF FedStartBegins, FedStartLoops, FedStartReturns, FedContextEnds,
       FedStopCalled, FedStopBegins, FedStopCancels, FedStopLoops, FedStopCloses, fedMap
  <2>9. CASE UNCHANGED fedVars
    BY <2>4, <2>9 DEF fedVars
  <2>10. ASSUME NEW n \in ClusterNames, FedStartsCluster(n) PROVE FALSE
    BY <2>5, <2>10 DEF FedStartsCluster
  <2>11. ASSUME NEW n \in ClusterNames, AddCluster(n) PROVE FALSE
    BY <2>4, <2>5, <2>11, Zenon DEF AddCluster
  <2> QED BY <2>1, <2>2, <2>6, <2>7, <2>8, <2>9, <2>10, <2>11 DEF FedNext
<1> QED BY <1>1, <1>2

(* Once the Stop of a cluster's collector hangs, under RemoveCluster or    *)
(* the manager's own Stop, a manager's Stop that has not returned never    *)
(* does, and the clusters stay as they are for good, whatever contexts are *)
(* cancelled (manager.go 160-190, 237-278).                                *)
THEOREM HangIsForGood ==
  FedSpec => /\ [](ManagerStuck => []ManagerStuck)
             /\ [][CollectorHangs => UNCHANGED clusters]_fedVars
<1>1. FedInv /\ HangsOutsideStart /\ ManagerStuck /\ [FedNext]_fedVars => ManagerStuck'
  BY ClustersStayStuck DEF ManagerStuck
<1>2. FedInv /\ HangsOutsideStart /\ [FedNext]_fedVars => [CollectorHangs => UNCHANGED clusters]_fedVars
  BY ClustersStayStuck
<1>3. FedInit => HangsOutsideStart
  BY DEF FedInit, HangsOutsideStart, CollectorHangs
<1> QED BY <1>1, <1>2, <1>3, HangsOutsideStartKept, FedInductive, PTL DEF FedSpec

-----------------------------------------------------------------------------
(* The types of the federation manager.                                    *)

(* What the types say besides FedInv: the flags, and that no queue and no  *)
(* history grows beyond its bound.                                         *)
FedFlags ==
  /\ fedRunning \in BOOLEAN /\ mgrDone \in BOOLEAN /\ callerDone \in BOOLEAN
  /\ fedClosed \in BOOLEAN /\ fedPanicked \in BOOLEAN
  /\ fedStart \in {"idle", "unlocked", "looping", "done"}
  /\ fedStop \in {"idle", "called", "unlocked", "waiting", "stopping", "returned"}

FedBounds ==
  /\ Len(instance) <= MaxInstances
  /\ \A i \in Indices : instance[i].queued <= Backlog

FedTyped == FedInv /\ FedFlags /\ FedBounds

(* These are the types.                                                    *)
LEMMA FedTypedTypes == FedTyped => FedTypeOK
<1> SUFFICES ASSUME FedTyped PROVE FedTypeOK
  OBVIOUS
<1>1. FedFlags /\ FedBounds /\ FedTypes
  BY DEF FedTyped, FedInv
<1>2. ASSUME NEW i \in 1 .. Len(instance)
      PROVE instance[i] \in [foreign : BOOLEAN, cancelled : BOOLEAN,
                             collector : {"running", "halted", "hangs"},
                             queued : 0 .. Backlog,
                             forwarder : {"select", "have", "done"}]
  <2>1. instance[i] \in Instance /\ instance[i].queued <= Backlog
    BY <1>1 DEF FedTypes, FedBounds, Indices
  <2>2. instance[i].queued \in 0 .. Backlog
    BY <2>1, FederationAssumption DEF Instance
  <2> QED BY <2>1, <2>2, Zenon DEF Instance
<1> QED BY <1>1, <1>2, Zenon DEF FedTypeOK, FedTypes, FedFlags, FedBounds

LEMMA FedFlagsKept == FedFlags /\ [FedNext]_fedVars => FedFlags'
<1> SUFFICES ASSUME FedFlags, [FedNext]_fedVars PROVE FedFlags'
  OBVIOUS
<1> USE DEF FedFlags, fedControl
<1>1. CASE UNCHANGED fedVars
  BY <1>1 DEF fedVars
<1>2. CASE FedStartBegins \/ FedStartLoops \/ FedStartReturns \/ FedContextEnds
           \/ FedStopCalled \/ FedStopBegins \/ FedStopCancels \/ FedStopLoops \/ FedStopCloses
  BY <1>2, Zenon DEF FedStartBegins, FedStartLoops, FedStartReturns, FedContextEnds,
              FedStopCalled, FedStopBegins, FedStopCancels, FedStopLoops, FedStopCloses
<1>3. CASE \E n \in ClusterNames : \/ FedStartsCluster(n) \/ AddCluster(n) \/ RemoveCluster(n)
                                  \/ RemoveHangs(n)
  BY <1>3, Zenon DEF FedStartsCluster, AddCluster, RemoveCluster, RemoveHangs
<1>4. CASE \E i \in 1 .. Len(instance) : ClusterEmits(i) \/ Forwarder(i) \/ FedStopsCollector(i)
  BY <1>4, Zenon DEF FedStopsCollector, ClusterEmits, Forwarder, ForwarderTakes, ForwarderForwards, ForwarderExits
<1> QED BY <1>1, <1>2, <1>3, <1>4 DEF FedNext

LEMMA FedBoundsKept == FedInv /\ FedBounds /\ [FedNext]_fedVars => FedBounds'
<1> SUFFICES ASSUME FedInv, FedBounds, [FedNext]_fedVars PROVE FedBounds'
  OBVIOUS
<1>0. instance \in Seq(Instance) /\ Backlog \in Nat /\ current \in [ClusterNames -> 0 .. Len(instance)]
  BY FederationAssumption DEF FedInv, FedTypes
<1>1. CASE UNCHANGED instance
  BY <1>1 DEF FedBounds, Indices
<1>2. ASSUME NEW n \in ClusterNames, NEW foreign \in BOOLEAN, StartCluster(n, foreign)
      PROVE  FedBounds'
  <2>1. CASE UNCHANGED instance
    BY <1>1, <2>1
  <2>2. CASE /\ Len(instance) < MaxInstances
             /\ instance' = Append(instance, InstanceOf(foreign))
    <3>1. InstanceOf(foreign).queued = 0
      BY DEF InstanceOf
    <3>2. /\ Len(instance') = Len(instance) + 1
          /\ \A j \in Indices : instance'[j] = instance[j]
          /\ instance'[Len(instance) + 1] = InstanceOf(foreign)
      BY <2>2, InstanceAppended
    <3>3. \A j \in Indices' : j \in Indices \/ j = Len(instance) + 1
      BY <1>0, <3>2 DEF Indices
    <3> HIDE DEF InstanceOf
    <3>4. Len(instance') <= MaxInstances
      BY <1>0, <2>2, <3>2, FederationAssumption
    <3>5. ASSUME NEW j \in Indices' PROVE instance'[j].queued <= Backlog
      BY <1>0, <3>1, <3>2, <3>3 DEF FedBounds
    <3> QED BY <3>4, <3>5 DEF FedBounds
  <2> QED BY <1>2, <2>1, <2>2 DEF StartCluster
<1>3. ASSUME NEW n \in ClusterNames, RemoveCluster(n), current[n] # 0 PROVE FedBounds'
  <2> DEFINE k == current[n]
  <2>1. k \in Indices
    BY <1>0, <1>3 DEF Indices
  <2>2. instance' = [instance EXCEPT ![k].cancelled = TRUE, ![k].collector = "halted"]
    BY <1>3 DEF RemoveCluster
  <2> HIDE DEF k
  <2>3. Len(instance') = Len(instance) /\ \A j \in Indices : instance'[j].queued = instance[j].queued
    BY <1>0, <2>1, <2>2 DEF Indices, Instance
  <2> QED BY <2>3 DEF FedBounds, Indices
<1>4. ASSUME NEW i \in Indices, ClusterEmits(i) \/ Forwarder(i) PROVE FedBounds'
  <2>1. instance[i] \in Instance
    BY <1>0 DEF Indices
  <2>2. /\ Len(instance') = Len(instance)
        /\ \A j \in Indices \ {i} : instance'[j] = instance[j]
    BY <1>0, <1>4 DEF ClusterEmits, Forwarder, ForwarderTakes, ForwarderForwards,
                      ForwarderExits, Indices
  <2>3. instance'[i].queued <= Backlog
    <3>1. i \in DOMAIN instance /\ instance[i].queued \in Nat /\ instance[i].queued <= Backlog
      BY <1>0, <2>1 DEF Indices, FedBounds, Instance
    <3>2. CASE ClusterEmits(i)
      BY <1>0, <2>1, <3>1, <3>2 DEF ClusterEmits, Instance
    <3>3. CASE ForwarderTakes(i)
      BY <1>0, <2>1, <3>1, <3>3 DEF ForwarderTakes, Instance
    <3>4. CASE ForwarderForwards(i) \/ ForwarderExits(i)
      BY <1>0, <2>1, <3>1, <3>4 DEF ForwarderForwards, ForwarderExits, Instance
    <3> QED BY <1>4, <3>2, <3>3, <3>4 DEF Forwarder
  <2> QED BY <2>2, <2>3 DEF FedBounds, Indices
<1>5. ASSUME NEW i \in Indices, NEW r \in Instance, instance' = [instance EXCEPT ![i] = r],
             r.queued = instance[i].queued
      PROVE  FedBounds'
  <2>1. Len(instance') = Len(instance)
        /\ \A j \in Indices : instance'[j] = IF j = i THEN r ELSE instance[j]
    BY <1>0, <1>5, ExceptSeq DEF Indices
  <2> QED BY <1>5, <2>1 DEF FedBounds, Indices
<1>6. CASE UNCHANGED fedVars
  BY <1>1, <1>6 DEF fedVars
<1>7. ASSUME NEW n \in ClusterNames, FedStartsCluster(n) \/ AddCluster(n) \/ RemoveCluster(n)
      PROVE  FedBounds'
  BY <1>1, <1>2, <1>3, <1>7 DEF FedStartsCluster, AddCluster, RemoveCluster
<1>8. CASE FedStartBegins \/ FedStartLoops \/ FedStartReturns \/ FedContextEnds
           \/ FedStopCalled \/ FedStopBegins \/ FedStopCancels \/ FedStopLoops \/ FedStopCloses
  BY <1>1, <1>8 DEF FedStartBegins, FedStartLoops, FedStartReturns, FedContextEnds,
                    FedStopCalled, FedStopBegins, FedStopCancels, FedStopLoops, FedStopCloses
<1>9. ASSUME NEW n \in ClusterNames, RemoveHangs(n) PROVE FedBounds'
  <2> DEFINE k == current[n]
             r == [instance[k] EXCEPT !.cancelled = TRUE, !.collector = "hangs"]
  <2>1. k \in Indices /\ instance[k] \in Instance
    BY <1>0, <1>9 DEF RemoveHangs, Indices
  <2>2. instance' = [instance EXCEPT ![k] = r]
    BY <1>9 DEF RemoveHangs
  <2>3. r \in Instance /\ r.queued = instance[k].queued
    BY <2>1 DEF Instance
  <2> HIDE DEF k, r
  <2> QED BY <1>5, <2>1, <2>2, <2>3
<1>10. ASSUME NEW i \in Indices, FedStopsCollector(i) PROVE FedBounds'
  <2>1. PICK outcome \in {"halted", "hangs"} :
          instance' = [instance EXCEPT ![i].collector = outcome]
    BY <1>10 DEF FedStopsCollector
  <2> DEFINE r == [instance[i] EXCEPT !.collector = outcome]
  <2>2. instance[i] \in Instance
    BY <1>0 DEF Indices
  <2>3. instance' = [instance EXCEPT ![i] = r]
    BY <2>1
  <2>4. r \in Instance /\ r.queued = instance[i].queued
    BY <2>2 DEF Instance
  <2> HIDE DEF r
  <2> QED BY <1>5, <2>3, <2>4
<1> QED BY <1>4, <1>6, <1>7, <1>8, <1>9, <1>10 DEF FedNext, Indices

LEMMA FedTypedInit == FedInit => FedTyped
<1> SUFFICES ASSUME FedInit PROVE FedTyped
  OBVIOUS
<1>1. instance = <<>> /\ Len(instance) = 0 /\ Indices = {}
  BY DEF FedInit, Indices
<1>2. FedBounds
  BY <1>1, FederationAssumption DEF FedBounds
<1> QED BY <1>2, FedInitInv, Zenon DEF FedInit, FedTyped, FedFlags

LEMMA FedTypedKept == FedTyped /\ [FedNext]_fedVars => FedTyped'
BY FedNextInv, FedFlagsKept, FedBoundsKept DEF FedTyped

-----------------------------------------------------------------------------
(* Workflow runs, the root cause analyzer, and the Vault client.           *)

(* The statuses a webhook, a page or the poll's item may carry.            *)
Statuses == {Seen(r, s) : r \in Runs, s \in 1 .. LastStatus}

PipeInv == PipeTypeOK /\ (polling \in {"compare", "store"} => item \in Statuses)

(* A run of GitHub with a status it can have.                              *)
LEMMA StatusIn ==
  ASSUME NEW r \in Runs, NEW s \in 1 .. LastStatus PROVE Seen(r, s) \in Statuses
BY DEF Statuses

(* Its run and its status.                                                 *)
LEMMA StatusFields ==
  ASSUME NEW seen \in Statuses PROVE seen.run \in Runs /\ seen.status \in 0 .. LastStatus
BY PipelineAssumption, SMT DEF Statuses, Seen

LEMMA PipeInitInv == PipeInit => PipeInv
BY PipelineAssumption, SMT DEF PipeInit, PipeInv, PipeTypeOK

LEMMA PipeStepKeepsInv == PipeInv /\ [PipeNext]_pipeVars => PipeInv'
<1> SUFFICES ASSUME PipeInv, [PipeNext]_pipeVars PROVE PipeInv'
  OBVIOUS
<1>0. LastStatus \in Nat \ {0} /\ hooks \subseteq Statuses /\ page \subseteq Statuses
      /\ item \in {NoItem} \cup Statuses
  BY PipelineAssumption DEF PipeInv, PipeTypeOK, Statuses
<1>1. ASSUME NEW r \in Runs, GitHubAdvances(r) PROVE PipeInv'
  <2>1. github[r] + 1 \in 1 .. LastStatus
    BY <1>0, <1>1, SMT DEF GitHubAdvances, PipeInv, PipeTypeOK
  <2>2. Seen(r, github[r] + 1) \in Statuses
    BY <2>1, StatusIn
  <2>3. github' \in [Runs -> 0 .. LastStatus] /\ hooks' \subseteq Statuses
    BY <1>0, <1>1, <2>1, <2>2, SMT DEF GitHubAdvances, PipeInv, PipeTypeOK
  <2> QED BY <1>1, <2>3 DEF GitHubAdvances, PipeInv, PipeTypeOK, Statuses
<1>2. ASSUME NEW hook \in hooks, HandleWebhook(hook) PROVE PipeInv'
  <2>1. hook.run \in Runs /\ hook.status \in 0 .. LastStatus
    BY <1>0, <1>2, StatusFields, Zenon
  <2>2. tracked' \in [Runs -> 0 .. LastStatus] /\ hooks' \subseteq hooks
    BY <1>2, <2>1 DEF HandleWebhook, PipeInv, PipeTypeOK
  <2> QED BY <1>2, <2>2 DEF HandleWebhook, PipeInv, PipeTypeOK
<1>3. CASE PollStarts
  BY <1>3 DEF PollStarts, PipeInv, PipeTypeOK
<1>4. CASE FetchWorkflowRuns
  <2>1. ASSUME NEW r \in Listed PROVE Seen(r, github[r]) \in Statuses
    <3>1. r \in Runs /\ github[r] \in 1 .. LastStatus
      BY <1>0 DEF Listed, PipeInv, PipeTypeOK
    <3> QED BY <3>1, StatusIn
  <2>2. page' \subseteq Statuses
    BY <1>4, <2>1, Zenon DEF FetchWorkflowRuns
  <2> QED BY <1>4, <2>2 DEF FetchWorkflowRuns, PipeInv, PipeTypeOK, Statuses
<1>5. ASSUME NEW s \in page, LooksUp(s) PROVE PipeInv'
  BY <1>0, <1>5 DEF LooksUp, PipeInv, PipeTypeOK, Statuses
<1>6. CASE Compares
  BY <1>6 DEF Compares, PipeInv, PipeTypeOK
<1>7. CASE StoresRun
  <2>1. item.run \in Runs /\ item.status \in 0 .. LastStatus
    BY <1>7, StatusFields, Zenon DEF StoresRun, PipeInv
  <2>2. tracked' \in [Runs -> 0 .. LastStatus]
    BY <1>7, <2>1 DEF StoresRun, PipeInv, PipeTypeOK
  <2> QED BY <1>7, <2>2 DEF StoresRun, PipeInv, PipeTypeOK
<1>8. CASE PollEnds
  BY <1>8 DEF PollEnds, PipeInv, PipeTypeOK
<1>9. CASE UNCHANGED pipeVars
  BY <1>9 DEF pipeVars, PipeInv, PipeTypeOK
<1> QED BY <1>1, <1>2, <1>3, <1>4, <1>5, <1>6, <1>7, <1>8, <1>9 DEF PipeNext, PollGitHub

(* An event whose goroutine may call the model again has calls left.       *)
RcInv ==
  /\ RcTypeOK
  /\ \A e \in GraveEvents :
       analysis[e] \in {"none", "call", "backoff"} => attempts[e] <= MaxRetries

LEMMA RcInitInv == RcInit => RcInv
<1> SUFFICES ASSUME RcInit PROVE RcInv
  OBVIOUS
<1>1. hasModel \in BOOLEAN /\ rcDone \in BOOLEAN
  BY RootCauseAssumption, Zenon DEF RcInit
<1> QED BY <1>1, RootCauseAssumption, SMT DEF RcInit, RcInv, RcTypeOK

LEMMA RcStepKeepsInv == RcInv /\ [RcNext]_rcVars => RcInv'
<1> SUFFICES ASSUME RcInv, [RcNext]_rcVars PROVE RcInv'
  OBVIOUS
<1>0. MaxRetries \in Nat
  BY RootCauseAssumption
<1>1. CASE RcCancel
  BY <1>1 DEF RcCancel, RcInv, RcTypeOK
<1>2. ASSUME NEW e \in GraveEvents, RcAnalyze(e) PROVE RcInv'
  BY <1>2 DEF RcAnalyze, AnalysisTo, RcInv, RcTypeOK
<1>3. ASSUME NEW e \in GraveEvents, ModelAnswers(e) PROVE RcInv'
  BY <1>0, <1>3 DEF ModelAnswers, AnalysisTo, RcInv, RcTypeOK
<1>4. ASSUME NEW e \in GraveEvents, ModelFails(e) PROVE RcInv'
  BY <1>0, <1>4 DEF ModelFails, AnalysisTo, RcInv, RcTypeOK
<1>5. ASSUME NEW e \in GraveEvents, BackoffEnds(e) PROVE RcInv'
  BY <1>5 DEF BackoffEnds, AnalysisTo, RcInv, RcTypeOK
<1>6. ASSUME NEW e \in GraveEvents, StoresCause(e) PROVE RcInv'
  BY <1>6 DEF StoresCause, AnalysisTo, RcInv, RcTypeOK
<1>7. CASE UNCHANGED rcVars
  BY <1>7 DEF rcVars, RcInv, RcTypeOK
<1> QED BY <1>1, <1>2, <1>3, <1>4, <1>5, <1>6, <1>7 DEF RcNext, AnalysisStep

(* What a refresher is about to store is an item with a version that Vault *)
(* has had.                                                                *)
VaultInv ==
  /\ VaultTypeOK
  /\ inVault \in [Items -> Nat] /\ DOMAIN meta = Items
  /\ read \in [Refreshers -> Seq({"none"} \cup Items \cup Nat)]
  /\ cancelHeld \in SyncLoops \cup {"none"}
  /\ \A x \in Refreshers :
       refresher[x] = "storing" =>
         read[x][1] \in Items /\ read[x][2] \in 0 .. inVault[read[x][1]]

LEMMA VaultInitInv == VaultInit => VaultInv
<1> SUFFICES ASSUME VaultInit PROVE VaultInv
  OBVIOUS
<1>1. read \in [Refreshers -> Seq({"none"} \cup Items \cup Nat)]
  BY DEF VaultInit, NoAnswer
<1> QED BY <1>1, VaultAssumption DEF VaultInit, VaultInv, VaultTypeOK, Tracked

(* The steps of the loops and the calls that store nothing.                *)
LEMMA RefresherKeepsInv ==
  ASSUME VaultInv, UNCHANGED <<inVault, meta, vaultErrors, closing>>,
         due' \subseteq Tracked, cancelled' \subseteq SyncLoops,
         cancelHeld' \in SyncLoops \cup {"none"}, NEW x \in Refreshers,
         NEW at \in {"none", "round", "ticker", "done"},
         refresher' = [refresher EXCEPT ![x] = at] \/ UNCHANGED refresher,
         toVisit' \in [Refreshers -> SUBSET Items], UNCHANGED read
  PROVE  VaultInv'
<1>1. Tracked' = Tracked
  BY DEF Tracked
<1>2. refresher' \in [Refreshers -> {"none", "round", "ticker", "storing", "done"}]
      /\ \A y \in Refreshers : refresher'[y] = "storing" => refresher[y] = "storing"
  BY DEF VaultInv, VaultTypeOK
<1>3. VaultTypeOK'
  BY <1>1, <1>2 DEF VaultInv, VaultTypeOK
<1> QED BY <1>2, <1>3 DEF VaultInv

LEMMA VaultStepKeepsInv == VaultInv /\ [VaultNext]_vaultVars => VaultInv'
<1> SUFFICES ASSUME VaultInv, [VaultNext]_vaultVars PROVE VaultInv'
  OBVIOUS
<1>0. /\ SyncLoops \subseteq Refreshers /\ Monitors \subseteq Refreshers
      /\ Tracked \subseteq Items /\ due \subseteq Tracked /\ cancelled \subseteq SyncLoops
      /\ refresher \in [Refreshers -> {"none", "round", "ticker", "storing", "done"}]
      /\ toVisit \in [Refreshers -> SUBSET Items] /\ inVault \in [Items -> Nat]
      /\ cancelHeld \in SyncLoops \cup {"none"}
  BY DEF Refreshers, Tracked, VaultInv, VaultTypeOK
<1>1. ASSUME NEW i \in Items, TrackItem(i) PROVE VaultInv'
  BY <1>0, <1>1 DEF TrackItem, Tracked, VaultInv, VaultTypeOK
<1>2. ASSUME NEW i \in Items, NewVersion(i) PROVE VaultInv'
  <2>1. /\ inVault' \in [Items -> Nat] /\ \A j \in Items : inVault[j] <= inVault'[j]
        /\ UNCHANGED <<meta, due, refresher, toVisit, read, cancelHeld, cancelled, closing,
                       vaultErrors>>
    BY <1>0, <1>2 DEF NewVersion
  <2>2. Tracked' = Tracked
    BY <2>1 DEF Tracked
  <2>3. \A j \in Items : meta'[j] \in {0 - 1} \cup 0 .. inVault'[j]
    BY <1>0, <2>1 DEF VaultInv, VaultTypeOK
  <2>4. VaultTypeOK'
    BY <2>1, <2>2, <2>3 DEF VaultInv, VaultTypeOK
  <2> QED BY <1>0, <2>1, <2>4 DEF VaultInv
<1>3. ASSUME NEW x \in SyncLoops, StartBackgroundSync(x) \/ SyncTicks(x) \/ SyncEnds(x)
      PROVE  VaultInv'
  BY <1>0, <1>3, RefresherKeepsInv DEF StartBackgroundSync, SyncTicks, SyncEnds, BeginRound
<1>4. ASSUME NEW x \in Monitors, MonitorCalled(x) \/ MonitorReports(x) PROVE VaultInv'
  BY <1>0, <1>4, RefresherKeepsInv DEF MonitorCalled, MonitorReports, BeginRound
<1>5. ASSUME NEW x \in Refreshers, NEW i \in Items, ReadVault(x, i) PROVE VaultInv'
  <2>1. /\ UNCHANGED <<inVault, meta, due, cancelHeld, cancelled, closing, vaultErrors>>
        /\ refresher' = [refresher EXCEPT ![x] = "storing"]
        /\ toVisit' \in [Refreshers -> SUBSET Items]
    BY <1>0, <1>5 DEF ReadVault
  <2>2. read' \in [Refreshers -> Seq({"none"} \cup Items \cup Nat)]
        /\ read'[x] = <<i, inVault[i]>> /\ \A y \in Refreshers \ {x} : read'[y] = read[y]
    BY <1>0, <1>5 DEF ReadVault, VaultInv
  <2>3. read'[x][1] \in Items /\ read'[x][2] \in 0 .. inVault[read'[x][1]]
    BY <1>0, <2>2
  <2>4. Tracked' = Tracked
    BY <2>1 DEF Tracked
  <2>5. VaultTypeOK'
    BY <1>0, <2>1, <2>4 DEF VaultInv, VaultTypeOK
  <2> QED BY <1>0, <2>1, <2>2, <2>3, <2>5 DEF VaultInv
<1>6. ASSUME NEW x \in Refreshers, NEW i \in Items, ReadFails(x, i) PROVE VaultInv'
  <2>1. /\ UNCHANGED <<inVault, meta, due, refresher, read, cancelHeld, cancelled, closing>>
        /\ toVisit' \in [Refreshers -> SUBSET Items]
        /\ vaultErrors' \in 0 .. MaxVaultErrors
    BY <1>0, <1>6, VaultAssumption DEF ReadFails, VaultInv, VaultTypeOK
  <2>2. Tracked' = Tracked
    BY <2>1 DEF Tracked
  <2> QED BY <2>1, <2>2 DEF VaultInv, VaultTypeOK
<1>7. ASSUME NEW x \in Refreshers, StoreMeta(x) PROVE VaultInv'
  <2> DEFINE i == read[x][1]
             v == read[x][2]
  <2>1. i \in Items /\ v \in 0 .. inVault[i]
    BY <1>7 DEF StoreMeta, VaultInv
  <2>2. /\ UNCHANGED <<inVault, due, toVisit, cancelHeld, cancelled, closing, vaultErrors>>
        /\ refresher' = [refresher EXCEPT ![x] = "round"]
        /\ read' = [read EXCEPT ![x] = NoAnswer]
        /\ meta' = IF i \in Tracked THEN [meta EXCEPT ![i] = v] ELSE meta
    BY <1>7 DEF StoreMeta
  <2> HIDE DEF i, v
  <2>3. read' \in [Refreshers -> Seq({"none"} \cup Items \cup Nat)]
        /\ \A y \in Refreshers \ {x} : read'[y] = read[y]
    BY <2>2 DEF VaultInv, NoAnswer
  <2>4. DOMAIN meta' = Items /\ \A j \in Items : meta'[j] \in {0 - 1} \cup 0 .. inVault[j]
    BY <1>0, <2>1, <2>2 DEF VaultInv, VaultTypeOK
  <2>5. Tracked \subseteq Tracked'
    BY <1>0, <2>1, <2>2 DEF VaultInv, Tracked
  <2>6. VaultTypeOK'
    BY <1>0, <2>2, <2>4, <2>5 DEF VaultInv, VaultTypeOK
  <2>7. \A y \in Refreshers : refresher'[y] = "storing" => y # x /\ refresher[y] = "storing"
    BY <1>0, <2>2
  <2> QED BY <1>0, <2>2, <2>3, <2>4, <2>6, <2>7 DEF VaultInv
<1>8. ASSUME NEW x \in Refreshers, RoundEnds(x) PROVE VaultInv'
  BY <1>0, <1>8, RefresherKeepsInv DEF RoundEnds
<1>9. CASE CloseVault
  BY <1>0, <1>9 DEF CloseVault, Tracked, VaultInv, VaultTypeOK
<1>10. CASE CloseReturns
  BY <1>0, <1>10 DEF CloseReturns, Tracked, VaultInv, VaultTypeOK
<1>11. ASSUME NEW x \in SyncLoops, CallerCancels(x) PROVE VaultInv'
  BY <1>0, <1>11 DEF CallerCancels, Tracked, VaultInv, VaultTypeOK
<1>12. CASE UNCHANGED vaultVars
  BY <1>12 DEF vaultVars, Tracked, VaultInv, VaultTypeOK
<1> QED BY <1>1, <1>2, <1>3, <1>4, <1>5, <1>6, <1>7, <1>8, <1>9, <1>10, <1>11, <1>12 DEF VaultNext

-----------------------------------------------------------------------------
(* A Close that waits for a loop whose cancel function was overwritten.    *)
CloseStuck(x) ==
  closing = "waiting" /\ x \notin cancelled /\ refresher[x] \in {"round", "storing", "ticker"}

LEMMA CloseStuckKept ==
  ASSUME NEW x \in SyncLoops, VaultInv, CloseStuck(x), [VaultNext]_vaultVars, ~CallerCancels(x)
  PROVE  CloseStuck(x)'
<1>1. /\ closing = "waiting" /\ x \notin cancelled
      /\ refresher[x] \in {"round", "storing", "ticker"}
      /\ refresher \in [Refreshers -> {"none", "round", "ticker", "storing", "done"}]
      /\ x \in Refreshers /\ x \notin Monitors
  BY VaultAssumption DEF CloseStuck, VaultInv, VaultTypeOK, Refreshers
<1>2. ~CloseVault /\ ~CloseReturns /\ ~SyncEnds(x) /\ \A y \in SyncLoops : ~StartBackgroundSync(y)
  BY <1>1 DEF CloseVault, CloseReturns, SyncEnds, StartBackgroundSync
<1>3. ASSUME NEW y \in Refreshers, refresher' = refresher \/
             \E at \in {"round", "storing", "ticker"} : refresher' = [refresher EXCEPT ![y] = at]
      PROVE  refresher'[x] \in {"round", "storing", "ticker"}
  BY <1>1, <1>3
<1>4. ASSUME NEW y \in Refreshers \ {x}, NEW at, refresher' = [refresher EXCEPT ![y] = at]
      PROVE  refresher'[x] \in {"round", "storing", "ticker"}
  BY <1>1, <1>4
<1>5. ASSUME NEW y \in SyncLoops, SyncTicks(y) \/ SyncEnds(y)
      PROVE  refresher'[x] \in {"round", "storing", "ticker"} /\ UNCHANGED <<closing, cancelled>>
  <2>1. y \in Refreshers
    BY DEF Refreshers
  <2> QED BY <1>2, <1>3, <1>4, <1>5, <2>1 DEF SyncTicks, SyncEnds, BeginRound
<1>6. ASSUME NEW y \in Monitors, MonitorCalled(y) \/ MonitorReports(y)
      PROVE  refresher'[x] \in {"round", "storing", "ticker"} /\ UNCHANGED <<closing, cancelled>>
  <2>1. y \in Refreshers \ {x}
    BY <1>1 DEF Refreshers
  <2> QED BY <1>4, <1>6, <2>1 DEF MonitorCalled, MonitorReports, BeginRound
<1>7. ASSUME NEW y \in Refreshers,
             (\E i \in Items : ReadVault(y, i) \/ ReadFails(y, i)) \/ StoreMeta(y) \/ RoundEnds(y)
      PROVE  refresher'[x] \in {"round", "storing", "ticker"} /\ UNCHANGED <<closing, cancelled>>
  BY <1>3, <1>7 DEF ReadVault, ReadFails, StoreMeta, RoundEnds
<1>8. ASSUME NEW y \in SyncLoops \ {x}, CallerCancels(y)
      PROVE  refresher' = refresher /\ closing' = closing /\ x \notin cancelled'
  BY <1>1, <1>8 DEF CallerCancels
<1>9. (\E i \in Items : TrackItem(i) \/ NewVersion(i)) \/ UNCHANGED vaultVars =>
        UNCHANGED <<refresher, closing, cancelled>>
  BY DEF TrackItem, NewVersion, vaultVars
<1> QED BY <1>1, <1>2, <1>5, <1>6, <1>7, <1>8, <1>9 DEF VaultNext, CloseStuck

(* Once Close waits for a sync loop that it did not cancel, because a      *)
(* later StartBackgroundSync had put its own cancel function in the place  *)
(* of that loop's, nothing ends the wait but the context of the loop's own *)
(* caller: the loop goes on syncing (vault/client.go 106-190).             *)
THEOREM OnlyTheCallerEndsTheLoop ==
  ASSUME NEW x \in SyncLoops
  PROVE  VaultSpec => [][CloseStuck(x) => CloseStuck(x)' \/ CallerCancels(x)]_vaultVars
<1>1. VaultInv /\ [VaultNext]_vaultVars =>
        [CloseStuck(x) => CloseStuck(x)' \/ CallerCancels(x)]_vaultVars
  BY CloseStuckKept
<1> QED BY <1>1, VaultInitInv, VaultStepKeepsInv, PTL DEF VaultSpec

-----------------------------------------------------------------------------
(* All parts together.                                                     *)

(* The invariants of all parts.                                            *)
PartsInv == CollInv /\ FedTyped /\ PipeInv /\ RcInv /\ VaultInv

(* All variables of the run.                                               *)
everything == <<part, vars, fedVars, pipeVars, rcVars, vaultVars>>

(* A step is one of its part, and stutters in the others.                  *)
LEMMA PartsStep ==
  [MCNext]_everything =>
    /\ [Next]_vars /\ [FedNext]_fedVars /\ [PipeNext]_pipeVars
    /\ [RcNext]_rcVars /\ [VaultNext]_vaultVars
<1> HIDE DEF vars, fedVars, pipeVars, rcVars, vaultVars, Next, FedNext, PipeNext, RcNext, VaultNext
<1> QED BY Zenon DEF MCNext, everything

(* The state of every part that must come to an end has its types: a queue *)
(* within its capacity, no version newer than what Vault has, no more      *)
(* calls of the model than the first and its retries.                      *)
THEOREM EventuallyTypesHold == MCSpec => []EventuallyTypeOK
<1>1. MCInit => PartsInv
  BY CollInitInv, FedTypedInit, PipeInitInv, RcInitInv, VaultInitInv, Zenon DEF MCInit, PartsInv
<1>2. PartsInv /\ [MCNext]_everything => PartsInv'
  BY PartsStep, CollNextInv, FedTypedKept, PipeStepKeepsInv, RcStepKeepsInv, VaultStepKeepsInv,
     Zenon DEF PartsInv
<1>3. PartsInv => EventuallyTypeOK
  BY FedTypedTypes, Zenon DEF PartsInv, CollInv, PipeInv, RcInv, VaultInv, EventuallyTypeOK
<1> QED BY <1>1, <1>2, <1>3, PTL DEF MCSpec, everything
=============================================================================
