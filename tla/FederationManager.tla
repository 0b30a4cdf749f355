------------------------- MODULE FederationManager -------------------------
(***************************************************************************)
(* The federation manager (core/federation/manager.go): one Kubernetes     *)
(* collector and one forwarding goroutine for each cluster, all feeding    *)
(* one channel, with clusters added and removed at run time.               *)
(*                                                                         *)
(* Every start of a cluster makes an instance: a collector, a context and  *)
(* a forwarder.  clusters and current are the map m.clusters: which names  *)
(* it has and which instance is behind each (0: cs.collector is nil or     *)
(* failed to start).  An instance may outlive its place in the map.        *)
(*                                                                         *)
(* A cluster that Start starts lives on a context derived from the         *)
(* manager's own; one that AddCluster starts lives on the context of       *)
(* AddCluster's caller.  A collector's Stop, called once its context is    *)
(* done, is one step of two outcomes: it halts the collector, or it hangs, *)
(* for it waits under the collector's mutex for workers that may need that *)
(* mutex (CollectorLifecycle shows how).  Whoever called it then keeps     *)
(* m.mu for ever: RemoveCluster for writing, Stop for reading.             *)
(***************************************************************************)
EXTENDS Naturals, Sequences

CONSTANTS
  ClusterNames,
  Configured,    \* the enabled clusters of the configuration
  Backlog,       \* capacity of a cluster collector's channel
  MaxInstances   \* bound on the starts of clusters

ASSUME FederationAssumption ==
  /\ Configured \subseteq ClusterNames
  /\ Backlog \in Nat
  /\ MaxInstances \in Nat

VARIABLES
  fedRunning,   \* m.running
  fedStart,     \* where Start is
  toStart,      \* the clusters its loop has still to start
  fedStop,      \* where Stop is
  mgrDone,      \* the manager's context is done
  callerDone,   \* the context AddCluster was given is done
  clusters, current, instance,
  fedClosed,    \* m.events is closed
  fedPanicked   \* a send on the closed channel

fedControl == <<fedRunning, fedStart, toStart, fedStop, mgrDone, callerDone>>
fedMap     == <<clusters, current>>
fedVars    == <<fedControl, fedMap, instance, fedClosed, fedPanicked>>

FedInit ==
  /\ fedRunning = FALSE
  /\ fedStart = "idle"
  /\ toStart = {}
  /\ fedStop = "idle"
  /\ mgrDone = FALSE
  /\ callerDone = FALSE
  /\ clusters = Configured
  /\ current = [n \in ClusterNames |-> 0]
  /\ instance = <<>>
  /\ fedClosed = FALSE
  /\ fedPanicked = FALSE

(* The Stop of some collector hangs, and with it its caller under m.mu.    *)
CollectorHangs == \E i \in 1 .. Len(instance) : instance[i].collector = "hangs"

(* m.mu can be taken for writing: nobody is in a loop under m.mu.RLock().  *)
WriteLockFree == fedStart # "looping" /\ fedStop # "stopping" /\ ~CollectorHangs

InstanceOf(foreign) ==
  [foreign |-> foreign, cancelled |-> FALSE, collector |-> "running",
   queued |-> 0, forwarder |-> "select"]

(* startCluster, which may fail to start the collector.  An instance the   *)
(* cluster had before stays as it is.                                      *)
StartCluster(n, foreign) ==
  \/ /\ Len(instance) < MaxInstances
     /\ instance' = Append(instance, InstanceOf(foreign))
     /\ current' = [current EXCEPT ![n] = Len(instance) + 1]
  \/ /\ current' = [current EXCEPT ![n] = 0]
     /\ UNCHANGED instance

InstanceDone(i) ==
  \/ instance[i].cancelled
  \/ IF instance[i].foreign THEN callerDone ELSE mgrDone

-----------------------------------------------------------------------------
(* Start releases the lock after it has set running, and reads the map     *)
(* under a lock of its own.  The engine calls it once.                     *)
FedStartBegins ==
  /\ fedStart = "idle"
  /\ fedRunning' = TRUE
  /\ fedStart' = "unlocked"
  /\ UNCHANGED <<toStart, fedStop, mgrDone, callerDone, fedMap, instance, fedClosed,
                 fedPanicked>>

FedStartLoops ==
  /\ fedStart = "unlocked"
  /\ ~CollectorHangs
  /\ fedStart' = "looping"
  /\ toStart' = clusters
  /\ UNCHANGED <<fedRunning, fedStop, mgrDone, callerDone, fedMap, instance, fedClosed,
                 fedPanicked>>

FedStartsCluster(n) ==
  /\ n \in toStart
  /\ toStart' = toStart \ {n}
  /\ StartCluster(n, FALSE)
  /\ UNCHANGED <<fedRunning, fedStart, fedStop, mgrDone, callerDone, clusters, fedClosed,
                 fedPanicked>>

FedStartReturns ==
  /\ fedStart = "looping"
  /\ toStart = {}
  /\ fedStart' = "done"
  /\ UNCHANGED <<fedRunning, toStart, fedStop, mgrDone, callerDone, fedMap, instance,
                 fedClosed, fedPanicked>>

AddCluster(n) ==
  /\ WriteLockFree
  /\ n \notin clusters
  /\ \/ /\ ~fedRunning
        /\ clusters' = clusters \cup {n}
        /\ UNCHANGED <<current, instance>>
     \/ /\ fedRunning
        /\ StartCluster(n, TRUE)
        /\ clusters' = IF current'[n] = 0 THEN clusters ELSE clusters \cup {n}
  /\ UNCHANGED <<fedControl, fedClosed, fedPanicked>>

(* cancel, Stop of the collector and delete, all under the lock, which is  *)
(* not released when that Stop hangs.                                      *)
RemoveCluster(n) ==
  /\ WriteLockFree
  /\ n \in clusters
  /\ clusters' = clusters \ {n}
  /\ current' = [current EXCEPT ![n] = 0]
  /\ IF current[n] = 0 THEN UNCHANGED instance
     ELSE instance' = [instance EXCEPT ![current[n]].cancelled = TRUE,
                                       ![current[n]].collector = "halted"]
  /\ UNCHANGED <<fedControl, fedClosed, fedPanicked>>

RemoveHangs(n) ==
  /\ WriteLockFree
  /\ n \in clusters
  /\ current[n] # 0
  /\ instance[current[n]].collector = "running"
  /\ instance' = [instance EXCEPT ![current[n]].cancelled = TRUE,
                                  ![current[n]].collector = "hangs"]
  /\ UNCHANGED <<fedControl, fedMap, fedClosed, fedPanicked>>

(* The contexts end when their owners wish.                                *)
FedContextEnds ==
  /\ \/ /\ fedStart = "done"
        /\ mgrDone' = TRUE
        /\ UNCHANGED callerDone
     \/ /\ callerDone' = TRUE
        /\ UNCHANGED mgrDone
  /\ UNCHANGED <<fedRunning, fedStart, toStart, fedStop, fedMap, instance, fedClosed,
                 fedPanicked>>

-----------------------------------------------------------------------------
(* emitEvent of a cluster's collector.                                     *)
ClusterEmits(i) ==
  /\ instance[i].collector = "running"
  /\ instance[i].queued < Backlog
  /\ instance' = [instance EXCEPT ![i].queued = @ + 1]
  /\ UNCHANGED <<fedControl, fedMap, fedClosed, fedPanicked>>

ForwarderTakes(i) ==
  /\ instance[i].forwarder = "select"
  /\ instance[i].queued > 0
  /\ instance' = [instance EXCEPT ![i].queued = @ - 1, ![i].forwarder = "have"]
  /\ UNCHANGED <<fedControl, fedMap, fedClosed, fedPanicked>>

(* The aggregator drops the event, or it is sent without blocking.         *)
ForwarderForwards(i) ==
  /\ instance[i].forwarder = "have"
  /\ \E isNew \in BOOLEAN : fedPanicked' = (fedPanicked \/ (isNew /\ fedClosed))
  /\ instance' = [instance EXCEPT ![i].forwarder = "select"]
  /\ UNCHANGED <<fedControl, fedMap, fedClosed>>

ForwarderExits(i) ==
  /\ instance[i].forwarder = "select"
  /\ \/ InstanceDone(i)
     \/ instance[i].collector = "halted" /\ instance[i].queued = 0
  /\ instance' = [instance EXCEPT ![i].forwarder = "done"]
  /\ UNCHANGED <<fedControl, fedMap, fedClosed, fedPanicked>>

-----------------------------------------------------------------------------
(* Stop: the flag under the lock, cancel, wg.Wait(), and the collectors of *)
(* the map under the read lock.  The engine calls it after Start.          *)
FedStopCalled ==
  /\ fedStop = "idle"
  /\ fedStart = "done"
  /\ fedStop' = "called"
  /\ UNCHANGED <<fedRunning, fedStart, toStart, mgrDone, callerDone, fedMap, instance,
                 fedClosed, fedPanicked>>

FedStopBegins ==
  /\ fedStop = "called"
  /\ ~CollectorHangs
  /\ fedRunning' = FALSE
  /\ fedStop' = "unlocked"
  /\ UNCHANGED <<fedStart, toStart, mgrDone, callerDone, fedMap, instance, fedClosed,
                 fedPanicked>>

(* A slip: a Stop that does not cancel, and leaves that to its caller.     *)
FedStopOnlyWaits ==
  /\ fedStop = "unlocked"
  /\ fedStop' = "waiting"
  /\ UNCHANGED <<fedRunning, fedStart, toStart, mgrDone, callerDone, fedMap, instance,
                 fedClosed, fedPanicked>>

FedStopCancels ==
  /\ fedStop = "unlocked"
  /\ fedStop' = "waiting"
  /\ mgrDone' = TRUE
  /\ UNCHANGED <<fedRunning, fedStart, toStart, callerDone, fedMap, instance, fedClosed,
                 fedPanicked>>

(* A slip: a forwarder that wg.Add does not count.                         *)
SelfStartedDone ==
  \A i \in 1 .. Len(instance) :
    ~instance[i].foreign => instance[i].forwarder = "done"

AllForwardersDone ==
  \A i \in 1 .. Len(instance) : instance[i].forwarder = "done"

Mapped == {current[n] : n \in clusters}

FedStopLoops ==
  /\ fedStop = "waiting"
  /\ AllForwardersDone
  /\ ~CollectorHangs
  /\ fedStop' = "stopping"
  /\ UNCHANGED <<fedRunning, fedStart, toStart, mgrDone, callerDone, fedMap, instance,
                 fedClosed, fedPanicked>>

(* A slip: stopping only the collectors that Start started.                *)
LeftToStopOwn ==
  {i \in Mapped \ {0} : instance[i].collector = "running" /\ ~instance[i].foreign}

(* The collectors the loop has still to stop.                              *)
LeftToStop == {i \in Mapped \ {0} : instance[i].collector = "running"}

FedStopsCollector(i) ==
  /\ fedStop = "stopping"
  /\ ~CollectorHangs
  /\ i \in LeftToStop
  /\ \E outcome \in {"halted", "hangs"} :
       instance' = [instance EXCEPT ![i].collector = outcome]
  /\ UNCHANGED <<fedControl, fedMap, fedClosed, fedPanicked>>

FedStopCloses ==
  /\ fedStop = "stopping"
  /\ ~CollectorHangs
  /\ LeftToStop = {}
  /\ fedClosed' = TRUE
  /\ fedStop' = "returned"
  /\ UNCHANGED <<fedRunning, fedStart, toStart, mgrDone, callerDone, fedMap, instance,
                 fedPanicked>>

Forwarder(i) == ForwarderTakes(i) \/ ForwarderForwards(i) \/ ForwarderExits(i)

FedNext ==
  \/ FedStartBegins \/ FedStartLoops \/ FedStartReturns
  \/ \E n \in ClusterNames : FedStartsCluster(n) \/ AddCluster(n) \/ RemoveCluster(n)
                               \/ RemoveHangs(n)
  \/ FedContextEnds
  \/ \E i \in 1 .. Len(instance) : ClusterEmits(i) \/ Forwarder(i) \/ FedStopsCollector(i)
  \/ FedStopCalled \/ FedStopBegins \/ FedStopCancels \/ FedStopLoops \/ FedStopCloses

(* Goroutines run.  A forwarder at its select has the end of its context   *)
(* and events to choose from; select chooses at random among the cases     *)
(* that are ready, so a case that is ready again and again is chosen.      *)
(* That the Stop of a collector halts it is nowhere assumed.               *)
FedFairness ==
  /\ \A i \in 1 .. MaxInstances :
       /\ SF_fedVars(i <= Len(instance) /\ ForwarderExits(i))
       /\ WF_fedVars(i <= Len(instance) /\ ForwarderForwards(i))
  /\ WF_fedVars(FedStopBegins) /\ WF_fedVars(FedStopCancels)
  /\ WF_fedVars(FedStopLoops)
  /\ WF_fedVars(\E i \in 1 .. Len(instance) : FedStopsCollector(i))
  /\ WF_fedVars(FedStopCloses)

FedSpec == FedInit /\ [][FedNext]_fedVars /\ FedFairness

-----------------------------------------------------------------------------
(* The manager's state has its types.                                      *)
FedTypeOK ==
  /\ fedRunning \in BOOLEAN
  /\ fedStart \in {"idle", "unlocked", "looping", "done"}
  /\ toStart \subseteq clusters
  /\ fedStop \in {"idle", "called", "unlocked", "waiting", "stopping", "returned"}
  /\ mgrDone \in BOOLEAN /\ callerDone \in BOOLEAN
  /\ clusters \subseteq ClusterNames
  /\ current \in [ClusterNames -> 0 .. Len(instance)]
  /\ Len(instance) <= MaxInstances
  /\ \A i \in 1 .. Len(instance) :
       instance[i] \in [foreign : BOOLEAN, cancelled : BOOLEAN,
                        collector : {"running", "halted", "hangs"}, queued : 0 .. Backlog,
                        forwarder : {"select", "have", "done"}]
  /\ fedClosed \in BOOLEAN
  /\ fedPanicked \in BOOLEAN

(* No forwarder sends on the closed channel, whatever clusters were added, *)
(* removed or started twice, before and during Stop: none starts once      *)
(* running is cleared, and every one that started is waited for            *)
(* (manager.go 126-158, 160-190, 237-255).                                 *)
FedNoPanic == ~fedPanicked

(* A forwarder on a context that is not the manager's: that of a cluster   *)
(* AddCluster started whose caller has not ended his context, still in the *)
(* map or not.                                                             *)
HeldByCaller ==
  \E i \in 1 .. Len(instance) :
    instance[i].foreign /\ ~InstanceDone(i) /\ instance[i].forwarder # "done"

(* A Stop that is called returns, from whatever interleaving of starts,    *)
(* additions and removals, with two exceptions: the Stop of a cluster's    *)
(* collector hangs, under this Stop or under a RemoveCluster that has the  *)
(* lock this Stop needs, or the caller of an AddCluster does not end his   *)
(* context, ever (manager.go 160-190, 258-278).                            *)
FedStopReturns ==
  fedStop = "called" ~> (fedStop = "returned" \/ CollectorHangs \/ []HeldByCaller)

(* After Stop nobody forwards, and every collector is stopped except those *)
(* whose place in the map a second start of their cluster took: an         *)
(* AddCluster that comes between Start's two critical sections             *)
(* (manager.go 66-88, 160-190, 237-255).                                   *)
FedStopIsComplete ==
  fedStop = "returned" =>
    \A i \in 1 .. Len(instance) :
      /\ instance[i].forwarder = "done"
      /\ \/ instance[i].collector = "halted"
         \/ instance[i].foreign /\ i \notin Mapped /\ InstanceDone(i)
=============================================================================
