------------------------- MODULE CollectorLifecycle -------------------------
(***************************************************************************)
(* Starting and stopping one collector: its workers, its mutex, its wait   *)
(* group, its context and its events channel.  One module covers the       *)
(* collectors of the agent, told apart by `kind`:                          *)
(*                                                                         *)
(*                  WaitsUnderLock DerivesContext PollsFirst LockReasons   *)
(*   kafka          TRUE           FALSE          FALSE      all three     *)
(*   kubernetes     TRUE           FALSE          FALSE      all three     *)
(*   cloud, cicd    TRUE           FALSE          FALSE      error, health *)
(*   logs           TRUE           FALSE          FALSE      {}            *)
(*   adapter (sdk)  FALSE          TRUE           TRUE       error, health *)
(*                                                                         *)
(* WaitsUnderLock: Stop keeps the mutex while it waits for the workers.    *)
(* DerivesContext: the workers watch the context that Stop cancels; the    *)
(* others discard it (`_, c.cancel = context.WithCancel(ctx)`) and watch   *)
(* the context Start was given.  PollsFirst: a worker polls once before it *)
(* first looks at its context.  LockReasons: what takes the mutex besides  *)
(* Start and Stop: a worker that counts an event it has sent ("count") or  *)
(* records an error ("error"), and Health ("health").                      *)
(*                                                                         *)
(* Start is one step, although the code gives the mutex up before it adds  *)
(* to the wait group (kafka/collector.go 81-93): the engine and the        *)
(* federation call Stop only after Start has returned.                     *)
(*                                                                         *)
(* A critical section of a worker or of Health is one step, taken when     *)
(* nobody holds the mutex, so only a Stop that waits can hold it.          *)
(* A poll sends at most one event: one that sends several is several polls *)
(* in a row, which select may choose as well.  A worker that ends by       *)
(* itself (a file that cannot be opened, a watch the API server closes) is *)
(* one worker fewer, and is left out.                                      *)
(***************************************************************************)
EXTENDS Naturals

CONSTANTS
  Kinds,     \* the collectors to consider
  Workers,   \* goroutines Start may spawn
  Stoppers,  \* goroutines that call Stop
  Capacity,  \* of the events channel
  MaxPolls   \* bound on the polls of all workers

ASSUME CollectorAssumption ==
  /\ Kinds \subseteq {"kafka", "kubernetes", "cloud", "cicd", "logs", "adapter"}
  /\ Capacity \in Nat
  /\ MaxPolls \in Nat
  /\ "nobody" \notin Stoppers

VARIABLES
  kind,        \* which collector this is; never changes
  mu,          \* the Stop that holds the mutex across its wait, or "nobody"
  running,     \* c.running
  parentDone,  \* the context given to Start is cancelled
  ownDone,     \* the context derived in Start is cancelled
  worker,      \* where each worker is
  stopper,     \* where each caller of Stop is
  health,      \* where a caller of Health is
  queued,      \* events in the channel
  closed,      \* the channel is closed
  panicked,    \* a send on, or a second close of, a closed channel
  polls        \* polls so far

vars == <<kind, mu, running, parentDone, ownDone, worker, stopper, health,
          queued, closed, panicked, polls>>

WaitsUnderLock == kind # "adapter"
DerivesContext == kind = "adapter"
PollsFirst     == kind = "adapter"

LockReasons ==
  CASE kind \in {"kafka", "kubernetes"} -> {"count", "error", "health"}
    [] kind \in {"cloud", "cicd", "adapter"}    -> {"error", "health"}
    [] kind = "logs"                    -> {}

(* The goroutines Start spawns: one poll loop, one tail for each log file  *)
(* of the configuration, or a fixed set of watchers.                       *)
Spawned ==
  CASE kind \in {"cloud", "cicd", "adapter"}    -> {{w} : w \in Workers}
    [] kind = "logs"                    -> SUBSET Workers
    [] kind \in {"kafka", "kubernetes"} -> {Workers}

Init ==
  /\ kind \in Kinds
  /\ mu = "nobody"
  /\ running = FALSE
  /\ parentDone = FALSE
  /\ ownDone = FALSE
  /\ worker = [w \in Workers |-> "none"]
  /\ stopper = [s \in Stoppers |-> "idle"]
  /\ health = "idle"
  /\ queued = 0
  /\ closed = FALSE
  /\ panicked = FALSE
  /\ polls = 0

-----------------------------------------------------------------------------
(* The engine starts a collector once.                                     *)
Start ==
  /\ mu = "nobody"
  /\ ~running
  /\ \A s \in Stoppers : stopper[s] = "idle"
  /\ running' = TRUE
  /\ \E spawned \in Spawned :
       worker' = [w \in Workers |-> IF w \notin spawned THEN "none"
                                   ELSE IF PollsFirst THEN "poll" ELSE "select"]
  /\ UNCHANGED <<kind, mu, parentDone, ownDone, stopper, health, queued, closed,
                 panicked, polls>>

(* cancel() in main.go.                                                    *)
CancelParent ==
  /\ ~parentDone
  /\ parentDone' = TRUE
  /\ UNCHANGED <<kind, mu, running, ownDone, worker, stopper, health, queued,
                 closed, panicked, polls>>

ContextDone == parentDone \/ (DerivesContext /\ ownDone)

WorkerTo(w, step) == worker' = [worker EXCEPT ![w] = step]

(* case <-ctx.Done(): return, with the deferred wg.Done().                 *)
WorkerExits(w) ==
  /\ worker[w] = "select"
  /\ ContextDone
  /\ WorkerTo(w, "done")
  /\ UNCHANGED <<kind, mu, running, parentDone, ownDone, stopper, health, queued,
                 closed, panicked, polls>>

(* case <-ticker.C: select may choose it although the context is done.     *)
WorkerPolls(w) ==
  /\ worker[w] = "select"
  /\ polls < MaxPolls
  /\ polls' = polls + 1
  /\ WorkerTo(w, "poll")
  /\ UNCHANGED <<kind, mu, running, parentDone, ownDone, stopper, health, queued,
                 closed, panicked>>

(* The poll's event is sent without blocking, or dropped.                  *)
WorkerEmits(w) ==
  /\ worker[w] = "poll"
  /\ panicked' = closed
  /\ \/ /\ queued < Capacity
        /\ queued' = queued + 1
        /\ WorkerTo(w, IF "count" \in LockReasons THEN "lock" ELSE "select")
     \/ /\ queued = Capacity
        /\ WorkerTo(w, "select")
        /\ UNCHANGED queued
  /\ UNCHANGED <<kind, mu, running, parentDone, ownDone, stopper, health, closed,
                 polls>>

(* A poll that sends nothing: it records its error, or another statistic.  *)
WorkerFails(w) ==
  /\ worker[w] = "poll"
  /\ WorkerTo(w, IF "error" \in LockReasons THEN "lock" ELSE "select")
  /\ UNCHANGED <<kind, mu, running, parentDone, ownDone, stopper, health, queued,
                 closed, panicked, polls>>

(* c.mu.Lock(), the update of stats or lastErr, c.mu.Unlock().             *)
WorkerLocks(w) ==
  /\ worker[w] = "lock"
  /\ mu = "nobody"
  /\ WorkerTo(w, "select")
  /\ UNCHANGED <<kind, mu, running, parentDone, ownDone, stopper, health, queued,
                 closed, panicked, polls>>

-----------------------------------------------------------------------------
CallStop(s) ==
  /\ stopper[s] = "idle"
  /\ stopper' = [stopper EXCEPT ![s] = "called"]
  /\ UNCHANGED <<kind, mu, running, parentDone, ownDone, worker, health, queued,
                 closed, panicked, polls>>

(* A slip: keeping the mutex while waiting.                                *)
StopHoldsLock(s) ==
  /\ stopper[s] = "called"
  /\ mu = "nobody"
  /\ running' = FALSE
  /\ ownDone' = (ownDone \/ running)
  /\ stopper' = [stopper EXCEPT ![s] = IF running THEN "waiting" ELSE "returned"]
  /\ mu' = IF running THEN s ELSE "nobody"
  /\ UNCHANGED <<kind, parentDone, worker, health, queued, closed, panicked, polls>>

(* Stop up to wg.Wait().                                                   *)
StopBegins(s) ==
  /\ stopper[s] = "called"
  /\ mu = "nobody"
  /\ \/ /\ ~running
        /\ stopper' = [stopper EXCEPT ![s] = "returned"]
        /\ UNCHANGED <<kind, mu, running, ownDone>>
     \/ /\ running
        /\ running' = FALSE
        /\ ownDone' = TRUE
        /\ stopper' = [stopper EXCEPT ![s] = "waiting"]
        /\ mu' = IF WaitsUnderLock THEN s ELSE "nobody"
  /\ UNCHANGED <<kind, parentDone, worker, health, queued, closed, panicked, polls>>

(* A slip: closing the channel without waiting for the workers.            *)
StopDoesNotWait(s) ==
  /\ stopper[s] = "waiting"
  /\ stopper' = [stopper EXCEPT ![s] = "returned"]
  /\ mu' = "nobody"
  /\ panicked' = closed
  /\ closed' = TRUE
  /\ UNCHANGED <<kind, running, parentDone, ownDone, worker, health, queued, polls>>

(* Stop after wg.Wait().                                                   *)
StopCloses(s) ==
  /\ stopper[s] = "waiting"
  /\ \A w \in Workers : worker[w] \in {"none", "done"}
  /\ stopper' = [stopper EXCEPT ![s] = "returned"]
  /\ mu' = "nobody"
  /\ panicked' = closed
  /\ closed' = TRUE
  /\ UNCHANGED <<kind, running, parentDone, ownDone, worker, health, queued, polls>>

(* The status endpoints call Health at any time.                           *)
AskHealth ==
  /\ health = "idle"
  /\ health' = "asking"
  /\ UNCHANGED <<kind, mu, running, parentDone, ownDone, worker, stopper, queued,
                 closed, panicked, polls>>

AnswerHealth ==
  /\ health = "asking"
  /\ "health" \in LockReasons => mu = "nobody"
  /\ health' = "idle"
  /\ UNCHANGED <<kind, mu, running, parentDone, ownDone, worker, stopper, queued,
                 closed, panicked, polls>>

(* A slip: taking the zero value of a closed channel for an event.         *)
ReceiveUnchecked ==
  /\ queued > 0 \/ closed
  /\ queued' = queued - 1
  /\ UNCHANGED <<kind, mu, running, parentDone, ownDone, worker, stopper, health,
                 closed, panicked, polls>>

(* The engine's router, or a stream, takes an event.                       *)
Receive ==
  /\ queued > 0
  /\ queued' = queued - 1
  /\ UNCHANGED <<kind, mu, running, parentDone, ownDone, worker, stopper, health,
                 closed, panicked, polls>>

WorkerStep(w) ==
  WorkerExits(w) \/ WorkerEmits(w) \/ WorkerFails(w) \/ WorkerLocks(w)

Next ==
  \/ Start
  \/ CancelParent
  \/ \E w \in Workers : WorkerPolls(w) \/ WorkerStep(w)
  \/ \E s \in Stoppers : CallStop(s) \/ StopBegins(s) \/ StopCloses(s)
  \/ AskHealth
  \/ AnswerHealth
  \/ Receive

Spec == Init /\ [][Next]_vars

(* Goroutines that can run are scheduled; nobody has to poll, stop, ask,   *)
(* receive or cancel.                                                      *)
Fairness ==
  /\ \A w \in Workers : WF_vars(WorkerStep(w))
  /\ \A s \in Stoppers : WF_vars(StopBegins(s)) /\ WF_vars(StopCloses(s))
  /\ WF_vars(AnswerHealth)

(* main.go cancels the context of the collectors before it stops them; the *)
(* adapter has no need of it.                                              *)
FairSpec == Spec /\ Fairness /\ WF_vars(kind # "adapter" /\ CancelParent)

-----------------------------------------------------------------------------
(* The collector's state has its types.                                    *)
TypeOK ==
  /\ kind \in Kinds
  /\ mu \in Stoppers \cup {"nobody"}
  /\ running \in BOOLEAN
  /\ parentDone \in BOOLEAN
  /\ ownDone \in BOOLEAN
  /\ worker \in [Workers -> {"none", "select", "poll", "lock", "done"}]
  /\ stopper \in [Stoppers -> {"idle", "called", "waiting", "returned"}]
  /\ health \in {"idle", "asking"}
  /\ queued \in 0 .. Capacity
  /\ closed \in BOOLEAN
  /\ panicked \in BOOLEAN
  /\ polls \in 0 .. MaxPolls

(* No worker sends on the closed channel and no two Stops close it,        *)
(* however many Stops follow a Start: running is tested and cleared in one *)
(* critical section and the close follows wg.Wait() (kafka/collector.go    *)
(* 99-112, plugin.go 148-165).  A Stop that overtakes a Start under way is *)
(* not covered: see the header.                                            *)
NoPanic == ~panicked

(* No worker needs the mutex that Stop keeps.                              *)
StopMayWait == ~WaitsUnderLock \/ LockReasons \cap {"count", "error"} = {}

(* Every call of Stop returns, of the collectors that may wait: the        *)
(* adapter releases the mutex that the worker it waits for may need first, *)
(* and the log collector keeps a mutex its workers never take              *)
(* (plugin.go 148-165, logs/collector.go 103-116).                         *)
StopReturns ==
  \A s \in Stoppers :
    (stopper[s] = "called" /\ StopMayWait) ~> stopper[s] = "returned"

(* Every call of Health is answered, also while a Stop of these collectors *)
(* is waiting for a worker (plugin.go 148-201).                            *)
HealthAnswers == (health = "asking" /\ StopMayWait) ~> health = "idle"

(* What the collectors say of Stop, "Stop halts the Kafka collector."       *)
(* (kafka/collector.go 98): every call returns.                             *)
StopHalts ==
  \A s \in Stoppers : stopper[s] = "called" ~> stopper[s] = "returned"

Phase ==
  IF closed THEN "halted"
  ELSE IF running \/ \E s \in Stoppers : stopper[s] = "waiting" THEN "running"
  ELSE "created"

Contract == INSTANCE CollectorContract WITH phase <- Phase, queued <- queued

(* The collector implements the contract of the interface: no event after  *)
(* the close, and no second close (core/engine/types.go).                  *)
ImplementsContract == Contract!Spec
=============================================================================
