------------------------------ MODULE KafkaLag ------------------------------
(***************************************************************************)
(* The lag of one consumer group as the Kafka collector measures it        *)
(* (collectors/kafka/collector.go, lag.go): the committed offsets in one   *)
(* request, then the end offset of each partition in a request of its own, *)
(* while producers and consumers go on.  When the request fails the        *)
(* collector reports what the lag monitor remembers; when it is answered   *)
(* the collector takes the answer for what it holds: an error of the group *)
(* or of a partition in it is not looked at, and partitions it leaves out  *)
(* are not missed.                                                         *)
(*                                                                         *)
(* The monitor keys its partitions by number only, so two topics with a    *)
(* partition of the same number share an entry.  Velocity and history are  *)
(* left out.  Committed offsets start at zero and grow; an answer has -1   *)
(* for a partition it has an error for.                                    *)
(***************************************************************************)
EXTENDS Integers, FiniteSetsExt

CONSTANTS
  Partitions,    \* pairs of a topic and a partition number
  LagThreshold,
  MaxOffset      \* bound on the offsets

ASSUME LagAssumption ==
  IsFiniteSet(Partitions) /\ LagThreshold \in Nat /\ MaxOffset \in Nat

Number(p) == p[2]
Numbers   == {Number(p) : p \in Partitions}

VARIABLES
  produced, committed,  \* the offsets of each partition
  lagPoll,     \* where fetchConsumerLag is
  offsets,     \* the committed offsets it was answered
  toRead,      \* the partitions whose end it has still to read
  total,       \* totalLag so far
  missed,      \* the end of some partition could not be read
  kept,        \* the lags the monitor remembers, by number (0: none)
  alerting,    \* AlertTriggered
  before,      \* history: the lag, when the offsets were fetched, of the
               \* partitions in the answer
  lagReport    \* the last event

groupVars == <<produced, committed>>
pollVars  == <<lagPoll, offsets, toRead, total, missed, before>>
lagVars   == <<groupVars, pollVars, kept, alerting, lagReport>>

SumOver(f, S) == MapThenSumSet(LAMBDA x : f[x], S)

NoReport == [total |-> 0, before |-> 0, allRead |-> FALSE, high |-> FALSE]

LagInit ==
  /\ produced = [p \in Partitions |-> 0]
  /\ committed = [p \in Partitions |-> 0]
  /\ lagPoll = "idle"
  /\ offsets = [p \in Partitions |-> 0]
  /\ toRead = {}
  /\ total = 0
  /\ missed = FALSE
  /\ before = 0
  /\ kept = [n \in Numbers |-> 0]
  /\ alerting = FALSE
  /\ lagReport = NoReport

Produce(p) ==
  /\ produced[p] < MaxOffset
  /\ produced' = [produced EXCEPT ![p] = @ + 1]
  /\ UNCHANGED <<committed, pollVars, kept, alerting, lagReport>>

Commit(p) ==
  /\ committed[p] < produced[p]
  /\ committed' = [committed EXCEPT ![p] = @ + 1]
  /\ UNCHANGED <<produced, pollVars, kept, alerting, lagReport>>

-----------------------------------------------------------------------------
GroupLag == SumOver(kept, Numbers)

Report(lag, allRead) ==
  [total |-> lag, before |-> before, allRead |-> allRead, high |-> lag > LagThreshold]

(* The lag of each partition, as Kafka could tell it.                      *)
Lag == [p \in Partitions |-> produced[p] - committed[p]]

(* The answer has some of the partitions (none, if the group has an        *)
(* error), and for some of these an error and no offset.                   *)
FetchOffsets ==
  /\ lagPoll = "idle"
  /\ lagPoll' = "reading"
  /\ \E answered \in SUBSET Partitions : \E failed \in SUBSET answered :
       /\ offsets' = [p \in Partitions |->
                        IF p \in failed THEN -1 ELSE IF p \in answered THEN committed[p] ELSE 0]
       /\ toRead' = answered
       /\ before' = SumOver(Lag, answered)
  /\ total' = 0
  /\ missed' = FALSE
  /\ UNCHANGED <<groupVars, kept, alerting, lagReport>>

(* No client, or a request that fails: GetGroupLag.                        *)
FetchFails ==
  /\ lagPoll = "idle"
  /\ lagReport' = Report(GroupLag, FALSE)
  /\ UNCHANGED <<groupVars, pollVars, kept, alerting>>

UpdateLag(n, lag) ==
  /\ kept' = [kept EXCEPT ![n] = lag]
  /\ alerting' = (SumOver([kept EXCEPT ![n] = lag], Numbers) > LagThreshold)

(* A slip: the offsets of a partition at the time its end is read, in      *)
(* which a commit of another partition is not.                             *)
ReadsEndLate(p) ==
  /\ lagPoll = "reading"
  /\ p \in toRead
  /\ toRead' = toRead \ {p}
  /\ total' = total + (produced[p] - committed[p])
  /\ UNCHANGED <<groupVars, lagPoll, offsets, missed, before, kept, alerting, lagReport>>

(* A partition that has no lag leaves the monitor as it is.                *)
ReadsEnd(p) ==
  LET lag == produced[p] - offsets[p]
  IN /\ lagPoll = "reading"
     /\ p \in toRead
     /\ toRead' = toRead \ {p}
     /\ total' = total + lag
     /\ IF lag > 0 THEN UpdateLag(Number(p), lag) ELSE UNCHANGED <<kept, alerting>>
     /\ UNCHANGED <<groupVars, lagPoll, offsets, missed, before, lagReport>>

(* The leader cannot be reached: the partition is skipped.                 *)
SkipsPartition(p) ==
  /\ lagPoll = "reading"
  /\ p \in toRead
  /\ toRead' = toRead \ {p}
  /\ missed' = TRUE
  /\ UNCHANGED <<groupVars, lagPoll, offsets, total, before, kept, alerting, lagReport>>

ReportsLag ==
  /\ lagPoll = "reading"
  /\ toRead = {}
  /\ lagPoll' = "idle"
  /\ lagReport' = Report(total, ~missed)
  /\ offsets' = [p \in Partitions |-> 0]
  /\ total' = 0
  /\ missed' = FALSE
  /\ before' = 0
  /\ UNCHANGED <<groupVars, toRead, kept, alerting>>

LagNext ==
  \/ \E p \in Partitions : Produce(p) \/ Commit(p) \/ ReadsEnd(p) \/ SkipsPartition(p)
  \/ FetchOffsets \/ FetchFails \/ ReportsLag

LagSpec == LagInit /\ [][LagNext]_lagVars

-----------------------------------------------------------------------------
(* The measurement's state has its types.                                  *)
LagTypeOK ==
  /\ produced \in [Partitions -> 0 .. MaxOffset]
  /\ committed \in [Partitions -> 0 .. MaxOffset]
  /\ \A p \in Partitions : offsets[p] <= committed[p] /\ committed[p] <= produced[p]
  /\ lagPoll \in {"idle", "reading"}
  /\ toRead \subseteq Partitions
  /\ total \in Nat /\ before \in Nat
  /\ missed \in BOOLEAN /\ alerting \in BOOLEAN
  /\ kept \in [Numbers -> 0 .. MaxOffset + 1]
  /\ lagReport \in [total : Nat, before : Nat, allRead : BOOLEAN, high : BOOLEAN]

(* A report for which every partition in Kafka's answer could be read is   *)
(* not below the lag these had when the offsets were fetched, whatever was *)
(* produced and committed in between, and if that lag was over the         *)
(* threshold the report is high: the ends are read after the offsets, and  *)
(* an error in place of an offset counts for more.  Partitions the answer  *)
(* leaves out are in neither (collector.go 139-206).                       *)
LagNotUnderstated ==
  lagReport.allRead =>
    /\ lagReport.total >= lagReport.before
    /\ lagReport.before > LagThreshold => lagReport.high
=============================================================================
