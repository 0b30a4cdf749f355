----------------------------- MODULE Aggregator -----------------------------
(***************************************************************************)
(* The event aggregator of the federation (core/federation/aggregator.go): *)
(* events with a fingerprint that was let through less than a window ago   *)
(* are dropped.  The table of fingerprints is pruned when it grows.        *)
(*                                                                         *)
(* A fingerprint, which the code hashes from source, type, cluster and     *)
(* some payload fields, is a model value, so two clusters never share one. *)
(* Process holds the mutex throughout and is one step.                     *)
(***************************************************************************)
EXTENDS Naturals, Sequences, FiniteSets, Functions

CONSTANTS
  Fingerprints,
  DedupWindow,
  MaxSeen,     \* size of the table that triggers a prune
  MaxAggTime, MaxAggEvents   \* bounds on the clock and on the events

ASSUME AggregatorAssumption ==
  /\ DedupWindow \in Nat
  /\ MaxSeen \in Nat
  /\ MaxAggTime \in Nat /\ MaxAggEvents \in Nat

VARIABLES
  aggNow,  \* the clock
  seen,    \* when the fingerprints in the table were last let through
  aggLog   \* history: the events processed, and which were let through

aggVars == <<aggNow, seen, aggLog>>

AggInit ==
  /\ aggNow = 0
  /\ seen = <<>>
  /\ aggLog = <<>>

AggTick ==
  /\ aggNow < MaxAggTime
  /\ aggNow' = aggNow + 1
  /\ UNCHANGED <<seen, aggLog>>

Duplicate(fp) == fp \in DOMAIN seen /\ aggNow - seen[fp] < DedupWindow

Updated(fp) == [f \in DOMAIN seen \cup {fp} |-> IF f = fp THEN aggNow ELSE seen[f]]

(* A slip: pruning the entries that are still needed.                      *)
PrunedRecent(table) == Restrict(table, {f \in DOMAIN table : aggNow - table[f] = 0})

(* Before(now - window) is strict.                                         *)
Pruned(table) ==
  Restrict(table, {f \in DOMAIN table : aggNow - table[f] <= DedupWindow})

SeenAfter(fp) ==
  LET table == Updated(fp)
  IN IF Cardinality(DOMAIN table) > MaxSeen THEN Pruned(table) ELSE table

Process(fp) ==
  /\ Len(aggLog) < MaxAggEvents
  /\ seen' = IF Duplicate(fp) THEN seen ELSE SeenAfter(fp)
  /\ aggLog' = Append(aggLog, [fp |-> fp, at |-> aggNow, passed |-> ~Duplicate(fp)])
  /\ UNCHANGED aggNow

AggNext == AggTick \/ \E fp \in Fingerprints : Process(fp)

AggSpec == AggInit /\ [][AggNext]_aggVars

-----------------------------------------------------------------------------
(* The aggregator's state has its types.                                   *)
AggTypeOK ==
  /\ aggNow \in 0 .. MaxAggTime
  /\ DOMAIN seen \subseteq Fingerprints
  /\ \A fp \in DOMAIN seen : seen[fp] \in 0 .. aggNow
  /\ \A k \in 1 .. Len(aggLog) :
       aggLog[k] \in [fp : Fingerprints, at : 0 .. aggNow, passed : BOOLEAN]

(* An event is let through exactly when none of its fingerprint was let    *)
(* through less than a window before it: pruning the table, whenever it    *)
(* happens, never changes an answer, and a dropped event does not prolong  *)
(* the silence (aggregator.go 41-65, 107-115).                             *)
DedupExact ==
  \A k \in 1 .. Len(aggLog) :
    aggLog[k].passed <=>
      \A j \in 1 .. k - 1 :
        aggLog[j].fp = aggLog[k].fp /\ aggLog[j].passed =>
          aggLog[k].at - aggLog[j].at >= DedupWindow
=============================================================================
