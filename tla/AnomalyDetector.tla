-------------------------- MODULE AnomalyDetector --------------------------
(***************************************************************************)
(* The anomaly detector (intelligence/anomaly) on one signal: its ring     *)
(* buffer and the callers of Analyze, who find the signal under the mutex  *)
(* but use its window after they have released it.  Two callers at work on *)
(* one signal race: every read and write of pos and full is a step.        *)
(*                                                                         *)
(* Values are numbers, and |z| >= Threshold is put in integers: with n     *)
(* values of sum S and sum of squares Q,                                   *)
(*     |v - S/n| >= T * sqrt((nQ - S^2) / (n(n-1)))                        *)
(* squared and multiplied by n^2 (n-1).  Rounding, the scores, the EWMA    *)
(* and the channel of anomalies, sent without blocking, are left out.      *)
(***************************************************************************)
EXTENDS Integers, Sequences, FiniteSets, SequencesExt

CONSTANTS
  Observers,      \* routers and REST handlers that call Analyze
  Readings,       \* the values of the signal
  WindowSize, MinDataPoints, Threshold,
  MaxDetected,    \* maxDetectedAnomalies
  MaxAdds         \* bound on the values

ASSUME DetectorAssumption ==
  /\ IsFiniteSet(Observers) /\ Readings \subseteq Nat
  /\ WindowSize \in Nat \ {0} /\ MinDataPoints \in Nat /\ Threshold \in Nat \ {0}
  /\ MaxDetected \in Nat /\ MaxAdds \in Nat

VARIABLES
  ring, pos, full,   \* TimeSeriesWindow
  observer,          \* where each caller is, with what it holds
  detected,          \* d.detectedAnomalies
  added,             \* history: the values whose Add has begun
  overlapped,        \* history: a call began while another was under way
  verdict,           \* history: the window just examined, and the answer
  outOfRange         \* history: Values sliced out of range

windowVars == <<ring, pos, full>>
anoHistory == <<added, overlapped>>
anoVars == <<windowVars, observer, detected, anoHistory, verdict, outOfRange>>

Slots == 0 .. WindowSize - 1
AtRest == [at |-> "idle", v |-> 0, n |-> 0]
NoVerdict == [values |-> <<>>, v |-> 0, anomaly |-> FALSE]

AnoInit ==
  /\ ring = [s \in Slots |-> 0]
  /\ pos = 0
  /\ full = FALSE
  /\ observer = [o \in Observers |-> AtRest]
  /\ detected = <<>>
  /\ added = <<>>
  /\ overlapped = FALSE
  /\ verdict = NoVerdict
  /\ outOfRange = FALSE

WindowLen == IF full THEN WindowSize ELSE pos

(* Values once n has been read: make(n), and what the two copies fill in.  *)
Contents(n) ==
  [i \in 1 .. n |->
     IF full THEN ring[(pos + i - 1) % WindowSize]
     ELSE IF i <= pos THEN ring[i - 1] ELSE 0]

(* result[capacity-pos:] of a result of length n.                          *)
SliceFails(n) == full /\ WindowSize - pos > n

SumOf(values)    == FoldLeft(LAMBDA s, x : s + x, 0, values)
SumOfSquares(values) == FoldLeft(LAMBDA s, x : s + x * x, 0, values)

(* A slip: the population's deviation for the sample's.                    *)
DeviatesOfPopulation(v, values) ==
  LET n == Len(values)
      S == SumOf(values)
      spread == n * SumOfSquares(values) - S * S
      off == n * v - S
  IN n >= 2 /\ spread # 0 /\ off * off >= Threshold * Threshold * spread

(* |z| >= Threshold.  ZScore is zero when the deviation is, or n < 2.      *)
Deviates(v, values) ==
  LET n == Len(values)
      S == SumOf(values)
      spread == n * SumOfSquares(values) - S * S
      off == n * v - S
  IN n >= 2 /\ spread # 0
     /\ off * off * (n - 1) >= Threshold * Threshold * n * spread

-----------------------------------------------------------------------------
ObserverTo(o, at) == observer' = [observer EXCEPT ![o].at = at]

(* Analyze finds or makes the signal.                                      *)
AnalyzeSignal(o, v) ==
  /\ observer[o].at = "idle"
  /\ Len(added) < MaxAdds
  /\ observer' = [observer EXCEPT ![o] = [at |-> "write", v |-> v, n |-> 0]]
  /\ added' = Append(added, v)
  /\ overlapped' = (overlapped \/ \E p \in Observers : observer[p].at # "idle")
  /\ verdict' = NoVerdict
  /\ UNCHANGED <<windowVars, detected, outOfRange>>

(* w.values[w.pos] = v                                                     *)
AddWrites(o) ==
  /\ observer[o].at = "write"
  /\ ring' = [ring EXCEPT ![pos] = observer[o].v]
  /\ ObserverTo(o, "read")
  /\ UNCHANGED <<pos, full, detected, anoHistory, verdict, outOfRange>>

(* w.pos = (w.pos + 1) % w.capacity: the read, and the write.              *)
AddReadsPos(o) ==
  /\ observer[o].at = "read"
  /\ observer' = [observer EXCEPT ![o].at = "advance", ![o].n = pos]
  /\ UNCHANGED <<windowVars, detected, anoHistory, verdict, outOfRange>>

AddAdvances(o) ==
  /\ observer[o].at = "advance"
  /\ pos' = (observer[o].n + 1) % WindowSize
  /\ ObserverTo(o, "wrap")
  /\ UNCHANGED <<ring, full, detected, anoHistory, verdict, outOfRange>>

(* A slip: taking the last slot for a full window.                         *)
AddWrapsEarly(o) ==
  /\ observer[o].at = "wrap"
  /\ full' = (full \/ pos = WindowSize - 1)
  /\ ObserverTo(o, "length")
  /\ UNCHANGED <<ring, pos, detected, anoHistory, verdict, outOfRange>>

AddWraps(o) ==
  /\ observer[o].at = "wrap"
  /\ full' = (full \/ pos = 0)
  /\ ObserverTo(o, "length")
  /\ UNCHANGED <<ring, pos, detected, anoHistory, verdict, outOfRange>>

ChecksLength(o) ==
  /\ observer[o].at = "length"
  /\ observer' = IF WindowLen < MinDataPoints THEN [observer EXCEPT ![o] = AtRest]
                 ELSE [observer EXCEPT ![o].at = "values"]
  /\ UNCHANGED <<windowVars, detected, anoHistory, verdict, outOfRange>>

(* Values reads the length, and then the rest.                             *)
ValuesReadsLength(o) ==
  /\ observer[o].at = "values"
  /\ observer' = [observer EXCEPT ![o].at = "judge", ![o].n = WindowLen]
  /\ UNCHANGED <<windowVars, detected, anoHistory, verdict, outOfRange>>

Keep(anomaly) ==
  LET all == Append(detected, anomaly)
  IN IF Len(all) > MaxDetected THEN SubSeq(all, Len(all) - MaxDetected + 1, Len(all))
     ELSE all

Judges(o) ==
  LET v == observer[o].v
      values == Contents(observer[o].n)
      anomaly == Deviates(v, values)
  IN /\ observer[o].at = "judge"
     /\ observer' = [observer EXCEPT ![o] = AtRest]
     /\ outOfRange' = (outOfRange \/ SliceFails(observer[o].n))
     /\ verdict' = [values |-> values, v |-> v, anomaly |-> anomaly]
     /\ detected' = IF anomaly THEN Keep(v) ELSE detected
     /\ UNCHANGED <<windowVars, anoHistory>>

AnoNext ==
  \E o \in Observers :
    \/ \E v \in Readings : AnalyzeSignal(o, v)
    \/ AddWrites(o) \/ AddReadsPos(o) \/ AddAdvances(o) \/ AddWraps(o)
    \/ ChecksLength(o) \/ ValuesReadsLength(o) \/ Judges(o)

AnoSpec == AnoInit /\ [][AnoNext]_anoVars

-----------------------------------------------------------------------------
(* The detector's state has its types.                                     *)
AnoTypeOK ==
  /\ ring \in [Slots -> Readings \cup {0}]
  /\ pos \in Slots
  /\ full \in BOOLEAN
  /\ \A o \in Observers :
       /\ observer[o].at \in {"idle", "write", "read", "advance", "wrap", "length",
                              "values", "judge"}
       /\ observer[o].n \in 0 .. WindowSize
  /\ Len(detected) <= MaxDetected
  /\ overlapped \in BOOLEAN /\ outOfRange \in BOOLEAN

(* As long as calls do not overlap the window is the last WindowSize       *)
(* values in their order, over any number of turns of the ring, and        *)
(* nothing is sliced out of range.  Calls that race may lose count of      *)
(* values but never invent some, so nothing is judged before MinDataPoints *)
(* values have come in (model.go 24-52, detector.go 168-191).              *)
WindowIsRecent ==
  /\ ~overlapped =>
       /\ ~outOfRange
       /\ (\A o \in Observers : observer[o].at = "idle") =>
            LET n == IF Len(added) < WindowSize THEN Len(added) ELSE WindowSize
            IN Contents(WindowLen) = SubSeq(added, Len(added) - n + 1, Len(added))
  /\ WindowLen <= Len(added)
  /\ verdict # NoVerdict => Len(added) >= MinDataPoints

(* The judgement on a lone spike after a steady signal depends only on the *)
(* length of the window: a new value is reported exactly when              *)
(* (n-1)^2 >= Threshold^2 * n, so a window of ten values never reports     *)
(* anything at a threshold of three (model.go 67-86, detector.go 191-198). *)
SteadyThenSpike ==
  LET values == verdict.values
      n == Len(values)
  IN (/\ n >= 2
      /\ values[n] = verdict.v
      /\ \A i \in 1 .. n - 1 : values[i] = values[1] /\ values[i] # verdict.v)
     => (verdict.anomaly <=> (n - 1) * (n - 1) >= Threshold * Threshold * n)
=============================================================================
