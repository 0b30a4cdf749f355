-------------------------- MODULE CapacityPlanner --------------------------
(***************************************************************************)
(* The capacity planner (intelligence/capacity/planner.go) on one          *)
(* resource: Analyze appends a point and trims the series under the mutex, *)
(* recommendations are made under the read lock, but GenerateForecast      *)
(* looks the series up under the read lock and reads its points, three     *)
(* times over, after it has released it.                                   *)
(*                                                                         *)
(* Utilisation is in whole per cent; the regression behind a forecast is   *)
(* left out, what it is computed from is kept.                             *)
(***************************************************************************)
EXTENDS Naturals, Sequences, SequencesExt

CONSTANTS
  Utilisations,  \* the values recorded, per cent
  DataRetention,
  MinPoints,     \* points a forecast or a recommendation needs
  MaxCapTime, MaxPoints  \* bounds on the clock and on the series

ASSUME CapacityAssumption ==
  /\ Utilisations \subseteq 0 .. 100
  /\ DataRetention \in Nat \ {0} /\ MinPoints \in Nat \ {0}
  /\ MaxCapTime \in Nat /\ MaxPoints \in Nat

VARIABLES
  capNow,       \* the clock
  points,       \* ts.Points
  forecast,     \* where GenerateForecast is: length checked, or values made
  values,       \* what it has taken from the series
  forecastRan,  \* history: its range ran past the values it had made
  recorded,     \* history: every point
  advice        \* the recommendation for the series as it is

seriesVars == <<capNow, points, recorded>>
capVars == <<seriesVars, forecast, values, forecastRan, advice>>

CapInit ==
  /\ capNow = 0
  /\ points = <<>>
  /\ forecast = "idle"
  /\ values = <<>>
  /\ forecastRan = FALSE
  /\ recorded = <<>>
  /\ advice = "none"

CapTick ==
  /\ capNow < MaxCapTime
  /\ capNow' = capNow + 1
  /\ UNCHANGED <<points, recorded, forecast, values, forecastRan, advice>>

(* A slip: keeping a point that is exactly as old as the retention.        *)
NotOlder(pt) == capNow - pt.at <= DataRetention

Fresh(pt) == capNow - pt.at < DataRetention

(* The first point after the cutoff and all that follow it; the new point  *)
(* is one of them.                                                         *)
Trimmed(pts) == SubSeq(pts, SelectInSeq(pts, Fresh), Len(pts))

RecordMetric(v) ==
  /\ Len(recorded) < MaxPoints
  /\ LET pt == [at |-> capNow, v |-> v]
     IN /\ points' = Trimmed(Append(points, pt))
        /\ recorded' = Append(recorded, pt)
  /\ advice' = "none"
  /\ UNCHANGED <<capNow, forecast, values, forecastRan>>

-----------------------------------------------------------------------------
ForecastChecks ==
  /\ forecast = "idle"
  /\ Len(points) >= MinPoints
  /\ forecast' = "checked"
  /\ UNCHANGED <<seriesVars, values, forecastRan, advice>>

ForecastMakes ==
  /\ forecast = "checked"
  /\ forecast' = "made"
  /\ values' = [i \in 1 .. Len(points) |-> 0]
  /\ UNCHANGED <<seriesVars, forecastRan, advice>>

(* The range reads the series once; a longer series than that of make runs *)
(* out of range, a shorter one leaves zeros.                               *)
ForecastCopies ==
  /\ forecast = "made"
  /\ forecast' = "idle"
  /\ forecastRan' = (forecastRan \/ Len(points) > Len(values))
  /\ values' = <<>>
  /\ UNCHANGED <<seriesVars, advice>>

Values == [i \in 1 .. Len(points) |-> points[i].v]

(* percentile95 takes the value at the 95th per cent of the series as it   *)
(* is: sorted is a copy that is not sorted.                                *)
Rank(n) == (95 * (n - 1)) \div 100 + 1
Percentile95(vals) == vals[Rank(Len(vals))]

Recommends ==
  /\ Len(points) >= MinPoints
  /\ LET p95 == Percentile95(Values)
     IN advice' = IF p95 < 30 THEN "scale_down" ELSE IF p95 > 80 THEN "scale_up" ELSE "none"
  /\ UNCHANGED <<seriesVars, forecast, values, forecastRan>>

CapNext ==
  \/ CapTick
  \/ \E v \in Utilisations : RecordMetric(v)
  \/ ForecastChecks \/ ForecastMakes \/ ForecastCopies
  \/ Recommends

CapSpec == CapInit /\ [][CapNext]_capVars

-----------------------------------------------------------------------------
(* The planner's state has its types.                                      *)
CapTypeOK ==
  /\ capNow \in 0 .. MaxCapTime
  /\ \A i \in 1 .. Len(points) : points[i] \in [at : 0 .. capNow, v : Utilisations]
  /\ forecast \in {"idle", "checked", "made"}
  /\ forecastRan \in BOOLEAN
  /\ advice \in {"none", "scale_down", "scale_up"}

(* The series is always the recorded points that were within the retention *)
(* when the last of them came: trimming loses no point that counts and     *)
(* keeps none that does not, over any sequence of bursts and pauses, even  *)
(* one long enough to expire everything (planner.go 134-161).              *)
RetentionExact ==
  recorded # <<>> =>
    LET last == Len(recorded)
    IN \E k \in 0 .. last :
         /\ points = SubSeq(recorded, k + 1, last)
         /\ \A i \in 1 .. last :
              recorded[last].at - recorded[i].at < DataRetention <=> i > k
=============================================================================
