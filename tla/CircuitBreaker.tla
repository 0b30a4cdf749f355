--------------------------- MODULE CircuitBreaker ---------------------------
(***************************************************************************)
(* The remediation circuit breaker against a clock: what bound it really   *)
(* puts on automatic restarts.                                             *)
(*                                                                         *)
(* One unit of `now` is a fraction of the ten minutes of the code, which   *)
(* are `Window` units.  `tries`, `grants` and `lastReject` are history     *)
(* variables: the code keeps only cb and lastAttempt.                      *)
(***************************************************************************)
EXTENDS BreakerLogic, Sequences

CONSTANTS
  Window,    \* the ten minutes of remediation.go
  MaxTime    \* bound on the clock

ASSUME WindowAssumption == Window \in Nat /\ MaxTime \in Nat

VARIABLES
  cb,           \* circuitBreakerState["global"]: attempts and tripped
  lastAttempt,  \* its lastAttempt
  now,          \* time.Now()
  tries,        \* times of the checks that were counted
  grants,       \* times of the checks that let the remediation run
  lastReject    \* time of the last check turned away by a tripped breaker

vars == <<cb, lastAttempt, now, tries, grants, lastReject>>

Idle == now - lastAttempt > Window

Init ==
  /\ cb = FreshBreaker
  /\ lastAttempt = 0
  /\ now = 0
  /\ tries = <<>>
  /\ grants = <<>>
  /\ lastReject = 0

Tick ==
  /\ now < MaxTime
  /\ now' = now + 1
  /\ UNCHANGED <<cb, lastAttempt, tries, grants, lastReject>>

(* A slip Check must not make: moving lastAttempt when turned away.        *)
CheckExtendingLockout ==
  /\ cb' = Checked(cb, Idle)
  /\ lastAttempt' = now
  /\ tries' = IF Counted(cb, Idle) THEN Append(tries, now) ELSE tries
  /\ grants' = IF Allowed(cb, Idle) THEN Append(grants, now) ELSE grants
  /\ lastReject' = IF Counted(cb, Idle) THEN lastReject ELSE now
  /\ UNCHANGED now

(* The function circuitBreakerCheck returns.                               *)
Check ==
  /\ cb' = Checked(cb, Idle)
  /\ lastAttempt' = IF Counted(cb, Idle) THEN now ELSE lastAttempt
  /\ tries' = IF Counted(cb, Idle) THEN Append(tries, now) ELSE tries
  /\ grants' = IF Allowed(cb, Idle) THEN Append(grants, now) ELSE grants
  /\ lastReject' = IF Counted(cb, Idle) THEN lastReject ELSE now
  /\ UNCHANGED now

Next == Tick \/ Check

Spec == Init /\ [][Next]_vars

-----------------------------------------------------------------------------
(* The breaker's entry, the clock and the histories have their types.      *)
TypeOK ==
  /\ cb \in Breaker
  /\ lastAttempt \in Nat
  /\ now \in Nat
  /\ tries \in Seq(Nat)
  /\ grants \in Seq(Nat)
  /\ lastReject \in Nat

(* The rate the breaker enforces: any MaxAttempts + 1 consecutive restarts *)
(* span more than Window.  The code holds no sliding window, only one      *)
(* counter and one timestamp; the bound needs that the counter restarts    *)
(* from zero only after a silence longer than Window, so no window can     *)
(* hold restarts from both sides of a reset (remediation.go 118-134).      *)
WindowBound ==
  \A i \in 1 .. Len(grants) :
    i + MaxAttempts <= Len(grants) =>
      grants[i + MaxAttempts] - grants[i] > Window

(* Incidents that keep asking while the breaker is tripped never prolong   *)
(* the lockout: whatever is turned away is turned away within Window of    *)
(* the last counted attempt, because the tripped branch returns before it  *)
(* touches lastAttempt (remediation.go 124-129).                           *)
LockoutBounded ==
  lastReject > 0 =>
    /\ tries # <<>>
    /\ lastReject <= tries[Len(tries)] + Window
=============================================================================
