---------------------------- MODULE BreakerLogic ----------------------------
(***************************************************************************)
(* What one call of the circuit breaker of the remediation strategies does *)
(* to the breaker's entry (intelligence/incident/remediation.go,           *)
(* circuitBreakerCheck).  The check runs under circuitBreakerMu, so one    *)
(* call is one step of whoever makes it.                                   *)
(*                                                                         *)
(* `idle` says that more than ten minutes have passed since lastAttempt.   *)
(* The code creates the entry of the key "global" on the first call; an    *)
(* absent entry behaves as a fresh one, so it is not modelled apart.       *)
(***************************************************************************)
EXTENDS Naturals

CONSTANT MaxAttempts   \* attempts allowed before the breaker trips (5)

ASSUME MaxAttemptsAssumption == MaxAttempts \in Nat \ {0}

Breaker == [attempts : 0 .. MaxAttempts + 1, tripped : BOOLEAN]

FreshBreaker == [attempts |-> 0, tripped |-> FALSE]

(* The reset at the head of the check.                                     *)
AfterIdle(cb, idle) == IF idle THEN FreshBreaker ELSE cb

(* A check that meets a tripped breaker returns before it counts itself    *)
(* and before it moves lastAttempt.                                        *)
Counted(cb, idle) == ~AfterIdle(cb, idle).tripped

(* A slip this check must not make: tripping one attempt late.             *)
LateTrip(cb, idle) ==
  LET entry == AfterIdle(cb, idle)
  IN  IF entry.tripped
      THEN entry
      ELSE [attempts |-> entry.attempts + 1,
            tripped  |-> entry.attempts > MaxAttempts]

(* The entry after a check.                                                *)
Checked(cb, idle) ==
  LET entry == AfterIdle(cb, idle)
  IN  IF entry.tripped
      THEN entry
      ELSE [attempts |-> entry.attempts + 1,
            tripped  |-> entry.attempts + 1 > MaxAttempts]

(* The check's verdict: may the remediation run?                           *)
Allowed(cb, idle) == ~Checked(cb, idle).tripped
=============================================================================
