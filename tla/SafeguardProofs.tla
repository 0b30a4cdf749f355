-------------------------- MODULE SafeguardProofs ---------------------------
(***************************************************************************)
(* Proofs about what restrains remediation, keeps its record and shows it: *)
(* the circuit breaker, the rate limiter and the WebSocket hub of the API, *)
(* the audit store and the runbook executor.                               *)
(*                                                                         *)
(* The breaker: none of its properties is inductive, since the counter     *)
(* says nothing of when the attempts were made. IInv ties it to the        *)
(* histories. The restarts granted since the last reset are the last Run   *)
(* grants, the one before them is more than a window older than the first  *)
(* of them, and the counted attempts end at lastAttempt.                   *)
(*                                                                         *)
(* The rate limiter: RateBound speaks of past grants only. Credit adds     *)
(* what the bucket holds: the grants since any one of them, and the tokens *)
(* left, were paid for by the burst and the refills since. For a forgotten *)
(* client the idle time alone has paid for them, because it was longer     *)
(* than a bucket takes to fill.                                            *)
(*                                                                         *)
(* The hub: the read lock is held exactly while the broadcaster writes.    *)
(*                                                                         *)
(* The audit store: memory and file are written in two critical sections.  *)
(* What a caller has under way is later than what he has put in either, so *)
(* both keep his order although they may differ on the order of two        *)
(* callers.                                                                *)
(*                                                                         *)
(* The runbooks: the results of a call tell at every place of it which of  *)
(* its steps have failed, and the index by type is rebuilt without gaps or *)
(* repetitions.                                                            *)
(***************************************************************************)
EXTENDS CircuitBreaker, RateLimiter, WebSocketHub, AuditStore, RunbookExecutor, DataLemmas,
        SequenceTheorems

-----------------------------------------------------------------------------
(* The circuit breaker.                                                    *)

(* The grants since the last reset.                                        *)
Run == IF cb.attempts <= MaxAttempts THEN cb.attempts ELSE MaxAttempts

Clock ==
  /\ lastAttempt <= now
  /\ cb.tripped <=> cb.attempts = MaxAttempts + 1
  /\ cb.attempts = 0 => tries = <<>> /\ grants = <<>> /\ lastReject = 0
  /\ cb.attempts > 0 => tries # <<>> /\ tries[Len(tries)] = lastAttempt

Grants ==
  /\ Run <= Len(grants)
  /\ \A i \in 1 .. Len(grants) : grants[i] <= lastAttempt
  /\ \A i, j \in 1 .. Len(grants) : i <= j => grants[i] <= grants[j]

Separated ==
  cb.attempts > 0 /\ Run < Len(grants) =>
    grants[Len(grants) - Run + 1] - grants[Len(grants) - Run] > Window

Rejected == lastReject > 0 => lastReject <= lastAttempt + Window

IInv == TypeOK /\ Clock /\ Grants /\ Separated /\ WindowBound /\ Rejected

-----------------------------------------------------------------------------
(* The initial state satisfies the invariant.                              *)
LEMMA InitIInv == Init => IInv
  BY MaxAttemptsAssumption, WindowAssumption, SMT
     DEF Init, IInv, TypeOK, Clock, Grants, Separated, WindowBound, Rejected,
         Run, Breaker, FreshBreaker

(* A tick moves only the clock.                                            *)
LEMMA TickIInv == ASSUME IInv, Tick PROVE IInv'
  BY SMT DEF Tick, IInv, TypeOK, Clock, Grants, Separated, WindowBound,
             Rejected, Run

(* The four outcomes of a check.                                           *)
LEMMA CheckCases ==
  ASSUME IInv, Check
  PROVE
    \/ /\ ~Idle /\ cb.tripped
       /\ UNCHANGED <<cb, lastAttempt, now, tries, grants>>
       /\ lastReject' = now
    \/ /\ Idle
       /\ cb' = [attempts |-> 1, tripped |-> FALSE]
       /\ grants' = Append(grants, now) /\ tries' = Append(tries, now)
       /\ lastAttempt' = now /\ UNCHANGED <<now, lastReject>>
    \/ /\ ~Idle /\ cb.attempts < MaxAttempts
       /\ cb' = [attempts |-> cb.attempts + 1, tripped |-> FALSE]
       /\ grants' = Append(grants, now) /\ tries' = Append(tries, now)
       /\ lastAttempt' = now /\ UNCHANGED <<now, lastReject>>
    \/ /\ ~Idle /\ cb.attempts = MaxAttempts
       /\ cb' = [attempts |-> cb.attempts + 1, tripped |-> TRUE]
       /\ tries' = Append(tries, now)
       /\ lastAttempt' = now /\ UNCHANGED <<now, grants, lastReject>>
<1>1. cb.attempts \in 0 .. MaxAttempts + 1 /\ cb.tripped \in BOOLEAN
  BY DEF IInv, TypeOK, Breaker
<1>2. cb.tripped <=> cb.attempts = MaxAttempts + 1
  BY DEF IInv, Clock
<1>3. CASE ~Idle /\ cb.tripped
  BY <1>3 DEF Check, Checked, Counted, Allowed, AfterIdle
<1>4. CASE Idle
  <2>1. AfterIdle(cb, Idle) = [attempts |-> 0, tripped |-> FALSE]
    BY <1>4 DEF AfterIdle, FreshBreaker
  <2>a. (0 + 1 > MaxAttempts) = FALSE /\ 0 + 1 = 1
    BY MaxAttemptsAssumption, SMT
  <2>b. AfterIdle(cb, Idle).tripped = FALSE /\ AfterIdle(cb, Idle).attempts = 0
    BY <2>1
  <2>c. Checked(cb, Idle) = [attempts |-> 0 + 1, tripped |-> 0 + 1 > MaxAttempts]
    BY <2>b DEF Checked
  <2>2. Checked(cb, Idle) = [attempts |-> 1, tripped |-> FALSE]
    BY <2>a, <2>c
  <2>3. Counted(cb, Idle) /\ Allowed(cb, Idle)
    BY <2>1, <2>2 DEF Counted, Allowed
  <2>q. QED
    BY <1>4, <2>2, <2>3 DEF Check
<1>5. CASE ~Idle /\ ~cb.tripped
  <2>1. AfterIdle(cb, Idle) = cb
    BY <1>5 DEF AfterIdle
  <2>2. Counted(cb, Idle)
    BY <1>5, <2>1 DEF Counted
  <2>3. Checked(cb, Idle) = [attempts |-> cb.attempts + 1,
                             tripped |-> cb.attempts + 1 > MaxAttempts]
    BY <1>5, <2>1 DEF Checked
  <2>4. CASE cb.attempts < MaxAttempts
    <3>1. (cb.attempts + 1 > MaxAttempts) = FALSE
      BY <1>1, <2>4, MaxAttemptsAssumption, SMT
    <3>2. Checked(cb, Idle) = [attempts |-> cb.attempts + 1, tripped |-> FALSE]
      BY <2>3, <3>1
    <3>q. QED
      BY <1>5, <2>2, <2>4, <3>2 DEF Check, Allowed
  <2>5. CASE cb.attempts = MaxAttempts
    <3>1. (cb.attempts + 1 > MaxAttempts) = TRUE
      BY <1>1, <2>5, MaxAttemptsAssumption, SMT
    <3>2. Checked(cb, Idle) = [attempts |-> cb.attempts + 1, tripped |-> TRUE]
      BY <2>3, <3>1
    <3>q. QED
      BY <1>5, <2>2, <2>5, <3>2 DEF Check, Allowed
  <2>6. cb.attempts < MaxAttempts \/ cb.attempts = MaxAttempts
    BY <1>1, <1>2, <1>5, MaxAttemptsAssumption, SMT
  <2>q. QED
    BY <2>4, <2>5, <2>6
<1>q. QED
  BY <1>3, <1>4, <1>5

(* What appending to a history of times changes.                           *)
LEMMA Appended ==
  ASSUME NEW s \in Seq(Nat), NEW e \in Nat
  PROVE  /\ Len(s) \in Nat
         /\ Append(s, e) \in Seq(Nat)
         /\ Append(s, e) # <<>>
         /\ Len(Append(s, e)) = Len(s) + 1
         /\ \A i \in 1 .. Len(s) : Append(s, e)[i] = s[i] /\ s[i] \in Nat
         /\ Append(s, e)[Len(s) + 1] = e
         /\ Append(s, e)[Len(Append(s, e))] = e
  BY SMT

(* The arithmetic of a grant that follows an older run of grants.          *)
LEMMA Spans ==
  ASSUME NEW a \in Nat, NEW b \in Nat, NEW c \in Nat, NEW l \in Nat,
         NEW n \in Nat, NEW w \in Nat,
         a <= b, c - b > w, c <= l, l <= n
  PROVE  n - a > w
  BY SMT

(* A check keeps the invariant: one step per outcome.                      *)
LEMMA CheckIInv == ASSUME IInv, Check PROVE IInv'
<1>0. /\ cb.attempts \in 0 .. MaxAttempts + 1 /\ cb.tripped \in BOOLEAN
      /\ lastAttempt \in Nat /\ now \in Nat /\ lastReject \in Nat
      /\ tries \in Seq(Nat) /\ grants \in Seq(Nat)
      /\ lastAttempt <= now
  BY DEF IInv, TypeOK, Clock, Breaker
<1>1. CASE /\ ~Idle /\ cb.tripped
           /\ UNCHANGED <<cb, lastAttempt, now, tries, grants>>
           /\ lastReject' = now
  <2>1. now <= lastAttempt + Window
    BY <1>0, <1>1, WindowAssumption, SMT DEF Idle
  <2>2. cb.attempts # 0
    BY <1>1, MaxAttemptsAssumption, SMT DEF IInv, Clock
  <2>3. TypeOK'
    BY <1>0, <1>1 DEF IInv, TypeOK
  <2>4. Clock'
    BY <1>1, <2>2 DEF IInv, Clock
  <2>5. Grants' /\ Separated' /\ WindowBound'
    BY <1>1 DEF IInv, Grants, Separated, WindowBound, Run
  <2>6. Rejected'
    BY <1>1, <2>1 DEF Rejected
  <2>q. QED
    BY <2>3, <2>4, <2>5, <2>6 DEF IInv
<1>a. /\ MaxAttempts \in Nat /\ MaxAttempts > 0 /\ Window \in Nat
  BY MaxAttemptsAssumption, WindowAssumption, SMT
<1>c. Len(grants) \in Nat
  BY <1>0, SMT
<1>b. /\ \A i \in 1 .. Len(grants) :
           grants[i] \in Nat /\ grants[i] <= lastAttempt
      /\ \A i, j \in 1 .. Len(grants) : i <= j => grants[i] <= grants[j]
  BY <1>0, SMT DEF IInv, Grants
<1>2. CASE /\ Idle
           /\ cb' = [attempts |-> 1, tripped |-> FALSE]
           /\ grants' = Append(grants, now) /\ tries' = Append(tries, now)
           /\ lastAttempt' = now /\ UNCHANGED <<now, lastReject>>
  <2>1. cb'.attempts = 1 /\ cb'.tripped = FALSE
    BY <1>2
  <2>l. Len(grants') = Len(grants) + 1
    BY <1>0, <1>2, Appended
  <2>2. /\ grants' \in Seq(Nat)
        /\ \A i \in 1 .. Len(grants) : grants'[i] = grants[i]
        /\ grants'[Len(grants) + 1] = now
        /\ tries' \in Seq(Nat) /\ tries' # <<>>
        /\ tries'[Len(tries')] = now
    BY <1>0, <1>2, Appended
  <2>3. Run' = 1
    BY <2>1, <1>a, SMT DEF Run
  <2>4. now - lastAttempt > Window
    BY <1>2 DEF Idle
  <2>5. TypeOK'
    BY <1>0, <1>2, <1>a, <2>2, SMT DEF TypeOK, Breaker
  <2>6. Clock'
    BY <1>0, <1>2, <1>a, <2>1, <2>2, SMT DEF Clock
  <2>7. Grants'
    BY <1>0, <1>2, <1>c, <1>b, <2>l, <2>2, <2>3, SMT DEF Grants
  <2>8. Separated'
    <3>1. SUFFICES ASSUME Run' < Len(grants')
                   PROVE  grants'[Len(grants') - Run' + 1]
                            - grants'[Len(grants') - Run'] > Window
      BY DEF Separated
    <3>2. /\ Len(grants') - Run' + 1 = Len(grants) + 1
          /\ Len(grants') - Run' = Len(grants)
          /\ Len(grants) \in 1 .. Len(grants)
      BY <1>c, <2>l, <2>3, <3>1, SMT
    <3>3. /\ grants'[Len(grants)] = grants[Len(grants)]
          /\ grants[Len(grants)] \in Nat /\ grants[Len(grants)] <= lastAttempt
          /\ grants'[Len(grants) + 1] = now
      BY <1>b, <2>2, <3>2
    <3>4. now - grants[Len(grants)] > Window
      BY <1>0, <1>a, <2>4, <3>3, SMT
    <3>q. QED
      BY <3>2, <3>3, <3>4
  <2>9. WindowBound'
    <3>1. SUFFICES ASSUME NEW i \in 1 .. Len(grants'),
                          i + MaxAttempts <= Len(grants')
                   PROVE  grants'[i + MaxAttempts] - grants'[i] > Window
      BY DEF WindowBound
    <3>a. /\ i \in 1 .. Len(grants)
          /\ i + MaxAttempts <= Len(grants) \/ i + MaxAttempts = Len(grants) + 1
      BY <1>a, <1>c, <2>l, <3>1, SMT
    <3>2. grants'[i] = grants[i] /\ grants[i] \in Nat /\ grants[i] <= lastAttempt
      BY <1>b, <2>2, <3>a
    <3>3. CASE i + MaxAttempts <= Len(grants)
      <4>1. i + MaxAttempts \in 1 .. Len(grants)
        BY <1>a, <1>c, <3>a, <3>3, SMT
      <4>q. QED
        BY <2>2, <3>a, <3>2, <3>3, <4>1 DEF IInv, WindowBound
    <3>4. CASE i + MaxAttempts = Len(grants) + 1
      <4>1. now - grants[i] > Window
        BY <1>0, <1>a, <2>4, <3>2, SMT
      <4>q. QED
        BY <2>2, <3>2, <3>4, <4>1
    <3>q. QED
      BY <3>a, <3>3, <3>4
  <2>10. Rejected'
    BY <1>0, <1>a, <1>2, SMT DEF IInv, Rejected
  <2>q. QED
    BY <2>5, <2>6, <2>7, <2>8, <2>9, <2>10 DEF IInv
<1>3. CASE /\ ~Idle /\ cb.attempts < MaxAttempts
           /\ cb' = [attempts |-> cb.attempts + 1, tripped |-> FALSE]
           /\ grants' = Append(grants, now) /\ tries' = Append(tries, now)
           /\ lastAttempt' = now /\ UNCHANGED <<now, lastReject>>
  <2>1. cb'.attempts = cb.attempts + 1 /\ cb'.tripped = FALSE
    BY <1>3
  <2>l. Len(grants') = Len(grants) + 1
    BY <1>0, <1>3, Appended
  <2>2. /\ grants' \in Seq(Nat)
        /\ \A i \in 1 .. Len(grants) : grants'[i] = grants[i]
        /\ grants'[Len(grants) + 1] = now
        /\ tries' \in Seq(Nat) /\ tries' # <<>>
        /\ tries'[Len(tries')] = now
    BY <1>0, <1>3, Appended
  <2>3. Run = cb.attempts /\ Run \in Nat /\ Run' = Run + 1
    BY <1>0, <1>3, <1>a, <2>1, SMT DEF Run
  <2>4. Run <= Len(grants)
    BY DEF IInv, Grants
  <2>5. /\ cb.attempts = 0 => Len(grants) = 0
        /\ Run > 0 /\ Run < Len(grants) =>
             grants[Len(grants) - Run + 1] - grants[Len(grants) - Run] > Window
    BY <2>3 DEF IInv, Clock, Separated
  <2>6. TypeOK'
    BY <1>0, <1>3, <1>a, <2>2, SMT DEF TypeOK, Breaker
  <2>7. Clock'
    BY <1>0, <1>3, <1>a, <2>1, <2>2, SMT DEF Clock
  <2>8. Grants'
    <3>1. Run' <= Len(grants')
      BY <1>c, <2>l, <2>3, <2>4, SMT
    <3>2. \A i \in 1 .. Len(grants') : grants'[i] <= lastAttempt'
      BY <1>0, <1>3, <1>c, <1>b, <2>l, <2>2, SMT
    <3>3. ASSUME NEW i \in 1 .. Len(grants'), NEW j \in 1 .. Len(grants'), i <= j
          PROVE  grants'[i] <= grants'[j]
      <4>1. CASE j <= Len(grants)
        <5>1. i \in 1 .. Len(grants) /\ j \in 1 .. Len(grants)
          BY <1>c, <2>l, <3>3, <4>1, SMT
        <5>q. QED
          BY <1>b, <2>2, <3>3, <5>1
      <4>2. CASE j = Len(grants) + 1
        <5>1. grants'[j] = now /\ grants'[i] <= lastAttempt'
          BY <2>2, <3>2, <4>2
        <5>q. QED
          BY <1>3, <5>1
      <4>q. QED
        BY <1>c, <2>l, <3>3, <4>1, <4>2, SMT
    <3>q. QED
      BY <3>1, <3>2, <3>3 DEF Grants
  <2>9. Separated'
    <3>1. SUFFICES ASSUME Run' < Len(grants')
                   PROVE  grants'[Len(grants') - Run' + 1]
                            - grants'[Len(grants') - Run'] > Window
      BY DEF Separated
    <3>2. Run > 0 /\ Run < Len(grants)
      BY <1>c, <2>l, <2>3, <2>5, <3>1, SMT
    <3>3. /\ Len(grants') - Run' = Len(grants) - Run
          /\ Len(grants) - Run \in 1 .. Len(grants)
          /\ Len(grants) - Run + 1 \in 1 .. Len(grants)
          /\ Len(grants') - Run' + 1 = Len(grants) - Run + 1
      BY <1>c, <2>l, <2>3, <3>2, SMT
    <3>q. QED
      BY <2>2, <2>5, <3>2, <3>3
  <2>10. WindowBound'
    <3>1. SUFFICES ASSUME NEW i \in 1 .. Len(grants'),
                          i + MaxAttempts <= Len(grants')
                   PROVE  grants'[i + MaxAttempts] - grants'[i] > Window
      BY DEF WindowBound
    <3>a. /\ i \in 1 .. Len(grants)
          /\ i + MaxAttempts <= Len(grants) \/ i + MaxAttempts = Len(grants) + 1
      BY <1>a, <1>c, <2>l, <3>1, SMT
    <3>2. grants'[i] = grants[i] /\ grants[i] \in Nat /\ grants[i] <= lastAttempt
      BY <1>b, <2>2, <3>a
    <3>3. CASE i + MaxAttempts <= Len(grants)
      <4>1. i + MaxAttempts \in 1 .. Len(grants)
        BY <1>a, <1>c, <3>a, <3>3, SMT
      <4>q. QED
        BY <2>2, <3>a, <3>2, <3>3, <4>1 DEF IInv, WindowBound
    <3>4. CASE i + MaxAttempts = Len(grants) + 1
      <4>1. Run > 0 /\ i <= Len(grants) - Run
        BY <1>a, <1>c, <1>3, <2>3, <2>5, <3>a, <3>4, SMT
      <4>2. /\ Len(grants) - Run \in 1 .. Len(grants)
            /\ Len(grants) - Run + 1 \in 1 .. Len(grants)
            /\ Run < Len(grants)
        BY <1>c, <2>3, <3>a, <4>1, SMT
      <4>3. grants[i] <= grants[Len(grants) - Run]
        BY <1>b, <3>a, <4>1, <4>2
      <4>4. grants[Len(grants) - Run + 1] <= lastAttempt
        BY <1>b, <4>2
      <4>5. now - grants[i] > Window
        <5>1. /\ grants[i] \in Nat /\ grants[Len(grants) - Run] \in Nat
              /\ grants[Len(grants) - Run + 1] \in Nat
          BY <1>b, <3>a, <4>2
        <5>2. grants[Len(grants) - Run + 1] - grants[Len(grants) - Run] > Window
          BY <2>5, <4>1, <4>2
        <5>q. QED
          BY <1>0, <1>a, <4>3, <4>4, <5>1, <5>2, Spans
      <4>q. QED
        BY <2>2, <3>2, <3>4, <4>5
    <3>q. QED
      BY <3>a, <3>3, <3>4
  <2>11. Rejected'
    BY <1>0, <1>a, <1>3, SMT DEF IInv, Rejected
  <2>q. QED
    BY <2>6, <2>7, <2>8, <2>9, <2>10, <2>11 DEF IInv
<1>4. CASE /\ ~Idle /\ cb.attempts = MaxAttempts
           /\ cb' = [attempts |-> cb.attempts + 1, tripped |-> TRUE]
           /\ tries' = Append(tries, now)
           /\ lastAttempt' = now /\ UNCHANGED <<now, grants, lastReject>>
  <2>1. cb'.attempts = MaxAttempts + 1 /\ cb'.tripped = TRUE
    BY <1>4
  <2>2. /\ tries' \in Seq(Nat) /\ tries' # <<>>
        /\ tries'[Len(tries')] = now
    BY <1>0, <1>4, Appended
  <2>3. Run = MaxAttempts /\ Run' = MaxAttempts
    BY <1>0, <1>4, <1>a, <2>1, SMT DEF Run
  <2>4. TypeOK'
    BY <1>0, <1>4, <1>a, <2>2, SMT DEF TypeOK, Breaker
  <2>5. Clock'
    BY <1>0, <1>4, <1>a, <2>1, <2>2, SMT DEF Clock
  <2>6. Grants'
    BY <1>0, <1>4, <1>b, <2>3, SMT DEF IInv, Grants
  <2>7. Separated'
    BY <1>4, <1>a, <2>1, <2>3 DEF IInv, Separated
  <2>8. WindowBound'
    BY <1>4 DEF IInv, WindowBound
  <2>9. Rejected'
    BY <1>0, <1>a, <1>4, SMT DEF IInv, Rejected
  <2>q. QED
    BY <2>4, <2>5, <2>6, <2>7, <2>8, <2>9 DEF IInv
<1>q. QED
  BY <1>1, <1>2, <1>3, <1>4, CheckCases

-----------------------------------------------------------------------------
(* The inductive invariant holds in every behaviour.                       *)
THEOREM Invariance == Spec => []IInv
<1>1. IInv /\ [Next]_vars => IInv'
  <2>1. SUFFICES ASSUME IInv, [Next]_vars PROVE IInv'
    OBVIOUS
  <2>2. CASE Tick
    BY <2>1, <2>2, TickIInv
  <2>3. CASE Check
    BY <2>1, <2>3, CheckIInv
  <2>4. CASE UNCHANGED vars
    BY <2>1, <2>4 DEF vars, IInv, TypeOK, Clock, Grants, Separated,
                      WindowBound, Rejected, Run
  <2>q. QED
    BY <2>1, <2>2, <2>3, <2>4 DEF Next
<1>q. QED
  BY InitIInv, <1>1, PTL DEF Spec

(* The breaker's entry, the clock and the histories have their types.      *)
THEOREM TypeCorrectness == Spec => []TypeOK
<1>1. IInv => TypeOK
  BY DEF IInv
<1>q. QED
  BY <1>1, Invariance, PTL

(* Any MaxAttempts + 1 consecutive restarts span more than the ten minutes *)
(* of remediation.go 118-134, however the checks are spaced.               *)
THEOREM RestartsAreBounded == Spec => []WindowBound
<1>1. IInv => WindowBound
  BY DEF IInv
<1>q. QED
  BY <1>1, Invariance, PTL

(* A check is turned away only within ten minutes of a counted attempt, so *)
(* rejected checks never prolong the lockout (remediation.go 118-129).     *)
THEOREM LockoutIsBounded == Spec => []LockoutBounded
<1>1. IInv => LockoutBounded
  <2>1. ASSUME IInv, lastReject > 0
        PROVE tries # <<>> /\ lastReject <= tries[Len(tries)] + Window
    <3>1. cb.attempts \in Nat /\ cb.attempts # 0
      BY <2>1, MaxAttemptsAssumption, SMT DEF IInv, TypeOK, Breaker, Clock
    <3>q. QED
      BY <2>1, <3>1, SMT DEF IInv, Clock, Rejected
  <2>q. QED
    BY <2>1 DEF LockoutBounded
<1>q. QED
  BY <1>1, Invariance, PTL

-----------------------------------------------------------------------------
(* The rate limiter.                                                       *)

(* Requests granted to c from his i-th on, in units.                       *)
Spent(c, i) == (Len(granted[c]) - i + 1) * Cost

Credit(c) ==
  \A i \in 1 .. Len(granted[c]) :
    IF c \in limited
      THEN /\ granted[c][i] <= lastRefill[c]
           /\ Spent(c, i) + tokens[c] <= Full + (lastRefill[c] - granted[c][i])
      ELSE Spent(c, i) <= rlNow - granted[c][i]

ClientBound(c) ==
  \A i, j \in 1 .. Len(granted[c]) :
    i <= j => (j - i + 1) * Cost <= Full + (granted[c][j] - granted[c][i])

ClockAhead == \A c \in Clients : lastRefill[c] <= rlNow

RateInv ==
  /\ RateTypeOK
  /\ ClockAhead
  /\ \A c \in Clients : Credit(c) /\ ClientBound(c)

-----------------------------------------------------------------------------
(* A burst is worth a natural number of units, at least one request.       *)
LEMMA FullIsNat == Full \in Nat /\ Cost \in Nat /\ Cost > 0 /\ Cost <= Full
<1>1. Burst \in Nat /\ Burst >= 1 /\ Cost \in Nat /\ Cost >= 1
  BY RateAssumption
<1>2. Burst * Cost \in Nat /\ Burst * Cost >= Cost
  BY <1>1
<1> QED BY <1>1, <1>2 DEF Full

(* One more request costs one more Cost.                                   *)
LEMMA SpentStep ==
  ASSUME NEW n \in Int
  PROVE  (n + 1) * Cost = n * Cost + Cost /\ n * Cost \in Int
BY RateAssumption

(* What Allow finds is at most full, and at most what was there and grew.  *)
LEMMA RefilledBounds ==
  ASSUME RateTypeOK, ClockAhead, NEW c \in Clients
  PROVE  /\ Refilled(c) \in 0 .. Full
         /\ c \in limited => Refilled(c) <= tokens[c] + (rlNow - lastRefill[c])
<1>1. Full \in Nat BY FullIsNat
<1>2. tokens[c] \in 0 .. Full /\ lastRefill[c] \in Nat /\ rlNow \in Nat
      /\ lastRefill[c] <= rlNow
  BY DEF RateTypeOK, ClockAhead
<1> QED BY <1>1, <1>2 DEF Refilled, Grown

(* What is owed to past grants is a whole number of units.                 *)
LEMMA SpentIsNat ==
  ASSUME RateTypeOK, NEW c \in Clients, NEW i \in 1 .. Len(granted[c])
  PROVE  Spent(c, i) \in Nat /\ granted[c][i] \in Nat
<1>1. granted[c] \in Seq(Nat)
  BY DEF RateTypeOK
<1>2. granted[c][i] \in Nat
  BY <1>1
<1>3. Len(granted[c]) \in Nat
  BY <1>1
<1>4. Len(granted[c]) - i + 1 \in Nat
  BY <1>3
<1>5. \A n \in Nat : n * Cost \in Nat
  BY FullIsNat
<1> QED BY <1>2, <1>4, <1>5 DEF Spent

(* When Allow has refilled a bucket, the refills since any grant have paid *)
(* for it, also in a bucket made anew.                                     *)
LEMMA CreditAfterRefill ==
  ASSUME RateInv, NEW c \in Clients, NEW i \in 1 .. Len(granted[c])
  PROVE  /\ granted[c][i] <= rlNow
         /\ Spent(c, i) + Refilled(c) <= Full + (rlNow - granted[c][i])
<1> DEFINE spent == Spent(c, i)
           at == granted[c][i]
           kept == tokens[c]
           last == lastRefill[c]
           found == Refilled(c)
<1>1. spent \in Nat /\ at \in Nat
  BY SpentIsNat DEF RateInv
<1>2. kept \in Nat /\ last \in Nat /\ rlNow \in Nat /\ last <= rlNow /\ Full \in Nat
  BY FullIsNat DEF RateInv, RateTypeOK, ClockAhead
<1>3. found \in 0 .. Full /\ (c \in limited => found <= kept + (rlNow - last))
  BY RefilledBounds DEF RateInv
<1>4. IF c \in limited THEN at <= last /\ spent + kept <= Full + (last - at)
                       ELSE spent <= rlNow - at
  BY DEF RateInv, Credit
<1> HIDE DEF spent, at, kept, last, found
<1>5. at <= rlNow /\ spent + found <= Full + (rlNow - at)
  BY <1>1, <1>2, <1>3, <1>4
<1> QED BY <1>5 DEF spent, at, found

(* The initial state satisfies the invariant: nothing was granted yet.     *)
LEMMA RateInitInv == RateInit => RateInv
<1> SUFFICES ASSUME RateInit PROVE RateInv
  OBVIOUS
<1>1. RateTypeOK
  BY FullIsNat DEF RateInit, RateTypeOK
<1>2. ClockAhead
  <2> SUFFICES ASSUME NEW c \in Clients PROVE lastRefill[c] <= rlNow
    BY DEF ClockAhead
  <2>1. lastRefill[c] = 0 /\ rlNow = 0
    BY DEF RateInit
  <2> QED BY <2>1
<1>3. ASSUME NEW c \in Clients, NEW i \in 1 .. Len(granted[c])
      PROVE  FALSE
  <2>1. granted[c] = <<>>
    BY DEF RateInit
  <2>2. i \in 1 .. 0
    BY <2>1
  <2> QED BY <2>2
<1>4. \A c \in Clients : Credit(c) /\ ClientBound(c)
  BY <1>3 DEF Credit, ClientBound
<1> QED BY <1>1, <1>2, <1>4 DEF RateInv

(* A refused request only settles the refill.                              *)
LEMMA RejectKeepsCredit ==
  ASSUME RateInv, NEW c \in Clients, Allow(c), AllowRejects(c)
  PROVE  Credit(c)' /\ ClientBound(c)'
<1>1. /\ granted' = granted /\ c \in limited'
      /\ tokens'[c] = Refilled(c) /\ lastRefill'[c] = rlNow
  BY DEF RateInv, RateTypeOK, Allow, AllowRejects
<1>2. Credit(c)'
  BY <1>1, CreditAfterRefill DEF Credit, Spent
<1>3. ClientBound(c)'
  BY <1>1 DEF RateInv, ClientBound
<1> QED BY <1>2, <1>3

(* A granted request takes one Cost out of the bucket and adds one to what *)
(* was spent since every earlier grant.                                    *)
LEMMA GrantKeepsCredit ==
  ASSUME RateInv, NEW c \in Clients, Allow(c), AllowGrants(c)
  PROVE  Credit(c)' /\ ClientBound(c)'
<1> DEFINE n == Len(granted[c])
           found == Refilled(c)
           spentNow(i) == (Len(granted'[c]) - i + 1) * Cost
<1>1. /\ granted'[c] = Append(granted[c], rlNow) /\ c \in limited'
      /\ tokens'[c] = found - Cost /\ lastRefill'[c] = rlNow
      /\ found >= Cost
  BY DEF RateInv, RateTypeOK, Allow, AllowGrants
<1>2. /\ rlNow \in Nat /\ Full \in Nat /\ Cost \in Nat /\ n \in Nat
      /\ granted[c] \in Seq(Nat)
  BY FullIsNat DEF RateInv, RateTypeOK
<1>3. found \in 0 .. Full
  BY RefilledBounds DEF RateInv
<1>4. /\ Len(granted'[c]) = n + 1
      /\ \A i \in 1 .. n : granted'[c][i] = granted[c][i]
      /\ granted'[c][n + 1] = rlNow
  BY <1>1, <1>2
<1>5. spentNow(n + 1) = Cost
  <2>1. (n + 1) - (n + 1) + 1 = 1 /\ 1 * Cost = Cost
    BY <1>2
  <2> QED BY <1>4, <2>1
<1>6. ASSUME NEW i \in 1 .. n
      PROVE  spentNow(i) = Spent(c, i) + Cost
  <2>1. (n + 1) - i + 1 = (n - i + 1) + 1 /\ n - i + 1 \in Int
    BY <1>2
  <2>2. ((n - i + 1) + 1) * Cost = (n - i + 1) * Cost + Cost
    BY <2>1, SpentStep
  <2> QED BY <1>4, <2>1, <2>2 DEF Spent
<1>7. ASSUME NEW i \in 1 .. n
      PROVE  /\ granted[c][i] <= rlNow
             /\ Spent(c, i) + found <= Full + (rlNow - granted[c][i])
             /\ Spent(c, i) \in Nat /\ granted[c][i] \in Nat
  BY CreditAfterRefill, SpentIsNat DEF RateInv
<1> HIDE DEF n, found, spentNow
<1>8. ASSUME NEW i \in 1 .. n + 1
      PROVE  /\ granted'[c][i] \in Nat /\ granted'[c][i] <= rlNow
             /\ spentNow(i) \in Nat
             /\ spentNow(i) + (found - Cost) <= Full + (rlNow - granted'[c][i])
  <2>1. CASE i = n + 1
    BY <2>1, <1>2, <1>3, <1>4, <1>5
  <2>2. CASE i \in 1 .. n
    <3>1. granted'[c][i] = granted[c][i] /\ spentNow(i) = Spent(c, i) + Cost
      BY <2>2, <1>4, <1>6
    <3>2. /\ granted[c][i] <= rlNow
          /\ Spent(c, i) + found <= Full + (rlNow - granted[c][i])
          /\ Spent(c, i) \in Nat /\ granted[c][i] \in Nat
      BY <2>2, <1>7
    <3> DEFINE spent == Spent(c, i)
               at == granted[c][i]
    <3> HIDE DEF spent, at
    <3>3. /\ at \in Nat /\ at <= rlNow /\ spent + Cost \in Nat
          /\ (spent + Cost) + (found - Cost) <= Full + (rlNow - at)
      <4>1. spent \in Nat /\ at \in Nat /\ at <= rlNow /\ spent + found <= Full + (rlNow - at)
        BY <3>2 DEF spent, at
      <4> QED BY <4>1, <1>2, <1>3
    <3> QED BY <3>1, <3>3 DEF spent, at
  <2> QED BY <1>2, <2>1, <2>2
<1>9. Credit(c)'
  BY <1>1, <1>4, <1>8 DEF Credit, Spent, n, found, spentNow
<1>10. ClientBound(c)'
  <2> SUFFICES ASSUME NEW i \in 1 .. n + 1, NEW j \in 1 .. n + 1, i <= j
               PROVE  (j - i + 1) * Cost <= Full + (granted'[c][j] - granted'[c][i])
    BY <1>4 DEF ClientBound
  <2>1. CASE j = n + 1
    <3>1. (j - i + 1) * Cost = spentNow(i)
      BY <2>1, <1>4 DEF spentNow
    <3>2. spentNow(i) <= Full + (rlNow - granted'[c][i])
      <4> DEFINE at == granted'[c][i]
                 spent == spentNow(i)
      <4>1. at \in Nat /\ spent \in Nat /\ spent + (found - Cost) <= Full + (rlNow - at)
        BY <1>8
      <4>2. found \in Nat /\ found >= Cost
        BY <1>1, <1>2, <1>3
      <4> HIDE DEF at, spent
      <4>3. spent <= Full + (rlNow - at)
        BY <4>1, <4>2, <1>2
      <4> QED BY <4>3 DEF at, spent
    <3> QED BY <2>1, <3>1, <3>2, <1>4
  <2>2. CASE j \in 1 .. n
    <3>1. i \in 1 .. n
      BY <2>2, <1>2
    <3>2. (j - i + 1) * Cost <= Full + (granted[c][j] - granted[c][i])
      BY <2>2, <3>1 DEF RateInv, ClientBound, n
    <3> QED BY <2>2, <3>1, <3>2, <1>4
  <2>3. j = n + 1 \/ j \in 1 .. n
    BY <1>2
  <2> QED BY <2>1, <2>2, <2>3
<1> QED BY <1>9, <1>10

(* The step of one client leaves the others alone.                         *)
LEMMA AllowKeepsOthers ==
  ASSUME RateInv, NEW c \in Clients, Allow(c), NEW d \in Clients, d # c
  PROVE  Credit(d)' /\ ClientBound(d)'
<1>1. /\ granted'[d] = granted[d] /\ tokens'[d] = tokens[d] /\ rlNow' = rlNow
      /\ lastRefill'[d] = lastRefill[d] /\ (d \in limited' <=> d \in limited)
  BY DEF RateInv, RateTypeOK, Allow, AllowRejects, AllowGrants
<1> QED BY <1>1 DEF RateInv, Credit, ClientBound, Spent

(* The sweep forgets only buckets whose idle time has paid for everything. *)
LEMMA CleanupKeepsCredit ==
  ASSUME RateInv, Cleanup, NEW c \in Clients
  PROVE  Credit(c)' /\ ClientBound(c)'
<1>1. granted' = granted /\ tokens' = tokens /\ rlNow' = rlNow /\ lastRefill' = lastRefill
  BY DEF Cleanup
<1>2. CASE c \in limited'
  <2>1. c \in limited
    BY <1>2 DEF Cleanup
  <2> QED BY <1>1, <1>2, <2>1 DEF RateInv, Credit, ClientBound, Spent
<1>3. CASE c \notin limited /\ c \notin limited'
  BY <1>1, <1>3 DEF RateInv, Credit, ClientBound, Spent
<1>4. CASE c \in limited /\ c \notin limited'
  <2>1. rlNow - lastRefill[c] > IdleLimit /\ lastRefill[c] \in Nat /\ rlNow \in Nat
    BY <1>4, RateAssumption DEF Cleanup, RateInv, RateTypeOK
  <2>2. ASSUME NEW i \in 1 .. Len(granted[c])
        PROVE  Spent(c, i) <= rlNow - granted[c][i]
    <3> DEFINE spent == Spent(c, i)
               at == granted[c][i]
               kept == tokens[c]
               last == lastRefill[c]
    <3>1. spent \in Nat /\ at \in Nat
      BY SpentIsNat DEF RateInv
    <3>2. at <= last /\ spent + kept <= Full + (last - at)
      BY <1>4 DEF RateInv, Credit
    <3>3. kept \in Nat /\ Full \in Nat /\ Full <= IdleLimit /\ IdleLimit \in Nat
      BY FullIsNat, RateAssumption DEF RateInv, RateTypeOK
    <3>4. rlNow - last > IdleLimit /\ last \in Nat /\ rlNow \in Nat
      BY <2>1
    <3> HIDE DEF spent, at, kept, last
    <3>5. spent <= rlNow - at
      BY <3>1, <3>2, <3>3, <3>4
    <3> QED BY <3>5 DEF spent, at
  <2>3. Credit(c)'
    BY <1>1, <1>4, <2>2 DEF Credit, Spent
  <2> QED BY <1>1, <2>3 DEF RateInv, ClientBound
<1> QED BY <1>2, <1>3, <1>4 DEF Cleanup

(* Time only adds to what an absent client has waited.                     *)
LEMMA TickKeepsCredit ==
  ASSUME RateInv, LimiterTick, NEW c \in Clients
  PROVE  Credit(c)' /\ ClientBound(c)'
<1>1. /\ granted' = granted /\ tokens' = tokens /\ limited' = limited
      /\ lastRefill' = lastRefill /\ rlNow' = rlNow + 1 /\ rlNow \in Nat
  BY DEF LimiterTick, RateInv, RateTypeOK
<1>2. \A i \in 1 .. Len(granted[c]) : Spent(c, i) \in Nat /\ granted[c][i] \in Nat
  BY SpentIsNat DEF RateInv
<1>3. Credit(c)'
  BY <1>1, <1>2 DEF RateInv, Credit, Spent
<1> QED BY <1>1, <1>3 DEF RateInv, ClientBound

(* Every step keeps the types and the clock ahead of the refills.          *)
LEMMA StepKeepsTypes ==
  ASSUME RateInv, [RateNext]_rateVars
  PROVE  RateTypeOK' /\ ClockAhead'
<1>1. ASSUME NEW c \in Clients, Allow(c)
      PROVE  RateTypeOK' /\ ClockAhead'
  <2>1. Refilled(c) \in 0 .. Full /\ Full \in Nat /\ Cost \in Nat
    BY RefilledBounds, FullIsNat DEF RateInv
  <2>2. limited' \subseteq Clients /\ rlNow' \in Nat /\ lastRefill' \in [Clients -> Nat]
    BY <1>1 DEF RateInv, RateTypeOK, Allow
  <2>3. CASE AllowRejects(c)
    BY <1>1, <2>1, <2>2, <2>3 DEF RateInv, RateTypeOK, ClockAhead, Allow, AllowRejects
  <2>4. CASE AllowGrants(c)
    <3>1. Refilled(c) - Cost \in 0 .. Full
      BY <2>1, <2>4 DEF AllowGrants
    <3>2. tokens' \in [Clients -> 0 .. Full]
      BY <3>1, <2>4 DEF RateInv, RateTypeOK, AllowGrants
    <3>3. granted' \in [Clients -> Seq(Nat)]
      BY <2>4 DEF RateInv, RateTypeOK, AllowGrants
    <3> QED BY <1>1, <2>2, <3>2, <3>3 DEF RateInv, RateTypeOK, ClockAhead, Allow
  <2> QED BY <1>1, <2>3, <2>4 DEF Allow
<1>2. ASSUME Cleanup PROVE RateTypeOK' /\ ClockAhead'
  BY <1>2 DEF RateInv, RateTypeOK, ClockAhead, Cleanup
<1>3. ASSUME LimiterTick PROVE RateTypeOK' /\ ClockAhead'
  BY <1>3 DEF RateInv, RateTypeOK, ClockAhead, LimiterTick
<1>4. ASSUME UNCHANGED rateVars PROVE RateTypeOK' /\ ClockAhead'
  BY <1>4 DEF RateInv, RateTypeOK, ClockAhead, rateVars
<1> QED BY <1>1, <1>2, <1>3, <1>4 DEF RateNext

(* The invariant is inductive.                                             *)
LEMMA RateStepInv == RateInv /\ [RateNext]_rateVars => RateInv'
<1> SUFFICES ASSUME RateInv, [RateNext]_rateVars PROVE RateInv'
  OBVIOUS
<1>1. RateTypeOK' /\ ClockAhead'
  BY StepKeepsTypes
<1>2. ASSUME NEW c \in Clients, Allow(c), NEW d \in Clients
      PROVE  Credit(d)' /\ ClientBound(d)'
  <2>1. CASE d # c
    BY <1>2, <2>1, AllowKeepsOthers
  <2>2. CASE d = c /\ AllowRejects(c)
    BY <1>2, <2>2, RejectKeepsCredit
  <2>3. CASE d = c /\ AllowGrants(c)
    BY <1>2, <2>3, GrantKeepsCredit
  <2> QED BY <1>2, <2>1, <2>2, <2>3 DEF Allow
<1>3. ASSUME Cleanup, NEW d \in Clients PROVE Credit(d)' /\ ClientBound(d)'
  BY <1>3, CleanupKeepsCredit
<1>4. ASSUME LimiterTick, NEW d \in Clients PROVE Credit(d)' /\ ClientBound(d)'
  BY <1>4, TickKeepsCredit
<1>5. ASSUME UNCHANGED rateVars, NEW d \in Clients PROVE Credit(d)' /\ ClientBound(d)'
  BY <1>5 DEF RateInv, Credit, ClientBound, Spent, rateVars
<1>6. \A d \in Clients : Credit(d)' /\ ClientBound(d)'
  BY <1>2, <1>3, <1>4, <1>5 DEF RateNext
<1> QED BY <1>1, <1>6 DEF RateInv

-----------------------------------------------------------------------------
(* The buckets keep their types and never hold more than the burst.        *)
THEOREM RateTypesHold == RateSpec => []RateTypeOK
<1>1. RateInv => RateTypeOK
  BY DEF RateInv
<1> QED BY RateInitInv, RateStepInv, <1>1, PTL DEF RateSpec

(* No key is ever granted more than the burst and the refills of the time  *)
(* its requests spread over, whatever burst, rate and sweep, provided      *)
(* a bucket is full again before it may be forgotten.                      *)
THEOREM RateBoundHolds == RateSpec => []RateBound
<1>1. RateInv => RateBound
  BY DEF RateInv, RateBound, ClientBound
<1> QED BY RateInitInv, RateStepInv, <1>1, PTL DEF RateSpec

-----------------------------------------------------------------------------
(* The WebSocket hub.                                                      *)

(* The read lock is held exactly while the broadcaster writes, and whom it *)
(* writes to is in the hub.                                                *)
HubInv ==
  /\ HubTypeOK
  /\ unsent \in Seq(WsClients)
  /\ hubReading <=> broadcaster = "writing"
  /\ ~hubReading => unsent = <<>>

LEMMA HubInitInv == HubInit => HubInv
<1> SUFFICES ASSUME HubInit PROVE HubInv
  OBVIOUS
<1>1. ToSet(unsent) = {} /\ unsent \in Seq(WsClients)
  BY DEF HubInit, ToSet
<1>2. unread \in [WsClients -> 0 .. MaxUnread]
  BY HubAssumption DEF HubInit
<1> QED BY <1>1, <1>2 DEF HubInit, HubInv, HubTypeOK

LEMMA HandlerKeepsHub ==
  ASSUME HubInv, NEW c \in WsClients,
         \/ ClientConnects(c) \/ ClientReads(c) \/ ConnectionBreaks(c)
         \/ HandlerLocks(c) \/ HandlerUpdates(c) \/ ReadReturnsError(c)
  PROVE  HubInv'
<1>1. UNCHANGED <<broadcaster, unsent, hubReading>>
  BY DEF ClientConnects, ClientReads, ConnectionBreaks, HandlerLocks, HandlerUpdates,
     ReadReturnsError, hubLockVars
<1>2. unread' \in [WsClients -> 0 .. MaxUnread]
  <2>1. unread \in [WsClients -> 0 .. MaxUnread] /\ MaxUnread \in Nat
    BY HubAssumption DEF HubInv, HubTypeOK
  <2>2. CASE ClientConnects(c)
    BY <2>1, <2>2 DEF ClientConnects
  <2>3. CASE ClientReads(c)
    <3>1. unread' = [unread EXCEPT ![c] = unread[c] - 1] /\ unread[c] > 0
      BY <2>3 DEF ClientReads
    <3>2. unread[c] - 1 \in 0 .. MaxUnread
      BY <2>1, <3>1
    <3> QED BY <2>1, <3>1, <3>2
  <2>4. CASE ConnectionBreaks(c) \/ HandlerLocks(c) \/ HandlerUpdates(c) \/ ReadReturnsError(c)
    BY <2>1, <2>4 DEF ConnectionBreaks, HandlerLocks, HandlerUpdates, ReadReturnsError
  <2> QED BY <2>2, <2>3, <2>4
<1>3. hubWriter' \in WsClients \cup {"none"}
      /\ wsHandler' \in [WsClients -> {"none", "adding", "reading", "removing"}]
  BY DEF HubInv, HubTypeOK, ClientConnects, ClientReads, ConnectionBreaks,
     HandlerLocks, HandlerUpdates, ReadReturnsError, hubLockVars
<1>4. hubClients' \subseteq WsClients /\ (hubClients' = hubClients \/ ~hubReading)
  BY DEF HubInv, HubTypeOK, ClientConnects, ClientReads, ConnectionBreaks,
     HandlerLocks, HandlerUpdates, ReadReturnsError
<1>5. ToSet(unsent') \subseteq hubClients'
  <2>1. CASE hubClients' = hubClients
    BY <1>1, <2>1 DEF HubInv, HubTypeOK, ToSet
  <2>2. CASE ~hubReading
    BY <1>1, <2>2 DEF HubInv, ToSet
  <2> QED BY <1>4, <2>1, <2>2
<1> QED BY <1>1, <1>2, <1>3, <1>4, <1>5 DEF HubInv, HubTypeOK

LEMMA BroadcasterKeepsHub ==
  ASSUME HubInv, CountsClients \/ BroadcastBegins \/ WritesNext \/ BroadcastEnds
  PROVE  HubInv'
<1>1. CASE CountsClients
  BY <1>1 DEF CountsClients, HubInv, HubTypeOK, hubLockVars, ToSet
<1>2. CASE BroadcastBegins
  <2>1. unsent' \in Seq(WsClients) /\ ToSet(unsent') = hubClients
    <3>1. hubClients \subseteq WsClients /\ IsFiniteSet(hubClients)
      BY HubAssumption, FS_Subset DEF HubInv, HubTypeOK
    <3>2. unsent' \in SetToSeqs(hubClients)
      BY <1>2 DEF BroadcastBegins
    <3>3. unsent' \in Seq(hubClients) /\ ToSet(unsent') = hubClients
      BY <3>1, <3>2, ListingFacts
    <3> QED BY <3>1, <3>3
  <2> QED BY <1>2, <2>1 DEF BroadcastBegins, HubInv, HubTypeOK
<1>3. CASE WritesNext
  <2>1. /\ unsent # <<>> /\ unsent' = Tail(unsent)
        /\ UNCHANGED <<hubClients, hubReading, hubWriter, wsHandler, broadcaster>>
    BY <1>3 DEF WritesNext, hubLockVars
  <2>2. unsent' \in Seq(WsClients) /\ ToSet(unsent') \subseteq ToSet(unsent)
    BY <2>1 DEF HubInv, ToSet
  <2>3. unread' \in [WsClients -> 0 .. MaxUnread]
    BY <1>3, HubAssumption DEF WritesNext, HubInv, HubTypeOK
  <2>4. hubReading
    BY <2>1 DEF HubInv
  <2> QED BY <2>1, <2>2, <2>3, <2>4 DEF HubInv, HubTypeOK
<1>4. CASE BroadcastEnds
  BY <1>4 DEF BroadcastEnds, HubInv, HubTypeOK, ToSet
<1> QED BY <1>1, <1>2, <1>3, <1>4

LEMMA HubStepKeepsInv == HubInv /\ [HubNext]_hubVars => HubInv'
<1> SUFFICES ASSUME HubInv, [HubNext]_hubVars PROVE HubInv'
  OBVIOUS
<1>1. CASE UNCHANGED hubVars
  BY <1>1 DEF hubVars, hubLockVars, HubInv, HubTypeOK, ToSet
<1> QED BY <1>1, HandlerKeepsHub, BroadcasterKeepsHub DEF HubNext

(* The map of clients stays as it is while the broadcaster ranges over it, *)
(* and no connection is given more than its buffers take, for any clients  *)
(* who come, go and break (websocket.go 25-97).                            *)
THEOREM HubTypesHold == HubSpec => []HubTypeOK
<1>1. HubInv => HubTypeOK
  BY DEF HubInv
<1> QED BY <1>1, HubInitInv, HubStepKeepsInv, PTL DEF HubSpec

-----------------------------------------------------------------------------
(* The audit store.                                                        *)

Entries == Auditors \X Nat \X [Auditors -> Int]

AuditTypes ==
  /\ entries \in Seq(Entries) /\ auditFile \in Seq(Entries) /\ inserted \in Seq(Entries)
  /\ fileClosed \in BOOLEAN
  /\ auditor \in [Auditors -> {"idle", "memory", "file"}]
  /\ logged \in [Auditors -> 0 .. EntriesEach]
  /\ after \in [Auditors -> [Auditors -> Int]]

(* The memory is the end of what was inserted.                             *)
MemoryIsLatest ==
  /\ Len(entries) = IF Len(inserted) < MaxEntries THEN Len(inserted) ELSE MaxEntries
  /\ \A i \in 1 .. Len(entries) : entries[i] = inserted[Len(inserted) - Len(entries) + i]

(* What a caller has under way is later than what he has put anywhere.     *)
UnderWayIsLater ==
  \A a \in Auditors :
    /\ \A i \in 1 .. Len(inserted) : inserted[i][1] = a =>
         IF auditor[a] = "memory" THEN inserted[i][2] < logged[a] ELSE inserted[i][2] <= logged[a]
    /\ \A i \in 1 .. Len(auditFile) : auditFile[i][1] = a =>
         IF auditor[a] = "idle" THEN auditFile[i][2] <= logged[a] ELSE auditFile[i][2] < logged[a]

AuditInv ==
  /\ AuditTypes /\ MemoryIsLatest /\ UnderWayIsLater
  /\ Ascending(inserted) /\ Ascending(auditFile)

(* Appending one entry to a trail.                                         *)
LEMMA AppendEntry ==
  ASSUME NEW trail \in Seq(Entries), NEW e \in Entries
  PROVE  /\ Append(trail, e) \in Seq(Entries)
         /\ Len(Append(trail, e)) = Len(trail) + 1 /\ Len(trail) \in Nat
         /\ Append(trail, e)[Len(trail) + 1] = e
         /\ \A i \in 1 .. Len(trail) : Append(trail, e)[i] = trail[i]
         /\ \A i \in 1 .. Len(trail) + 1 : i \in 1 .. Len(trail) \/ i = Len(trail) + 1
         /\ ToSet(Append(trail, e)) = ToSet(trail) \cup {e}
<1>1. /\ Append(trail, e) \in Seq(Entries)
      /\ Len(Append(trail, e)) = Len(trail) + 1 /\ Len(trail) \in Nat
      /\ Append(trail, e)[Len(trail) + 1] = e
      /\ \A i \in 1 .. Len(trail) : Append(trail, e)[i] = trail[i]
      /\ DOMAIN trail = 1 .. Len(trail) /\ DOMAIN Append(trail, e) = 1 .. Len(trail) + 1
  OBVIOUS
<1>2. /\ \A i \in 1 .. Len(trail) + 1 : i \in 1 .. Len(trail) \/ i = Len(trail) + 1
      /\ \A i \in 1 .. Len(trail) : i \in 1 .. Len(trail) + 1
      /\ Len(trail) + 1 \in 1 .. Len(trail) + 1
  BY <1>1
<1>3. ToSet(Append(trail, e)) = ToSet(trail) \cup {e}
  BY <1>1, <1>2, Zenon DEF ToSet
<1> QED BY <1>1, <1>2, <1>3

LEMMA EntryParts ==
  ASSUME NEW trail \in Seq(Entries), NEW i \in 1 .. Len(trail)
  PROVE  trail[i][1] \in Auditors /\ trail[i][2] \in Nat /\ trail[i][3] \in [Auditors -> Int]
<1>1. trail[i] \in Entries
  <2> HIDE DEF Entries
  <2> QED OBVIOUS
<1> QED BY <1>1 DEF Entries

(* A trail stays in order when what is appended is later than all its      *)
(* caller has in it.                                                       *)
LEMMA AscendingAppend ==
  ASSUME NEW trail \in Seq(Entries), NEW e \in Entries, Ascending(trail),
         \A i \in 1 .. Len(trail) : trail[i][1] = e[1] => trail[i][2] < e[2]
  PROVE  Ascending(Append(trail, e))
<1> DEFINE n == Len(trail)
           longer == Append(trail, e)
<1>1. /\ n \in Nat /\ Len(longer) = n + 1 /\ longer[n + 1] = e
      /\ \A i \in 1 .. n : longer[i] = trail[i]
      /\ \A i \in 1 .. n + 1 : i \in 1 .. n \/ i = n + 1
  BY AppendEntry
<1> SUFFICES ASSUME NEW i \in 1 .. n + 1, NEW j \in 1 .. n + 1, i < j,
                    longer[i][1] = longer[j][1]
             PROVE  longer[i][2] < longer[j][2]
  BY <1>1 DEF Ascending
<1>2. i \in 1 .. n
  BY <1>1
<1> HIDE DEF longer
<1>3. CASE j \in 1 .. n
  BY <1>1, <1>2, <1>3 DEF Ascending
<1>4. CASE j = n + 1
  BY <1>1, <1>2, <1>4
<1> QED BY <1>1, <1>3, <1>4

LEMMA ReturnedIsInt == AuditTypes => \A b \in Auditors : Returned(b) \in Int
BY AuditAssumption DEF AuditTypes, Returned

LEMMA AuditInitInv == AuditInit => AuditInv
<1> SUFFICES ASSUME AuditInit PROVE AuditInv
  OBVIOUS
<1>1. /\ entries = <<>> /\ auditFile = <<>> /\ inserted = <<>>
      /\ Len(<<>>) = 0 /\ <<>> \in Seq(Entries)
  BY DEF AuditInit
<1>2. AuditTypes
  <2>1. 0 \in 0 .. EntriesEach
    BY AuditAssumption
  <2>2. /\ auditor \in [Auditors -> {"idle", "memory", "file"}] /\ logged \in [Auditors -> 0 .. EntriesEach]
        /\ after \in [Auditors -> [Auditors -> Int]]
    BY <2>1 DEF AuditInit
  <2>3. fileClosed \in BOOLEAN
    BY DEF AuditInit
  <2> HIDE DEF Entries
  <2> QED BY <1>1, <2>2, <2>3 DEF AuditTypes
<1>3. MemoryIsLatest /\ UnderWayIsLater /\ Ascending(inserted) /\ Ascending(auditFile)
  BY <1>1, AuditAssumption DEF MemoryIsLatest, UnderWayIsLater, Ascending
<1> QED BY <1>2, <1>3 DEF AuditInv

LEMMA LogBeginsKeepsInv == ASSUME AuditInv, NEW a \in Auditors, LogBegins(a) PROVE AuditInv'
<1>1. /\ auditor[a] = "idle" /\ logged[a] < EntriesEach
      /\ logged' = [logged EXCEPT ![a] = @ + 1]
      /\ after' = [after EXCEPT ![a] = [b \in Auditors |-> Returned(b)]]
      /\ auditor' = [auditor EXCEPT ![a] = "memory"]
      /\ UNCHANGED <<entries, auditFile, fileClosed, inserted>>
  BY DEF LogBegins
<1>2. AuditTypes /\ UnderWayIsLater /\ EntriesEach \in Nat
  BY AuditAssumption DEF AuditInv
<1>3. AuditTypes'
  <2>1. \A b \in Auditors : Returned(b) \in Int
    BY <1>2, ReturnedIsInt
  <2>2. after' \in [Auditors -> [Auditors -> Int]]
    BY <1>1, <1>2, <2>1, Zenon DEF AuditTypes
  <2>3. logged' \in [Auditors -> 0 .. EntriesEach] /\ auditor' \in [Auditors -> {"idle", "memory", "file"}]
    BY <1>1, <1>2 DEF AuditTypes
  <2> QED BY <1>1, <1>2, <2>2, <2>3 DEF AuditTypes
<1>4. UnderWayIsLater'
  <2> SUFFICES ASSUME NEW c \in Auditors
               PROVE  /\ \A i \in 1 .. Len(inserted) : inserted[i][1] = c =>
                           IF auditor'[c] = "memory" THEN inserted[i][2] < logged'[c]
                           ELSE inserted[i][2] <= logged'[c]
                      /\ \A i \in 1 .. Len(auditFile) : auditFile[i][1] = c =>
                           IF auditor'[c] = "idle" THEN auditFile[i][2] <= logged'[c]
                           ELSE auditFile[i][2] < logged'[c]
    BY <1>1 DEF UnderWayIsLater
  <2>1. CASE c = a
    <3>1. auditor'[c] = "memory" /\ logged'[c] = logged[c] + 1 /\ logged[c] \in Nat
      BY <1>1, <1>2, <2>1 DEF AuditTypes
    <3>2. /\ \A i \in 1 .. Len(inserted) : inserted[i][2] \in Nat
          /\ \A i \in 1 .. Len(auditFile) : auditFile[i][2] \in Nat
      BY <1>2, EntryParts DEF AuditTypes
    <3>3. /\ \A i \in 1 .. Len(inserted) : inserted[i][1] = c => inserted[i][2] <= logged[c]
          /\ \A i \in 1 .. Len(auditFile) : auditFile[i][1] = c => auditFile[i][2] <= logged[c]
      BY <1>1, <1>2, <2>1 DEF UnderWayIsLater
    <3>4. ASSUME NEW k \in Nat, k <= logged[c] PROVE k < logged'[c] /\ k <= logged'[c]
      BY <3>1, <3>4
    <3>5. \A i \in 1 .. Len(inserted) : inserted[i][1] = c => inserted[i][2] < logged'[c]
      BY <3>2, <3>3, <3>4
    <3>6. \A i \in 1 .. Len(auditFile) : auditFile[i][1] = c => auditFile[i][2] < logged'[c]
      BY <3>2, <3>3, <3>4
    <3> QED BY <3>1, <3>5, <3>6
  <2>2. CASE c # a
    <3>1. auditor'[c] = auditor[c] /\ logged'[c] = logged[c]
      BY <1>1, <1>2, <2>2 DEF AuditTypes
    <3> QED BY <1>2, <3>1 DEF UnderWayIsLater
  <2> QED BY <2>1, <2>2
<1> QED BY <1>1, <1>3, <1>4 DEF AuditInv, MemoryIsLatest

LEMMA LogInMemoryKeepsInv ==
  ASSUME AuditInv, NEW a \in Auditors, LogInMemory(a) PROVE AuditInv'
<1> DEFINE e == EntryOf(a)
           n == Len(inserted)
           m == Len(entries)
<1>1. /\ auditor[a] = "memory"
      /\ entries' = Capped(Append(entries, e)) /\ inserted' = Append(inserted, e)
      /\ auditor' = [auditor EXCEPT ![a] = "file"]
      /\ UNCHANGED <<auditFile, fileClosed, logged, after>>
  BY DEF LogInMemory
<1>2. AuditTypes /\ MemoryIsLatest /\ UnderWayIsLater /\ Ascending(inserted)
      /\ MaxEntries \in Nat \ {0} /\ EntriesEach \in Nat
  BY AuditAssumption DEF AuditInv
<1>3. /\ e \in Entries /\ e[1] = a /\ e[2] = logged[a]
      /\ entries \in Seq(Entries) /\ inserted \in Seq(Entries)
  BY <1>2 DEF AuditTypes, Entries, EntryOf
<1> HIDE DEF e
<1>4. /\ inserted' \in Seq(Entries) /\ n \in Nat /\ Len(inserted') = n + 1
      /\ inserted'[n + 1] = e
      /\ \A i \in 1 .. n : inserted'[i] = inserted[i]
      /\ \A i \in 1 .. n + 1 : i \in 1 .. n \/ i = n + 1
  BY <1>1, <1>3, AppendEntry
<1>5. /\ Append(entries, e) \in Seq(Entries) /\ m \in Nat /\ Len(Append(entries, e)) = m + 1
      /\ Append(entries, e)[m + 1] = e
      /\ \A i \in 1 .. m : Append(entries, e)[i] = entries[i]
  BY <1>3, AppendEntry
<1>6. /\ m = IF n < MaxEntries THEN n ELSE MaxEntries
      /\ \A i \in 1 .. m : entries[i] = inserted[n - m + i]
  BY <1>2 DEF MemoryIsLatest
<1>7. entries' \in Seq(Entries) /\ MemoryIsLatest'
  <2>1. CASE m + 1 > MaxEntries
    <3>1. m = MaxEntries /\ n >= MaxEntries
      BY <1>2, <1>4, <1>6, <2>1
    <3>2. entries' = SubSeq(Append(entries, e), 2, m + 1)
      BY <1>1, <1>2, <1>5, <2>1, <3>1 DEF Capped, LastOf
    <3> HIDE DEF n, m
    <3>3. /\ entries' \in Seq(Entries) /\ Len(entries') = m
          /\ \A i \in 1 .. m : entries'[i] = Append(entries, e)[i + 1]
      BY <1>2, <1>5, <3>1, <3>2
    <3>4. ASSUME NEW i \in 1 .. m PROVE entries'[i] = inserted'[n + 1 - m + i]
      <4>1. CASE i = m
        <5>1. n + 1 - m + i = n + 1 /\ i + 1 = m + 1
          BY <1>4, <1>5, <4>1
        <5>2. entries'[i] = e
          BY <1>5, <3>3, <5>1
        <5> QED BY <1>4, <5>1, <5>2
      <4>2. CASE i # m
        <5>1. i + 1 \in 1 .. m /\ n + 1 - m + i \in 1 .. n /\ n - m + (i + 1) = n + 1 - m + i
          BY <1>2, <1>4, <1>5, <3>1, <4>2
        <5>2. entries'[i] = entries[i + 1]
          BY <1>5, <3>3, <5>1
        <5>3. entries[i + 1] = inserted[n + 1 - m + i]
          BY <1>6, <5>1
        <5> QED BY <1>4, <5>1, <5>2, <5>3
      <4> QED BY <4>1, <4>2
    <3>5. Len(entries') = IF Len(inserted') < MaxEntries THEN Len(inserted') ELSE MaxEntries
      BY <1>2, <1>4, <3>1, <3>3
    <3>6. \A i \in 1 .. Len(entries') :
            entries'[i] = inserted'[Len(inserted') - Len(entries') + i]
      <4>1. Len(inserted') = n + 1 /\ Len(entries') = m
        BY <1>4, <3>3
      <4> SUFFICES ASSUME NEW i \in 1 .. m
                   PROVE  entries'[i] = inserted'[Len(inserted') - Len(entries') + i]
        BY <4>1
      <4>2. entries'[i] = inserted'[n + 1 - m + i]
        BY <3>4
      <4>3. Len(inserted') - Len(entries') + i = n + 1 - m + i
        BY <1>4, <1>5, <4>1
      <4> QED BY <4>2, <4>3
    <3> QED BY Zenon, <3>3, <3>5, <3>6 DEF MemoryIsLatest
  <2>2. CASE ~(m + 1 > MaxEntries)
    <3>1. m = n /\ n < MaxEntries
      BY <1>2, <1>4, <1>5, <1>6, <2>2
    <3>2. entries' = Append(entries, e)
      BY <1>1, <1>5, <2>2 DEF Capped
    <3>3. ASSUME NEW i \in 1 .. n + 1 PROVE entries'[i] = inserted'[n + 1 - (m + 1) + i]
      <4>1. n + 1 - (m + 1) + i = i
        BY <1>4, <1>5, <3>1
      <4>2. CASE i = n + 1
        BY <1>4, <1>5, <3>1, <3>2, <4>1, <4>2
      <4>3. CASE i \in 1 .. n
        <5>1. n - m + i = i
          BY <1>4, <1>5, <3>1
        <5> QED BY <1>4, <1>5, <1>6, <3>1, <3>2, <4>1, <4>3, <5>1
      <4> QED BY <1>4, <4>2, <4>3
    <3>4. Len(entries') = n + 1
      BY <1>5, <3>1, <3>2
    <3>5. Len(entries') = IF Len(inserted') < MaxEntries THEN Len(inserted') ELSE MaxEntries
      BY <1>2, <1>4, <3>1, <3>4
    <3> QED BY <1>4, <1>5, <3>1, <3>2, <3>3, <3>4, <3>5 DEF MemoryIsLatest
  <2> QED BY <2>1, <2>2
<1>8. Ascending(inserted')
  BY <1>1, <1>2, <1>3, AscendingAppend DEF UnderWayIsLater
<1>9. AuditTypes'
  BY <1>1, <1>2, <1>4, <1>7 DEF AuditTypes
<1>10. UnderWayIsLater'
  <2> SUFFICES ASSUME NEW c \in Auditors
               PROVE  /\ \A i \in 1 .. n + 1 : inserted'[i][1] = c =>
                           IF auditor'[c] = "memory" THEN inserted'[i][2] < logged[c]
                           ELSE inserted'[i][2] <= logged[c]
                      /\ \A i \in 1 .. Len(auditFile) : auditFile[i][1] = c =>
                           IF auditor'[c] = "idle" THEN auditFile[i][2] <= logged[c]
                           ELSE auditFile[i][2] < logged[c]
    BY <1>1, <1>4 DEF UnderWayIsLater
  <2>1. auditor'[c] = IF c = a THEN "file" ELSE auditor[c]
    BY <1>1, <1>2 DEF AuditTypes
  <2>2. logged[c] \in Nat
    BY <1>2 DEF AuditTypes
  <2>3. ASSUME NEW i \in 1 .. n + 1, inserted'[i][1] = c
        PROVE  IF auditor'[c] = "memory" THEN inserted'[i][2] < logged[c]
               ELSE inserted'[i][2] <= logged[c]
    <3>1. CASE i = n + 1
      BY <1>3, <1>4, <2>1, <2>2, <2>3, <3>1
    <3>2. CASE i \in 1 .. n
      <4>1. inserted[i][2] \in Nat /\ inserted'[i] = inserted[i]
        BY <1>3, <1>4, <3>2, EntryParts
      <4>2. IF auditor[c] = "memory" THEN inserted[i][2] < logged[c]
            ELSE inserted[i][2] <= logged[c]
        BY <1>2, <2>3, <3>2, <4>1 DEF UnderWayIsLater
      <4> QED BY <1>1, <2>1, <2>2, <4>1, <4>2
    <3> QED BY <1>4, <3>1, <3>2
  <2>4. \A i \in 1 .. Len(auditFile) : auditFile[i][1] = c =>
           IF auditor'[c] = "idle" THEN auditFile[i][2] <= logged[c]
           ELSE auditFile[i][2] < logged[c]
    BY <1>1, <1>2, <2>1 DEF UnderWayIsLater
  <2> QED BY <2>3, <2>4
<1> QED BY <1>1, <1>7, <1>8, <1>9, <1>10 DEF AuditInv

LEMMA LogInFileKeepsInv ==
  ASSUME AuditInv, NEW a \in Auditors, LogInFile(a) PROVE AuditInv'
<1> DEFINE e == EntryOf(a)
           n == Len(auditFile)
<1>1. /\ auditor[a] = "file"
      /\ auditFile' = Append(auditFile, e) \/ auditFile' = auditFile
      /\ auditor' = [auditor EXCEPT ![a] = "idle"]
      /\ UNCHANGED <<entries, fileClosed, logged, inserted, after>>
  BY DEF LogInFile
<1>2. AuditTypes /\ UnderWayIsLater /\ Ascending(auditFile)
  BY DEF AuditInv
<1>3. /\ e \in Entries /\ e[1] = a /\ e[2] = logged[a]
      /\ auditFile \in Seq(Entries) /\ inserted \in Seq(Entries)
  BY <1>2 DEF AuditTypes, Entries, EntryOf
<1> HIDE DEF e
<1>4. /\ auditFile' \in Seq(Entries) /\ Ascending(auditFile')
  <2>1. CASE auditFile' = auditFile
    BY <1>2, <1>3, <2>1
  <2>2. CASE auditFile' = Append(auditFile, e)
    <3>1. \A i \in 1 .. n : auditFile[i][1] = e[1] => auditFile[i][2] < e[2]
      BY <1>1, <1>2, <1>3 DEF UnderWayIsLater
    <3> QED BY <1>1, <1>2, <1>3, <2>2, <3>1, AppendEntry, AscendingAppend
  <2> QED BY <1>1, <2>1, <2>2
<1>5. AuditTypes'
  BY <1>1, <1>2, <1>4 DEF AuditTypes
<1>6. UnderWayIsLater'
  <2> SUFFICES ASSUME NEW c \in Auditors
               PROVE  /\ \A i \in 1 .. Len(inserted) : inserted[i][1] = c =>
                           IF auditor'[c] = "memory" THEN inserted[i][2] < logged[c]
                           ELSE inserted[i][2] <= logged[c]
                      /\ \A i \in 1 .. Len(auditFile') : auditFile'[i][1] = c =>
                           IF auditor'[c] = "idle" THEN auditFile'[i][2] <= logged[c]
                           ELSE auditFile'[i][2] < logged[c]
    BY <1>1 DEF UnderWayIsLater
  <2>1. auditor'[c] = (IF c = a THEN "idle" ELSE auditor[c]) /\ logged[c] \in Nat
    BY <1>1, <1>2 DEF AuditTypes
  <2>2. \A i \in 1 .. Len(inserted) : inserted[i][1] = c =>
           IF auditor'[c] = "memory" THEN inserted[i][2] < logged[c]
           ELSE inserted[i][2] <= logged[c]
    BY <1>1, <1>2, <2>1 DEF UnderWayIsLater
  <2>3. ASSUME NEW i \in 1 .. n, auditFile[i][1] = c
        PROVE  IF auditor'[c] = "idle" THEN auditFile[i][2] <= logged[c]
               ELSE auditFile[i][2] < logged[c]
    <3>1. auditFile[i][2] \in Nat
      BY <1>3, EntryParts
    <3>2. IF auditor[c] = "idle" THEN auditFile[i][2] <= logged[c]
          ELSE auditFile[i][2] < logged[c]
      BY <1>2, <2>3 DEF UnderWayIsLater
    <3> QED BY <2>1, <3>1, <3>2
  <2>4. CASE auditFile' = auditFile
    BY <2>2, <2>3, <2>4
  <2>5. CASE auditFile' = Append(auditFile, e)
    <3>1. /\ n \in Nat /\ Len(auditFile') = n + 1 /\ auditFile'[n + 1] = e
          /\ \A i \in 1 .. n : auditFile'[i] = auditFile[i]
          /\ \A i \in 1 .. n + 1 : i \in 1 .. n \/ i = n + 1
      BY <1>1, <1>3, <2>5, AppendEntry
    <3>2. ASSUME NEW i \in 1 .. n + 1, auditFile'[i][1] = c
          PROVE  IF auditor'[c] = "idle" THEN auditFile'[i][2] <= logged[c]
                 ELSE auditFile'[i][2] < logged[c]
      <4>1. CASE i \in 1 .. n
        BY <2>3, <3>1, <3>2, <4>1
      <4>2. CASE i = n + 1
        BY <1>3, <2>1, <3>1, <3>2, <4>2
      <4> QED BY <3>1, <4>1, <4>2
    <3> QED BY <2>2, <3>1, <3>2
  <2> QED BY <1>1, <2>4, <2>5
<1> QED BY <1>1, <1>4, <1>5, <1>6 DEF AuditInv, MemoryIsLatest

LEMMA AuditStepKeepsInv == AuditInv /\ [AuditNext]_auditVars => AuditInv'
<1> SUFFICES ASSUME AuditInv, [AuditNext]_auditVars PROVE AuditInv'
  OBVIOUS
<1>1. ASSUME NEW a \in Auditors, LogBegins(a) \/ LogInMemory(a) \/ LogInFile(a) PROVE AuditInv'
  BY <1>1, LogBeginsKeepsInv, LogInMemoryKeepsInv, LogInFileKeepsInv
<1>2. CASE CloseStore
  BY <1>2 DEF CloseStore, AuditInv, AuditTypes, MemoryIsLatest, UnderWayIsLater
<1>3. CASE UNCHANGED auditVars
  BY <1>3 DEF auditVars, AuditInv, AuditTypes, MemoryIsLatest, UnderWayIsLater
<1> QED BY <1>1, <1>2, <1>3 DEF AuditNext

(* What a trail's entries follow has returned by now.                      *)
InThePast(trail) ==
  \A i \in 1 .. Len(trail) : \A b \in Auditors : trail[i][3][b] <= Returned(b)

TimeInv ==
  /\ \A a, b \in Auditors : after[a][b] <= Returned(b)
  /\ InThePast(inserted) /\ InThePast(auditFile)
  /\ KeepsTime(inserted) /\ KeepsTime(auditFile)

(* A trail keeps the order of time when what is appended is under way.     *)
LEMMA TimeAppend ==
  ASSUME NEW trail \in Seq(Entries), NEW e \in Entries, KeepsTime(trail),
         \A i \in 1 .. Len(trail) : trail[i][3][e[1]] < e[2]
  PROVE  KeepsTime(Append(trail, e))
<1> DEFINE n == Len(trail)
           longer == Append(trail, e)
<1>1. /\ n \in Nat /\ Len(longer) = n + 1 /\ longer[n + 1] = e
      /\ \A i \in 1 .. n : longer[i] = trail[i]
      /\ \A i \in 1 .. n + 1 : i \in 1 .. n \/ i = n + 1
  BY AppendEntry
<1> SUFFICES ASSUME NEW i \in 1 .. n + 1, NEW j \in 1 .. n + 1, i < j
             PROVE  longer[i][3][longer[j][1]] < longer[j][2]
  BY <1>1 DEF KeepsTime
<1>2. i \in 1 .. n
  BY <1>1
<1> HIDE DEF longer
<1>3. CASE j \in 1 .. n
  BY <1>1, <1>2, <1>3 DEF KeepsTime
<1>4. CASE j = n + 1
  BY <1>1, <1>2, <1>4
<1> QED BY <1>1, <1>3, <1>4

(* Time goes on: a call that has returned stays returned.                  *)
LEMMA ReturnedGrows ==
  ASSUME AuditInv, [AuditNext]_auditVars, NEW b \in Auditors
  PROVE  Returned(b) \in Int /\ Returned(b)' \in Int /\ Returned(b) <= Returned(b)'
<1>1. /\ auditor[b] \in {"idle", "memory", "file"} /\ logged[b] \in Int
      /\ DOMAIN auditor = Auditors /\ DOMAIN logged = Auditors
  BY AuditAssumption DEF AuditInv, AuditTypes
<1>2. CASE UNCHANGED <<auditor, logged>>
  BY <1>1, <1>2 DEF Returned
<1>3. ASSUME NEW a \in Auditors, LogBegins(a)
      PROVE  Returned(b) \in Int /\ Returned(b)' \in Int /\ Returned(b) <= Returned(b)'
  BY <1>1, <1>3 DEF LogBegins, Returned
<1>4. ASSUME NEW a \in Auditors, LogInMemory(a)
      PROVE  Returned(b) \in Int /\ Returned(b)' \in Int /\ Returned(b) <= Returned(b)'
  BY <1>1, <1>4 DEF LogInMemory, Returned
<1>5. ASSUME NEW a \in Auditors, LogInFile(a)
      PROVE  Returned(b) \in Int /\ Returned(b)' \in Int /\ Returned(b) <= Returned(b)'
  BY <1>1, <1>5 DEF LogInFile, Returned
<1> QED BY <1>2, <1>3, <1>4, <1>5 DEF AuditNext, CloseStore, auditVars

(* The entry a caller is putting away, against a trail that lacks it.      *)
LEMMA UnderWayFollows ==
  ASSUME AuditInv, NEW a \in Auditors, auditor[a] # "idle",
         NEW trail \in Seq(Entries), InThePast(trail)
  PROVE  /\ EntryOf(a) \in Entries
         /\ \A i \in 1 .. Len(trail) : trail[i][3][EntryOf(a)[1]] < EntryOf(a)[2]
<1>1. /\ logged[a] \in 0 .. EntriesEach /\ after[a] \in [Auditors -> Int] /\ EntriesEach \in Nat
  BY AuditAssumption DEF AuditInv, AuditTypes
<1>2. EntryOf(a) \in Entries /\ EntryOf(a)[1] = a /\ EntryOf(a)[2] = logged[a]
  BY <1>1 DEF EntryOf, Entries
<1>3. Returned(a) = logged[a] - 1
  BY DEF Returned
<1>4. ASSUME NEW i \in 1 .. Len(trail) PROVE trail[i][3][a] < logged[a]
  <2>1. trail[i][3][a] \in Int
    BY EntryParts
  <2>2. trail[i][3][a] <= Returned(a)
    BY DEF InThePast
  <2> QED BY <1>1, <1>3, <2>1, <2>2
<1> QED BY <1>2, <1>4

(* Both trails keep the order of time through every step.                  *)
LEMMA TimeStep == AuditInv /\ TimeInv /\ [AuditNext]_auditVars => TimeInv'
<1> SUFFICES ASSUME AuditInv, TimeInv, [AuditNext]_auditVars PROVE TimeInv'
  OBVIOUS
<1>1. /\ after \in [Auditors -> [Auditors -> Int]]
      /\ inserted \in Seq(Entries) /\ auditFile \in Seq(Entries)
      /\ \A a \in Auditors : logged[a] \in Int
  BY AuditAssumption DEF AuditInv, AuditTypes
<1>2. \A b \in Auditors : Returned(b) \in Int /\ Returned(b)' \in Int /\ Returned(b) <= Returned(b)'
  BY ReturnedGrows
<1>3. ASSUME NEW r \in Int, NEW b \in Auditors, r <= Returned(b) PROVE r <= Returned(b)'
  BY <1>2, <1>3
<1>4. ASSUME NEW trail \in Seq(Entries), InThePast(trail), NEW i \in 1 .. Len(trail), NEW b \in Auditors
      PROVE  trail[i][3][b] \in Int /\ trail[i][3][b] <= Returned(b)'
  <2>1. trail[i][3][b] \in Int
    BY <1>4, EntryParts
  <2>2. trail[i][3][b] <= Returned(b)
    BY <1>4 DEF InThePast
  <2> QED BY <1>3, <2>1, <2>2
<1>5. ASSUME NEW c \in Auditors, NEW b \in Auditors PROVE after'[c][b] <= Returned(b)'
  <2>1. CASE after' = after
    BY <1>1, <1>3, <2>1 DEF TimeInv
  <2>2. ASSUME NEW a \in Auditors, LogBegins(a) PROVE after'[c][b] <= Returned(b)'
    <3>1. after' = [after EXCEPT ![a] = [d \in Auditors |-> Returned(d)]]
      BY <2>2 DEF LogBegins
    <3>2. after'[c][b] = Returned(b) \/ after'[c][b] = after[c][b]
      BY <1>1, <3>1, Zenon
    <3> QED BY <1>1, <1>2, <1>3, <3>2 DEF TimeInv
  <2> QED BY <2>1, <2>2 DEF AuditNext, LogInMemory, LogInFile, CloseStore, auditVars
<1>6. ASSUME NEW trail \in Seq(Entries), InThePast(trail), KeepsTime(trail),
             NEW a \in Auditors, auditor[a] # "idle"
      PROVE  /\ KeepsTime(Append(trail, EntryOf(a)))
             /\ \A i \in 1 .. Len(Append(trail, EntryOf(a))) : \A b \in Auditors :
                  Append(trail, EntryOf(a))[i][3][b] <= Returned(b)'
  <2>1. /\ EntryOf(a) \in Entries
        /\ \A i \in 1 .. Len(trail) : trail[i][3][EntryOf(a)[1]] < EntryOf(a)[2]
    BY <1>6, UnderWayFollows
  <2>2. \A b \in Auditors : EntryOf(a)[3][b] <= Returned(b)'
    <3>1. EntryOf(a)[3] = after[a]
      BY DEF EntryOf
    <3> QED BY <1>1, <1>3, <3>1 DEF TimeInv
  <2> DEFINE e == EntryOf(a)
             longer == Append(trail, e)
             n == Len(trail)
  <2> HIDE DEF e
  <2>3. /\ n \in Nat /\ Len(longer) = n + 1 /\ longer[n + 1] = e
        /\ \A i \in 1 .. n : longer[i] = trail[i]
        /\ \A i \in 1 .. n + 1 : i \in 1 .. n \/ i = n + 1
    BY <2>1, AppendEntry DEF e
  <2>4. KeepsTime(longer)
    BY <1>6, <2>1, TimeAppend DEF e
  <2>5. ASSUME NEW i \in 1 .. n + 1, NEW b \in Auditors PROVE longer[i][3][b] <= Returned(b)'
    <3>1. CASE i \in 1 .. n
      BY <1>4, <1>6, <2>3, <3>1
    <3>2. CASE i = n + 1
      BY <2>2, <2>3, <3>2 DEF e
    <3> QED BY <2>3, <3>1, <3>2
  <2> QED BY <2>3, <2>4, <2>5 DEF e
<1>7. /\ \/ inserted' = inserted
         \/ \E a \in Auditors : auditor[a] # "idle" /\ inserted' = Append(inserted, EntryOf(a))
      /\ \/ auditFile' = auditFile
         \/ \E a \in Auditors : auditor[a] # "idle" /\ auditFile' = Append(auditFile, EntryOf(a))
  <2>1. ASSUME NEW a \in Auditors, LogBegins(a) \/ LogInMemory(a) \/ LogInFile(a)
        PROVE  /\ \/ inserted' = inserted
                  \/ \E c \in Auditors : auditor[c] # "idle" /\ inserted' = Append(inserted, EntryOf(c))
               /\ \/ auditFile' = auditFile
                  \/ \E c \in Auditors : auditor[c] # "idle" /\ auditFile' = Append(auditFile, EntryOf(c))
    BY <2>1, Zenon DEF LogBegins, LogInMemory, LogInFile
  <2> QED BY <2>1 DEF AuditNext, CloseStore, auditVars
<1>8. ASSUME NEW t, NEW u, t \in Seq(Entries), InThePast(t), KeepsTime(t),
             u = t \/ \E a \in Auditors : auditor[a] # "idle" /\ u = Append(t, EntryOf(a))
      PROVE  KeepsTime(u) /\ \A i \in 1 .. Len(u) : \A b \in Auditors : u[i][3][b] <= Returned(b)'
  <2>1. CASE u = t
    BY <1>4, <1>8, <2>1
  <2>2. CASE \E a \in Auditors : auditor[a] # "idle" /\ u = Append(t, EntryOf(a))
    BY <1>6, <1>8, <2>2, Zenon
  <2> QED BY <1>8, <2>1, <2>2
<1>9. /\ InThePast(inserted) /\ InThePast(auditFile) /\ KeepsTime(inserted) /\ KeepsTime(auditFile)
  BY DEF TimeInv
<1>10. /\ KeepsTime(inserted)'
       /\ \A i \in 1 .. Len(inserted') : \A b \in Auditors : inserted'[i][3][b] <= Returned(b)'
  BY <1>1, <1>7, <1>8, <1>9 DEF KeepsTime
<1>11. /\ KeepsTime(auditFile)'
       /\ \A i \in 1 .. Len(auditFile') : \A b \in Auditors : auditFile'[i][3][b] <= Returned(b)'
  BY <1>1, <1>7, <1>8, <1>9 DEF KeepsTime
<1> QED BY <1>5, <1>10, <1>11 DEF TimeInv, InThePast

(* The file has only what the memory was given: what is being written is   *)
(* inserted already.                                                       *)
GivenFirst ==
  /\ ToSet(auditFile) \subseteq ToSet(inserted)
  /\ \A a \in Auditors : auditor[a] = "file" => EntryOf(a) \in ToSet(inserted)

LEMMA GivenFirstStep == AuditInv /\ GivenFirst /\ [AuditNext]_auditVars => GivenFirst'
<1> SUFFICES ASSUME AuditInv, GivenFirst, [AuditNext]_auditVars PROVE GivenFirst'
  OBVIOUS
<1>1. /\ inserted \in Seq(Entries) /\ auditFile \in Seq(Entries)
      /\ auditor \in [Auditors -> {"idle", "memory", "file"}]
      /\ DOMAIN logged = Auditors /\ DOMAIN after = Auditors
      /\ \A a \in Auditors : EntryOf(a) \in Entries
  <2>1. AuditTypes /\ EntriesEach \in Nat
    BY AuditAssumption DEF AuditInv
  <2>2. \A a \in Auditors : EntryOf(a) \in Entries
    BY <2>1 DEF AuditTypes, EntryOf, Entries
  <2> HIDE DEF Entries
  <2> QED BY <2>1, <2>2 DEF AuditTypes
<1>2. /\ ToSet(auditFile) \subseteq ToSet(inserted)
      /\ \A a \in Auditors : auditor[a] = "file" => EntryOf(a) \in ToSet(inserted)
  BY DEF GivenFirst
<1>3. ASSUME NEW a \in Auditors, LogBegins(a) PROVE GivenFirst'
  <2>1. /\ UNCHANGED <<auditFile, inserted>>
        /\ auditor' = [auditor EXCEPT ![a] = "memory"]
        /\ logged' = [logged EXCEPT ![a] = @ + 1]
        /\ after' = [after EXCEPT ![a] = [b \in Auditors |-> Returned(b)]]
    BY <1>3 DEF LogBegins
  <2>2. ToSet(auditFile)' = ToSet(auditFile) /\ ToSet(inserted)' = ToSet(inserted)
    BY <2>1 DEF ToSet
  <2>3. ASSUME NEW c \in Auditors, auditor'[c] = "file" PROVE EntryOf(c)' \in ToSet(inserted)
    <3>1. c # a /\ auditor[c] = "file"
      BY <1>1, <2>1, <2>3
    <3>2. logged'[c] = logged[c] /\ after'[c] = after[c]
      BY <1>1, <2>1, <3>1, Zenon
    <3> QED BY <1>2, <3>1, <3>2 DEF EntryOf
  <2> QED BY <1>2, <2>2, <2>3 DEF GivenFirst
<1>4. ASSUME NEW a \in Auditors, LogInMemory(a) PROVE GivenFirst'
  <2>1. /\ UNCHANGED <<auditFile, logged, after>>
        /\ auditor' = [auditor EXCEPT ![a] = "file"]
        /\ inserted' = Append(inserted, EntryOf(a))
    BY <1>4 DEF LogInMemory
  <2>2. ToSet(auditFile)' = ToSet(auditFile) /\ \A c \in Auditors : EntryOf(c)' = EntryOf(c)
    BY <2>1 DEF ToSet, EntryOf
  <2>3. ToSet(inserted)' = ToSet(inserted) \cup {EntryOf(a)}
    <3>1. ToSet(Append(inserted, EntryOf(a))) = ToSet(inserted) \cup {EntryOf(a)}
      BY <1>1, AppendEntry
    <3> QED BY <2>1, <3>1 DEF ToSet
  <2>4. \A c \in Auditors : auditor'[c] = "file" => c = a \/ auditor[c] = "file"
    BY <1>1, <2>1
  <2> QED BY <1>2, <2>2, <2>3, <2>4 DEF GivenFirst
<1>5. ASSUME NEW a \in Auditors, LogInFile(a) PROVE GivenFirst'
  <2>1. /\ UNCHANGED <<inserted, logged, after>> /\ auditor[a] = "file"
        /\ auditor' = [auditor EXCEPT ![a] = "idle"]
        /\ auditFile' = Append(auditFile, EntryOf(a)) \/ auditFile' = auditFile
    BY <1>5 DEF LogInFile
  <2>2. ToSet(inserted)' = ToSet(inserted) /\ \A c \in Auditors : EntryOf(c)' = EntryOf(c)
    BY <2>1 DEF ToSet, EntryOf
  <2>3. ToSet(auditFile)' \subseteq ToSet(auditFile) \cup {EntryOf(a)}
    <3>1. ToSet(Append(auditFile, EntryOf(a))) = ToSet(auditFile) \cup {EntryOf(a)}
      BY <1>1, AppendEntry
    <3> QED BY <2>1, <3>1 DEF ToSet
  <2>4. \A c \in Auditors : auditor'[c] = "file" => auditor[c] = "file"
    BY <1>1, <2>1
  <2> QED BY <1>2, <2>1, <2>2, <2>3, <2>4 DEF GivenFirst
<1>6. CASE UNCHANGED <<auditFile, inserted, auditor, logged, after>>
  BY <1>2, <1>6 DEF GivenFirst, ToSet, EntryOf
<1> QED BY <1>3, <1>4, <1>5, <1>6 DEF AuditNext, CloseStore, auditVars

LEMMA AuditInitTime == AuditInit => TimeInv /\ GivenFirst
<1> SUFFICES ASSUME AuditInit PROVE TimeInv /\ GivenFirst
  OBVIOUS
<1>1. /\ auditFile = <<>> /\ inserted = <<>> /\ Len(<<>>) = 0
      /\ auditor = [a \in Auditors |-> "idle"]
      /\ logged = [a \in Auditors |-> 0]
      /\ after = [a \in Auditors |-> [b \in Auditors |-> 0]]
  BY DEF AuditInit
<1>2. \A a, b \in Auditors : after[a][b] <= Returned(b)
  BY <1>1 DEF Returned
<1> QED BY <1>1, <1>2 DEF TimeInv, GivenFirst, InThePast, KeepsTime, ToSet

(* What the memory holds is the end of what was inserted, in its order.    *)
LEMMA MemorySuffix ==
  AuditInv /\ TimeInv => IsSuffix(entries, inserted) /\ Ascending(entries) /\ KeepsTime(entries)
<1> SUFFICES ASSUME AuditInv, TimeInv
             PROVE  IsSuffix(entries, inserted) /\ Ascending(entries) /\ KeepsTime(entries)
  OBVIOUS
<1> DEFINE n == Len(inserted)
           m == Len(entries)
<1>1. /\ n \in Nat /\ m \in Nat /\ m <= n
      /\ \A i \in 1 .. m : entries[i] = inserted[n - m + i]
  <2>1. entries \in Seq(Entries) /\ inserted \in Seq(Entries) /\ MemoryIsLatest
    BY DEF AuditInv, AuditTypes
  <2>2. n \in Nat /\ m \in Nat
    <3> HIDE DEF Entries
    <3> QED BY <2>1
  <2>3. \A i \in 1 .. m : entries[i] = inserted[n - m + i]
    BY <2>1 DEF MemoryIsLatest
  <2>4. m = IF n < MaxEntries THEN n ELSE MaxEntries
    BY <2>1 DEF MemoryIsLatest
  <2> HIDE DEF n, m
  <2> QED BY <2>2, <2>3, <2>4, AuditAssumption
<1>2. /\ entries \in Seq(Entries) /\ inserted \in Seq(Entries)
      /\ Ascending(inserted) /\ KeepsTime(inserted)
  BY DEF AuditInv, AuditTypes, TimeInv
<1> HIDE DEF n, m
<1>3. Ascending(entries)
  <2> SUFFICES ASSUME NEW i \in 1 .. m, NEW j \in 1 .. m, i < j, entries[i][1] = entries[j][1]
               PROVE  entries[i][2] < entries[j][2]
    BY DEF Ascending, m
  <2>1. n - m + i \in 1 .. n /\ n - m + j \in 1 .. n /\ n - m + i < n - m + j
    BY <1>1
  <2> QED BY <1>1, <1>2, <2>1 DEF Ascending, n
<1>4. KeepsTime(entries)
  <2> SUFFICES ASSUME NEW i \in 1 .. m, NEW j \in 1 .. m, i < j
               PROVE  entries[i][3][entries[j][1]] < entries[j][2]
    BY DEF KeepsTime, m
  <2>1. n - m + i \in 1 .. n /\ n - m + j \in 1 .. n /\ n - m + i < n - m + j
    BY <1>1
  <2> QED BY <1>1, <1>2, <2>1 DEF KeepsTime, n
<1>5. IsSuffix(entries, inserted)
  <2> DEFINE re == Reverse(entries)
             ri == Reverse(inserted)
  <2>1. /\ re = [i \in 1 .. m |-> entries[(m - i) + 1]]
        /\ ri = [i \in 1 .. n |-> inserted[(n - i) + 1]]
    BY DEF Reverse, n, m
  <2>2. re \in Seq(Entries) /\ ri \in Seq(Entries) /\ Len(re) = m /\ Len(ri) = n
    <3>1. \A i \in 1 .. m : entries[(m - i) + 1] \in Entries
      <4>1. \A i \in 1 .. m : (m - i) + 1 \in 1 .. m
        BY <1>1
      <4> HIDE DEF Entries
      <4> QED BY <1>2, <4>1 DEF m
    <3>2. \A i \in 1 .. n : inserted[(n - i) + 1] \in Entries
      <4>1. \A i \in 1 .. n : (n - i) + 1 \in 1 .. n
        BY <1>1
      <4> HIDE DEF Entries
      <4> QED BY <1>2, <4>1 DEF n
    <3> HIDE DEF Entries
    <3> QED BY <1>1, <2>1, <3>1, <3>2
  <2> HIDE DEF re, ri
  <2>3. ASSUME NEW i \in 1 .. m PROVE re[i] = ri[i]
    <3>1. (m - i) + 1 \in 1 .. m /\ n - m + ((m - i) + 1) = (n - i) + 1 /\ i \in 1 .. n
      BY <1>1
    <3> QED BY <1>1, <2>1, <3>1
  <2>4. SubSeq(re, 1, m) = SubSeq(ri, 1, m)
    <3>1. /\ SubSeq(re, 1, m) = [i \in 1 .. m |-> re[i]]
          /\ SubSeq(ri, 1, m) = [i \in 1 .. m |-> ri[i]]
      BY <1>1, <2>2
    <3> QED BY <2>3, <3>1
  <2> QED BY <1>1, <2>2, <2>4 DEF IsSuffix, IsPrefix, re, ri
<1> QED BY <1>3, <1>4, <1>5

(* Through concurrent calls, failed writes and Close at any time, the      *)
(* memory is the end of what was logged, the file a part of it, and in     *)
(* both an entry whose Log returned before another's was called stands     *)
(* before it (store.go 79-116, 157-163).                                   *)
THEOREM AuditTrailHolds == AuditSpec => []AuditTrail
<1>1. AuditInv /\ TimeInv /\ GivenFirst => AuditTrail
  BY MemorySuffix DEF AuditInv, AuditTrail, MemoryIsLatest, TimeInv, GivenFirst
<1> QED BY <1>1, AuditInitInv, AuditInitTime, AuditStepKeepsInv, TimeStep, GivenFirstStep, PTL
        DEF AuditSpec

-----------------------------------------------------------------------------
(* The runbook executor.                                                   *)

(* What is left of a list after each of its places.                        *)
Leaves(left, ids, b) ==
  /\ left[0] = <<>> /\ Without(ids, b) = left[Len(ids)]
  /\ \A k \in 0 .. Len(ids) - 1 :
       left[k + 1] = IF ids[k + 1] = b THEN left[k] ELSE Append(left[k], ids[k + 1])

(* The loop that rebuilds a list of ids without one of them (executor.go   *)
(* 106-113) goes through its places in order.                              *)
LEMMA WithoutFolds ==
  ASSUME NEW S, NEW ids \in Seq(S), NEW b
  PROVE  \E left \in [0 .. Len(ids) -> Seq(S)] : Leaves(left, ids, b)
<1> DEFINE n == Len(ids)
           Goes(i, f) == IF ids[i] = b THEN f ELSE Append(f, ids[i])
           step == [i \in 1 .. n |-> [f \in Seq(S) |-> Goes(i, f)]]
           IsIt(h) == h = [s \in SUBSET (1 .. n) |-> IF s = {} THEN <<>>
                                                    ELSE Goes(Max(s), h[s \ {Max(s)}])]
           h == CHOOSE h : IsIt(h)
<1>1. n \in Nat /\ <<>> \in Seq(S) /\ DOMAIN ids = 1 .. n /\ \A i \in 1 .. n : ids[i] \in S
  OBVIOUS
<1>2. \A i \in 1 .. n : \A f \in Seq(S) : Goes(i, f) \in Seq(S)
  BY <1>1
<1>3. Without(ids, b) = h[1 .. n]
  BY <1>1, Zenon DEF Without, FoldLeft, MapThenFoldSet
<1>4. step \in [1 .. n -> [Seq(S) -> Seq(S)]]
  BY <1>2
<1>5. \A i \in 1 .. n : \A f \in Seq(S) : step[i][f] = Goes(i, f)
  OBVIOUS
<1> HIDE DEF step, Goes, n
<1>6. PICK g \in [SUBSET (1 .. n) -> Seq(S)] : FoldsPlaces(g, n, <<>>, step)
  BY <1>1, <1>4, PrefixFold
<1>7. ASSUME NEW s \in SUBSET (1 .. n)
      PROVE  g[s] = IF s = {} THEN <<>> ELSE Goes(Max(s), g[s \ {Max(s)}])
  BY <1>1, <1>5, <1>6, LastPlace DEF FoldsPlaces
<1>8. IsIt(g)
  BY <1>7
<1>9. IsIt(h)
  <2> HIDE DEF IsIt
  <2> QED BY <1>8
<1>10. \A s \in SUBSET (1 .. n) : h[s] = IF s = {} THEN <<>> ELSE Goes(Max(s), h[s \ {Max(s)}])
  BY <1>9
<1> HIDE DEF h
<1>11. h[1 .. 0] = <<>>
  <2>1. 1 .. 0 = {} /\ 1 .. 0 \in SUBSET (1 .. n)
    BY <1>1
  <2> QED BY <1>10, <2>1, Zenon
<1>12. ASSUME NEW k \in 0 .. n - 1 PROVE h[1 .. (k + 1)] = Goes(k + 1, h[1 .. k])
  <2>1. /\ 1 .. (k + 1) \in SUBSET (1 .. n) /\ 1 .. (k + 1) # {}
        /\ Max(1 .. (k + 1)) = k + 1 /\ (1 .. (k + 1)) \ {k + 1} = 1 .. k
    BY <1>1, PrefixPlaces
  <2> QED BY <1>10, <2>1, Zenon
<1> DEFINE T == {k \in Nat : k <= n => h[1 .. k] \in Seq(S)}
<1>13. Nat \subseteq T
  <2>1. 0 \in T
    BY <1>1, <1>11
  <2>2. ASSUME NEW k \in Nat, k \in T PROVE k + 1 \in T
    <3> SUFFICES ASSUME k + 1 <= n PROVE h[1 .. (k + 1)] \in Seq(S)
      OBVIOUS
    <3>1. k \in 0 .. n - 1 /\ k + 1 \in 1 .. n /\ k <= n
      BY <1>1
    <3> QED BY <1>2, <1>12, <2>2, <3>1
  <2> HIDE DEF T
  <2> QED BY <2>1, <2>2, NatInductionOn
<1> DEFINE left == [k \in 0 .. n |-> h[1 .. k]]
<1>14. left \in [0 .. n -> Seq(S)]
  BY <1>1, <1>13
<1>15. left[0] = <<>> /\ left[n] = h[1 .. n]
  BY <1>1, <1>11
<1>16. ASSUME NEW k \in 0 .. n - 1
       PROVE  left[k + 1] = IF ids[k + 1] = b THEN left[k] ELSE Append(left[k], ids[k + 1])
  <2>1. k \in 0 .. n /\ k + 1 \in 0 .. n
    BY <1>1
  <2> QED BY <1>12, <2>1 DEF Goes
<1> HIDE DEF left
<1>17. Leaves(left, ids, b)
  BY <1>3, <1>15, <1>16 DEF Leaves, n
<1> QED BY <1>14, <1>17 DEF n

(* What is left is the list without the runbook, each of the others once.  *)
LEMMA WithoutFacts ==
  ASSUME NEW S, NEW ids \in Seq(S), NEW b, IsInjective(ids)
  PROVE  /\ Without(ids, b) \in Seq(S) /\ IsInjective(Without(ids, b))
         /\ ToSet(Without(ids, b)) = ToSet(ids) \ {b}
<1> DEFINE n == Len(ids)
           Upto(k) == {ids[i] : i \in 1 .. k}
<1>0. PICK left \in [0 .. n -> Seq(S)] : Leaves(left, ids, b)
  BY WithoutFolds
<1>1. /\ left[0] = <<>> /\ Without(ids, b) = left[n]
      /\ \A k \in 0 .. n - 1 :
           left[k + 1] = IF ids[k + 1] = b THEN left[k] ELSE Append(left[k], ids[k + 1])
  BY <1>0 DEF Leaves
<1>2. n \in Nat /\ DOMAIN ids = 1 .. n /\ \A i \in 1 .. n : ids[i] \in S
  OBVIOUS
<1> DEFINE T == {k \in Nat : k <= n => /\ IsInjective(left[k])
                                        /\ ToSet(left[k]) = Upto(k) \ {b}}
<1>3. 0 \in T
  <2>1. Upto(0) = {} /\ ToSet(<<>>) = {} /\ IsInjective(<<>>)
    BY DEF ToSet, IsInjective
  <2> HIDE DEF Upto
  <2> QED BY <1>1, <2>1
<1>4. ASSUME NEW k \in Nat, k \in T PROVE k + 1 \in T
  <2> SUFFICES ASSUME k + 1 <= n
               PROVE  IsInjective(left[k + 1]) /\ ToSet(left[k + 1]) = Upto(k + 1) \ {b}
    OBVIOUS
  <2>1. /\ k \in 0 .. n - 1 /\ k \in 0 .. n /\ k + 1 \in 1 .. n
        /\ IsInjective(left[k]) /\ ToSet(left[k]) = Upto(k) \ {b}
    BY <1>2, <1>4
  <2> DEFINE l == left[k]
             e == ids[k + 1]
             m == left[k + 1]
  <2>2. l \in Seq(S) /\ e \in S /\ m = IF e = b THEN l ELSE Append(l, e)
    BY <1>1, <1>2, <2>1
  <2>3. Upto(k + 1) = Upto(k) \cup {e}
    <3>1. 1 .. (k + 1) = (1 .. k) \cup {k + 1}
      OBVIOUS
    <3> QED BY <3>1
  <2>4. e \notin Upto(k)
    <3>1. \A i \in 1 .. k : i \in 1 .. n /\ i # k + 1
      BY <1>2, <2>1
    <3> QED BY <1>2, <2>1, <3>1 DEF IsInjective
  <2> HIDE DEF l, e, m, Upto
  <2>5. CASE e = b
    BY <2>1, <2>2, <2>3, <2>5 DEF l, m
  <2>6. CASE e # b
    <3>1. e \notin ToSet(l)
      BY <2>1, <2>4 DEF l
    <3>2. IsInjective(Append(l, e)) /\ ToSet(Append(l, e)) = ToSet(l) \cup {e}
      BY <2>1, <2>2, <3>1, AppendFacts DEF l
    <3> QED BY <2>1, <2>2, <2>3, <2>6, <3>2 DEF l, m
  <2> QED BY <2>5, <2>6 DEF m
<1> HIDE DEF T
<1>5. n \in T
  BY <1>2, <1>3, <1>4, NatInductionOn
<1>6. IsInjective(left[n]) /\ ToSet(left[n]) = Upto(n) \ {b}
  BY <1>2, <1>5 DEF T
<1>7. ToSet(ids) = Upto(n)
  BY <1>2 DEF ToSet
<1>8. left[n] \in Seq(S)
  BY <1>1, <1>2
<1> QED BY <1>1, <1>6, <1>7, <1>8

Outcomes == {"done", "error", "late"}
Places == {"idle", "check", "act", "completed", "failed"}

(* The steps that failed and may not.                                      *)
Fatal(results, steps) == {i \in 1 .. Len(results) : results[i] # "done" /\ ~steps[i]}

(* What a call of Execute is like at each place.                           *)
TrueSoFar(e) ==
  LET steps == Steps[e.book]
  IN /\ e.at # "idle" => e.book \in Runbooks
     /\ e.at \in {"check", "act"} => Fatal(e.results, steps) = {} /\ Len(e.results) <= Len(steps)
     /\ e.at = "act" => Len(e.results) < Len(steps)
     /\ e.at = "completed" => Fatal(e.results, steps) = {} /\ Len(e.results) = Len(steps)
     /\ e.at = "failed" => Fatal(e.results, steps) = {Len(e.results)}

Calls == [book : Runbooks \cup {"none"}, at : Places, results : Seq(Outcomes), expired : BOOLEAN]

BookInv ==
  /\ runbooks \subseteq Runbooks
  /\ typeIndex \in [IncidentTypes -> Seq(Runbooks)]
  /\ IndexAgrees
  /\ execution \in [Executions -> Calls]
  /\ \A x \in Executions : TrueSoFar(execution[x])

LEMMA BookInitInv == BookInit => BookInv
<1> SUFFICES ASSUME BookInit PROVE BookInv
  OBVIOUS
<1>1. /\ runbooks = {} /\ typeIndex = [t \in IncidentTypes |-> <<>>]
      /\ execution = [x \in Executions |-> NotCalled]
  BY DEF BookInit
<1>2. NotCalled \in Calls /\ TrueSoFar(NotCalled)
  BY DEF NotCalled, Calls, Places, TrueSoFar
<1>3. IndexAgrees
  <2>1. ToSet(<<>>) = {} /\ IsInjective(<<>>)
    BY DEF ToSet, IsInjective
  <2> QED BY <1>1, <2>1 DEF IndexAgrees
<1>4. typeIndex \in [IncidentTypes -> Seq(Runbooks)]
  BY <1>1
<1> QED BY <1>1, <1>2, <1>3, <1>4, Zenon DEF BookInv

LEMMA RegisterKeepsInv == ASSUME BookInv, NEW b \in Runbooks, RegisterRunbook(b) PROVE BookInv'
<1>1. /\ b \notin runbooks /\ runbooks' = runbooks \cup {b}
      /\ typeIndex' = [t \in IncidentTypes |->
                         IF t \in TypesOf[b] THEN Append(typeIndex[t], b) ELSE typeIndex[t]]
      /\ execution' = execution
  BY DEF RegisterRunbook
<1>2. /\ runbooks \subseteq Runbooks /\ typeIndex \in [IncidentTypes -> Seq(Runbooks)]
      /\ IndexAgrees
  BY DEF BookInv
<1>3. ASSUME NEW t \in IncidentTypes
      PROVE  /\ typeIndex'[t] \in Seq(Runbooks) /\ IsInjective(typeIndex'[t])
             /\ ToSet(typeIndex'[t]) = {r \in runbooks' : t \in TypesOf[r]}
  <2> DEFINE l == typeIndex[t]
  <2>1. /\ l \in Seq(Runbooks) /\ IsInjective(l)
        /\ ToSet(l) = {r \in runbooks : t \in TypesOf[r]}
        /\ typeIndex'[t] = IF t \in TypesOf[b] THEN Append(l, b) ELSE l
    BY <1>1, <1>2 DEF IndexAgrees
  <2> HIDE DEF l
  <2>2. CASE t \in TypesOf[b]
    <3>1. b \notin ToSet(l)
      BY <1>1, <2>1
    <3>2. /\ Append(l, b) \in Seq(Runbooks) /\ IsInjective(Append(l, b))
          /\ ToSet(Append(l, b)) = ToSet(l) \cup {b}
      BY <2>1, <3>1, AppendFacts
    <3> QED BY <1>1, <2>1, <2>2, <3>2
  <2>3. CASE t \notin TypesOf[b]
    BY <1>1, <2>1, <2>3
  <2> QED BY <2>2, <2>3
<1>4. IndexAgrees'
  BY <1>3 DEF IndexAgrees
<1>5. typeIndex' \in [IncidentTypes -> Seq(Runbooks)]
  BY <1>1, <1>3
<1> QED BY <1>1, <1>2, <1>4, <1>5 DEF BookInv

LEMMA RemoveKeepsInv == ASSUME BookInv, NEW b \in Runbooks, RemoveRunbook(b) PROVE BookInv'
<1>1. /\ b \in runbooks /\ runbooks' = runbooks \ {b}
      /\ typeIndex' = [t \in IncidentTypes |->
                         IF t \in TypesOf[b] THEN Without(typeIndex[t], b) ELSE typeIndex[t]]
      /\ execution' = execution
  BY DEF RemoveRunbook, Unindexed
<1>2. /\ runbooks \subseteq Runbooks /\ typeIndex \in [IncidentTypes -> Seq(Runbooks)]
      /\ IndexAgrees
  BY DEF BookInv
<1>3. ASSUME NEW t \in IncidentTypes
      PROVE  /\ typeIndex'[t] \in Seq(Runbooks) /\ IsInjective(typeIndex'[t])
             /\ ToSet(typeIndex'[t]) = {r \in runbooks' : t \in TypesOf[r]}
  <2> DEFINE l == typeIndex[t]
  <2>1. /\ l \in Seq(Runbooks) /\ IsInjective(l)
        /\ ToSet(l) = {r \in runbooks : t \in TypesOf[r]}
        /\ typeIndex'[t] = IF t \in TypesOf[b] THEN Without(l, b) ELSE l
    BY <1>1, <1>2 DEF IndexAgrees
  <2> HIDE DEF l
  <2>2. CASE t \in TypesOf[b]
    <3>1. /\ Without(l, b) \in Seq(Runbooks) /\ IsInjective(Without(l, b))
          /\ ToSet(Without(l, b)) = ToSet(l) \ {b}
      BY <2>1, WithoutFacts
    <3> QED BY <1>1, <2>1, <2>2, <3>1
  <2>3. CASE t \notin TypesOf[b]
    BY <1>1, <2>1, <2>3
  <2> QED BY <2>2, <2>3
<1>4. IndexAgrees'
  BY <1>3 DEF IndexAgrees
<1>5. typeIndex' \in [IncidentTypes -> Seq(Runbooks)]
  BY <1>1, <1>3
<1> QED BY <1>1, <1>2, <1>4, <1>5 DEF BookInv

(* What a call under way knows.                                            *)
LEMMA CallFacts ==
  ASSUME BookInv, NEW x \in Executions
  PROVE  /\ execution[x] \in Calls /\ TrueSoFar(execution[x])
         /\ execution[x].at # "idle" => /\ Steps[execution[x].book] \in Seq(BOOLEAN)
                                        /\ Len(Steps[execution[x].book]) \in Nat
         /\ Len(execution[x].results) \in Nat
<1>1. execution[x] \in Calls /\ TrueSoFar(execution[x])
  BY DEF BookInv
<1>2. execution[x].at # "idle" => execution[x].book \in Runbooks
  BY <1>1 DEF TrueSoFar
<1>3. execution[x].results \in Seq(Outcomes)
  BY <1>1 DEF Calls
<1> QED BY <1>1, <1>2, <1>3, RunbookAssumption

(* One call goes on: the rest is as it was.                                *)
LEMMA CallKeepsInv ==
  ASSUME BookInv, NEW x \in Executions, NEW e \in Calls, TrueSoFar(e),
         execution' = [execution EXCEPT ![x] = e], UNCHANGED <<runbooks, typeIndex>>
  PROVE  BookInv'
<1>1. execution \in [Executions -> Calls] /\ \A y \in Executions : TrueSoFar(execution[y])
  BY DEF BookInv
<1>2. execution' \in [Executions -> Calls]
  BY <1>1
<1>3. \A y \in Executions : TrueSoFar(execution'[y])
  <2> TAKE y \in Executions
  <2>1. execution'[y] = IF y = x THEN e ELSE execution[y]
    BY <1>1
  <2> QED BY <1>1, <2>1
<1> QED BY <1>2, <1>3 DEF BookInv, IndexAgrees

LEMMA StepEndsKeepsInv ==
  ASSUME BookInv, NEW x \in Executions, NEW result \in Outcomes,
         execution[x].at \in {"check", "act"}, Len(execution[x].results) < Len(Steps[execution[x].book]),
         StepEnds(x, result), UNCHANGED <<runbooks, typeIndex>>
  PROVE  BookInv'
<1> DEFINE c == execution[x]
           l == c.results
           n == Len(l)
           steps == Steps[c.book]
           go == result = "done" \/ steps[n + 1]
           to == IF go THEN "check" ELSE "failed"
           longer == Append(l, result)
           e == [c EXCEPT !.results = longer, !.at = to]
<1>1. /\ c \in Calls /\ TrueSoFar(c) /\ steps \in Seq(BOOLEAN) /\ Len(steps) \in Nat /\ n \in Nat
      /\ c.at \in {"check", "act"} /\ n < Len(steps)
  BY CallFacts
<1>2. execution' = [execution EXCEPT ![x] = e]
  <2>1. execution' = [execution EXCEPT ![x].results = Append(@, result),
                                       ![x].at = IF go THEN "check" ELSE "failed"]
    BY DEF StepEnds, StepOf
  <2>2. execution \in [Executions -> Calls]
    BY DEF BookInv
  <2> HIDE DEF go
  <2> QED BY <2>1, <2>2 DEF Calls
<1>3. /\ l \in Seq(Outcomes) /\ c.book \in Runbooks /\ c.expired \in BOOLEAN
      /\ Fatal(l, steps) = {}
  BY <1>1 DEF TrueSoFar, Calls
<1>4. /\ Append(l, result) \in Seq(Outcomes) /\ Len(Append(l, result)) = n + 1
      /\ Append(l, result)[n + 1] = result
      /\ \A i \in 1 .. n : Append(l, result)[i] = l[i]
      /\ \A i \in 1 .. n + 1 : i \in 1 .. n \/ i = n + 1
      /\ n + 1 \in 1 .. n + 1
  BY <1>1, <1>3
<1>5. e \in Calls /\ e.book = c.book /\ e.results = longer /\ e.at = to
  <2>1. to \in Places /\ longer \in Seq(Outcomes)
    BY <1>4 DEF Places
  <2> HIDE DEF to, longer
  <2> QED BY <1>1, <2>1 DEF Calls
<1>6. Fatal(Append(l, result), steps) = IF go THEN {} ELSE {n + 1}
  <2>1. \A i \in 1 .. n : ~(l[i] # "done" /\ ~steps[i])
    BY <1>3 DEF Fatal
  <2>2. Fatal(longer, steps) = {i \in 1 .. n + 1 : longer[i] # "done" /\ ~steps[i]}
    BY <1>4 DEF Fatal
  <2> HIDE DEF longer, n, l, steps, c
  <2>3. CASE go
    BY <1>4, <2>1, <2>2, <2>3 DEF longer
  <2>4. CASE ~go
    BY <1>4, <2>1, <2>2, <2>4 DEF longer
  <2> QED BY <2>3, <2>4 DEF longer
<1>7. TrueSoFar(e)
  <2> HIDE DEF e, go, n
  <2> QED BY <1>1, <1>3, <1>4, <1>5, <1>6 DEF TrueSoFar
<1> HIDE DEF e
<1> QED BY <1>2, <1>5, <1>7, CallKeepsInv

LEMMA ExecutionKeepsInv ==
  ASSUME BookInv, NEW x \in Executions,
         \/ \E b \in Runbooks : Execute(x, b)
         \/ TimeRunsOut(x) \/ ChecksContext(x) \/ Acts(x) \/ Completes(x)
  PROVE  BookInv'
<1> DEFINE c == execution[x]
<1>1. /\ c \in Calls /\ TrueSoFar(c) /\ Len(c.results) \in Nat
      /\ c.at # "idle" => Len(Steps[c.book]) \in Nat
      /\ execution \in [Executions -> Calls]
  BY CallFacts DEF BookInv
<1>2. ASSUME NEW b \in Runbooks, Execute(x, b) PROVE BookInv'
  <2> DEFINE e == [NotCalled EXCEPT !.book = b, !.at = "check"]
  <2>1. /\ NotCalled \in Calls /\ NotCalled.results = <<>>
        /\ NotCalled.at = "idle" /\ NotCalled.expired = FALSE
    BY DEF Calls, Places, NotCalled
  <2>2. e \in Calls /\ e.book = b /\ e.at = "check" /\ e.results = <<>>
    BY <2>1 DEF Calls, Places
  <2>3. TrueSoFar(e)
    <3>1. Len(Steps[b]) \in Nat /\ Fatal(<<>>, Steps[b]) = {} /\ Len(<<>>) = 0
      BY RunbookAssumption DEF Fatal
    <3> HIDE DEF e
    <3> QED BY <2>2, <3>1 DEF TrueSoFar
  <2> HIDE DEF e
  <2> QED BY <1>2, <2>2, <2>3, CallKeepsInv DEF Execute, e
<1>3. CASE TimeRunsOut(x)
  <2> DEFINE e == [c EXCEPT !.expired = TRUE]
  <2>1. e \in Calls /\ TrueSoFar(e)
    BY <1>1 DEF Calls, TrueSoFar
  <2>2. execution' = [execution EXCEPT ![x] = e] /\ UNCHANGED <<runbooks, typeIndex>>
    BY <1>1, <1>3 DEF TimeRunsOut
  <2> HIDE DEF e
  <2> QED BY <2>1, <2>2, CallKeepsInv
<1>4. CASE ChecksContext(x)
  <2>1. c.at = "check" /\ Len(c.results) < Len(Steps[c.book]) /\ UNCHANGED <<runbooks, typeIndex>>
    BY <1>1, <1>4 DEF ChecksContext, NoMore, StepOf
  <2>2. CASE execution' = [execution EXCEPT ![x].at = "act"]
    <3> DEFINE e == [c EXCEPT !.at = "act"]
    <3>1. e \in Calls /\ TrueSoFar(e)
      BY <1>1, <2>1 DEF Calls, TrueSoFar, Places
    <3>2. execution' = [execution EXCEPT ![x] = e]
      BY <1>1, <2>2
    <3> HIDE DEF e
    <3> QED BY <2>1, <3>1, <3>2, CallKeepsInv
  <2>3. CASE StepEnds(x, "late")
    BY <2>1, <2>3, StepEndsKeepsInv DEF Outcomes
  <2> QED BY <1>4, <2>2, <2>3 DEF ChecksContext
<1>5. CASE Acts(x)
  <2>1. c.at = "act" /\ UNCHANGED <<runbooks, typeIndex>>
    BY <1>5 DEF Acts
  <2>2. Len(c.results) < Len(Steps[c.book])
    BY <1>1, <2>1 DEF TrueSoFar
  <2>3. PICK result \in {"done", "error"} : StepEnds(x, result)
    BY <1>5 DEF Acts
  <2> QED BY <2>1, <2>2, <2>3, StepEndsKeepsInv DEF Outcomes
<1>6. CASE Completes(x)
  <2> DEFINE e == [c EXCEPT !.at = "completed"]
  <2>1. c.at = "check" /\ Len(c.results) + 1 > Len(Steps[c.book]) /\ UNCHANGED <<runbooks, typeIndex>>
        /\ execution' = [execution EXCEPT ![x] = e]
    BY <1>1, <1>6 DEF Completes, NoMore, StepOf
  <2>2. Len(c.results) = Len(Steps[c.book])
    BY <1>1, <2>1 DEF TrueSoFar
  <2>3. e \in Calls /\ TrueSoFar(e)
    BY <1>1, <2>1, <2>2 DEF Calls, TrueSoFar, Places
  <2> HIDE DEF e
  <2> QED BY <2>1, <2>3, CallKeepsInv
<1> QED BY <1>2, <1>3, <1>4, <1>5, <1>6

LEMMA BookStepKeepsInv == BookInv /\ [BookNext]_bookVars => BookInv'
<1> SUFFICES ASSUME BookInv, [BookNext]_bookVars PROVE BookInv'
  OBVIOUS
<1>1. CASE UNCHANGED bookVars
  BY <1>1 DEF bookVars, BookInv, IndexAgrees
<1>2. CASE BookNext
  BY <1>2, RegisterKeepsInv, RemoveKeepsInv, ExecutionKeepsInv DEF BookNext
<1> QED BY <1>1, <1>2

(* An execution is reported completed only when every step that must       *)
(* succeed has, and the index by incident type holds exactly the           *)
(* registered runbooks (executor.go 87-231).                               *)
THEOREM RunbookResultsHold == BookSpec => [](ResultsAreTrue /\ BookTypeOK)
<1>1. BookInv => ResultsAreTrue
  <2> SUFFICES ASSUME BookInv, NEW x \in Executions
               PROVE  LET e == execution[x]
                          steps == Steps[e.book]
                      IN /\ e.at = "completed" => /\ Fatal(e.results, steps) = {}
                                                  /\ Len(e.results) = Len(steps)
                         /\ e.at = "failed" => Fatal(e.results, steps) = {Len(e.results)}
    BY DEF ResultsAreTrue, Fatal
  <2> QED BY DEF BookInv, TrueSoFar
<1>2. BookInv => BookTypeOK
  <2> SUFFICES ASSUME BookInv, NEW x \in Executions
               PROVE  /\ execution[x].at \in Places
                      /\ ToSet(execution[x].results) \subseteq Outcomes
    BY DEF BookInv, BookTypeOK, Places, Outcomes
  <2>1. execution[x].at \in Places /\ execution[x].results \in Seq(Outcomes)
    BY DEF BookInv, Calls
  <2> QED BY <2>1 DEF ToSet
<1> QED BY <1>1, <1>2, BookInitInv, BookStepKeepsInv, PTL DEF BookSpec
=============================================================================
