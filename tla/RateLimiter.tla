---------------------------- MODULE RateLimiter ----------------------------
(***************************************************************************)
(* The token bucket of the REST API (api/rest/middleware.go, with the rate *)
(* and burst of server.go).                                                *)
(*                                                                         *)
(* The code refills rate * elapsed tokens and charges one per request.     *)
(* Here time counts ticks of which each refills one unit, and a request    *)
(* costs Cost units: the same arithmetic, in integers.                     *)
(***************************************************************************)
EXTENDS Integers, Sequences

CONSTANTS
  Clients,        \* the keys of requests: an address and port, or what a proxy forwards
  Burst,          \* rl.capacity
  Cost,           \* ticks in which the rate refills one token
  IdleLimit,      \* ticks after which cleanup forgets a client: an hour
  MaxLimiterTime, \* bound on the clock
  MaxGranted      \* bound on the requests granted to one client

Full == Burst * Cost

(* A bucket is full again long before it may be forgotten: server.go gives *)
(* 100 requests a second and a burst of 200.                               *)
ASSUME RateAssumption ==
  /\ Burst \in Nat \ {0}
  /\ Cost \in Nat \ {0}
  /\ IdleLimit \in Nat
  /\ Full <= IdleLimit
  /\ MaxLimiterTime \in Nat
  /\ MaxGranted \in Nat

VARIABLES
  rlNow,        \* the clock
  limited,      \* the keys of rl.clients
  tokens,       \* bucket.tokens, in units
  lastRefill,   \* bucket.lastRefill
  granted       \* history: when Allow said yes to each client

rateVars == <<rlNow, limited, tokens, lastRefill, granted>>

RateInit ==
  /\ rlNow = 0
  /\ limited = {}
  /\ tokens = [c \in Clients |-> 0]
  /\ lastRefill = [c \in Clients |-> 0]
  /\ granted = [c \in Clients |-> <<>>]

Grown(c) == tokens[c] + (rlNow - lastRefill[c])

(* A slip: no cap on what an idle bucket collects.                         *)
RefilledUncapped(c) == IF c \in limited THEN Grown(c) ELSE Full

(* What Allow finds in the bucket: a new one is full, an old one has       *)
(* gained what the time since its last refill is worth.                    *)
Refilled(c) == IF c \in limited /\ Grown(c) < Full THEN Grown(c) ELSE Full

AllowRejects(c) ==
  /\ Refilled(c) < Cost
  /\ tokens' = [tokens EXCEPT ![c] = Refilled(c)]
  /\ UNCHANGED granted

AllowGrants(c) ==
  /\ Refilled(c) >= Cost
  /\ Len(granted[c]) < MaxGranted
  /\ tokens' = [tokens EXCEPT ![c] = Refilled(c) - Cost]
  /\ granted' = [granted EXCEPT ![c] = Append(@, rlNow)]

Allow(c) ==
  /\ limited' = limited \cup {c}
  /\ lastRefill' = [lastRefill EXCEPT ![c] = rlNow]
  /\ AllowRejects(c) \/ AllowGrants(c)
  /\ UNCHANGED rlNow

(* The sweep runs on a ten minute ticker, at times the model leaves open.  *)
Cleanup ==
  /\ limited' = {c \in limited : rlNow - lastRefill[c] <= IdleLimit}
  /\ UNCHANGED <<rlNow, tokens, lastRefill, granted>>

LimiterTick ==
  /\ rlNow < MaxLimiterTime
  /\ rlNow' = rlNow + 1
  /\ UNCHANGED <<limited, tokens, lastRefill, granted>>

RateNext ==
  \/ \E c \in Clients : Allow(c)
  \/ Cleanup
  \/ LimiterTick

RateSpec == RateInit /\ [][RateNext]_rateVars

-----------------------------------------------------------------------------
(* The limiter's state has its types; a bucket never overflows.            *)
RateTypeOK ==
  /\ rlNow \in Nat
  /\ limited \subseteq Clients
  /\ tokens \in [Clients -> 0 .. Full]
  /\ lastRefill \in [Clients -> Nat]
  /\ granted \in [Clients -> Seq(Nat)]

(* In every stretch of time a key is granted at most the burst and what    *)
(* the rate refills in that stretch, whatever it was refused in between    *)
(* and whenever its bucket was forgotten (middleware.go 149-191).  The key *)
(* is the remote address with its port, or what a proxy forwards: without  *)
(* a proxy the bound is one of each connection, and not of whoever opens   *)
(* them (middleware.go 58-61).                                             *)
RateBound ==
  \A c \in Clients : \A i, j \in 1 .. Len(granted[c]) :
    i <= j => (j - i + 1) * Cost <= Full + (granted[c][j] - granted[c][i])
=============================================================================
