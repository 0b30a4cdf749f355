----------------------------- MODULE VaultSync -----------------------------
(***************************************************************************)
(* The Vault client (integrations/vault/client.go): the metadata it tracks *)
(* is refreshed by background sync loops and by callers of                 *)
(* MonitorSecretRotation and MonitorCertificates, each of which reads      *)
(* Vault without the lock and stores what it read under it.  A refresh may *)
(* so put an older version over a newer one, until a later sync.           *)
(*                                                                         *)
(* An item is the path of a secret or of a certificate.  Its version       *)
(* stands for what Vault says of it: version, creation and expiry times.   *)
(***************************************************************************)
EXTENDS Naturals, FiniteSets

CONSTANTS
  Items,          \* paths known to Vault
  SyncLoops,      \* calls of StartBackgroundSync
  Monitors,       \* callers of the two Monitor functions
  MaxVersion,     \* bound on the versions of an item
  MaxVaultErrors  \* bound on the reads that fail

ASSUME VaultAssumption ==
  MaxVersion \in Nat /\ MaxVaultErrors \in Nat /\ SyncLoops \cap Monitors = {}

VARIABLES
  inVault,      \* the version of each item in Vault
  meta,         \* the version in c.secrets or c.certs, 0 as tracked, -1 untracked
  due,          \* items reported due for rotation or near expiry
  refresher,    \* where each sync loop and each monitoring call is
  toVisit,      \* the paths it has copied and not yet visited
  read,         \* the item it is at and what Vault answered
  cancelHeld,   \* the loop that c.cancel ends, or "none": a new Start drops the old
  cancelled,    \* loops whose context was cancelled
  closing,      \* Close: "none", "waiting" for wg, "closed"
  vaultErrors   \* reads that failed, each leaving lastErr set for good

vaultVars == <<inVault, meta, due, refresher, toVisit, read, cancelHeld, cancelled,
               closing, vaultErrors>>

Refreshers == SyncLoops \cup Monitors
NoAnswer == <<"none", 0>>
Tracked == {i \in Items : meta[i] >= 0}

VaultInit ==
  /\ inVault = [i \in Items |-> 1]
  /\ meta = [i \in Items |-> 0 - 1]
  /\ due = {}
  /\ refresher = [x \in Refreshers |-> "none"]
  /\ toVisit = [x \in Refreshers |-> {}]
  /\ read = [x \in Refreshers |-> NoAnswer]
  /\ cancelHeld = "none"
  /\ cancelled = {}
  /\ closing = "none"
  /\ vaultErrors = 0

TrackItem(i) ==
  /\ meta' = [meta EXCEPT ![i] = 0]
  /\ due' = due \ {i}
  /\ UNCHANGED <<inVault, refresher, toVisit, read, cancelHeld, cancelled, closing,
                 vaultErrors>>

NewVersion(i) ==
  /\ inVault[i] < MaxVersion
  /\ inVault' = [inVault EXCEPT ![i] = @ + 1]
  /\ UNCHANGED <<meta, due, refresher, toVisit, read, cancelHeld, cancelled, closing,
                 vaultErrors>>

BeginRound(x, paths) ==
  /\ refresher' = [refresher EXCEPT ![x] = "round"]
  /\ toVisit' = [toVisit EXCEPT ![x] = paths]

StartBackgroundSync(x) ==
  /\ refresher[x] = "none"
  /\ closing = "none"
  /\ cancelHeld' = x
  /\ BeginRound(x, Tracked)
  /\ UNCHANGED <<inVault, meta, due, read, cancelled, closing, vaultErrors>>

SyncTicks(x) ==
  /\ refresher[x] = "ticker"
  /\ BeginRound(x, Tracked)
  /\ UNCHANGED <<inVault, meta, due, read, cancelHeld, cancelled, closing, vaultErrors>>

(* MonitorSecretRotation asks for the paths it is given, tracked or not.   *)
MonitorCalled(x) ==
  /\ refresher[x] = "none"
  /\ \E paths \in SUBSET Items : BeginRound(x, paths)
  /\ UNCHANGED <<inVault, meta, due, read, cancelHeld, cancelled, closing, vaultErrors>>

(* Vault's answer is of this moment and is stored later.                   *)
ReadVault(x, i) ==
  /\ refresher[x] = "round"
  /\ i \in toVisit[x]
  /\ refresher' = [refresher EXCEPT ![x] = "storing"]
  /\ read' = [read EXCEPT ![x] = <<i, inVault[i]>>]
  /\ toVisit' = [toVisit EXCEPT ![x] = @ \ {i}]
  /\ UNCHANGED <<inVault, meta, due, cancelHeld, cancelled, closing, vaultErrors>>

(* A path that cannot be read is left as it was, until the next round; so  *)
(* is every path once the context of the loop is cancelled.                *)
ReadFails(x, i) ==
  /\ refresher[x] = "round"
  /\ i \in toVisit[x]
  /\ \/ x \in cancelled /\ UNCHANGED vaultErrors
     \/ vaultErrors < MaxVaultErrors /\ vaultErrors' = vaultErrors + 1
  /\ toVisit' = [toVisit EXCEPT ![x] = @ \ {i}]
  /\ UNCHANGED <<inVault, meta, due, refresher, read, cancelHeld, cancelled, closing>>

(* A slip: a version once known is not looked at again.                    *)
StoreFirst(x) ==
  /\ refresher[x] = "storing"
  /\ LET i == read[x][1]
     IN  meta' = [meta EXCEPT ![i] = IF @ = 0 THEN read[x][2] ELSE @]
  /\ refresher' = [refresher EXCEPT ![x] = "round"]
  /\ read' = [read EXCEPT ![x] = NoAnswer]
  /\ UNCHANGED <<inVault, due, toVisit, cancelHeld, cancelled, closing, vaultErrors>>

StoreMeta(x) ==
  /\ refresher[x] = "storing"
  /\ LET i == read[x][1]
     IN  meta' = IF i \in Tracked THEN [meta EXCEPT ![i] = read[x][2]] ELSE meta
  /\ refresher' = [refresher EXCEPT ![x] = "round"]
  /\ read' = [read EXCEPT ![x] = NoAnswer]
  /\ UNCHANGED <<inVault, due, toVisit, cancelHeld, cancelled, closing, vaultErrors>>

RoundEnds(x) ==
  /\ x \in SyncLoops
  /\ refresher[x] = "round" /\ toVisit[x] = {}
  /\ refresher' = [refresher EXCEPT ![x] = "ticker"]
  /\ UNCHANGED <<inVault, meta, due, toVisit, read, cancelHeld, cancelled, closing,
                 vaultErrors>>

(* What is old, or near its expiry, is reported; whether an item is, is    *)
(* left open, but RotationDue of a secret is never taken back.             *)
MonitorReports(x) ==
  /\ x \in Monitors
  /\ refresher[x] = "round" /\ toVisit[x] = {}
  /\ \E late \in SUBSET Tracked : due' = due \cup late
  /\ refresher' = [refresher EXCEPT ![x] = "none"]
  /\ UNCHANGED <<inVault, meta, toVisit, read, cancelHeld, cancelled, closing, vaultErrors>>

SyncEnds(x) ==
  /\ refresher[x] = "ticker"
  /\ x \in cancelled
  /\ refresher' = [refresher EXCEPT ![x] = "done"]
  /\ UNCHANGED <<inVault, meta, due, toVisit, read, cancelHeld, cancelled, closing,
                 vaultErrors>>

(* The context that the loop was started with ends.                        *)
CallerCancels(x) ==
  /\ refresher[x] # "none"
  /\ cancelled' = cancelled \cup {x}
  /\ UNCHANGED <<inVault, meta, due, refresher, toVisit, read, cancelHeld, closing,
                 vaultErrors>>

CloseVault ==
  /\ closing = "none"
  /\ closing' = "waiting"
  /\ cancelled' = cancelled \cup ({cancelHeld} \ {"none"})
  /\ UNCHANGED <<inVault, meta, due, refresher, toVisit, read, cancelHeld, vaultErrors>>

CloseReturns ==
  /\ closing = "waiting"
  /\ \A x \in SyncLoops : refresher[x] \in {"none", "done"}
  /\ closing' = "closed"
  /\ UNCHANGED <<inVault, meta, due, refresher, toVisit, read, cancelHeld, cancelled,
                 vaultErrors>>

VaultNext ==
  \/ \E i \in Items : TrackItem(i) \/ NewVersion(i)
  \/ \E x \in SyncLoops : StartBackgroundSync(x) \/ SyncTicks(x) \/ SyncEnds(x)
                        \/ CallerCancels(x)
  \/ \E x \in Monitors : MonitorCalled(x) \/ MonitorReports(x)
  \/ \E x \in Refreshers :
       \/ \E i \in Items : ReadVault(x, i) \/ ReadFails(x, i)
       \/ StoreMeta(x)
       \/ RoundEnds(x)
  \/ CloseVault \/ CloseReturns

(* Goroutines and calls that were begun go on, tickers tick, and Vault     *)
(* answers; nobody must call.                                              *)
VaultFairness ==
  /\ \A x \in SyncLoops :
       WF_vaultVars(SyncTicks(x)) /\ WF_vaultVars(RoundEnds(x))
  /\ \A x \in SyncLoops : SF_vaultVars(SyncEnds(x))
  /\ \A x \in Monitors : WF_vaultVars(MonitorReports(x))
  /\ \A x \in Refreshers :
       /\ WF_vaultVars(StoreMeta(x))
       /\ \A i \in Items : WF_vaultVars(ReadVault(x, i) \/ ReadFails(x, i))
  /\ WF_vaultVars(CloseReturns)

VaultSpec == VaultInit /\ [][VaultNext]_vaultVars /\ VaultFairness

-----------------------------------------------------------------------------
(* The client's state has its types.                                       *)
VaultTypeOK ==
  /\ \A i \in Items : meta[i] \in {0 - 1} \cup 0 .. inVault[i]
  /\ due \subseteq Tracked
  /\ refresher \in [Refreshers -> {"none", "round", "ticker", "storing", "done"}]
  /\ toVisit \in [Refreshers -> SUBSET Items]
  /\ cancelled \subseteq SyncLoops
  /\ closing \in {"none", "waiting", "closed"}
  /\ vaultErrors \in 0 .. MaxVaultErrors

Syncing == \E x \in SyncLoops \ cancelled : refresher[x] # "none"

(* While a background sync lives, what is tracked ends up, for good, as    *)
(* Vault has it, once neither changes any more: late answers, failed reads *)
(* and monitoring calls only delay it (client.go 196-290).                 *)
VaultConverges ==
  \/ <>[](\A i \in Tracked : meta[i] = inVault[i])
  \/ <>[]~Syncing
  \/ []<><<\E i \in Items : TrackItem(i)>>_vaultVars
=============================================================================
