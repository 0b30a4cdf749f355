---------------------------- MODULE SecretsCache ----------------------------
(***************************************************************************)
(* The AWS Secrets Manager client (integrations/aws-secrets/client.go):    *)
(* the cache of GetSecret, which is read under the lock, filled by a call  *)
(* to AWS without it and written under it again; the rotation monitor; and *)
(* Stop, which holds the lock while it waits for the monitor.              *)
(*                                                                         *)
(* One secret stands for all: nothing in the client relates two of them.   *)
(* rotations[v] is when version v became current in Secrets Manager.       *)
(***************************************************************************)
EXTENDS Naturals, Sequences

CONSTANTS
  Readers,          \* goroutines that call GetSecret
  CacheTTL,         \* config.CacheTTL
  RotationWindow,   \* config.RotationWindow, 0 for none
  FetchLimit,       \* ticks in which a call to AWS, and its store, end
  MaxRotations,     \* bound on the versions of the secret
  MaxSecretTime     \* bound on the clock

ASSUME SecretsAssumption ==
  /\ CacheTTL \in Nat \ {0} /\ RotationWindow \in Nat /\ FetchLimit \in Nat \ {0}
  /\ MaxRotations \in Nat \ {0} /\ MaxSecretTime \in Nat

VARIABLES
  secretNow,      \* the clock
  rotations,      \* Secrets Manager: when each version appeared
  cached,         \* cache[name]: a version and fetchedAt; version 0 for none
  reader,         \* where each call of GetSecret is
  fetched,        \* the version each call holds and when it began to ask
  served,         \* history: what GetSecret last returned, and when
  secretErr,      \* lastErr # nil: never cleared, Health stays degraded
  secretLock,     \* "free", or "stop": Stop holds mu while it waits
  secretsRunning, \* c.running
  monitor,        \* the goroutine monitorRotation
  lastRotated,    \* entry.LastRotated, as TrackSecret was told; 0 untracked
  rotationDue     \* entry.RotationDue

secretVars == <<secretNow, rotations, cached, reader, fetched, served, secretErr,
                secretLock, secretsRunning, monitor, lastRotated, rotationDue>>

Nothing == [version |-> 0, at |-> 0]

SecretsInit ==
  /\ secretNow = 1
  /\ rotations = <<1>>
  /\ cached = Nothing
  /\ reader = [r \in Readers |-> "idle"]
  /\ fetched = [r \in Readers |-> Nothing]
  /\ served = Nothing
  /\ secretErr = FALSE
  /\ secretLock = "free"
  /\ secretsRunning = FALSE
  /\ monitor = "none"
  /\ lastRotated = 0
  /\ rotationDue = FALSE

SecretVersion == Len(rotations)

-----------------------------------------------------------------------------
(* GetSecret: a fresh entry is returned, otherwise AWS is asked.           *)
StillFresh(entry) == entry.version # 0 /\ secretNow - entry.at < CacheTTL

(* A slip: a hit renews the entry, so a busy one never expires.            *)
CacheHitRenews(r) ==
  /\ StillFresh(cached)
  /\ served' = [version |-> cached.version, at |-> secretNow]
  /\ cached' = [cached EXCEPT !.at = secretNow]
  /\ UNCHANGED <<reader, fetched>>

CacheHit(r) ==
  /\ StillFresh(cached)
  /\ served' = [version |-> cached.version, at |-> secretNow]
  /\ UNCHANGED <<cached, reader, fetched>>

CacheMiss(r) ==
  /\ ~StillFresh(cached)
  /\ reader' = [reader EXCEPT ![r] = "asking"]
  /\ fetched' = [fetched EXCEPT ![r] = [version |-> 0, at |-> secretNow]]
  /\ UNCHANGED <<cached, served>>

GetSecret(r) ==
  /\ reader[r] = "idle"
  /\ secretLock = "free"
  /\ CacheHit(r) \/ CacheMiss(r)
  /\ UNCHANGED <<secretNow, rotations, secretErr, secretLock, secretsRunning, monitor,
                 lastRotated, rotationDue>>

(* AWS answers with the version of that moment; the answer is on its way.  *)
AwsAnswers(r) ==
  /\ reader[r] = "asking"
  /\ reader' = [reader EXCEPT ![r] = "storing"]
  /\ fetched' = [fetched EXCEPT ![r].version = SecretVersion]
  /\ UNCHANGED <<secretNow, rotations, cached, served, secretErr, secretLock,
                 secretsRunning, monitor, lastRotated, rotationDue>>

AwsFails(r) ==
  /\ reader[r] = "asking"
  /\ secretLock = "free"
  /\ secretErr' = TRUE
  /\ reader' = [reader EXCEPT ![r] = "idle"]
  /\ fetched' = [fetched EXCEPT ![r] = Nothing]
  /\ UNCHANGED <<secretNow, rotations, cached, served, secretLock,
                 secretsRunning, monitor, lastRotated, rotationDue>>

(* The entry is dated when it is stored, not when AWS was asked.           *)
StoreSecret(r) ==
  /\ reader[r] = "storing"
  /\ secretLock = "free"
  /\ cached' = [version |-> fetched[r].version, at |-> secretNow]
  /\ served' = [version |-> fetched[r].version, at |-> secretNow]
  /\ reader' = [reader EXCEPT ![r] = "idle"]
  /\ fetched' = [fetched EXCEPT ![r] = Nothing]
  /\ UNCHANGED <<secretNow, rotations, secretErr, secretLock, secretsRunning,
                 monitor, lastRotated, rotationDue>>

-----------------------------------------------------------------------------
(* Rotation monitoring and the life of the client.                         *)
TrackSecret ==
  /\ secretLock = "free"
  /\ lastRotated' = rotations[SecretVersion]
  /\ rotationDue' = FALSE
  /\ UNCHANGED <<secretNow, rotations, cached, reader, fetched, served, secretErr,
                 secretLock, secretsRunning, monitor>>

CheckRotation ==
  rotationDue' = (rotationDue \/ (/\ lastRotated # 0
                                  /\ RotationWindow > 0
                                  /\ secretNow - lastRotated > RotationWindow))

StartSecrets ==
  /\ secretLock = "free"
  /\ ~secretsRunning
  /\ secretsRunning' = TRUE
  /\ monitor' = "waiting"
  /\ UNCHANGED <<secretNow, rotations, cached, reader, fetched, served, secretErr,
                 secretLock, lastRotated, rotationDue>>

(* The ticker fires, also when the context has been cancelled meanwhile:   *)
(* select may take either.                                                 *)
MonitorWakes ==
  /\ monitor = "waiting"
  /\ monitor' = "checking"
  /\ UNCHANGED <<secretNow, rotations, cached, reader, fetched, served, secretErr,
                 secretLock, secretsRunning, lastRotated, rotationDue>>

MonitorChecks ==
  /\ monitor = "checking"
  /\ secretLock = "free"
  /\ CheckRotation
  /\ monitor' = "waiting"
  /\ UNCHANGED <<secretNow, rotations, cached, reader, fetched, served, secretErr,
                 secretLock, secretsRunning, lastRotated>>

(* Stop, or the caller of Start, has ended the context.                    *)
MonitorEnds ==
  /\ monitor = "waiting"
  /\ monitor' = "done"
  /\ UNCHANGED <<secretNow, rotations, cached, reader, fetched, served, secretErr,
                 secretLock, secretsRunning, lastRotated, rotationDue>>

StopSecrets ==
  /\ secretLock = "free"
  /\ secretsRunning
  /\ secretsRunning' = FALSE
  /\ secretLock' = "stop"
  /\ UNCHANGED <<secretNow, rotations, cached, reader, fetched, served, secretErr,
                 monitor, lastRotated, rotationDue>>

(* wg.Wait returns; never, if the monitor was caught before its RLock.     *)
StopSecretsReturns ==
  /\ secretLock = "stop"
  /\ monitor = "done"
  /\ secretLock' = "free"
  /\ UNCHANGED <<secretNow, rotations, cached, reader, fetched, served, secretErr,
                 secretsRunning, monitor, lastRotated, rotationDue>>

-----------------------------------------------------------------------------
(* The world: the secret is rotated, time passes.  No call to AWS, with    *)
(* the wait for the lock that follows, takes more than FetchLimit.         *)
RotateSecret ==
  /\ SecretVersion < MaxRotations
  /\ rotations' = Append(rotations, secretNow)
  /\ UNCHANGED <<secretNow, cached, reader, fetched, served, secretErr, secretLock,
                 secretsRunning, monitor, lastRotated, rotationDue>>

SecretTick ==
  /\ secretNow < MaxSecretTime
  /\ \A r \in Readers : reader[r] # "idle" => secretNow - fetched[r].at < FetchLimit
  /\ secretNow' = secretNow + 1
  /\ UNCHANGED <<rotations, cached, reader, fetched, served, secretErr, secretLock,
                 secretsRunning, monitor, lastRotated, rotationDue>>

SecretsNext ==
  \/ \E r \in Readers : GetSecret(r) \/ AwsAnswers(r) \/ AwsFails(r) \/ StoreSecret(r)
  \/ TrackSecret \/ StartSecrets \/ StopSecrets \/ StopSecretsReturns
  \/ MonitorWakes \/ MonitorChecks \/ MonitorEnds
  \/ RotateSecret \/ SecretTick

SecretsSpec == SecretsInit /\ [][SecretsNext]_secretVars

-----------------------------------------------------------------------------
(* The client's state has its types.                                       *)
SecretsTypeOK ==
  /\ \A v \in 1 .. Len(rotations) : rotations[v] <= secretNow
  /\ cached.version \in 0 .. SecretVersion
  /\ reader \in [Readers -> {"idle", "asking", "storing"}]
  /\ secretErr \in BOOLEAN /\ secretsRunning \in BOOLEAN /\ rotationDue \in BOOLEAN
  /\ secretLock \in {"free", "stop"}
  /\ monitor \in {"none", "waiting", "checking", "done"}
  /\ lastRotated \in 0 .. secretNow

(* What GetSecret returns was the current secret less than the cache's     *)
(* life plus one call to AWS ago, although a slow call may put an older    *)
(* version over a newer one (client.go 160-200).                           *)
SecretsAreRecent ==
  \/ served.version \in {0, SecretVersion}
  \/ served.at < rotations[served.version + 1] + CacheTTL + FetchLimit
=============================================================================
