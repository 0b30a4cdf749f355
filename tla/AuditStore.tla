----------------------------- MODULE AuditStore -----------------------------
(***************************************************************************)
(* The audit store (internal/audit/store.go): Log appends to a bounded     *)
(* memory and then to a file, in two critical sections, so concurrent      *)
(* entries may be in one order here and in the other there; Close closes   *)
(* the file without the mutex, and Log ignores what Write returns: the     *)
(* file may miss any entry, and Log returns all the same.                  *)
(*                                                                         *)
(* An entry is its caller, its number among the caller's, and, as history, *)
(* how many calls of each caller had returned when its own call began.     *)
(***************************************************************************)
EXTENDS Naturals, Sequences, SequencesExt

CONSTANTS
  Auditors,      \* goroutines that call Log
  MaxEntries,    \* s.maxSize
  EntriesEach    \* bound on the entries of one caller

ASSUME AuditAssumption == MaxEntries \in Nat \ {0} /\ EntriesEach \in Nat

VARIABLES
  entries,      \* s.entries
  auditFile,    \* the entries that are whole lines of the file, in order
  fileClosed,
  auditor,      \* where each caller is
  logged,       \* calls of Log each has begun
  inserted,     \* history: every entry, in the order of the memory
  after         \* history: the calls returned when each caller's latest began

auditVars == <<entries, auditFile, fileClosed, auditor, logged, inserted, after>>

AuditInit ==
  /\ entries = <<>>
  /\ auditFile = <<>>
  /\ fileClosed = FALSE
  /\ auditor = [a \in Auditors |-> "idle"]
  /\ logged = [a \in Auditors |-> 0]
  /\ inserted = <<>>
  /\ after = [a \in Auditors |-> [b \in Auditors |-> 0]]

(* The calls of a caller that have returned.                               *)
Returned(b) == IF auditor[b] = "idle" THEN logged[b] ELSE logged[b] - 1

EntryOf(a) == <<a, logged[a], after[a]>>

LogBegins(a) ==
  /\ auditor[a] = "idle"
  /\ logged[a] < EntriesEach
  /\ logged' = [logged EXCEPT ![a] = @ + 1]
  /\ after' = [after EXCEPT ![a] = [b \in Auditors |-> Returned(b)]]
  /\ auditor' = [auditor EXCEPT ![a] = "memory"]
  /\ UNCHANGED <<entries, auditFile, fileClosed, inserted>>

LastOf(seq) == SubSeq(seq, Len(seq) - MaxEntries + 1, Len(seq))

(* A slip: a full memory that keeps what it has.                           *)
KeepsOldest(seq) == IF Len(seq) > MaxEntries THEN SubSeq(seq, 1, MaxEntries) ELSE seq

Capped(seq) == IF Len(seq) > MaxEntries THEN LastOf(seq) ELSE seq

LogInMemory(a) ==
  /\ auditor[a] = "memory"
  /\ entries' = Capped(Append(entries, EntryOf(a)))
  /\ inserted' = Append(inserted, EntryOf(a))
  /\ auditor' = [auditor EXCEPT ![a] = "file"]
  /\ UNCHANGED <<auditFile, fileClosed, logged, after>>

(* The write makes a line of the entry, or none: there is no file, or it   *)
(* is closed, or Write fails or is cut short, or what it writes continues  *)
(* the piece a short one left. Log returns in every case.                  *)
LogInFile(a) ==
  /\ auditor[a] = "file"
  /\ \/ ~fileClosed /\ auditFile' = Append(auditFile, EntryOf(a))
     \/ UNCHANGED auditFile
  /\ auditor' = [auditor EXCEPT ![a] = "idle"]
  /\ UNCHANGED <<entries, fileClosed, logged, inserted, after>>

CloseStore ==
  /\ fileClosed' = TRUE
  /\ UNCHANGED <<entries, auditFile, auditor, logged, inserted, after>>

AuditNext ==
  \/ \E a \in Auditors : LogBegins(a) \/ LogInMemory(a) \/ LogInFile(a)
  \/ CloseStore

AuditSpec == AuditInit /\ [][AuditNext]_auditVars

-----------------------------------------------------------------------------
(* The store's state has its types.                                        *)
AuditTypeOK ==
  /\ Len(entries) <= MaxEntries
  /\ fileClosed \in BOOLEAN
  /\ auditor \in [Auditors -> {"idle", "memory", "file"}]
  /\ logged \in [Auditors -> 0 .. EntriesEach]

Ascending(trail) ==
  \A i, j \in 1 .. Len(trail) : i < j /\ trail[i][1] = trail[j][1] => trail[i][2] < trail[j][2]

KeepsTime(trail) ==
  \A i, j \in 1 .. Len(trail) : i < j => trail[i][3][trail[j][1]] < trail[j][2]

(* The memory holds the latest entries. The file may miss any, but holds   *)
(* none the memory was never given. The two may disagree on the order of   *)
(* calls that overlap; in both a caller's entries stand once each and in   *)
(* his order, and no entry stands behind one that was logged after its own *)
(* Log had returned (store.go 79-116, 157-163).                            *)
AuditTrail ==
  /\ Len(entries) = IF Len(inserted) < MaxEntries THEN Len(inserted) ELSE MaxEntries
  /\ IsSuffix(entries, inserted)
  /\ ToSet(auditFile) \subseteq ToSet(inserted)
  /\ Ascending(entries) /\ Ascending(auditFile)
  /\ KeepsTime(entries) /\ KeepsTime(auditFile)
=============================================================================
