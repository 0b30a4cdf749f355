---------------------------- MODULE PipelineRuns ----------------------------
(***************************************************************************)
(* What the CI/CD collector knows of workflow runs                         *)
(* (collectors/cicd/collector.go): one goroutine polls GitHub, and HTTP    *)
(* handlers hand over webhooks, in any order and at any time.  Both write  *)
(* c.runs; the poll reads an entry and writes it in different critical     *)
(* sections, with the page it fetched before either.                       *)
(*                                                                         *)
(* A run's status and conclusion are one number, which grows as the run    *)
(* advances (0: it does not exist, or is not tracked).  Runs are numbered  *)
(* in the order of their creation and GitHub lists the newest first.       *)
(* Durations are left out; events, and Stop, are in CollectorLifecycle.    *)
(***************************************************************************)
EXTENDS Naturals, FiniteSets

CONSTANTS
  NumRuns,     \* runs are 1 .. NumRuns
  LastStatus,  \* the status of a run that has ended
  PageSize     \* per_page of the request

ASSUME PipelineAssumption ==
  NumRuns \in Nat /\ LastStatus \in Nat \ {0} /\ PageSize \in Nat

Runs == 1 .. NumRuns

VARIABLES
  github,   \* each run's true status
  hooks,    \* webhooks sent and not delivered
  tracked,  \* c.runs
  polling,  \* where the poll goroutine is
  page,     \* what it fetched and has not processed
  item      \* the run it processes

pipeVars == <<github, hooks, tracked, polling, page, item>>

Seen(r, status) == [run |-> r, status |-> status]
NoItem == Seen(0, 0)

PipeInit ==
  /\ github = [r \in Runs |-> 0]
  /\ hooks = {}
  /\ tracked = [r \in Runs |-> 0]
  /\ polling = "off"
  /\ page = {}
  /\ item = NoItem

(* A run is created or advances, and GitHub sends a webhook.               *)
GitHubAdvances(r) ==
  /\ github[r] < LastStatus
  /\ \A older \in 1 .. r - 1 : github[older] > 0
  /\ github' = [github EXCEPT ![r] = @ + 1]
  /\ hooks' = hooks \cup {Seen(r, github[r] + 1)}
  /\ UNCHANGED <<tracked, polling, page, item>>

(* HandleWebhook: the entry is made if there is none, and set.             *)
HandleWebhook(hook) ==
  /\ hooks' = hooks \ {hook}
  /\ tracked' = [tracked EXCEPT ![hook.run] = hook.status]
  /\ UNCHANGED <<github, polling, page, item>>

-----------------------------------------------------------------------------
PollStarts ==
  /\ polling = "off"
  /\ polling' = "idle"
  /\ UNCHANGED <<github, hooks, tracked, page, item>>

Listed ==
  {r \in Runs : github[r] > 0
                /\ Cardinality({s \in Runs : s > r /\ github[s] > 0}) < PageSize}

(* A request that fails changes nothing of this.                           *)
FetchWorkflowRuns ==
  /\ polling = "idle"
  /\ polling' = "page"
  /\ page' = {Seen(r, github[r]) : r \in Listed}
  /\ UNCHANGED <<github, hooks, tracked, item>>

(* A slip: taking a run that is tracked for one that is known.             *)
SkipsTracked(s) ==
  /\ polling = "page"
  /\ page' = page \ {s}
  /\ IF tracked[s.run] > 0 THEN UNCHANGED <<polling, item>>
     ELSE polling' = "store" /\ item' = s
  /\ UNCHANGED <<github, hooks, tracked>>

LooksUp(s) ==
  /\ polling = "page"
  /\ page' = page \ {s}
  /\ item' = s
  /\ polling' = IF tracked[s.run] > 0 THEN "compare" ELSE "store"
  /\ UNCHANGED <<github, hooks, tracked>>

Compares ==
  /\ polling = "compare"
  /\ IF tracked[item.run] = item.status
     THEN polling' = "page" /\ item' = NoItem
     ELSE polling' = "store" /\ UNCHANGED item
  /\ UNCHANGED <<github, hooks, tracked, page>>

(* The entry is updated, or a new one takes the place of any that a        *)
(* webhook has made in the meantime.                                       *)
StoresRun ==
  /\ polling = "store"
  /\ tracked' = [tracked EXCEPT ![item.run] = item.status]
  /\ polling' = "page"
  /\ item' = NoItem
  /\ UNCHANGED <<github, hooks, page>>

PollEnds ==
  /\ polling = "page"
  /\ page = {}
  /\ polling' = "idle"
  /\ UNCHANGED <<github, hooks, tracked, page, item>>

PollGitHub ==
  FetchWorkflowRuns \/ (\E s \in page : LooksUp(s)) \/ Compares \/ StoresRun \/ PollEnds

PipeNext ==
  \/ \E r \in Runs : GitHubAdvances(r)
  \/ \E hook \in hooks : HandleWebhook(hook)
  \/ PollStarts
  \/ PollGitHub

(* The ticker ticks, and requests do not fail for ever.                    *)
PipeFairness == WF_pipeVars(PollGitHub)

PipeSpec == PipeInit /\ [][PipeNext]_pipeVars /\ PipeFairness

-----------------------------------------------------------------------------
(* The collector's state has its types.                                    *)
PipeTypeOK ==
  /\ github \in [Runs -> 0 .. LastStatus]
  /\ hooks \subseteq {Seen(r, s) : r \in Runs, s \in 1 .. LastStatus}
  /\ tracked \in [Runs -> 0 .. LastStatus]
  /\ polling \in {"off", "idle", "page", "compare", "store"}
  /\ page \subseteq {Seen(r, s) : r \in Runs, s \in 1 .. LastStatus}
  /\ item \in {NoItem} \cup {Seen(r, s) : r \in Runs, s \in 1 .. LastStatus}

(* Whatever late or reordered webhooks, and overlapping polls, have        *)
(* written over newer statuses, the runs GitHub still lists end up with    *)
(* the status they have (collector.go 178-247, 281-420).  A run that has   *)
(* left the page keeps what was last written.                              *)
RunsConverge ==
  <>[](polling # "off" => \A r \in Listed : tracked[r] = github[r])
=============================================================================
