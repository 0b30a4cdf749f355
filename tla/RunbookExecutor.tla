-------------------------- MODULE RunbookExecutor --------------------------
(***************************************************************************)
(* Runbooks (intelligence/runbook/executor.go): the map of runbooks with   *)
(* its index by incident type, and executions, each in the goroutine of    *)
(* its caller, step by step, under the time limits of the runbook and of   *)
(* the step.                                                               *)
(*                                                                         *)
(* What an action does is its result, done or failed; the handlers only    *)
(* log and look at their parameters.  A caller may execute a runbook that  *)
(* was removed since he found it, or that was never registered.  Disabled  *)
(* runbooks, which FindRunbooks passes over, are left out.                 *)
(***************************************************************************)
EXTENDS Naturals, Sequences, FiniteSets, SequencesExt

CONSTANTS
  Runbooks, IncidentTypes,
  TypesOf,       \* the incident types of each runbook
  Steps,         \* of each runbook, ContinueOnError of its steps in order
  Executions     \* calls of Execute

ASSUME RunbookAssumption ==
  /\ TypesOf \in [Runbooks -> SUBSET IncidentTypes]
  /\ Steps \in [Runbooks -> Seq(BOOLEAN)]

VARIABLES
  runbooks,   \* e.runbooks
  typeIndex,  \* e.typeIndex; a type without an entry has <<>>
  execution   \* each call of Execute and its ExecutionResult

bookVars == <<runbooks, typeIndex, execution>>

NotCalled == [book |-> "none", at |-> "idle", results |-> <<>>, expired |-> FALSE]

BookInit ==
  /\ runbooks = {}
  /\ typeIndex = [t \in IncidentTypes |-> <<>>]
  /\ execution = [x \in Executions |-> NotCalled]

RegisterRunbook(b) ==
  /\ b \notin runbooks
  /\ runbooks' = runbooks \cup {b}
  /\ typeIndex' = [t \in IncidentTypes |->
                     IF t \in TypesOf[b] THEN Append(typeIndex[t], b) ELSE typeIndex[t]]
  /\ UNCHANGED execution

(* filtered: all but the runbook, in their order.                          *)
Without(ids, b) ==
  FoldLeft(LAMBDA filtered, r : IF r = b THEN filtered ELSE Append(filtered, r), <<>>, ids)

(* A slip: the first of its types only.                                    *)
UnindexedOnce(b) ==
  LET type == CHOOSE t \in TypesOf[b] : TRUE
  IN [typeIndex EXCEPT ![type] = Without(@, b)]

Unindexed(b) ==
  [t \in IncidentTypes |->
     IF t \in TypesOf[b] THEN Without(typeIndex[t], b) ELSE typeIndex[t]]

RemoveRunbook(b) ==
  /\ b \in runbooks
  /\ runbooks' = runbooks \ {b}
  /\ typeIndex' = Unindexed(b)
  /\ UNCHANGED execution

-----------------------------------------------------------------------------
Execute(x, b) ==
  /\ execution[x].at = "idle"
  /\ execution' = [execution EXCEPT ![x] = [NotCalled EXCEPT !.book = b, !.at = "check"]]
  /\ UNCHANGED <<runbooks, typeIndex>>

(* The time limit of the runbook, or the caller's context, ends.           *)
TimeRunsOut(x) ==
  /\ execution[x].at \in {"check", "act"}
  /\ ~execution[x].expired
  /\ execution' = [execution EXCEPT ![x].expired = TRUE]
  /\ UNCHANGED <<runbooks, typeIndex>>

StepOf(x)  == Len(execution[x].results) + 1
NoMore(x)  == StepOf(x) > Len(Steps[execution[x].book])

(* A slip: a failure of the last step passes for the end of the runbook.   *)
StepEndsKindly(x, result) ==
  LET go == result = "done" \/ Steps[execution[x].book][StepOf(x)]
             \/ StepOf(x) = Len(Steps[execution[x].book])
  IN execution' = [execution EXCEPT
       ![x].results = Append(@, result),
       ![x].at = IF go THEN "check" ELSE "failed"]

(* A step is over: the next one, unless it failed and may not.             *)
StepEnds(x, result) ==
  LET go == result = "done" \/ Steps[execution[x].book][StepOf(x)]
  IN execution' = [execution EXCEPT
       ![x].results = Append(@, result),
       ![x].at = IF go THEN "check" ELSE "failed"]

(* Before an action the context is looked at; the limit of the step alone  *)
(* may have passed.                                                        *)
ChecksContext(x) ==
  /\ execution[x].at = "check"
  /\ ~NoMore(x)
  /\ \/ /\ ~execution[x].expired
        /\ execution' = [execution EXCEPT ![x].at = "act"]
     \/ StepEnds(x, "late")
  /\ UNCHANGED <<runbooks, typeIndex>>

Acts(x) ==
  /\ execution[x].at = "act"
  /\ \E result \in {"done", "error"} : StepEnds(x, result)
  /\ UNCHANGED <<runbooks, typeIndex>>

Completes(x) ==
  /\ execution[x].at = "check"
  /\ NoMore(x)
  /\ execution' = [execution EXCEPT ![x].at = "completed"]
  /\ UNCHANGED <<runbooks, typeIndex>>

BookNext ==
  \/ \E b \in Runbooks : RegisterRunbook(b) \/ RemoveRunbook(b)
  \/ \E x \in Executions :
       \/ \E b \in Runbooks : Execute(x, b)
       \/ TimeRunsOut(x) \/ ChecksContext(x) \/ Acts(x) \/ Completes(x)

BookSpec == BookInit /\ [][BookNext]_bookVars

-----------------------------------------------------------------------------
(* The index finds for each type the registered runbooks of that type,     *)
(* each once, whatever was registered and removed before (executor.go      *)
(* 71-151).  A runbook names each of its types once: one that names a type *)
(* twice would be indexed twice (line 89) and removed as a whole.          *)
IndexAgrees ==
  \A t \in IncidentTypes :
    /\ IsInjective(typeIndex[t])
    /\ ToSet(typeIndex[t]) = {b \in runbooks : t \in TypesOf[b]}

(* The executor's state has its types and its index agrees.                *)
BookTypeOK ==
  /\ runbooks \subseteq Runbooks
  /\ IndexAgrees
  /\ \A x \in Executions :
       /\ execution[x].at \in {"idle", "check", "act", "completed", "failed"}
       /\ ToSet(execution[x].results) \subseteq {"done", "error", "late"}

(* An execution's result tells what happened: completed means that every   *)
(* step has a result and that only steps that may fail have failed; failed *)
(* means that the last step taken failed, might not, and was the first of  *)
(* that kind.  A runbook whose time has run out may still complete, if all *)
(* that was left may fail (executor.go 153-257).                           *)
ResultsAreTrue ==
  \A x \in Executions :
    LET results == execution[x].results
        steps == Steps[execution[x].book]
        fatal == {i \in 1 .. Len(results) : results[i] # "done" /\ ~steps[i]}
    IN /\ execution[x].at = "completed" => fatal = {} /\ Len(results) = Len(steps)
       /\ execution[x].at = "failed" => fatal = {Len(results)}
=============================================================================
