------------------------- MODULE RootCauseAnalyzer -------------------------
(***************************************************************************)
(* The root cause analyzer (intelligence/rootcause/analyzer.go) and the    *)
(* retries of its language model (integrations/bedrock/client.go): every   *)
(* grave event gets a goroutine, which asks the model on the context of    *)
(* its caller, falls back to a heuristic, and stores what it has.          *)
(*                                                                         *)
(* The service behind Bedrock answers or fails, and always does either:    *)
(* the calls of the SDK time out.  What the graph says is in               *)
(* DependencyGraph; the agent's graph is empty.                            *)
(***************************************************************************)
EXTENDS Naturals

CONSTANTS
  GraveEvents,   \* events of high or critical severity
  WithModel,     \* a set of Booleans: is there a language model
  MaxRetries

ASSUME RootCauseAssumption ==
  WithModel \subseteq BOOLEAN /\ MaxRetries \in Nat

VARIABLES
  hasModel,  \* a.llm # nil; never changes
  rcDone,    \* the context of Analyze's callers is done
  analysis,  \* where the goroutine of each event is
  attempts,  \* the calls it has made
  causes     \* a.cache: what each event's entry came from

rcVars == <<hasModel, rcDone, analysis, attempts, causes>>

RcInit ==
  /\ hasModel \in WithModel
  /\ rcDone = FALSE
  /\ analysis = [e \in GraveEvents |-> "none"]
  /\ attempts = [e \in GraveEvents |-> 0]
  /\ causes = [e \in GraveEvents |-> "none"]

RcCancel ==
  /\ ~rcDone
  /\ rcDone' = TRUE
  /\ UNCHANGED <<hasModel, analysis, attempts, causes>>

AnalysisTo(e, at) == analysis' = [analysis EXCEPT ![e] = at]

(* The event's goroutine walks the graph and calls the model, if any.      *)
RcAnalyze(e) ==
  /\ analysis[e] = "none"
  /\ AnalysisTo(e, IF hasModel THEN "call" ELSE "heuristic")
  /\ UNCHANGED <<hasModel, rcDone, attempts, causes>>

ModelAnswers(e) ==
  /\ analysis[e] = "call"
  /\ ~rcDone
  /\ attempts' = [attempts EXCEPT ![e] = @ + 1]
  /\ AnalysisTo(e, "answered")
  /\ UNCHANGED <<hasModel, rcDone, causes>>

(* A call on a context that is done fails as well.                         *)
ModelFails(e) ==
  /\ analysis[e] = "call"
  /\ attempts' = [attempts EXCEPT ![e] = @ + 1]
  /\ AnalysisTo(e, IF attempts[e] < MaxRetries THEN "backoff" ELSE "heuristic")
  /\ UNCHANGED <<hasModel, rcDone, causes>>

(* A slip: an analysis that a cancelled wait throws away.                  *)
BackoffGivesUp(e) ==
  /\ analysis[e] = "backoff"
  /\ AnalysisTo(e, IF rcDone THEN "lost" ELSE "call")
  /\ UNCHANGED <<hasModel, rcDone, attempts, causes>>

(* select: the wait is over, or the context is done.                       *)
BackoffEnds(e) ==
  /\ analysis[e] = "backoff"
  /\ \/ AnalysisTo(e, "call")
     \/ rcDone /\ AnalysisTo(e, "heuristic")
  /\ UNCHANGED <<hasModel, rcDone, attempts, causes>>

StoresCause(e) ==
  /\ analysis[e] \in {"answered", "heuristic"}
  /\ causes' = [causes EXCEPT ![e] = analysis[e]]
  /\ AnalysisTo(e, "stored")
  /\ UNCHANGED <<hasModel, rcDone, attempts>>

AnalysisStep(e) ==
  ModelAnswers(e) \/ ModelFails(e) \/ BackoffEnds(e) \/ StoresCause(e)

RcNext ==
  RcCancel \/ \E e \in GraveEvents : RcAnalyze(e) \/ AnalysisStep(e)

RcFairness == \A e \in GraveEvents : WF_rcVars(AnalysisStep(e))

RcSpec == RcInit /\ [][RcNext]_rcVars /\ RcFairness

-----------------------------------------------------------------------------
(* The analyzer's state has its types.                                     *)
RcTypeOK ==
  /\ hasModel \in BOOLEAN /\ rcDone \in BOOLEAN
  /\ analysis \in [GraveEvents -> {"none", "call", "backoff", "answered", "heuristic",
                                   "stored"}]
  /\ attempts \in [GraveEvents -> 0 .. MaxRetries + 1]
  /\ causes \in [GraveEvents -> {"none", "answered", "heuristic"}]

(* Every event that is taken up gets its analysis, also when the model     *)
(* fails for good or the context ends between two attempts                 *)
(* (analyzer.go 80-183, client.go 118-144).                                *)
EventsAnalysed ==
  \A e \in GraveEvents : analysis[e] # "none" ~> causes[e] # "none"
=============================================================================
