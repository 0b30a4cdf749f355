---------------------------- MODULE PolicyEngine ----------------------------
(***************************************************************************)
(* The policy engine (core/policy/engine.go): Evaluate counts the call,    *)
(* copies the enabled policies under the read lock, evaluates the copy     *)
(* without it and appends what it found to a bounded list under the lock,  *)
(* while policies are added, switched and removed.                         *)
(*                                                                         *)
(* A resource is what it breaches: a set of policy ids.  evaluatePolicy    *)
(* switches on the id and knows two: of the other three the engine is      *)
(* built with (rules.go), and of every policy added later, nothing is ever *)
(* reported, whatever their Rego says.                                     *)
(***************************************************************************)
EXTENDS Naturals, Sequences, SequencesExt, FiniteSets

CONSTANTS
  Policies,        \* ids of policies
  Implemented,     \* "require-resource-limits" and "no-latest-tag"
  Evaluators,      \* goroutines that call Evaluate
  MaxViolations,   \* violations kept: 10000
  MaxEvaluations   \* bound on the calls of Evaluate

ASSUME PolicyAssumption ==
  /\ Implemented \subseteq Policies /\ IsFiniteSet(Implemented)
  /\ MaxViolations \in Nat \ {0} /\ MaxEvaluations \in Nat

VARIABLES
  defined,      \* the keys of e.policies
  enabled,      \* those with Enabled
  violations,   \* e.violations, each the id of its policy
  evalCount,    \* e.evalCount
  evaluator,    \* where each call of Evaluate is
  resource,     \* what its input breaches
  copied,       \* its copy of the enabled policies
  always,       \* history: policies enabled during all of the call so far
  sometime,     \* history: policies enabled at some moment of it
  found         \* what the last call of each returned

policyVars == <<defined, enabled, violations, evalCount, evaluator, resource, copied,
                always, sometime, found>>

PolicyInit ==
  /\ defined = Policies
  /\ enabled = Policies
  /\ violations = <<>>
  /\ evalCount = 0
  /\ evaluator = [e \in Evaluators |-> "idle"]
  /\ resource = [e \in Evaluators |-> {}]
  /\ copied = [e \in Evaluators |-> {}]
  /\ always = [e \in Evaluators |-> {}]
  /\ sometime = [e \in Evaluators |-> {}]
  /\ found = [e \in Evaluators |-> {}]

(* Every call in progress sees the change of the enabled policies.         *)
Witness(now) ==
  /\ enabled' = now
  /\ always' = [e \in Evaluators |-> always[e] \cap now]
  /\ sometime' = [e \in Evaluators |->
                    IF evaluator[e] = "idle" THEN {} ELSE sometime[e] \cup now]

AddPolicy(p) ==
  /\ defined' = defined \cup {p}
  /\ Witness(enabled \cup {p}) \/ Witness(enabled \ {p})
  /\ UNCHANGED <<violations, evalCount, evaluator, resource, copied, found>>

RemovePolicy(p) ==
  /\ p \in defined
  /\ defined' = defined \ {p}
  /\ Witness(enabled \ {p})
  /\ UNCHANGED <<violations, evalCount, evaluator, resource, copied, found>>

(* The call is counted before the input is known to be an object.          *)
EvaluateBegins(e) ==
  /\ evaluator[e] = "idle"
  /\ evalCount < MaxEvaluations
  /\ evalCount' = evalCount + 1
  /\ evaluator' = [evaluator EXCEPT ![e] = "parsed"]
  /\ \E breached \in SUBSET Policies : resource' = [resource EXCEPT ![e] = breached]
  /\ always' = [always EXCEPT ![e] = enabled]
  /\ sometime' = [sometime EXCEPT ![e] = enabled]
  /\ found' = [found EXCEPT ![e] = {}]
  /\ UNCHANGED <<defined, enabled, violations, copied>>

InputRefused(e) ==
  /\ evaluator[e] = "idle"
  /\ evalCount < MaxEvaluations
  /\ evalCount' = evalCount + 1
  /\ UNCHANGED <<defined, enabled, violations, evaluator, resource, copied, always,
                 sometime, found>>

(* A slip: the copy takes every policy, enabled or not.                    *)
CopyDefined(e) ==
  /\ evaluator[e] = "parsed"
  /\ copied' = [copied EXCEPT ![e] = defined]
  /\ evaluator' = [evaluator EXCEPT ![e] = "evaluating"]
  /\ UNCHANGED <<defined, enabled, violations, evalCount, resource, always, sometime,
                 found>>

CopyEnabled(e) ==
  /\ evaluator[e] = "parsed"
  /\ copied' = [copied EXCEPT ![e] = enabled]
  /\ evaluator' = [evaluator EXCEPT ![e] = "evaluating"]
  /\ UNCHANGED <<defined, enabled, violations, evalCount, resource, always, sometime,
                 found>>

Newest(seq) ==
  IF Len(seq) > MaxViolations THEN SubSeq(seq, Len(seq) - MaxViolations + 1, Len(seq))
                              ELSE seq

(* The policies come out of a map, in any order.                           *)
EvaluateEnds(e) ==
  /\ evaluator[e] = "evaluating"
  /\ LET breached == copied[e] \cap Implemented \cap resource[e]
     IN  /\ \E batch \in SetToSeqs(breached) : violations' = Newest(violations \o batch)
         /\ found' = [found EXCEPT ![e] = breached]
  /\ evaluator' = [evaluator EXCEPT ![e] = "returned"]
  /\ UNCHANGED <<defined, enabled, evalCount, resource, copied, always, sometime>>

EvaluateReturns(e) ==
  /\ evaluator[e] = "returned"
  /\ evaluator' = [evaluator EXCEPT ![e] = "idle"]
  /\ resource' = [resource EXCEPT ![e] = {}]
  /\ copied' = [copied EXCEPT ![e] = {}]
  /\ always' = [always EXCEPT ![e] = {}]
  /\ sometime' = [sometime EXCEPT ![e] = {}]
  /\ found' = [found EXCEPT ![e] = {}]
  /\ UNCHANGED <<defined, enabled, violations, evalCount>>

PolicyNext ==
  \/ \E p \in Policies : AddPolicy(p) \/ RemovePolicy(p)
  \/ \E e \in Evaluators : \/ EvaluateBegins(e) \/ InputRefused(e)
                           \/ CopyEnabled(e)
                           \/ EvaluateEnds(e) \/ EvaluateReturns(e)

PolicySpec == PolicyInit /\ [][PolicyNext]_policyVars

-----------------------------------------------------------------------------
(* The engine's state has its types.                                       *)
PolicyTypeOK ==
  /\ enabled \subseteq defined /\ defined \subseteq Policies
  /\ violations \in Seq(Implemented) /\ Len(violations) <= MaxViolations
  /\ evalCount \in 0 .. MaxEvaluations
  /\ evaluator \in [Evaluators -> {"idle", "parsed", "evaluating", "returned"}]

(* Of the policies that have a check, a call reports each that its input   *)
(* breaches and that was enabled all the while, and none that was enabled  *)
(* at no moment of it, whoever adds, switches and removes policies         *)
(* meanwhile; of the others it reports none (engine.go 82-156).            *)
ReportIsOfItsTime ==
  \A e \in Evaluators :
    evaluator[e] = "returned" =>
      /\ always[e] \cap Implemented \cap resource[e] \subseteq found[e]
      /\ found[e] \subseteq sometime[e] \cap Implemented \cap resource[e]

(* What the engine says of a call, "Evaluate checks an input resource      *)
(* against all enabled policies." (engine.go 81): it reports each that the *)
(* input breaches and that was enabled all the while.                      *)
AllEnabledChecked ==
  \A e \in Evaluators :
    evaluator[e] = "returned" => always[e] \cap resource[e] \subseteq found[e]
=============================================================================
