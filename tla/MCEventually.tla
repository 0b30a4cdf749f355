---------------------------- MODULE MCEventually ----------------------------
(***************************************************************************)
(* The components something of which must end, on small instances: one     *)
(* behaviour is the behaviour of one part, chosen at the start.  The parts *)
(* share no state, so nothing is lost by leaving their interleavings out.  *)
(***************************************************************************)
EXTENDS CollectorLifecycle, FederationManager, PipelineRuns, RootCauseAnalyzer, VaultSync

VARIABLE part

MCInit ==
  /\ part \in {"collector", "federation", "pipelines", "rootcause", "vault"}
  /\ Init /\ FedInit /\ PipeInit /\ RcInit /\ VaultInit
  /\ part # "collector" => kind = "adapter"
  /\ part # "rootcause" => hasModel

MCNext ==
  /\ UNCHANGED part
  /\ \/ /\ part = "collector" /\ Next
        /\ UNCHANGED <<fedVars, pipeVars, rcVars, vaultVars>>
     \/ /\ part = "federation" /\ FedNext
        /\ UNCHANGED <<vars, pipeVars, rcVars, vaultVars>>
     \/ /\ part = "pipelines" /\ PipeNext
        /\ UNCHANGED <<vars, fedVars, rcVars, vaultVars>>
     \/ /\ part = "rootcause" /\ RcNext
        /\ UNCHANGED <<vars, fedVars, pipeVars, vaultVars>>
     \/ /\ part = "vault" /\ VaultNext
        /\ UNCHANGED <<vars, fedVars, pipeVars, rcVars>>

(* Each part's fairness.  A fair step of another part is not enabled in    *)
(* its initial state, except the cancellation and the poll: they are fair  *)
(* in their own part.                                                      *)
MCFairness ==
  /\ Fairness
  /\ WF_vars(part = "collector" /\ kind # "adapter" /\ CancelParent)
  /\ FedFairness
  /\ WF_pipeVars(part = "pipelines" /\ PollGitHub)
  /\ RcFairness
  /\ VaultFairness

MCSpec ==
  MCInit /\ [][MCNext]_<<part, vars, fedVars, pipeVars, rcVars, vaultVars>> /\ MCFairness

(* Every part's state has its types.                                       *)
EventuallyTypeOK ==
  TypeOK /\ FedTypeOK /\ PipeTypeOK /\ RcTypeOK /\ VaultTypeOK
=============================================================================
