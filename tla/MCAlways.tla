------------------------------ MODULE MCAlways ------------------------------
(***************************************************************************)
(* The components of which only safety is asked, on small instances: one   *)
(* behaviour is the behaviour of one part, chosen at the start.  The parts *)
(* share no state, so nothing is lost by leaving their interleavings out.  *)
(***************************************************************************)
EXTENDS CircuitBreaker, Aggregator, KafkaLag, AnomalyDetector, CapacityPlanner,
        DependencyGraph, RunbookExecutor, EventBus, RateLimiter, AuditStore,
        SecretsCache, PolicyEngine

VARIABLE part

TwoTopics == {<<"t1", 0>>, <<"t2", 0>>}

(* The first runbook may fail in its first step, the second in its last.   *)
TwoTypesOf == [b \in Runbooks |-> IF b = "b1" THEN {"t1", "t2"} ELSE {"t1"}]
TwoSteps == [b \in Runbooks |-> IF b = "b1" THEN <<TRUE, FALSE>> ELSE <<FALSE, TRUE>>]

MCInit ==
  /\ part \in {"breaker", "aggregator", "lag", "anomaly", "capacity", "graph", "runbook", "bus", "limiter", "audit", "secrets", "policy"}
  /\ Init /\ AggInit /\ LagInit /\ AnoInit /\ CapInit /\ DepInit /\ BookInit /\ BusInit /\ RateInit /\ AuditInit /\ SecretsInit /\ PolicyInit

MCNext ==
  /\ UNCHANGED part
  /\ \/ /\ part = "breaker" /\ Next
        /\ UNCHANGED <<aggVars, lagVars, anoVars, capVars, depVars, bookVars, busVars, rateVars, auditVars, secretVars, policyVars>>
     \/ /\ part = "aggregator" /\ AggNext
        /\ UNCHANGED <<vars, lagVars, anoVars, capVars, depVars, bookVars, busVars, rateVars, auditVars, secretVars, policyVars>>
     \/ /\ part = "lag" /\ LagNext
        /\ UNCHANGED <<vars, aggVars, anoVars, capVars, depVars, bookVars, busVars, rateVars, auditVars, secretVars, policyVars>>
     \/ /\ part = "anomaly" /\ AnoNext
        /\ UNCHANGED <<vars, aggVars, lagVars, capVars, depVars, bookVars, busVars, rateVars, auditVars, secretVars, policyVars>>
     \/ /\ part = "capacity" /\ CapNext
        /\ UNCHANGED <<vars, aggVars, lagVars, anoVars, depVars, bookVars, busVars, rateVars, auditVars, secretVars, policyVars>>
     \/ /\ part = "graph" /\ DepNext
        /\ UNCHANGED <<vars, aggVars, lagVars, anoVars, capVars, bookVars, busVars, rateVars, auditVars, secretVars, policyVars>>
     \/ /\ part = "runbook" /\ BookNext
        /\ UNCHANGED <<vars, aggVars, lagVars, anoVars, capVars, depVars, busVars, rateVars, auditVars, secretVars, policyVars>>
     \/ /\ part = "bus" /\ BusNext
        /\ UNCHANGED <<vars, aggVars, lagVars, anoVars, capVars, depVars, bookVars, rateVars, auditVars, secretVars, policyVars>>
     \/ /\ part = "limiter" /\ RateNext
        /\ UNCHANGED <<vars, aggVars, lagVars, anoVars, capVars, depVars, bookVars, busVars, auditVars, secretVars, policyVars>>
     \/ /\ part = "audit" /\ AuditNext
        /\ UNCHANGED <<vars, aggVars, lagVars, anoVars, capVars, depVars, bookVars, busVars, rateVars, secretVars, policyVars>>
     \/ /\ part = "secrets" /\ SecretsNext
        /\ UNCHANGED <<vars, aggVars, lagVars, anoVars, capVars, depVars, bookVars, busVars, rateVars, auditVars, policyVars>>
     \/ /\ part = "policy" /\ PolicyNext
        /\ UNCHANGED <<vars, aggVars, lagVars, anoVars, capVars, depVars, bookVars, busVars, rateVars, auditVars, secretVars>>

MCSpec == MCInit /\ [][MCNext]_<<part, vars, aggVars, lagVars, anoVars, capVars, depVars, bookVars, busVars, rateVars, auditVars, secretVars, policyVars>>

(* Every part's state has its types.                                       *)
AlwaysTypeOK ==
  /\ TypeOK /\ AggTypeOK /\ LagTypeOK /\ AnoTypeOK /\ CapTypeOK /\ DepTypeOK
  /\ BookTypeOK /\ BusTypeOK /\ RateTypeOK /\ AuditTypeOK /\ SecretsTypeOK /\ PolicyTypeOK
=============================================================================
