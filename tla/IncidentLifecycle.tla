-------------------------- MODULE IncidentLifecycle --------------------------
(***************************************************************************)
(* What the incident responder promises the users of its REST and gRPC     *)
(* interfaces: incidents are numbered in the order they are opened, start  *)
(* active, change status only while the responder remembers them, and only *)
(* a resolved incident may ever be forgotten, one at a time and only by an *)
(* opening that finds the responder at capacity.                           *)
(***************************************************************************)
EXTENDS Naturals, Sequences, FiniteSets

CONSTANT Capacity   \* incidents remembered before resolved ones are forgotten

VARIABLES
  status,    \* the status of every incident ever opened, by number
  remembered \* the numbers of those that can still be looked up

vars == <<status, remembered>>

Statuses == {"active", "acknowledged", "resolved"}

Forgettable == {id \in remembered : status[id] = "resolved"}

Init == status = <<>> /\ remembered = {}

(* A new incident is opened; at capacity one resolved incident may go.     *)
Open ==
  /\ status' = Append(status, "active")
  /\ \/ remembered' = remembered \cup {Len(status) + 1}
     \/ /\ Cardinality(remembered) >= Capacity
        /\ \E old \in Forgettable :
             remembered' = (remembered \ {old}) \cup {Len(status) + 1}

(* A user or a remediation settles a remembered incident.                  *)
Settle ==
  /\ \E id \in remembered, s \in Statuses \ {"active"} :
       status' = [status EXCEPT ![id] = s]
  /\ UNCHANGED remembered

Next == Open \/ Settle

Spec == Init /\ [][Next]_vars
=============================================================================
