-------------------------- MODULE CollectorContract --------------------------
(***************************************************************************)
(* What the engine may assume of any collector behind the Collector        *)
(* interface (core/engine/types.go): its channel carries events only while *)
(* it runs, is closed once, and what was buffered at the close can still   *)
(* be received.                                                            *)
(***************************************************************************)
EXTENDS Naturals

CONSTANT Capacity   \* of the events channel

VARIABLES phase, queued

vars == <<phase, queued>>

Init == phase = "created" /\ queued = 0

Begin == phase = "created" /\ phase' = "running" /\ UNCHANGED queued

Emit ==
  /\ phase = "running"
  /\ queued < Capacity
  /\ queued' = queued + 1
  /\ UNCHANGED phase

Receive == queued > 0 /\ queued' = queued - 1 /\ UNCHANGED phase

Halt == phase = "running" /\ phase' = "halted" /\ UNCHANGED queued

Next == Begin \/ Emit \/ Receive \/ Halt

Spec == Init /\ [][Next]_vars
=============================================================================
