------------------------- MODULE MCIncidentResponder -------------------------
(* Instances of IncidentResponder for TLC.                                 *)
EXTENDS IncidentResponder, TLC

(* Sources are interchangeable.  The run that uses the symmetry checks     *)
(* invariants and a step property, both symmetric in the sources.          *)
SourceSymmetry == Permutations(Sources)
=============================================================================
