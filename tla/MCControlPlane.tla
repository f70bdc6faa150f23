---------------------------- MODULE MCControlPlane ----------------------------
(* Instance of ControlPlane for TLC. *)
EXTENDS ControlPlane, TLC

\* Callers are interchangeable; used by the run without liveness properties only.
Symmetry == Permutations(Callers)
===============================================================================
