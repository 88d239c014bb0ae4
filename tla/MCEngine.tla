------------------------------ MODULE MCEngine ------------------------------
(* Instances of Engine for TLC: one style or both, two slaves. *)
EXTENDS Engine
=============================================================================
