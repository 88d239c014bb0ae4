----------------------------- MODULE MCEcatCheck -----------------------------
(* Instances of EcatCheck for TLC. *)
EXTENDS EcatCheck
=============================================================================
