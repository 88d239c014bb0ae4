---------------------------- MODULE MCIpmServer ----------------------------
(* Small instances of IpmServer for TLC. *)
EXTENDS IpmServer
=============================================================================
