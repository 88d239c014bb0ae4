---------------------------- MODULE MCPpmServer ----------------------------
(* Small instances of PpmServer for TLC. *)
EXTENDS PpmServer
=============================================================================
