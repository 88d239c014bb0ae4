--------------------------- MODULE MCPpmPrograms ---------------------------
(* Small instances of PpmPrograms for TLC. *)
EXTENDS PpmPrograms
=============================================================================
