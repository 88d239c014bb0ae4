---------------------------- MODULE MCCspMaster ----------------------------
(* Small instances of CspMaster for TLC. *)
EXTENDS CspMaster

\* One position above and one below the 0 the axes are found at.
UpAndDown == {-8, 12}

\* Two disturbances where the state space allows them.
Troubles == [csp_ramp |-> 1, csp_debug |-> 0, csp_sin |-> 2, xeno |-> 2]
=============================================================================
