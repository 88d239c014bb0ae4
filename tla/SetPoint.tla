------------------------------ MODULE SetPoint ------------------------------
(***************************************************************************)
(* What the profile position server promises for one axis, without the     *)
(* handshake: a client asks for positions and stops, the drive takes the   *)
(* position that is wanted at the time, and the server settles its debt    *)
(* only when the drive has the position that was asked for last.           *)
(***************************************************************************)
CONSTANTS Position, NoPosition

VARIABLES
    wanted,  \* last position asked for, NoPosition after a stop
    exec,    \* position the drive took last
    owes     \* a command is still to be worked off

vars == <<wanted, exec, owes>>

Init ==
    /\ wanted = NoPosition
    /\ exec = NoPosition
    /\ owes = FALSE

Ask(p) ==
    /\ wanted' = p
    /\ owes' = TRUE
    /\ UNCHANGED exec

Stop ==
    /\ wanted' = NoPosition
    /\ owes' = FALSE
    /\ UNCHANGED exec

Take ==
    /\ owes
    /\ wanted \in Position
    /\ exec' = wanted
    /\ UNCHANGED <<wanted, owes>>

Settle ==
    /\ owes
    /\ exec = wanted
    /\ owes' = FALSE
    /\ UNCHANGED <<wanted, exec>>

Next == (\E p \in Position : Ask(p)) \/ Stop \/ Take \/ Settle

Spec == Init /\ [][Next]_vars
=============================================================================
