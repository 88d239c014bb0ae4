---------------------------- MODULE DriveStates ----------------------------
(***************************************************************************)
(* The enabling state machine of a CiA 402 drive (external), as every      *)
(* program of this repository walks it: the drive's answer to a            *)
(* controlword, and the state a program reads out of a statusword.         *)
(***************************************************************************)
EXTENDS StatusWord

DriveState == {"SwitchOnDisabled", "ReadyToSwitchOn", "SwitchedOn",
               "OperationEnabled", "Fault"}

\* State bits of the drive's statusword.
StateBits == [st \in DriveState |->
    CASE st = "SwitchOnDisabled" -> SW_SWITCHON_DISABLED
      [] st = "ReadyToSwitchOn"  -> SW_RTSO
      [] st = "SwitchedOn"       -> SW_SWITCHED_ON
      [] st = "OperationEnabled" -> SW_OP_ENABLED
      [] st = "Fault"            -> SW_FAULT]

\* Commands of the drive's state machine, read from bits 0 to 3.
IsShutdown(c) == Masked(c, {0, 1, 2}, CW_SHUTDOWN)
IsSwitchOn(c) == Masked(c, {0, 1, 2, 3}, CW_SWITCHON)
IsEnableOp(c) == Masked(c, {0, 1, 2, 3}, CW_ENABLEOP)
IsDisable(c)  == 1 \notin c

NextState(st, c) ==
    CASE st # "Fault" /\ IsDisable(c)                    -> "SwitchOnDisabled"
      [] st # "Fault" /\ IsShutdown(c)                   -> "ReadyToSwitchOn"
      [] st = "ReadyToSwitchOn" /\ IsSwitchOn(c)         -> "SwitchedOn"
      [] st = "ReadyToSwitchOn" /\ IsEnableOp(c)         -> "SwitchedOn"
      [] st = "SwitchedOn" /\ IsEnableOp(c)              -> "OperationEnabled"
      [] st = "OperationEnabled" /\ IsSwitchOn(c)        -> "SwitchedOn"
      [] OTHER                                           -> st

\* The state of the drive as the if / else-if chain of the control logic reads
\* it from the statusword; in any other state the logic leaves the outputs.
Seen(st) ==
    IF HasStatus(st, SW_SWITCHON_DISABLED) THEN "SwitchOnDisabled"
    ELSE IF HasStatus(st, SW_RTSO)         THEN "ReadyToSwitchOn"
    ELSE IF HasStatus(st, SW_SWITCHED_ON)  THEN "SwitchedOn"
    ELSE IF HasStatus(st, SW_OP_ENABLED)   THEN "OperationEnabled"
    ELSE "Fault"
=============================================================================
