----------------------------- MODULE IpmServer -----------------------------
(***************************************************************************)
(* The interpolated position server, main/ipm_debug.c with                 *)
(* ycoe/ycoe_interpolation.c, from OPERATIONAL on (Engine has its          *)
(* start-up).  Three threads share the process image under ecat_mutex: the *)
(* engine exchanges it, control_engine works on it, controlserver takes    *)
(* the requests.  One hold of the mutex is one step, and they come in any  *)
(* order and number.                                                       *)
(*                                                                         *)
(* A drive (external) interpolates while it is enabled and has bit 4 of    *)
(* the controlword: it then follows the target position of every frame.    *)
(* It reports the state and the position it had when the frame came.       *)
(***************************************************************************)
EXTENDS Integers, DriveStates

CONSTANTS
    N,           \* number of servos, slaves 1 to N
    Position,    \* positions a client asks for
    Rest,        \* where the drives may stand at power-up
    Home,        \* 181920, the position every drive is sent to when enabled
    Velocity,    \* 20000, the step of the interpolation
    MaxRequests, \* bound on the number of position requests
    MaxTroubles  \* bound on the number of faults and lost frames

Servo == 1..N

ASSUME ServoAssumption == N \in Nat \ {0}
ASSUME PositionAssumption ==
    Position \subseteq Int /\ Rest \subseteq Int /\ Home \in Int
ASSUME BoundAssumption ==
    /\ Velocity \in Nat \ {0}
    /\ {MaxRequests, MaxTroubles} \subseteq Nat

VARIABLES
    cw,             \* controlword in each servo's outputs
    out,            \* target position in each servo's outputs
    inputs,         \* statusword and position in each servo's inputs
    final_position, \* one for all axes
    sem,            \* pos_cmd_sem, entry 0 included
    counted,        \* slave count in the data map, 0 until an exchange completed
    numslaves,      \* the server's copy of it
    drive,          \* the drives
    spent           \* requests, and faults and lost frames, so far

vars == <<cw, out, inputs, final_position, sem, counted, numslaves, drive, spent>>

CW_IPM_ENABLE == {4}
SW_IPM_ACTIVE == {12}

\* Statuswords in the inputs: none yet, or a drive's.
StatusOf(d) == StateBits[d.state] \cup (IF d.active THEN SW_IPM_ACTIVE ELSE {})
Reported ==
    {{}} \cup {StateBits[st] : st \in DriveState}
         \cup {StateBits["OperationEnabled"] \cup SW_IPM_ACTIVE}

Drive == [state : DriveState, cw : Word, active : BOOLEAN, position : Int]

TypeOK ==
    /\ cw \in [Servo -> Word]
    /\ out \in [Servo -> Int]
    /\ inputs \in [Servo -> [status : Reported, position : Int]]
    /\ final_position \in {0, Home} \cup Position
    /\ sem \in [0..N -> 0..MaxRequests + 1]
    /\ counted \in {0, N}
    /\ numslaves \in {0, counted}
    /\ drive \in [Servo -> Drive]
    /\ spent \in [requests : 0..MaxRequests, troubles : 0..MaxTroubles]

Init ==
    /\ cw = [s \in Servo |-> {}]
    /\ out = [s \in Servo |-> 0]
    /\ inputs = [s \in Servo |-> [status |-> {}, position |-> 0]]
    /\ final_position = 0
    /\ sem = [i \in 0..N |-> 0]
    /\ counted = 0
    /\ numslaves = 0
    /\ drive \in [Servo -> {[state |-> "SwitchOnDisabled", cw |-> {},
                             active |-> FALSE, position |-> p] : p \in Rest}]
    /\ spent = [requests |-> 0, troubles |-> 0]

-----------------------------------------------------------------------------
\* The state the control logic reads for a servo (a table of Seen, for TLC).
StateRead == [w \in Reported |-> Seen(w)]
StateOf(s) == StateRead[inputs[s].status]
Enabled(s) == StateOf(s) = "OperationEnabled"

ycoe_ipm_checkcontrol(c, bit4) == Masked(c, CW_IPM_ENABLE, bit4)
ycoe_ipm_checkstatus(st, w) == w \cap st # {}

\* Not interpolating as far as the words tell.
Idle(s) == \/ ycoe_ipm_checkcontrol(cw[s], {})
           \/ ~ycoe_ipm_checkstatus(inputs[s].status, SW_IPM_ACTIVE)

\* Mutant: a drive found disabled is left as it is.
ControlCwOnce(s) ==
    CASE StateOf(s) = "SwitchOnDisabled" -> IF cw[s] = {} THEN CW_SHUTDOWN ELSE cw[s]
      [] StateOf(s) = "ReadyToSwitchOn"  -> CW_SWITCHON
      [] StateOf(s) = "SwitchedOn"       -> CW_ENABLEOP
      [] Enabled(s) /\ Idle(s)           -> CW_ENABLEOP \cup CW_IPM_ENABLE
      [] OTHER                           -> cw[s]

ControlCw(s) ==
    CASE StateOf(s) = "SwitchOnDisabled" -> CW_SHUTDOWN
      [] StateOf(s) = "ReadyToSwitchOn"  -> CW_SWITCHON
      [] StateOf(s) = "SwitchedOn"       -> CW_ENABLEOP
      [] Enabled(s) /\ Idle(s)           -> CW_ENABLEOP \cup CW_IPM_ENABLE
      [] OTHER                           -> cw[s]

\* final_position as the loop over the slaves has it at slave s: finding any
\* drive switched on sends this and the later ones home at once, the earlier
\* ones in the next round.
FinalAt(s) ==
    IF \E t \in 1..s : StateOf(t) = "SwitchedOn" THEN Home ELSE final_position

\* ycoe_ipm_goto_position: the target position one step on; at the end it is
\* reached.
ycoe_ipm_goto_position(from, to) ==
    IF to - from > Velocity THEN from + Velocity
    ELSE IF to - from < -Velocity THEN from - Velocity
    ELSE to

\* Mutant: the step is made whether or not a command is pending.
MovesUnasked(s) == Enabled(s)

Moves(s) == Enabled(s) /\ sem[s] > 0
OutAt(s) == ycoe_ipm_goto_position(inputs[s].position, FinalAt(s))

\* Mutant: a drive found switched on keeps the commands it had.
ControlSemKept(s) ==
    IF Moves(s) /\ OutAt(s) = FinalAt(s) THEN sem[s] - 1 ELSE sem[s]

\* Mutant: each step works a command off.
ControlSemEachStep(s) ==
    IF StateOf(s) = "SwitchedOn" THEN 1
    ELSE IF Moves(s) THEN sem[s] - 1
    ELSE sem[s]

ControlSem(s) ==
    IF StateOf(s) = "SwitchedOn" THEN 1
    ELSE IF Moves(s) /\ OutAt(s) = FinalAt(s) THEN sem[s] - 1
    ELSE sem[s]

\* One round of control_engine.
Control ==
    LET Known == 1..numslaves IN
    /\ cw' = [s \in Servo |-> IF s \in Known THEN ControlCw(s) ELSE cw[s]]
    /\ out' = [s \in Servo |-> IF s \in Known /\ Moves(s) THEN OutAt(s) ELSE out[s]]
    /\ sem' = [i \in 0..N |-> IF i \in Known THEN ControlSem(i) ELSE sem[i]]
    /\ final_position' = FinalAt(numslaves)
    /\ UNCHANGED <<inputs, counted, numslaves, drive, spent>>

-----------------------------------------------------------------------------
\* Every request refreshes the slave count.  Requests 6 and 9, an unknown one
\* or a refused address do no more.
Poll ==
    /\ numslaves' = counted
    /\ UNCHANGED <<cw, out, inputs, final_position, sem, counted, drive, spent>>

AskFor(A, p) ==
    /\ spent.requests < MaxRequests
    /\ numslaves' = counted
    /\ final_position' = p
    /\ sem' = [i \in 0..N |-> IF i \in A THEN sem[i] + 1 ELSE sem[i]]
    /\ spent' = [spent EXCEPT !.requests = @ + 1]
    /\ UNCHANGED <<cw, out, inputs, counted, drive>>

\* Request 3.  Address 0 passes the test on the address: no servo is asked, but
\* final_position changes.
SetPosition(a, p) == a <= counted /\ AskFor({a}, p)

\* Request 33.
SetAllPositions(p) == AskFor(1..counted, p)

Request ==
    \/ Poll
    \/ \E a \in 0..N, p \in Position : SetPosition(a, p)
    \/ \E p \in Position : SetAllPositions(p)

-----------------------------------------------------------------------------
\* One turn of the engine's cycle.  The frame reaches the drives in R; its
\* return may be lost.
Exchange(R, returned) ==
    /\ inputs' = [s \in Servo |->
          IF s \in R /\ returned
          THEN [status |-> StatusOf(drive[s]), position |-> drive[s].position]
          ELSE inputs[s]]
    /\ drive' = [s \in Servo |->
          IF s \notin R THEN drive[s]
          ELSE [drive[s] EXCEPT !.cw = cw[s],
                    !.position = IF drive[s].active THEN out[s] ELSE @]]
    /\ counted' = IF R = Servo /\ returned THEN N ELSE counted
    /\ UNCHANGED <<cw, out, final_position, sem, numslaves>>

GoodExchange == Exchange(Servo, TRUE) /\ UNCHANGED spent

LossyExchange ==
    /\ spent.troubles < MaxTroubles
    /\ \E R \in SUBSET Servo, returned \in BOOLEAN :
          ~(R = Servo /\ returned) /\ Exchange(R, returned)
    /\ spent' = [spent EXCEPT !.troubles = @ + 1]

\* The drive processes the controlword it received.
Reacted(d) ==
    LET st == NextState(d.state, d.cw) IN
    [d EXCEPT !.state = st,
              !.active = st = "OperationEnabled" /\ CW_IPM_ENABLE \subseteq d.cw]

React(s) ==
    /\ Reacted(drive[s]) # drive[s]
    /\ drive' = [drive EXCEPT ![s] = Reacted(@)]
    /\ UNCHANGED <<cw, out, inputs, final_position, sem, counted, numslaves, spent>>

Trip(s) ==
    /\ spent.troubles < MaxTroubles
    /\ drive[s].state \in {"SwitchedOn", "OperationEnabled"}
    /\ drive' = [drive EXCEPT ![s].state = "Fault", ![s].active = FALSE]
    /\ spent' = [spent EXCEPT !.troubles = @ + 1]
    /\ UNCHANGED <<cw, out, inputs, final_position, sem, counted, numslaves>>

\* A tripped drive is reset by hand, and may have been moved.
Reset(s) ==
    /\ drive[s].state = "Fault"
    /\ \E p \in Rest \cup {drive[s].position} :
          drive' = [drive EXCEPT ![s].state = "SwitchOnDisabled", ![s].position = p]
    /\ UNCHANGED <<cw, out, inputs, final_position, sem, counted, numslaves, spent>>

Next ==
    \/ Control
    \/ Request
    \/ GoodExchange
    \/ LossyExchange
    \/ \E s \in Servo : React(s) \/ Trip(s) \/ Reset(s)

Spec == Init /\ [][Next]_vars

\* The threads run for ever, a client goes on polling, frames are lost a
\* bounded number of times, drives react and tripped drives are reset.
FairSpec ==
    /\ Spec
    /\ WF_vars(Control)
    /\ WF_vars(Poll)
    /\ WF_vars(GoodExchange)
    /\ \A s \in Servo : WF_vars(React(s)) /\ WF_vars(Reset(s))

-----------------------------------------------------------------------------
\* A drive that starts to interpolate, enabled first or again, finds a target
\* position at most one step away: no frame hands it bit 4 together with the
\* target of an earlier motion (ipm_debug.c:57-82), wherever it was moved to
\* while it was off.
StartsAtRest ==
    [][\A s \in Servo :
          ~drive[s].active /\ drive'[s].active
          => out[s] - drive[s].position \in -Velocity..Velocity]_vars

\* Whatever was asked, and whoever tripped on the way, every axis ends enabled,
\* with no command left, standing at the target position it was last given.
AllSettle ==
    <>[](\A s \in Servo : /\ drive[s].active
                          /\ sem[s] = 0
                          /\ drive[s].position = out[s])

\* Both axes asked for p while enabled arrive there together with no command
\* left, unless a request or a drive found switched on replaces final_position
\* (ipm_debug.c:60) or a drive trips.
JointArrives ==
    \A p \in Position :
        (/\ numslaves = N
         /\ final_position = p
         /\ \A s \in Servo : sem[s] > 0 /\ drive[s].active)
        ~> \/ \A s \in Servo : sem[s] = 0 /\ drive[s].position = p
           \/ final_position # p
           \/ \E s \in Servo : ~drive[s].active
=============================================================================
