------------------------------ MODULE PpmServer ------------------------------
(***************************************************************************)
(* The profile position server (main/ppm_debug.c; the loops of             *)
(* main/ppm_user.c and main/ppm_auto.c share its control logic) with the   *)
(* EtherCAT cycle of ycoe/ycoe_engine.c and the drives it commands.        *)
(*                                                                         *)
(* Three parties share the process image.  The server thread handles one   *)
(* client request and then runs the control logic, all under ecat_mutex;   *)
(* the engine thread exchanges the image with the drives, also under       *)
(* ecat_mutex; a drive reacts to what it last received whenever it gets    *)
(* to it.  A server round and an exchange are therefore one step each, and *)
(* a drive's reaction is a step of its own, so that any number of rounds   *)
(* or exchanges may fall between a command and the drive's answer.         *)
(*                                                                         *)
(* The drive (external) follows CiA 402: it walks the enabling states on   *)
(* the controlword and takes a set-point on a rising edge of bit 4, which  *)
(* it acknowledges in bit 12 until bit 4 falls.                            *)
(***************************************************************************)
EXTENDS Integers, DriveStates

CONSTANTS
    Servo,      \* slave numbers whose vendor id is 0x539
    Addressed,  \* slave addresses a client puts in its requests
    Position,   \* target positions a client asks for
    NoPosition, \* no position: never asked for, or withdrawn by a stop
    MaxSem,     \* bound on pos_cmd_sem: no request beyond it
    MaxFaults,  \* bound on the number of drive faults
    Paced       \* TRUE: a client polls slower than the set-point handshake

\* Address 0 is SOEM's master slave: its outputs are the start of IOmap, that
\* is, the outputs of the first slave.
FirstSlave == 1

ASSUME ServoAssumption ==
    /\ Servo \subseteq Nat \ {0}
    /\ FirstSlave \in Servo
    /\ Addressed \subseteq Servo \cup {0}
ASSUME PositionAssumption == Position # {} /\ NoPosition \notin Position
ASSUME BoundAssumption ==
    /\ MaxSem \in Nat \ {0}
    /\ MaxFaults \in Nat
    /\ Paced \in BOOLEAN

VARIABLES
    cw,       \* controlword in each servo's outputs
    target,   \* target position in each servo's outputs
    inputs,   \* statusword in each servo's inputs
    sem,      \* pos_cmd_sem
    drive,    \* the drives
    faults,   \* drive faults so far
    wanted,   \* ghost: last position asked for, NoPosition after a stop
    taken     \* ghost: the drive has latched a set-point since bit 4 was raised

vars == <<cw, target, inputs, sem, drive, faults, wanted, taken>>

SemIndex == Servo \cup {0}
Profile == {"factory", "default", "user"}

Drive == [state : DriveState,
          cw : Word,                              \* last controlword received
          target : Position \cup {NoPosition},    \* last target received
          bit4 : BOOLEAN,                         \* bit 4 as last processed
          ack : BOOLEAN,                          \* statusword bit 12
          exec : Position \cup {NoPosition},      \* set-point last latched
          moving : BOOLEAN,                       \* motion to exec unfinished
          profile : Profile]                      \* mode and profile objects

TypeOK ==
    /\ cw \in [Servo -> Word]
    /\ target \in [Servo -> Position \cup {NoPosition}]
    /\ inputs \in [Servo -> Word]
    /\ sem \in [SemIndex -> 0..MaxSem]
    /\ drive \in [Servo -> Drive]
    /\ faults \in 0..MaxFaults
    /\ wanted \in [Servo -> Position \cup {NoPosition}]
    /\ taken \in [Servo -> BOOLEAN]

-----------------------------------------------------------------------------
\* The drive's statusword.
StatusOf(d) ==
    StateBits[d.state] \cup (IF d.ack THEN SW_PPM_SETPOINT_ACK ELSE {})

Latches(d) ==
    /\ d.state = "OperationEnabled"
    /\ NextState(d.state, d.cw) = "OperationEnabled"
    /\ 4 \in d.cw
    /\ ~d.bit4
    /\ ~d.ack

\* The drive after it has processed the words it last received.
Reacted(d) ==
    LET st == NextState(d.state, d.cw) IN
    [d EXCEPT
        !.state  = st,
        !.bit4   = 4 \in d.cw,
        !.ack    = 4 \in d.cw /\ (d.ack \/ Latches(d)),
        !.exec   = IF Latches(d) THEN d.target ELSE d.exec,
        !.moving = st = "OperationEnabled" /\ (d.moving \/ Latches(d))]

-----------------------------------------------------------------------------
NewDrive == [state |-> "SwitchOnDisabled", cw |-> {}, target |-> NoPosition,
             bit4 |-> FALSE, ack |-> FALSE, exec |-> NoPosition,
             moving |-> FALSE, profile |-> "factory"]

\* The engine has mapped the process image, zeroed, and is in its cycle.
Init ==
    /\ cw = [s \in Servo |-> {}]
    /\ target = [s \in Servo |-> NoPosition]
    /\ inputs = [s \in Servo |-> {}]
    /\ sem = [i \in SemIndex |-> 0]
    /\ drive = [s \in Servo |-> NewDrive]
    /\ faults = 0
    /\ wanted = [s \in Servo |-> NoPosition]
    /\ taken = [s \in Servo |-> FALSE]

-----------------------------------------------------------------------------
CW_RAISE == CW_ENABLEOP \cup CW_PPM_SNPI2
CW_LOWER == CW_ENABLEOP \cup CW_PPM_SNPI1
\* Mutant: the stop drops bit 3, Enable Operation.
CW_STOP_DISABLE == CW_SWITCHON \cup CW_PPM_SNPI1 \cup CW_HALT

CW_STOP  == CW_LOWER \cup CW_HALT

\* Mutant: the acknowledgement is assumed instead of read from bit 12.
AcknowledgedUnread(c, st) ==
    /\ ycoe_ppm_checkcontrol(c, CW_PPM_SNPI2)
    /\ Seen(st) = "OperationEnabled"

\* The server takes the set-point acknowledgement of an enabled drive.
Acknowledged(c, st) ==
    /\ ycoe_ppm_checkcontrol(c, CW_PPM_SNPI2)
    /\ ycoe_ppm_checkstatus(st, SW_PPM_SETPOINT_ACK)
    /\ Seen(st) = "OperationEnabled"

\* Mutant: the bit is raised whether or not a command is pending.
HandshakeCwUnasked(c, n, st) ==
    IF Acknowledged(c, st) THEN CW_LOWER
    ELSE IF ycoe_ppm_checkcontrol(c, CW_PPM_SNPI1) THEN CW_RAISE
    ELSE IF n > 0 THEN CW_LOWER
    ELSE c

\* Mutant: nothing leads from CW_ENABLEOP into the handshake.
HandshakeCwNoEntry(c, n, st) ==
    IF Acknowledged(c, st) THEN CW_LOWER
    ELSE IF n > 0 /\ ycoe_ppm_checkcontrol(c, CW_PPM_SNPI1) THEN CW_RAISE
    ELSE c

\* Mutant: the bit is raised for all commands but the last.
HandshakeCwKeepsLast(c, n, st) ==
    IF Acknowledged(c, st) THEN CW_LOWER
    ELSE IF n > 1 /\ ycoe_ppm_checkcontrol(c, CW_PPM_SNPI1) THEN CW_RAISE
    ELSE IF n > 0 THEN CW_LOWER
    ELSE c

\* Set-point handshake, from the controlword c, the semaphore n and the
\* statusword st the control logic finds.
HandshakeCw(c, n, st) ==
    IF Acknowledged(c, st) THEN CW_LOWER
    ELSE IF n > 0 /\ ycoe_ppm_checkcontrol(c, CW_PPM_SNPI1) THEN CW_RAISE
    ELSE IF n > 0 THEN CW_LOWER
    ELSE c

\* The controlword and the semaphore the control logic leaves for one servo.
ControlCw(c, n, st) ==
    LET seen == Seen(st) IN
    CASE seen = "SwitchOnDisabled" -> CW_SHUTDOWN
      [] seen = "ReadyToSwitchOn"  -> CW_SWITCHON
      [] seen = "SwitchedOn"       -> CW_ENABLEOP
      [] seen = "OperationEnabled" -> HandshakeCw(c, n, st)
      [] seen = "Fault"            -> c

\* Mutant: the command is worked off when bit 4 is raised.
ControlSemOnRaise(c, n, st) ==
    IF /\ Seen(st) = "OperationEnabled"
       /\ n > 0
       /\ ~Acknowledged(c, st)
       /\ ycoe_ppm_checkcontrol(c, CW_PPM_SNPI1)
    THEN n - 1 ELSE n

ControlSem(c, n, st) == IF Acknowledged(c, st) THEN n - 1 ELSE n

-----------------------------------------------------------------------------
\* A request may follow the previous one at once; with Paced it comes only when
\* each drive has seen the current bit 4 and its answer is in the inputs.
Settled(s) ==
    LET raised == 4 \in cw[s] IN
    /\ (4 \in drive[s].cw) = raised
    /\ drive[s].bit4 = raised
    /\ (12 \in inputs[s]) = drive[s].ack

ServerMayRun == Paced => \A s \in Servo : Settled(s)

\* Mutant: the drive is set up when it is found switched on, not before.
RoundLateSetUp(c1, t1, n1, p1) ==
    /\ ServerMayRun
    /\ cw' = [s \in Servo |-> ControlCw(c1[s], n1[s], inputs[s])]
    /\ sem' = [i \in SemIndex |-> IF i = 0 THEN n1[0]
                                  ELSE ControlSem(c1[i], n1[i], inputs[i])]
    /\ target' = t1
    /\ drive' = [s \in Servo |-> [drive[s] EXCEPT !.profile =
                    IF Seen(inputs[s]) = "SwitchedOn" THEN "default" ELSE p1[s]]]
    /\ taken' = [s \in Servo |-> taken[s] /\ ~(4 \in cw'[s] /\ 4 \notin cw[s])]
    /\ UNCHANGED <<inputs, faults>>

\* One pass of the server loop.  The request has left the outputs c1, t1, the
\* semaphores n1 and the profiles p1; the control logic then runs over the
\* servos, and a drive found in SWITCHON_DISABLED is set up by SDO.
Round(c1, t1, n1, p1) ==
    /\ ServerMayRun
    /\ cw' = [s \in Servo |-> ControlCw(c1[s], n1[s], inputs[s])]
    /\ sem' = [i \in SemIndex |-> IF i = 0 THEN n1[0]
                                  ELSE ControlSem(c1[i], n1[i], inputs[i])]
    /\ target' = t1
    /\ drive' = [s \in Servo |-> [drive[s] EXCEPT !.profile =
                    IF Seen(inputs[s]) = "SwitchOnDisabled"
                    THEN "default" ELSE p1[s]]]
    /\ taken' = [s \in Servo |-> taken[s] /\ ~(4 \in cw'[s] /\ 4 \notin cw[s])]
    /\ UNCHANGED <<inputs, faults>>

Profiles == [s \in Servo |-> drive[s].profile]
SlaveAt(a) == IF a = 0 THEN FirstSlave ELSE a

\* Requests 6, 9 and 23, an unknown one, or a refused address: they read a
\* drive by SDO or set an output of an I/O slave, and touch no servo.
Poll ==
    /\ Round(cw, target, sem, Profiles)
    /\ UNCHANGED wanted

\* Request 3.  Address 0 passes the code's test on the address.
SetPosition(a, p) ==
    /\ sem[a] < MaxSem
    /\ Round(cw, [target EXCEPT ![SlaveAt(a)] = p],
             [sem EXCEPT ![a] = @ + 1], Profiles)
    /\ wanted' = IF a = 0 THEN wanted ELSE [wanted EXCEPT ![a] = p]

\* Mutant: only the first servo's semaphore is incremented.
SetAllPositionsOnce(p) ==
    /\ \A s \in Servo : sem[s] < MaxSem
    /\ Round(cw, [s \in Servo |-> p], [sem EXCEPT ![FirstSlave] = @ + 1],
             Profiles)
    /\ wanted' = [s \in Servo |-> p]

\* Request 33.
SetAllPositions(p) ==
    /\ \A s \in Servo : sem[s] < MaxSem
    /\ Round(cw, [s \in Servo |-> p],
             [i \in SemIndex |-> IF i \in Servo THEN sem[i] + 1 ELSE sem[i]],
             Profiles)
    /\ wanted' = [s \in Servo |-> p]

\* Requests 36 and 39.
SetProfile(a) ==
    /\ a \in Servo
    /\ Round(cw, target, sem, [Profiles EXCEPT ![a] = "user"])
    /\ UNCHANGED wanted

\* Mutant: a stop leaves the pending commands.
StopAxisKeepsCommands(a) ==
    /\ Round([cw EXCEPT ![SlaveAt(a)] = CW_STOP], target, sem, Profiles)
    /\ wanted' = IF a = 0 THEN wanted ELSE [wanted EXCEPT ![a] = NoPosition]

\* Mutant: a stop clears the commands and leaves the controlword.
StopAxisKeepsControl(a) ==
    /\ Round(cw, target, [sem EXCEPT ![a] = 0], Profiles)
    /\ wanted' = IF a = 0 THEN wanted ELSE [wanted EXCEPT ![a] = NoPosition]

\* Request 42.
StopAxis(a) ==
    /\ Round([cw EXCEPT ![SlaveAt(a)] = CW_STOP], target,
             [sem EXCEPT ![a] = 0], Profiles)
    /\ wanted' = IF a = 0 THEN wanted ELSE [wanted EXCEPT ![a] = NoPosition]

\* Mutant: the loop over the servos does not clear their semaphores.
StopAllKeepsCommands ==
    /\ Round([s \in Servo |-> CW_STOP], target, sem, Profiles)
    /\ wanted' = [s \in Servo |-> NoPosition]

\* Request 43.
StopAll ==
    /\ Round([s \in Servo |-> CW_STOP], target,
             [i \in SemIndex |-> IF i \in Servo THEN 0 ELSE sem[i]], Profiles)
    /\ wanted' = [s \in Servo |-> NoPosition]

Request ==
    \/ Poll
    \/ \E a \in Addressed, p \in Position : SetPosition(a, p)
    \/ \E p \in Position : SetAllPositions(p)
    \/ \E a \in Addressed : SetProfile(a) \/ StopAxis(a)
    \/ StopAll

-----------------------------------------------------------------------------
\* One exchange of the engine's cyclic loop.  The frame reaches the drives in
\* R, and its return may be lost: then the input image keeps what it had.
Exchange(R, returned) ==
    /\ drive' = [s \in Servo |-> IF s \in R
                    THEN [drive[s] EXCEPT !.cw = cw[s], !.target = target[s]]
                    ELSE drive[s]]
    /\ inputs' = [s \in Servo |-> IF s \in R /\ returned
                    THEN StatusOf(drive[s]) ELSE inputs[s]]
    /\ UNCHANGED <<cw, target, sem, faults, wanted, taken>>

GoodExchange == Exchange(Servo, TRUE)
Cycle == \E R \in SUBSET Servo, returned \in BOOLEAN : Exchange(R, returned)

\* The drive processes what it last received.
DriveReacts(s) ==
    /\ Reacted(drive[s]) # drive[s]
    /\ drive' = [drive EXCEPT ![s] = Reacted(drive[s])]
    /\ taken' = [taken EXCEPT ![s] = @ \/ Latches(drive[s])]
    /\ UNCHANGED <<cw, target, inputs, sem, faults, wanted>>

MotionEnds(s) ==
    /\ drive[s].moving
    /\ CW_HALT \cap drive[s].cw = {}
    /\ drive' = [drive EXCEPT ![s].moving = FALSE]
    /\ UNCHANGED <<cw, target, inputs, sem, faults, wanted, taken>>

\* A powered drive trips.  Nothing in the code resets a fault: that is done at
\* the drive, which then starts from SWITCHON_DISABLED.
DriveFaults(s) ==
    /\ faults < MaxFaults
    /\ drive[s].state \in {"SwitchedOn", "OperationEnabled"}
    /\ drive' = [drive EXCEPT ![s].state = "Fault", ![s].ack = FALSE,
                              ![s].moving = FALSE]
    /\ faults' = faults + 1
    /\ UNCHANGED <<cw, target, inputs, sem, wanted, taken>>

FaultReset(s) ==
    /\ drive[s].state = "Fault"
    /\ drive' = [drive EXCEPT ![s].state = "SwitchOnDisabled"]
    /\ UNCHANGED <<cw, target, inputs, sem, faults, wanted, taken>>

DriveStep(s) ==
    DriveReacts(s) \/ MotionEnds(s) \/ DriveFaults(s) \/ FaultReset(s)

Next == Request \/ Cycle \/ \E s \in Servo : DriveStep(s)

Spec == Init /\ [][Next]_vars

\* A client polls for ever (the GUI does every 0.9 s), the engine's loop gets a
\* frame through again and again, a drive goes on reacting and a tripped drive
\* is reset.  Nothing obliges a client to ask for a motion, or a drive to trip.
Fairness ==
    /\ WF_vars(Poll)
    /\ WF_vars(GoodExchange)
    /\ \A s \in Servo : /\ WF_vars(DriveReacts(s))
                        /\ WF_vars(FaultReset(s))
                        /\ WF_vars(MotionEnds(s))

FairSpec == Spec /\ Fairness

-----------------------------------------------------------------------------
\* A raised set-point bit always has a pending command behind it: the next
\* acknowledgement, however stale, finds a semaphore it may decrement
\* (ppm_debug.c:163-165), so pos_cmd_sem never goes below zero.
RaisedHasCommand == \A s \in Servo : 4 \in cw[s] => sem[s] > 0

\* A master that polls an idle axis (no command pending, none stopped) may
\* trust that the drive took the LAST position asked for, whatever requests
\* overwrote the target on the way ("Vulnerable to racing conditions",
\* ppm_debug.c:72), whatever frames were lost and whenever the drive tripped.
IdleMeansTaken ==
    \A s \in Servo :
        wanted[s] # NoPosition /\ sem[s] = 0 => drive[s].exec = wanted[s]

\* After a stop no motion goes on unless HALT is on its way to the drive, until
\* a new position is asked for (ppm_debug.c:122-136).
StopHolds ==
    \A s \in Servo :
        wanted[s] = NoPosition /\ drive[s].moving => CW_HALT \subseteq cw[s]

\* No drive is enabled before the server has set its mode and profile
\* (ppm_debug.c:143-150), not even on inputs that are out of date.
EnabledIsSetUp ==
    \A s \in Servo : drive[s].state \in {"SwitchedOn", "OperationEnabled"}
                        => drive[s].profile # "factory"

\* When the server takes an acknowledgement for a command (ppm_debug.c:163-166,
\* "Slave %d acknowledged") the drive has latched a set-point for it.
AckMeansTaken ==
    [][\A s \in Servo :
          Acknowledged(cw[s], inputs[s]) /\ cw'[s] = CW_LOWER => taken[s]]_vars

\* The server never commands an enabled drive back to a lower state, however
\* old the statusword it decides on: only a fault takes a drive out of
\* operation.
EnabledStaysEnabled ==
    [][\A s \in Servo : drive[s].state = "OperationEnabled"
          => drive'[s].state \in {"OperationEnabled", "Fault"}]_vars

\* What the server promises to a paced client is, for each axis, the set-point
\* channel of SetPoint: commands owed are counted by the semaphore, and one is
\* settled only once the drive executes the last position asked for.
Channel(s) == INSTANCE SetPoint WITH
    wanted <- wanted[s], exec <- drive[s].exec, owes <- sem[s] > 0

\* The server, the exchange and the drive together implement the channel: no
\* interleaving of requests, lost frames, stale inputs and faults settles a
\* command early (ppm_debug.c:163-168), latches a position that is no longer
\* wanted, or makes the drive take a set-point after a stop.  (This is
\* \A s \in Servo : Channel(s)!Spec with the quantifier moved inside.)
ImplementsSetPoint ==
    /\ \A s \in Servo : Channel(s)!Init
    /\ [][\A s \in Servo : [Channel(s)!Next]_(Channel(s)!vars)]_vars

\* A position asked for is eventually latched by the drive, unless another
\* request supersedes it.
CommandTaken ==
    \A s \in Servo, p \in Position :
        wanted[s] = p /\ sem[s] > 0 ~> drive[s].exec = p \/ wanted[s] # p

\* A request that adds to the commands of an axis.
AskedAgain(s) == \E p \in Position : SetPosition(s, p) \/ SetAllPositions(p)

\* Commands are worked off down to the last one: unless clients ask for new
\* positions of an axis again and again, it is idle again and again, with no
\* command left that waits for an acknowledgement for ever (ppm_debug.c:161-173).
CommandsDrain ==
    \A s \in Servo : []<>(sem[s] = 0) \/ []<><<AskedAgain(s)>>_vars
=============================================================================
