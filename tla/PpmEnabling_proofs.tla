-------------------------- MODULE PpmEnabling_proofs --------------------------
(***************************************************************************)
(* How PpmServer enables drives and stops them, for any number of servos,  *)
(* positions, commands and faults, whether or not the client is paced and  *)
(* whatever addresses it uses.                                             *)
(***************************************************************************)
EXTENDS PpmServer_proofs, StatusWord_proofs

Read(s) == Seen(inputs[s])

\* The control logic reads a drive's state out of the word it reported.
LEMMA Readings == ASSUME NEW d \in Drive PROVE Seen(StatusOf(d)) = d.state
<1> DEFINE w == StatusOf(d)
<1>1. d.state \in DriveState /\ d.ack \in BOOLEAN
  BY DEF Drive
<1>2. CASE d.state = "SwitchOnDisabled"
  <2>1. w = {6} \/ w = {6, 12}
    BY <1>1, <1>2 DEF StatusOf, StateBits, DriveState, SW_SWITCHON_DISABLED,
                      SW_PPM_SETPOINT_ACK
  <2>2. HasStatus(w, SW_SWITCHON_DISABLED)
    BY <2>1, StatusTestsExact DEF Masked, SW_MASK_SWON_DISABLED, SW_SWITCHON_DISABLED
  <2> QED
    BY <1>2, <2>2 DEF Seen
<1>3. CASE d.state = "ReadyToSwitchOn"
  <2>1. w = {0, 5} \/ w = {0, 5, 12}
    BY <1>1, <1>3 DEF StatusOf, StateBits, DriveState, SW_RTSO, SW_PPM_SETPOINT_ACK
  <2>2. ~HasStatus(w, SW_SWITCHON_DISABLED)
    BY <2>1, StatusTestsExact DEF Masked, SW_MASK_SWON_DISABLED, SW_SWITCHON_DISABLED
  <2>3. HasStatus(w, SW_RTSO)
    BY <2>1, StatusTestsExact DEF Masked, SW_MASK_RSOQ, SW_RTSO
  <2> QED
    BY <1>3, <2>2, <2>3 DEF Seen
<1>4. CASE d.state = "SwitchedOn"
  <2>1. w = {0, 1, 5} \/ w = {0, 1, 5, 12}
    BY <1>1, <1>4 DEF StatusOf, StateBits, DriveState, SW_SWITCHED_ON, SW_PPM_SETPOINT_ACK
  <2>2. ~HasStatus(w, SW_SWITCHON_DISABLED)
    BY <2>1, StatusTestsExact DEF Masked, SW_MASK_SWON_DISABLED, SW_SWITCHON_DISABLED
  <2>3. ~HasStatus(w, SW_RTSO)
    BY <2>1, StatusTestsExact DEF Masked, SW_MASK_RSOQ, SW_RTSO
  <2>4. HasStatus(w, SW_SWITCHED_ON)
    BY <2>1, StatusTestsExact DEF Masked, SW_MASK_RSOQ, SW_SWITCHED_ON
  <2> QED
    BY <1>4, <2>2, <2>3, <2>4 DEF Seen
<1>5. CASE d.state = "OperationEnabled"
  <2>1. w = {0, 1, 2, 5} \/ w = {0, 1, 2, 5, 12}
    BY <1>1, <1>5 DEF StatusOf, StateBits, DriveState, SW_OP_ENABLED, SW_PPM_SETPOINT_ACK
  <2>2. ~HasStatus(w, SW_SWITCHON_DISABLED)
    BY <2>1, StatusTestsExact DEF Masked, SW_MASK_SWON_DISABLED, SW_SWITCHON_DISABLED
  <2>3. ~HasStatus(w, SW_RTSO)
    BY <2>1, StatusTestsExact DEF Masked, SW_MASK_RSOQ, SW_RTSO
  <2>4. ~HasStatus(w, SW_SWITCHED_ON)
    BY <2>1, StatusTestsExact DEF Masked, SW_MASK_RSOQ, SW_SWITCHED_ON
  <2>5. HasStatus(w, SW_OP_ENABLED)
    BY <2>1, StatusTestsExact DEF Masked, SW_MASK_RSOQ, SW_OP_ENABLED
  <2> QED
    BY <1>5, <2>2, <2>3, <2>4, <2>5 DEF Seen
<1>6. CASE d.state = "Fault"
  <2>1. w = {3} \/ w = {3, 12}
    BY <1>1, <1>6 DEF StatusOf, StateBits, DriveState, SW_FAULT, SW_PPM_SETPOINT_ACK
  <2>2. ~HasStatus(w, SW_SWITCHON_DISABLED)
    BY <2>1, StatusTestsExact DEF Masked, SW_MASK_SWON_DISABLED, SW_SWITCHON_DISABLED
  <2>3. ~HasStatus(w, SW_RTSO)
    BY <2>1, StatusTestsExact DEF Masked, SW_MASK_RSOQ, SW_RTSO
  <2>4. ~HasStatus(w, SW_SWITCHED_ON)
    BY <2>1, StatusTestsExact DEF Masked, SW_MASK_RSOQ, SW_SWITCHED_ON
  <2>5. ~HasStatus(w, SW_OP_ENABLED)
    BY <2>1, StatusTestsExact DEF Masked, SW_MASK_RSOQ, SW_OP_ENABLED
  <2> QED
    BY <1>6, <2>2, <2>3, <2>4, <2>5 DEF Seen
<1> QED
  BY <1>1, <1>2, <1>3, <1>4, <1>5, <1>6 DEF DriveState

-----------------------------------------------------------------------------
\* The controlwords the server writes.  With any of the last four in it, an
\* enabled drive stays enabled.
Running == {CW_ENABLEOP, CW_RAISE, CW_LOWER, CW_STOP}
Written == {{}, CW_SHUTDOWN, CW_SWITCHON} \cup Running

LEMMA Commands ==
    /\ IsDisable({}) /\ ~IsShutdown({})
    /\ IsShutdown(CW_SHUTDOWN) /\ ~IsDisable(CW_SHUTDOWN)
    /\ IsSwitchOn(CW_SWITCHON) /\ ~IsDisable(CW_SWITCHON)
    /\ ~IsShutdown(CW_SWITCHON) /\ ~IsEnableOp(CW_SWITCHON)
    /\ \A c \in Running : ~IsDisable(c) /\ ~IsShutdown(c)
                             /\ ~IsSwitchOn(c) /\ IsEnableOp(c)
    /\ CW_SHUTDOWN \notin {{}, CW_SWITCHON} \cup Running
    /\ CW_SWITCHON \notin {{}} \cup Running
    /\ {} \notin Running
<1>1. IsDisable({}) /\ ~IsShutdown({})
  <2>1. 1 \in CW_SHUTDOWN
    BY DEF CW_SHUTDOWN
  <2> QED
    BY <2>1 DEF IsDisable, IsShutdown, Masked
<1>2. IsShutdown(CW_SHUTDOWN) /\ ~IsDisable(CW_SHUTDOWN)
  BY DEF IsShutdown, IsDisable, Masked, CW_SHUTDOWN
<1>3. IsSwitchOn(CW_SWITCHON) /\ ~IsDisable(CW_SWITCHON)
  BY DEF IsSwitchOn, IsDisable, Masked, CW_SWITCHON
<1>4. ~IsShutdown(CW_SWITCHON) /\ ~IsEnableOp(CW_SWITCHON)
  <2>1. /\ 0 \in CW_SWITCHON \cap {0, 1, 2} /\ 0 \notin CW_SHUTDOWN
        /\ 3 \notin CW_SWITCHON /\ 3 \in CW_ENABLEOP
    BY DEF CW_SWITCHON, CW_SHUTDOWN, CW_ENABLEOP
  <2> QED
    BY <2>1 DEF IsShutdown, IsEnableOp, Masked
<1>5. ASSUME NEW c \in Running
      PROVE  /\ 0 \in c /\ 1 \in c /\ 3 \in c
             /\ c \cap {0, 1, 2, 3} = CW_ENABLEOP
  BY DEF Running, CW_ENABLEOP, CW_RAISE, CW_LOWER, CW_STOP, CW_PPM_SNPI1,
         CW_PPM_SNPI2, CW_HALT
<1>6. 0 \notin CW_SHUTDOWN /\ 1 \in CW_SHUTDOWN /\ 3 \notin CW_SHUTDOWN
         /\ 0 \in CW_SWITCHON /\ 3 \notin CW_SWITCHON
  BY DEF CW_SHUTDOWN, CW_SWITCHON
<1>7. ASSUME NEW c \in Running
      PROVE  ~IsDisable(c) /\ ~IsShutdown(c) /\ ~IsSwitchOn(c) /\ IsEnableOp(c)
  <2>1. 0 \in c \cap {0, 1, 2} /\ 3 \in c \cap {0, 1, 2, 3} /\ 1 \in c
    BY <1>5
  <2> QED
    BY <1>5, <1>6, <2>1 DEF IsDisable, IsShutdown, IsSwitchOn, IsEnableOp, Masked
<1>8. /\ CW_SHUTDOWN \notin {{}, CW_SWITCHON} \cup Running
      /\ CW_SWITCHON \notin {{}} \cup Running
      /\ {} \notin Running
  BY <1>5, <1>6
<1> QED
  BY <1>1, <1>2, <1>3, <1>4, <1>7, <1>8

\* Where each written controlword takes a drive from each state.
LEMMA Transitions ==
    ASSUME NEW c \in Written
    PROVE  /\ NextState("SwitchOnDisabled", c) =
                 IF c = CW_SHUTDOWN THEN "ReadyToSwitchOn" ELSE "SwitchOnDisabled"
           /\ c \in {CW_SHUTDOWN, CW_SWITCHON} =>
                 NextState("ReadyToSwitchOn", c) =
                    IF c = CW_SWITCHON THEN "SwitchedOn" ELSE "ReadyToSwitchOn"
           /\ c \in {CW_SWITCHON, CW_ENABLEOP} =>
                 NextState("SwitchedOn", c) =
                    IF c = CW_ENABLEOP THEN "OperationEnabled" ELSE "SwitchedOn"
           /\ c \in Running => NextState("OperationEnabled", c) = "OperationEnabled"
           /\ NextState("Fault", c) = "Fault"
<1>1. CASE c = {}
  <2>1. IsDisable(c) /\ ~IsShutdown(c) /\ c # CW_SHUTDOWN /\ c # CW_SWITCHON
           /\ c \notin Running /\ c # CW_ENABLEOP
    BY <1>1, Commands DEF Running
  <2> QED
    BY <2>1 DEF NextState
<1>2. CASE c = CW_SHUTDOWN
  <2>1. ~IsSwitchOn(c) /\ ~IsEnableOp(c)
    <3>1. 0 \notin c /\ 0 \in CW_SWITCHON /\ 0 \in CW_ENABLEOP
      BY <1>2 DEF CW_SHUTDOWN, CW_SWITCHON, CW_ENABLEOP
    <3> QED
      BY <3>1 DEF IsSwitchOn, IsEnableOp, Masked
  <2>2. IsShutdown(c) /\ ~IsDisable(c) /\ c # CW_SWITCHON /\ c \notin Running
           /\ c # CW_ENABLEOP
    BY <1>2, Commands DEF Running
  <2> QED
    BY <1>2, <2>1, <2>2 DEF NextState
<1>3. CASE c = CW_SWITCHON
  <2>1. IsSwitchOn(c) /\ ~IsDisable(c) /\ ~IsShutdown(c) /\ ~IsEnableOp(c)
           /\ c # CW_SHUTDOWN /\ c \notin Running /\ c # CW_ENABLEOP
    BY <1>3, Commands DEF Running
  <2> QED
    BY <1>3, <2>1 DEF NextState
<1>4. CASE c \in Running
  <2>1. ~IsDisable(c) /\ ~IsShutdown(c) /\ ~IsSwitchOn(c) /\ IsEnableOp(c)
           /\ c # CW_SHUTDOWN /\ c # CW_SWITCHON
    BY <1>4, Commands
  <2>2. NextState("SwitchOnDisabled", c) = "SwitchOnDisabled"
    BY <2>1 DEF NextState
  <2>3. NextState("SwitchedOn", c) = "OperationEnabled"
    BY <2>1 DEF NextState
  <2>4. NextState("OperationEnabled", c) = "OperationEnabled"
    BY <2>1 DEF NextState
  <2>5. NextState("Fault", c) = "Fault"
    BY DEF NextState
  <2> QED
    BY <2>1, <2>2, <2>3, <2>4, <2>5
<1> QED
  BY <1>1, <1>2, <1>3, <1>4 DEF Written

\* What the control logic writes for each state it reads.
LEMMA Writes ==
    ASSUME NEW c \in Written, NEW n \in Nat, NEW st
    PROVE  /\ ControlCw(c, n, st) \in Written
           /\ Seen(st) = "SwitchOnDisabled" => ControlCw(c, n, st) = CW_SHUTDOWN
           /\ Seen(st) = "ReadyToSwitchOn" => ControlCw(c, n, st) = CW_SWITCHON
           /\ Seen(st) = "SwitchedOn" => ControlCw(c, n, st) = CW_ENABLEOP
           /\ Seen(st) = "OperationEnabled" =>
                 /\ ControlCw(c, n, st) \in {CW_LOWER, CW_RAISE, c}
                 /\ n = 0 /\ 4 \notin c => ControlCw(c, n, st) = c
           /\ Seen(st) = "Fault" => ControlCw(c, n, st) = c
<1>1. Seen(st) \in {"SwitchOnDisabled", "ReadyToSwitchOn", "SwitchedOn",
                    "OperationEnabled", "Fault"}
  BY DEF Seen
<1>2. HandshakeCw(c, n, st) \in {CW_LOWER, CW_RAISE, c}
  BY DEF HandshakeCw
<1>3. n = 0 /\ 4 \notin c => HandshakeCw(c, n, st) = c
  BY DEF HandshakeCw, Acknowledged, ycoe_ppm_checkcontrol, Masked,
         CW_PPM_MASK_SNPI, CW_PPM_SNPI2
<1>4. CASE Seen(st) = "SwitchOnDisabled"
  BY <1>4 DEF ControlCw, Written
<1>5. CASE Seen(st) = "ReadyToSwitchOn"
  BY <1>5 DEF ControlCw, Written
<1>6. CASE Seen(st) = "SwitchedOn"
  BY <1>6 DEF ControlCw, Written, Running
<1>7. CASE Seen(st) = "OperationEnabled"
  BY <1>2, <1>3, <1>7 DEF ControlCw, Written, Running
<1>8. CASE Seen(st) = "Fault"
  BY <1>8 DEF ControlCw
<1> QED
  BY <1>1, <1>4, <1>5, <1>6, <1>7, <1>8

-----------------------------------------------------------------------------
\* A drive is enabled step by step, each step waiting for the report of the one
\* before: the controlword in the outputs, the one the drive has, the state it
\* is in and the state last read are never more than one step apart, whatever
\* frames are lost and however many rounds run on the same inputs.
Pair(s, read, received, sent) ==
    Read(s) = read /\ drive[s].cw = received /\ cw[s] = sent

AtSwitchOnDisabled(s) ==
    \/ /\ Read(s) = "SwitchOnDisabled"
       /\ drive[s].cw = CW_SHUTDOWN => cw[s] = CW_SHUTDOWN
    \/ /\ Read(s) # "SwitchOnDisabled"
       /\ drive[s].cw # CW_SHUTDOWN /\ cw[s] # CW_SHUTDOWN

AtReadyToSwitchOn(s) ==
    \/ Pair(s, "SwitchOnDisabled", CW_SHUTDOWN, CW_SHUTDOWN)
    \/ Pair(s, "ReadyToSwitchOn", CW_SHUTDOWN, CW_SHUTDOWN)
    \/ Pair(s, "ReadyToSwitchOn", CW_SHUTDOWN, CW_SWITCHON)
    \/ Pair(s, "ReadyToSwitchOn", CW_SWITCHON, CW_SWITCHON)

AtSwitchedOn(s) ==
    \/ Pair(s, "ReadyToSwitchOn", CW_SWITCHON, CW_SWITCHON)
    \/ Pair(s, "SwitchedOn", CW_SWITCHON, CW_SWITCHON)
    \/ Pair(s, "SwitchedOn", CW_SWITCHON, CW_ENABLEOP)
    \/ Pair(s, "SwitchedOn", CW_ENABLEOP, CW_ENABLEOP)

AtOperationEnabled(s) ==
    \/ Pair(s, "SwitchedOn", CW_ENABLEOP, CW_ENABLEOP) /\ ~drive[s].moving
    \/ Read(s) = "OperationEnabled" /\ drive[s].cw \in Running /\ cw[s] \in Running

AtFault(s) ==
    /\ Read(s) # "SwitchOnDisabled"
    /\ drive[s].cw # CW_SHUTDOWN /\ cw[s] # CW_SHUTDOWN

StepByStep(s) ==
    /\ drive[s].state = "SwitchOnDisabled" => AtSwitchOnDisabled(s)
    /\ drive[s].state = "ReadyToSwitchOn" => AtReadyToSwitchOn(s)
    /\ drive[s].state = "SwitchedOn" => AtSwitchedOn(s)
    /\ drive[s].state = "OperationEnabled" => AtOperationEnabled(s)
    /\ drive[s].state = "Fault" => AtFault(s)

\* A drive that was never set up was never sent CW_SHUTDOWN, the only way on.
SetUp(s) ==
    drive[s].profile = "factory" =>
        /\ drive[s].state \in {"SwitchOnDisabled", "Fault"}
        /\ drive[s].cw # CW_SHUTDOWN /\ cw[s] # CW_SHUTDOWN

\* A stopped axis has no command pending, and either HALT in its controlword or
\* nothing it could move on.
Stopped(s) ==
    wanted[s] = NoPosition =>
        /\ sem[s] = 0
        /\ drive[s].state = "OperationEnabled" =>
              CW_HALT \subseteq cw[s] \/ (~drive[s].moving /\ 4 \notin drive[s].cw)

Enabling(s) ==
    /\ cw[s] \in Written /\ drive[s].cw \in Written
    /\ drive[s].moving => drive[s].state = "OperationEnabled"
    /\ StepByStep(s)
    /\ SetUp(s)
    /\ Stopped(s)

EInv == IInv /\ \A s \in Servo : Enabling(s)

\* At power-up no controlword was sent and no state read.
LEMMA EnablingStarts == Init => \A s \in Servo : Enabling(s)
<1> SUFFICES ASSUME Init, NEW s \in Servo PROVE Enabling(s)
  OBVIOUS
<1>1. /\ drive[s].state = "SwitchOnDisabled" /\ drive[s].cw = {}
      /\ ~drive[s].moving /\ cw[s] = {} /\ inputs[s] = {} /\ sem[s] = 0
  BY DEF Init, NewDrive, SemIndex
<1>2. Read(s) # "SwitchOnDisabled"
  <2>1. ~HasStatus({}, SW_SWITCHON_DISABLED)
    BY StatusTestsExact DEF Masked, SW_MASK_SWON_DISABLED, SW_SWITCHON_DISABLED
  <2> QED
    BY <1>1, <2>1 DEF Read, Seen
<1>3. {} # CW_SHUTDOWN /\ {} \in Written
  BY Commands DEF Written
<1> QED
  BY <1>1, <1>2, <1>3
     DEF Enabling, StepByStep, AtSwitchOnDisabled, SetUp, Stopped

\* What every step of the server has in common: it serves a request that left
\* a controlword c the server writes, or CW_STOP, and n commands.
LEMMA ServedEnables ==
    ASSUME EInv, NEW s \in Servo, NEW c \in {cw[s], CW_STOP}, NEW n \in Nat,
           Served(s, c, n),
           wanted'[s] = NoPosition =>
              n = 0 /\ (wanted[s] = NoPosition \/ c = CW_STOP)
    PROVE  Enabling(s)'
<1>1. /\ Enabling(s) /\ drive[s] \in Drive /\ cw[s] \in Word /\ CW_STOP \in Word
      /\ 4 \in cw[s] => sem[s] > 0
      /\ 4 \notin CW_STOP /\ CW_HALT \subseteq CW_STOP
  BY ControlWords DEF EInv, IInv, TypeOK, RaisedHasCommand, CW_STOP
<1>2. c \in Written /\ c \in Word
  BY <1>1 DEF Enabling, Written, Running
<1>3. /\ cw'[s] \in Written
      /\ Read(s) = "SwitchOnDisabled" => cw'[s] = CW_SHUTDOWN
      /\ Read(s) = "ReadyToSwitchOn" => cw'[s] = CW_SWITCHON
      /\ Read(s) = "SwitchedOn" => cw'[s] = CW_ENABLEOP
      /\ Read(s) = "OperationEnabled" =>
            /\ cw'[s] \in {CW_LOWER, CW_RAISE, c}
            /\ n = 0 /\ 4 \notin c => cw'[s] = c
      /\ Read(s) = "Fault" => cw'[s] = c
  BY <1>2, Writes DEF Served, Read
<1>4. /\ Read(s)' = Read(s) /\ drive'[s].state = drive[s].state
      /\ drive'[s].cw = drive[s].cw /\ (drive'[s].moving <=> drive[s].moving)
      /\ drive'[s].profile = "factory" =>
            drive[s].profile = "factory" /\ Read(s) # "SwitchOnDisabled"
  BY DEF Served, SameDrive, Read
<1>5. Read(s) \in {"SwitchOnDisabled", "ReadyToSwitchOn", "SwitchedOn",
                   "OperationEnabled", "Fault"}
  BY DEF Read, Seen
<1>6. /\ CW_STOP \in Running /\ CW_LOWER \in Running /\ CW_RAISE \in Running
      /\ CW_ENABLEOP \in Running /\ CW_SHUTDOWN \notin Running
      /\ CW_SWITCHON \notin Running /\ CW_SHUTDOWN # CW_SWITCHON
  BY Commands DEF Running
<1>7. StepByStep(s)'
  BY <1>1, <1>3, <1>4, <1>5, <1>6
     DEF Enabling, StepByStep, AtSwitchOnDisabled, AtReadyToSwitchOn,
         AtSwitchedOn, AtOperationEnabled, AtFault, Pair
<1>8. SetUp(s)'
  BY <1>1, <1>3, <1>4, <1>5, <1>6 DEF Enabling, SetUp
<1>9. Stopped(s)'
  <2> SUFFICES ASSUME wanted'[s] = NoPosition PROVE
           /\ sem'[s] = 0
           /\ drive[s].state = "OperationEnabled" =>
                 CW_HALT \subseteq cw'[s] \/ (~drive[s].moving /\ 4 \notin drive[s].cw)
    BY <1>4 DEF Stopped
  <2>1. n = 0 /\ (wanted[s] = NoPosition \/ c = CW_STOP)
    OBVIOUS
  <2>2. 4 \notin c
    BY <1>1, <2>1 DEF Enabling, Stopped
  <2>3. sem'[s] = 0
    BY <2>1, <2>2 DEF Served, ControlSem, Acknowledged, ycoe_ppm_checkcontrol,
                      Masked, CW_PPM_MASK_SNPI, CW_PPM_SNPI2
  <2>4. ASSUME drive[s].state = "OperationEnabled"
        PROVE  CW_HALT \subseteq cw'[s] \/ (~drive[s].moving /\ 4 \notin drive[s].cw)
    <3>1. AtOperationEnabled(s)
      BY <1>1, <2>4 DEF Enabling, StepByStep
    <3>2. CASE Read(s) = "OperationEnabled"
      BY <1>1, <1>3, <2>1, <2>2, <2>4, <3>2 DEF Enabling, Stopped
    <3>3. CASE Read(s) # "OperationEnabled"
      BY <3>1, <3>3, ControlWords DEF AtOperationEnabled, Pair
    <3> QED
      BY <3>2, <3>3
  <2> QED
    BY <2>3, <2>4
<1> QED
  BY <1>1, <1>3, <1>4, <1>7, <1>8, <1>9 DEF Enabling

\* A round takes a drive at most one step further, and leaves a stop in force.
LEMMA RequestEnables ==
    ASSUME EInv, Request, NEW s \in Servo
    PROVE  Enabling(s)'
<1>1. /\ IInv /\ Enabling(s) /\ sem[s] \in Nat /\ 0 \in Nat /\ sem[s] + 1 \in Nat
  BY BoundAssumption DEF EInv, IInv, TypeOK, SemIndex
<1>2. wanted[s] = NoPosition => sem[s] = 0
  BY <1>1 DEF Enabling, Stopped
<1>3. CASE Untouched(s)
  BY <1>1, <1>2, <1>3, ServedEnables DEF Untouched
<1>4. CASE AskedFor(s)
  <2>1. wanted'[s] # NoPosition /\ Served(s, cw[s], sem[s] + 1)
    BY <1>4, PositionAssumption DEF AskedFor
  <2> QED
    BY <1>1, <2>1, ServedEnables
<1>5. CASE StoppedFor(s)
  BY <1>1, <1>5, ServedEnables DEF StoppedFor
<1>6. CASE ByMaster(s)
  BY <1>1, <1>2, <1>6, ServedEnables DEF ByMaster
<1> QED
  BY <1>1, <1>3, <1>4, <1>5, <1>6, RequestServes

\* A frame brings a drive the controlword in the outputs; its return brings the
\* state the drive had.
LEMMA CycleEnables ==
    ASSUME EInv, Cycle, NEW s \in Servo
    PROVE  Enabling(s)'
<1>1. /\ IInv /\ Enabling(s) /\ (4 \in cw[s] => sem[s] > 0)
      /\ SameServer /\ drive[s] \in Drive
      /\ inputs'[s] = inputs[s] \/ inputs'[s] = StatusOf(drive[s])
      /\ \/ drive'[s] = drive[s]
         \/ drive'[s] = [drive[s] EXCEPT !.cw = cw[s], !.target = target[s]]
  BY CycleMoves DEF EInv, IInv, RaisedHasCommand
<1>2. /\ drive'[s].state = drive[s].state /\ drive'[s].moving = drive[s].moving
      /\ drive'[s].profile = drive[s].profile
      /\ drive'[s].cw = drive[s].cw \/ drive'[s].cw = cw[s]
      /\ cw'[s] = cw[s] /\ sem'[s] = sem[s] /\ wanted'[s] = wanted[s]
  BY <1>1 DEF Drive, SameServer
<1>3. Read(s)' = Read(s) \/ Read(s)' = drive[s].state
  BY <1>1, Readings DEF Read
<1>4. StepByStep(s)'
  BY <1>1, <1>2, <1>3, Commands
     DEF Enabling, StepByStep, AtSwitchOnDisabled, AtReadyToSwitchOn,
         AtSwitchedOn, AtOperationEnabled, AtFault, Pair, Running
<1>5. SetUp(s)'
  BY <1>1, <1>2 DEF Enabling, SetUp
<1>6. Stopped(s)'
  BY <1>1, <1>2 DEF Enabling, Stopped
<1> QED
  BY <1>1, <1>2, <1>4, <1>5, <1>6 DEF Enabling

\* A drive that reacts goes to the state its controlword leads to.
LEMMA ReactEnables ==
    ASSUME EInv, NEW s \in Servo, DriveReacts(s)
    PROVE  /\ Enabling(s)'
           /\ drive[s].state = "OperationEnabled" =>
                 drive'[s].state = "OperationEnabled"
<1>1. /\ Enabling(s) /\ drive[s] \in Drive /\ drive \in [Servo -> Drive]
      /\ drive[s].state \in DriveState /\ drive[s].cw \in Written
  BY DEF EInv, IInv, TypeOK, Drive, Enabling
<1>2. /\ Read(s)' = Read(s) /\ cw'[s] = cw[s] /\ sem'[s] = sem[s]
      /\ wanted'[s] = wanted[s] /\ drive'[s] = Reacted(drive[s])
  BY <1>1 DEF DriveReacts, Read
<1>3. /\ drive'[s].state = NextState(drive[s].state, drive[s].cw)
      /\ drive'[s].cw = drive[s].cw /\ drive'[s].profile = drive[s].profile
      /\ drive'[s].moving => /\ drive'[s].state = "OperationEnabled"
                             /\ drive[s].moving \/ Latches(drive[s])
  BY <1>1, <1>2, Reactions
<1>4. Latches(drive[s]) => drive[s].state = "OperationEnabled" /\ 4 \in drive[s].cw
  BY DEF Latches
<1>5. CASE drive[s].state = "SwitchOnDisabled"
  <2>1. drive'[s].state = IF drive[s].cw = CW_SHUTDOWN THEN "ReadyToSwitchOn"
                          ELSE "SwitchOnDisabled"
    BY <1>1, <1>3, <1>5, Transitions
  <2> QED
    BY <1>1, <1>2, <1>3, <1>5, <2>1
       DEF Enabling, StepByStep, SetUp, Stopped, AtSwitchOnDisabled,
           AtReadyToSwitchOn, Pair
<1>6. CASE drive[s].state = "ReadyToSwitchOn"
  <2>1. AtReadyToSwitchOn(s)
    BY <1>1, <1>6 DEF Enabling, StepByStep
  <2>2. drive'[s].state = IF drive[s].cw = CW_SWITCHON THEN "SwitchedOn"
                          ELSE "ReadyToSwitchOn"
    BY <1>1, <1>3, <1>6, <2>1, Transitions DEF AtReadyToSwitchOn, Pair
  <2> QED
    BY <1>1, <1>2, <1>3, <1>6, <2>1, <2>2, Commands
       DEF Enabling, StepByStep, SetUp, Stopped, AtReadyToSwitchOn, AtSwitchedOn, Pair
<1>7. CASE drive[s].state = "SwitchedOn"
  <2>1. AtSwitchedOn(s)
    BY <1>1, <1>7 DEF Enabling, StepByStep
  <2>2. drive'[s].state = IF drive[s].cw = CW_ENABLEOP THEN "OperationEnabled"
                          ELSE "SwitchedOn"
    BY <1>1, <1>3, <1>7, <2>1, Transitions DEF AtSwitchedOn, Pair
  <2>3. ~drive'[s].moving
    BY <1>1, <1>3, <1>4, <1>7 DEF Enabling
  <2>4. CW_ENABLEOP \in Running /\ CW_SWITCHON # CW_ENABLEOP /\ 4 \notin CW_ENABLEOP
    BY Commands, ControlWords DEF Running
  <2> QED
    BY <1>1, <1>2, <1>3, <1>7, <2>1, <2>2, <2>3, <2>4
       DEF Enabling, StepByStep, SetUp, Stopped, AtSwitchedOn, AtOperationEnabled, Pair
<1>8. CASE drive[s].state = "OperationEnabled"
  <2>1. AtOperationEnabled(s) /\ drive[s].cw \in Running
    BY <1>1, <1>8
       DEF Enabling, StepByStep, AtOperationEnabled, Pair, Running
  <2>2. drive'[s].state = "OperationEnabled"
    BY <1>1, <1>3, <1>8, <2>1, Transitions
  <2>3. drive'[s].moving => drive[s].moving \/ 4 \in drive[s].cw
    BY <1>3, <1>4
  <2>4. AtOperationEnabled(s)'
    <3>1. 4 \notin CW_ENABLEOP
      BY ControlWords
    <3> QED
      BY <1>2, <1>3, <2>1, <2>3, <3>1 DEF AtOperationEnabled, Pair
  <2> QED
    BY <1>1, <1>2, <1>3, <1>8, <2>2, <2>3, <2>4
       DEF Enabling, StepByStep, SetUp, Stopped
<1>9. CASE drive[s].state = "Fault"
  <2>1. drive'[s].state = "Fault"
    BY <1>1, <1>3, <1>9, Transitions
  <2> QED
    BY <1>1, <1>2, <1>3, <1>9, <2>1
       DEF Enabling, StepByStep, SetUp, Stopped, AtFault
<1> QED
  BY <1>1, <1>5, <1>6, <1>7, <1>8, <1>9 DEF DriveState

\* The steps of the drives.  A drive that trips or is reset has to be enabled
\* from the start; its controlword and the state last read are not CW_SHUTDOWN
\* and SwitchOnDisabled, so the first step waits for its report too.
LEMMA DriveEnables ==
    ASSUME EInv, NEW s \in Servo, DriveStep(s), NEW t \in Servo
    PROVE  /\ Enabling(t)'
           /\ drive[t].state = "OperationEnabled" =>
                 drive'[t].state \in {"OperationEnabled", "Fault"}
<1>1. /\ Enabling(t) /\ IInv
      /\ drive[s] \in Drive /\ drive \in [Servo -> Drive]
      /\ cw' = cw /\ sem' = sem /\ wanted' = wanted /\ Read(t)' = Read(t)
  BY DEF EInv, IInv, TypeOK, DriveStep, DriveReacts, MotionEnds, DriveFaults,
         FaultReset, Read
<1>2. CASE t # s
  <2>1. drive'[t] = drive[t]
    BY <1>1, <1>2 DEF DriveStep, DriveReacts, MotionEnds, DriveFaults, FaultReset
  <2> QED
    BY <1>1, <2>1
       DEF Enabling, StepByStep, SetUp, Stopped, AtSwitchOnDisabled,
           AtReadyToSwitchOn, AtSwitchedOn, AtOperationEnabled, AtFault, Pair
<1>3. CASE t = s /\ DriveReacts(s)
  BY <1>3, ReactEnables
<1>4. CASE t = s /\ MotionEnds(s)
  <2>1. /\ drive'[s].state = drive[s].state /\ drive'[s].cw = drive[s].cw
        /\ drive'[s].profile = drive[s].profile /\ ~drive'[s].moving
    BY <1>1, <1>4 DEF MotionEnds, Drive
  <2>2. StepByStep(s)'
    BY <1>1, <1>4, <2>1
       DEF Enabling, StepByStep, AtSwitchOnDisabled,
           AtReadyToSwitchOn, AtSwitchedOn, AtOperationEnabled, AtFault, Pair
  <2> QED
    BY <1>1, <1>4, <2>1, <2>2 DEF Enabling, SetUp, Stopped
<1>5. CASE t = s /\ DriveFaults(s)
  <2>1. /\ drive[s].state \in {"SwitchedOn", "OperationEnabled"}
        /\ drive'[s].state = "Fault" /\ ~drive'[s].moving
        /\ drive'[s].cw = drive[s].cw /\ drive'[s].profile = drive[s].profile
    BY <1>1, <1>5, Tripped
  <2>2. AtFault(s)'
    BY <1>1, <1>5, <2>1, Commands
       DEF Enabling, StepByStep, AtSwitchedOn, AtOperationEnabled, AtFault, Pair, Running
  <2> QED
    BY <1>1, <1>5, <2>1, <2>2 DEF Enabling, StepByStep, SetUp, Stopped
<1>6. CASE t = s /\ FaultReset(s)
  <2>1. /\ drive[s].state = "Fault" /\ drive'[s].state = "SwitchOnDisabled"
        /\ drive'[s].moving = drive[s].moving
        /\ drive'[s].cw = drive[s].cw /\ drive'[s].profile = drive[s].profile
    BY <1>1, <1>6 DEF FaultReset, Drive
  <2> QED
    BY <1>1, <1>6, <2>1
       DEF Enabling, StepByStep, SetUp, Stopped, AtFault, AtSwitchOnDisabled
<1> QED
  BY <1>2, <1>3, <1>4, <1>5, <1>6 DEF DriveStep

LEMMA EnablingInductive == EInv /\ [Next]_vars => EInv'
<1> SUFFICES ASSUME EInv, [Next]_vars PROVE EInv'
  OBVIOUS
<1>1. IInv'
  BY Inductive DEF EInv
<1> SUFFICES ASSUME NEW t \in Servo PROVE Enabling(t)'
  BY <1>1 DEF EInv
<1>2. CASE UNCHANGED vars
  BY <1>2 DEF vars, EInv, Read, Enabling, StepByStep, SetUp, Stopped,
              AtSwitchOnDisabled, AtReadyToSwitchOn, AtSwitchedOn,
              AtOperationEnabled, AtFault, Pair
<1>3. CASE Request
  BY <1>3, RequestEnables
<1>4. CASE Cycle
  BY <1>4, CycleEnables
<1>5. CASE \E s \in Servo : DriveStep(s)
  BY <1>5, DriveEnables
<1> QED
  BY <1>2, <1>3, <1>4, <1>5 DEF Next

LEMMA EnablingHolds == Spec => []EInv
<1>1. Init => EInv
  BY Initial, EnablingStarts DEF EInv
<1> QED
  BY <1>1, EnablingInductive, PTL DEF Spec

\* No drive is enabled before the server has set its mode and profile
\* (ppm_debug.c:143-150), on however old inputs.
THEOREM EnabledSetUp == Spec => []EnabledIsSetUp
<1>1. EInv => EnabledIsSetUp
  BY DEF EInv, Enabling, SetUp, EnabledIsSetUp
<1> QED
  BY <1>1, EnablingHolds, PTL

\* After a stop an axis does not move on, until a new position is asked for,
\* unless HALT is on its way to it (ppm_debug.c:122-136).
THEOREM StopHeld == Spec => []StopHolds
<1>1. EInv => StopHolds
  BY DEF EInv, Enabling, Stopped, StopHolds
<1> QED
  BY <1>1, EnablingHolds, PTL

\* One step of EnabledStaysEnabled.
StaysEnabled ==
    \A s \in Servo : drive[s].state = "OperationEnabled"
        => drive'[s].state \in {"OperationEnabled", "Fault"}

\* The control logic (ppm_debug.c:139-176) never takes an enabled drive back to
\* a lower state, on however old a statusword: only a fault does.
THEOREM StaysEnabledAlways == Spec => EnabledStaysEnabled
<1>1. EInv /\ [Next]_vars => [StaysEnabled]_vars
  <2> SUFFICES ASSUME EInv, Next, NEW s \in Servo,
                      drive[s].state = "OperationEnabled"
               PROVE  drive'[s].state \in {"OperationEnabled", "Fault"}
    BY DEF StaysEnabled
  <2>1. CASE Request
    <3>1. SameDrive(s)
      BY <2>1, RequestServes
         DEF EInv, Untouched, AskedFor, StoppedFor, ByMaster, Served
    <3> QED
      BY <3>1 DEF SameDrive
  <2>2. CASE Cycle
    BY <2>2, CycleMoves DEF EInv, Drive
  <2>3. CASE \E t \in Servo : DriveStep(t)
    BY <2>3, DriveEnables
  <2> QED
    BY <2>1, <2>2, <2>3 DEF Next
<1> QED
  BY <1>1, EnablingHolds, PTL DEF Spec, EnabledStaysEnabled, StaysEnabled
=============================================================================
