-------------------------- MODULE PpmServer_proofs --------------------------
(***************************************************************************)
(* Theorems about PpmServer for any number of servos, positions, pending   *)
(* commands and faults: first those that hold whether or not the client is *)
(* paced, then the set-point hand-over for a client that is.               *)
(***************************************************************************)
EXTENDS PpmServer, TLAPS

\* Every value the server writes to a controlword is a 16-bit word, and only
\* the one that raises the set-point bit has bit 4.
LEMMA ControlWords ==
    /\ {CW_SHUTDOWN, CW_SWITCHON, CW_ENABLEOP,
        CW_RAISE, CW_LOWER, CW_STOP} \subseteq Word
    /\ \A c \in {CW_SHUTDOWN, CW_SWITCHON, CW_ENABLEOP, CW_LOWER, CW_STOP} :
          4 \notin c
<1>1. /\ CW_SHUTDOWN \in Word /\ CW_SWITCHON \in Word /\ CW_ENABLEOP \in Word
      /\ CW_PPM_SNPI1 \in Word /\ CW_PPM_SNPI2 \in Word /\ CW_HALT \in Word
  BY DEF Word, Bits, CW_SHUTDOWN, CW_SWITCHON, CW_ENABLEOP, CW_PPM_SNPI1,
         CW_PPM_SNPI2, CW_HALT
<1>2. CW_RAISE \in Word /\ CW_LOWER \in Word /\ CW_STOP \in Word
  BY <1>1 DEF Word, CW_RAISE, CW_LOWER, CW_STOP
<1>3. /\ 4 \notin CW_SHUTDOWN /\ 4 \notin CW_SWITCHON /\ 4 \notin CW_ENABLEOP
      /\ 4 \notin CW_PPM_SNPI1 /\ 4 \notin CW_HALT
  BY DEF CW_SHUTDOWN, CW_SWITCHON, CW_ENABLEOP, CW_PPM_SNPI1, CW_HALT
<1>4. 4 \notin CW_LOWER /\ 4 \notin CW_STOP
  BY <1>3 DEF CW_LOWER, CW_STOP
<1> QED
  BY <1>1, <1>2, <1>3, <1>4

\* A drive answers with a 16-bit word.
LEMMA StatusWords == \A d \in Drive : StatusOf(d) \in Word
<1> SUFFICES ASSUME NEW d \in Drive PROVE StatusOf(d) \in Word
  OBVIOUS
<1>1. d.state \in DriveState
  BY DEF Drive
<1>2. /\ SW_SWITCHON_DISABLED \in Word /\ SW_RTSO \in Word
      /\ SW_SWITCHED_ON \in Word /\ SW_OP_ENABLED \in Word
      /\ SW_FAULT \in Word /\ SW_PPM_SETPOINT_ACK \in Word /\ {} \in Word
  BY DEF Word, Bits, SW_SWITCHON_DISABLED, SW_RTSO, SW_SWITCHED_ON,
         SW_OP_ENABLED, SW_FAULT, SW_PPM_SETPOINT_ACK
<1>3. StateBits[d.state] \in Word
  BY <1>1, <1>2 DEF StateBits, DriveState
<1> QED
  BY <1>2, <1>3 DEF StatusOf, Word

\* The control logic (ppm_debug.c:139-176) on any statusword: if a raised
\* set-point bit has a command behind it before, it has one after, and the
\* semaphore is never decremented below zero.
LEMMA ControlLogic ==
    ASSUME NEW c \in Word, NEW n \in Nat, NEW st, 4 \in c => n > 0
    PROVE  /\ ControlCw(c, n, st) \in Word
           /\ ControlSem(c, n, st) \in 0..n
           /\ 4 \in ControlCw(c, n, st) => ControlSem(c, n, st) > 0
<1>1. Seen(st) \in {"SwitchOnDisabled", "ReadyToSwitchOn", "SwitchedOn",
                    "OperationEnabled", "Fault"}
  BY DEF Seen
<1>2. Acknowledged(c, st) => n > 0
  BY DEF Acknowledged, ycoe_ppm_checkcontrol, Masked, CW_PPM_MASK_SNPI,
         CW_PPM_SNPI2
<1>3. ControlSem(c, n, st) \in 0..n
  BY <1>2 DEF ControlSem
<1>4. CASE Seen(st) = "OperationEnabled"
  <2>1. ControlCw(c, n, st) = HandshakeCw(c, n, st)
    BY <1>4 DEF ControlCw
  <2>2. CASE Acknowledged(c, st)
    BY <1>3, <2>1, <2>2, ControlWords DEF HandshakeCw
  <2>3. CASE ~Acknowledged(c, st)
    <3>1. ControlSem(c, n, st) = n
      BY <2>3 DEF ControlSem
    <3> QED
      BY <1>3, <2>1, <2>3, <3>1, ControlWords DEF HandshakeCw
  <2> QED
    BY <2>2, <2>3
<1>5. CASE Seen(st) # "OperationEnabled"
  <2>1. ControlSem(c, n, st) = n
    BY <1>5 DEF ControlSem, Acknowledged
  <2>2. ControlCw(c, n, st) \in {CW_SHUTDOWN, CW_SWITCHON, CW_ENABLEOP, c}
    BY <1>1, <1>5 DEF ControlCw
  <2> QED
    BY <1>3, <2>1, <2>2, ControlWords
<1> QED
  BY <1>4, <1>5

-----------------------------------------------------------------------------
\* RaisedHasCommand is inductive together with the types.
IInv == TypeOK /\ RaisedHasCommand

LEMMA Initial == Init => IInv
<1> SUFFICES ASSUME Init PROVE IInv
  OBVIOUS
<1>1. {} \in Word
  BY DEF Word
<1>2. NewDrive \in Drive
  BY <1>1 DEF NewDrive, Drive, DriveState, Profile
<1>3. TypeOK
  BY <1>1, <1>2, BoundAssumption DEF Init, TypeOK
<1>4. RaisedHasCommand
  BY DEF Init, RaisedHasCommand
<1> QED
  BY <1>3, <1>4 DEF IInv

\* A pass of the server loop, whatever the request has left of the outputs and
\* the semaphores, provided that a raised bit still has a command behind it.
LEMMA RoundKeeps ==
    ASSUME IInv,
           NEW c1 \in [Servo -> Word],
           NEW t1 \in [Servo -> Position \cup {NoPosition}],
           NEW n1 \in [SemIndex -> 0..MaxSem],
           NEW p1 \in [Servo -> Profile],
           \A s \in Servo : 4 \in c1[s] => n1[s] > 0,
           wanted' \in [Servo -> Position \cup {NoPosition}],
           Round(c1, t1, n1, p1)
    PROVE  IInv'
<1>1. Servo \subseteq SemIndex /\ 0 \notin Servo /\ MaxSem \in Nat
  BY ServoAssumption, BoundAssumption DEF SemIndex
<1>2. \A s \in Servo :
        /\ ControlCw(c1[s], n1[s], inputs[s]) \in Word
        /\ ControlSem(c1[s], n1[s], inputs[s]) \in 0..MaxSem
        /\ 4 \in ControlCw(c1[s], n1[s], inputs[s])
              => ControlSem(c1[s], n1[s], inputs[s]) > 0
  <2> SUFFICES ASSUME NEW s \in Servo
               PROVE  /\ ControlCw(c1[s], n1[s], inputs[s]) \in Word
                      /\ ControlSem(c1[s], n1[s], inputs[s]) \in 0..MaxSem
                      /\ 4 \in ControlCw(c1[s], n1[s], inputs[s])
                            => ControlSem(c1[s], n1[s], inputs[s]) > 0
    OBVIOUS
  <2>1. c1[s] \in Word /\ n1[s] \in 0..MaxSem /\ (4 \in c1[s] => n1[s] > 0)
    BY <1>1
  <2>2. n1[s] \in Nat /\ 0..n1[s] \subseteq 0..MaxSem
    BY <1>1, <2>1
  <2> QED
    BY <2>1, <2>2, ControlLogic
<1>3. cw' \in [Servo -> Word]
  BY <1>2 DEF Round
<1>4. sem' \in [SemIndex -> 0..MaxSem]
  BY <1>2 DEF Round, SemIndex
<1>5. drive' \in [Servo -> Drive]
  <2> SUFFICES ASSUME NEW s \in Servo PROVE drive'[s] \in Drive
    BY DEF Round
  <2>1. drive[s] \in Drive /\ p1[s] \in Profile /\ "default" \in Profile
    BY DEF IInv, TypeOK, Profile
  <2> QED
    BY <2>1 DEF Round, Drive
<1>6. taken' \in [Servo -> BOOLEAN]
  BY DEF Round, IInv, TypeOK
<1>7. TypeOK'
  BY <1>3, <1>4, <1>5, <1>6 DEF Round, IInv, TypeOK
<1>8. RaisedHasCommand'
  <2> SUFFICES ASSUME NEW s \in Servo, 4 \in cw'[s] PROVE sem'[s] > 0
    BY DEF RaisedHasCommand
  <2>1. cw'[s] = ControlCw(c1[s], n1[s], inputs[s])
    BY DEF Round
  <2>2. sem'[s] = ControlSem(c1[s], n1[s], inputs[s])
    BY <1>1 DEF Round
  <2> QED
    BY <1>2, <2>1, <2>2
<1> QED
  BY <1>7, <1>8 DEF IInv

-----------------------------------------------------------------------------
\* Each request leaves a command behind every raised bit: a new position only
\* adds commands, and a stop lowers the bit of each semaphore it clears.
LEMMA RequestKeeps ==
    ASSUME IInv, Request
    PROVE  IInv'
<1>1. /\ cw \in [Servo -> Word]
      /\ target \in [Servo -> Position \cup {NoPosition}]
      /\ sem \in [SemIndex -> 0..MaxSem]
      /\ wanted \in [Servo -> Position \cup {NoPosition}]
      /\ \A s \in Servo : 4 \in cw[s] => sem[s] > 0
  BY DEF IInv, TypeOK, RaisedHasCommand
<1>2. Profiles \in [Servo -> Profile]
  BY DEF IInv, TypeOK, Profiles, Drive
<1>3. /\ MaxSem \in Nat \ {0}
      /\ Servo \subseteq SemIndex /\ Servo \subseteq Nat \ {0} /\ 1 \in Servo
      /\ Addressed \subseteq SemIndex
      /\ \A a \in Addressed : SlaveAt(a) \in Servo /\ (a # 0 => SlaveAt(a) = a)
  BY ServoAssumption, BoundAssumption DEF SemIndex, SlaveAt, FirstSlave
<1>4. CW_STOP \in Word /\ 4 \notin CW_STOP
  BY ControlWords
<1>5. CASE Poll
  BY <1>1, <1>2, <1>5, RoundKeeps DEF Poll
<1>6. ASSUME NEW a \in Addressed, NEW p \in Position, SetPosition(a, p)
      PROVE  IInv'
  <2> DEFINE t1 == [target EXCEPT ![SlaveAt(a)] = p]
             n1 == [sem EXCEPT ![a] = @ + 1]
  <2>1. t1 \in [Servo -> Position \cup {NoPosition}]
    BY <1>1
  <2>2. sem[a] \in 0..MaxSem /\ sem[a] < MaxSem
    BY <1>1, <1>3, <1>6 DEF SetPosition
  <2>3. n1 \in [SemIndex -> 0..MaxSem]
    BY <1>1, <1>3, <2>2
  <2>4. \A s \in Servo : 4 \in cw[s] => n1[s] > 0
    BY <1>1, <1>3, <2>2
  <2>5. wanted' \in [Servo -> Position \cup {NoPosition}]
    BY <1>1, <1>6 DEF SetPosition
  <2>6. Round(cw, t1, n1, Profiles)
    BY <1>6 DEF SetPosition
  <2> HIDE DEF t1, n1
  <2> QED
    BY <1>1, <1>2, <2>1, <2>3, <2>4, <2>5, <2>6, RoundKeeps
<1>7. ASSUME NEW p \in Position, SetAllPositions(p)
      PROVE  IInv'
  <2> DEFINE t1 == [s \in Servo |-> p]
             n1 == [i \in SemIndex |-> IF i \in Servo THEN sem[i] + 1 ELSE sem[i]]
  <2>1. t1 \in [Servo -> Position \cup {NoPosition}]
    OBVIOUS
  <2>2. \A s \in Servo : sem[s] \in 0..MaxSem /\ sem[s] < MaxSem
    BY <1>1, <1>3, <1>7 DEF SetAllPositions
  <2>3. n1 \in [SemIndex -> 0..MaxSem]
    BY <1>1, <1>3, <2>2
  <2>4. \A s \in Servo : 4 \in cw[s] => n1[s] > 0
    BY <1>3, <2>2
  <2>5. wanted' \in [Servo -> Position \cup {NoPosition}]
    BY <1>7 DEF SetAllPositions
  <2>6. Round(cw, t1, n1, Profiles)
    BY <1>7 DEF SetAllPositions
  <2> HIDE DEF t1, n1
  <2> QED
    BY <1>1, <1>2, <2>1, <2>3, <2>4, <2>5, <2>6, RoundKeeps
<1>8. ASSUME NEW a \in Addressed, SetProfile(a)
      PROVE  IInv'
  <2>1. [Profiles EXCEPT ![a] = "user"] \in [Servo -> Profile]
    BY <1>2 DEF Profile
  <2> QED
    BY <1>1, <1>8, <2>1, RoundKeeps DEF SetProfile
<1>9. ASSUME NEW a \in Addressed, StopAxis(a)
      PROVE  IInv'
  <2> DEFINE c1 == [cw EXCEPT ![SlaveAt(a)] = CW_STOP]
             n1 == [sem EXCEPT ![a] = 0]
  <2>1. c1 \in [Servo -> Word]
    BY <1>1, <1>4
  <2>2. n1 \in [SemIndex -> 0..MaxSem]
    BY <1>1, <1>3
  <2>3. \A s \in Servo : 4 \in c1[s] => n1[s] > 0
    <3> SUFFICES ASSUME NEW s \in Servo, 4 \in c1[s] PROVE n1[s] > 0
      OBVIOUS
    <3>1. s # SlaveAt(a) /\ 4 \in cw[s]
      BY <1>1, <1>4
    <3>2. s # a
      BY <1>3, <3>1
    <3> QED
      BY <1>1, <1>3, <3>1, <3>2
  <2>4. wanted' \in [Servo -> Position \cup {NoPosition}]
    BY <1>1, <1>9 DEF StopAxis
  <2>5. Round(c1, target, n1, Profiles)
    BY <1>9 DEF StopAxis
  <2> HIDE DEF c1, n1
  <2> QED
    BY <1>1, <1>2, <2>1, <2>2, <2>3, <2>4, <2>5, RoundKeeps
<1>10. CASE StopAll
  <2> DEFINE c1 == [s \in Servo |-> CW_STOP]
             n1 == [i \in SemIndex |-> IF i \in Servo THEN 0 ELSE sem[i]]
  <2>1. c1 \in [Servo -> Word]
    BY <1>4
  <2>2. n1 \in [SemIndex -> 0..MaxSem]
    BY <1>1, <1>3
  <2>3. \A s \in Servo : 4 \in c1[s] => n1[s] > 0
    BY <1>4
  <2>4. wanted' \in [Servo -> Position \cup {NoPosition}]
    BY <1>10 DEF StopAll
  <2>5. Round(c1, target, n1, Profiles)
    BY <1>10 DEF StopAll
  <2> HIDE DEF c1, n1
  <2> QED
    BY <1>1, <1>2, <2>1, <2>2, <2>3, <2>4, <2>5, RoundKeeps
<1> QED
  BY <1>5, <1>6, <1>7, <1>8, <1>9, <1>10 DEF Request

-----------------------------------------------------------------------------
\* An exchange changes what the drives have received and what the server reads.
LEMMA CycleKeeps ==
    ASSUME IInv, Cycle
    PROVE  IInv'
<1> PICK R \in SUBSET Servo, returned \in BOOLEAN : Exchange(R, returned)
  BY DEF Cycle
<1>1. drive' \in [Servo -> Drive]
  <2> SUFFICES ASSUME NEW s \in Servo PROVE drive'[s] \in Drive
    BY DEF Exchange
  <2>1. /\ drive[s] \in Drive /\ cw[s] \in Word
        /\ target[s] \in Position \cup {NoPosition}
    BY DEF IInv, TypeOK
  <2> QED
    BY <2>1 DEF Exchange, Drive
<1>2. inputs' \in [Servo -> Word]
  BY StatusWords DEF Exchange, IInv, TypeOK
<1> QED
  BY <1>1, <1>2 DEF Exchange, IInv, TypeOK, RaisedHasCommand

\* A drive's step changes nothing of the server's.
LEMMA DriveKeeps ==
    ASSUME IInv, NEW s \in Servo, DriveStep(s)
    PROVE  IInv'
<1>1. drive[s] \in Drive /\ faults \in 0..MaxFaults /\ MaxFaults \in Nat
  BY BoundAssumption DEF IInv, TypeOK
<1>2. CASE DriveReacts(s)
  <2>1. NextState(drive[s].state, drive[s].cw) \in DriveState
    BY <1>1 DEF NextState, Drive, DriveState
  <2>2. Latches(drive[s]) \in BOOLEAN
    BY DEF Latches
  <2> DEFINE st  == NextState(drive[s].state, drive[s].cw)
             b4  == 4 \in drive[s].cw
             ack == 4 \in drive[s].cw /\ (drive[s].ack \/ Latches(drive[s]))
             ex  == IF Latches(drive[s]) THEN drive[s].target ELSE drive[s].exec
             mov == /\ st = "OperationEnabled"
                    /\ drive[s].moving \/ Latches(drive[s])
  <2>3. Reacted(drive[s]) = [drive[s] EXCEPT !.state = st, !.bit4 = b4,
                               !.ack = ack, !.exec = ex, !.moving = mov]
    BY DEF Reacted
  <2>4. b4 \in BOOLEAN /\ ack \in BOOLEAN /\ mov \in BOOLEAN
    OBVIOUS
  <2>5. st \in DriveState /\ ex \in Position \cup {NoPosition}
    BY <1>1, <2>1 DEF Drive
  <2> HIDE DEF st, b4, ack, ex, mov
  <2>6. Reacted(drive[s]) \in Drive
    BY <1>1, <2>3, <2>4, <2>5 DEF Drive
  <2>7. (taken[s] \/ Latches(drive[s])) \in BOOLEAN
    OBVIOUS
  <2> QED
    BY <1>2, <2>2, <2>6, <2>7 DEF DriveReacts, IInv, TypeOK, RaisedHasCommand
<1>3. CASE MotionEnds(s)
  BY <1>1, <1>3 DEF MotionEnds, Drive, IInv, TypeOK, RaisedHasCommand
<1>4. CASE DriveFaults(s)
  <2> DEFINE d == [drive[s] EXCEPT !.state = "Fault", !.ack = FALSE,
                                   !.moving = FALSE]
  <2>1. d \in Drive
    BY <1>1 DEF Drive, DriveState
  <2>2. drive' = [drive EXCEPT ![s] = d]
    BY <1>4 DEF DriveFaults
  <2>3. faults' \in 0..MaxFaults
    BY <1>1, <1>4 DEF DriveFaults
  <2> HIDE DEF d
  <2> QED
    BY <1>4, <2>1, <2>2, <2>3 DEF DriveFaults, IInv, TypeOK, RaisedHasCommand
<1>5. CASE FaultReset(s)
  BY <1>1, <1>5 DEF FaultReset, Drive, DriveState, IInv, TypeOK, RaisedHasCommand
<1> QED
  BY <1>2, <1>3, <1>4, <1>5 DEF DriveStep

LEMMA Inductive == IInv /\ [Next]_vars => IInv'
<1> SUFFICES ASSUME IInv, [Next]_vars PROVE IInv'
  OBVIOUS
<1>1. CASE UNCHANGED vars
  BY <1>1 DEF vars, IInv, TypeOK, RaisedHasCommand
<1>2. CASE Request
  BY <1>2, RequestKeeps
<1>3. CASE Cycle
  BY <1>3, CycleKeeps
<1>4. CASE \E s \in Servo : DriveStep(s)
  BY <1>4, DriveKeeps
<1> QED
  BY <1>1, <1>2, <1>3, <1>4 DEF Next

\* The types hold; in particular pos_cmd_sem stays within 0 and its bound: the
\* decrement at ppm_debug.c:165 never takes it below zero.
THEOREM TypeCorrect == Spec => []TypeOK
<1>1. IInv => TypeOK
  BY DEF IInv
<1> QED
  BY <1>1, Initial, Inductive, PTL DEF Spec

\* A raised set-point bit always has a pending command behind it
\* (ppm_debug.c:163-169), on any inputs, in any order of requests, exchanges
\* and drive steps.
THEOREM RaisedCorrect == Spec => []RaisedHasCommand
<1>1. IInv => RaisedHasCommand
  BY DEF IInv
<1> QED
  BY <1>1, Initial, Inductive, PTL DEF Spec

-----------------------------------------------------------------------------
\* What a round, a cycle and a drive's step do with one servo, for the proofs
\* that look at the servos one by one.

\* A round leaves the drive as it is, but for its profile.
SameDrive(s) ==
    /\ drive'[s].state = drive[s].state /\ drive'[s].cw = drive[s].cw
    /\ drive'[s].target = drive[s].target /\ drive'[s].exec = drive[s].exec
    /\ drive'[s].bit4 <=> drive[s].bit4
    /\ drive'[s].ack <=> drive[s].ack
    /\ drive'[s].moving <=> drive[s].moving

\* The request has left the controlword c and n pending commands.
Served(s, c, n) ==
    /\ ServerMayRun
    /\ cw'[s] = ControlCw(c, n, inputs[s])
    /\ sem'[s] = ControlSem(c, n, inputs[s])
    /\ inputs'[s] = inputs[s]
    /\ taken'[s] <=> taken[s] /\ ~(4 \in cw'[s] /\ 4 \notin cw[s])
    /\ SameDrive(s)
    /\ drive'[s].profile = "factory" =>
          drive[s].profile = "factory" /\ Seen(inputs[s]) # "SwitchOnDisabled"

Untouched(s) ==
    /\ Served(s, cw[s], sem[s])
    /\ wanted'[s] = wanted[s] /\ target'[s] = target[s]

AskedFor(s) ==
    /\ Served(s, cw[s], sem[s] + 1)
    /\ wanted'[s] \in Position /\ target'[s] = wanted'[s]

StoppedFor(s) ==
    /\ Served(s, CW_STOP, 0)
    /\ wanted'[s] = NoPosition /\ target'[s] = target[s]

\* Address 0 reaches the outputs of the first slave, but not its semaphore.
ByMaster(s) ==
    /\ 0 \in Addressed
    /\ Served(s, cw[s], sem[s]) \/ Served(s, CW_STOP, sem[s])
    /\ wanted'[s] = wanted[s]

LEMMA RoundServes ==
    ASSUME IInv, NEW s \in Servo, NEW c1, NEW t1,
           NEW n1, NEW p1, p1[s] = "factory" => drive[s].profile = "factory",
           Round(c1, t1, n1, p1)
    PROVE  Served(s, c1[s], n1[s]) /\ target' = t1
<1>1. drive[s] \in Drive /\ s \in SemIndex /\ s # 0
  BY ServoAssumption DEF IInv, TypeOK, SemIndex
<1>2. drive'[s] = [drive[s] EXCEPT !.profile =
                      IF Seen(inputs[s]) = "SwitchOnDisabled" THEN "default" ELSE p1[s]]
  BY DEF Round
<1>3. SameDrive(s)
  BY <1>1, <1>2 DEF SameDrive, Drive
<1>4. drive'[s].profile = "factory" =>
         drive[s].profile = "factory" /\ Seen(inputs[s]) # "SwitchOnDisabled"
  BY <1>1, <1>2 DEF Drive
<1>5. cw'[s] = ControlCw(c1[s], n1[s], inputs[s])
  BY DEF Round
<1>6. sem'[s] = ControlSem(c1[s], n1[s], inputs[s])
  BY <1>1 DEF Round
<1>7. taken'[s] <=> taken[s] /\ ~(4 \in cw'[s] /\ 4 \notin cw[s])
  BY DEF Round
<1> QED
  BY <1>3, <1>4, <1>5, <1>6, <1>7 DEF Served, Round

LEMMA RequestServes ==
    ASSUME IInv, Request, NEW s \in Servo
    PROVE  Untouched(s) \/ AskedFor(s) \/ StoppedFor(s) \/ ByMaster(s)
<1>1. /\ cw \in [Servo -> Word] /\ sem \in [SemIndex -> 0..MaxSem]
      /\ target \in [Servo -> Position \cup {NoPosition}]
      /\ wanted \in [Servo -> Position \cup {NoPosition}]
      /\ s \in SemIndex /\ s # 0 /\ sem[s] \in Nat
  BY ServoAssumption, BoundAssumption DEF IInv, TypeOK, SemIndex
<1>2. /\ Addressed \subseteq SemIndex
      /\ \A a \in Addressed : SlaveAt(a) \in Servo /\ (a # 0 => SlaveAt(a) = a)
  BY ServoAssumption DEF SemIndex, SlaveAt
<1>3. Profiles[s] = drive[s].profile
  BY DEF Profiles
<1>4. CASE Poll
  BY <1>3, <1>4, RoundServes DEF Poll, Untouched
<1>5. ASSUME NEW a \in Addressed, NEW p \in Position, SetPosition(a, p)
      PROVE  Untouched(s) \/ AskedFor(s) \/ ByMaster(s)
  <2> DEFINE t1 == [target EXCEPT ![SlaveAt(a)] = p]
             n1 == [sem EXCEPT ![a] = @ + 1]
  <2>1. Served(s, cw[s], n1[s]) /\ target' = t1
    <3>1. Round(cw, t1, n1, Profiles)
      BY <1>5 DEF SetPosition
    <3> HIDE DEF t1, n1
    <3> QED
      BY <1>3, <3>1, RoundServes
  <2>2. CASE a = 0
    BY <1>1, <1>5, <2>1, <2>2 DEF SetPosition, ByMaster
  <2>3. CASE a = s
    BY <1>1, <1>2, <1>5, <2>1, <2>3 DEF SetPosition, AskedFor
  <2>4. CASE a # 0 /\ a # s
    BY <1>1, <1>2, <1>5, <2>1, <2>4 DEF SetPosition, Untouched
  <2> QED
    BY <2>2, <2>3, <2>4
<1>6. ASSUME NEW p \in Position, SetAllPositions(p)
      PROVE  AskedFor(s)
  <2> DEFINE t1 == [i \in Servo |-> p]
             n1 == [i \in SemIndex |-> IF i \in Servo THEN sem[i] + 1 ELSE sem[i]]
  <2>1. Served(s, cw[s], n1[s]) /\ target' = t1
    BY <1>3, <1>6, RoundServes DEF SetAllPositions
  <2>2. n1[s] = sem[s] + 1 /\ t1[s] = p /\ wanted'[s] = p
    BY <1>1, <1>6 DEF SetAllPositions
  <2> QED
    BY <2>1, <2>2 DEF AskedFor
<1>7. ASSUME NEW a \in Addressed, SetProfile(a)
      PROVE  Untouched(s)
  <2> DEFINE p1 == [Profiles EXCEPT ![a] = "user"]
  <2>1. p1[s] = "factory" => drive[s].profile = "factory"
    BY <1>3 DEF Profiles
  <2>2. Round(cw, target, sem, p1) /\ wanted' = wanted
    BY <1>7 DEF SetProfile
  <2> HIDE DEF p1
  <2> QED
    BY <2>1, <2>2, RoundServes DEF Untouched
<1>8. ASSUME NEW a \in Addressed, StopAxis(a)
      PROVE  Untouched(s) \/ StoppedFor(s) \/ ByMaster(s)
  <2> DEFINE c1 == [cw EXCEPT ![SlaveAt(a)] = CW_STOP]
             n1 == [sem EXCEPT ![a] = 0]
  <2>1. Served(s, c1[s], n1[s]) /\ target' = target
    BY <1>3, <1>8, RoundServes DEF StopAxis
  <2>2. CASE a = 0
    <3>1. n1[s] = sem[s] /\ (c1[s] = cw[s] \/ c1[s] = CW_STOP) /\ wanted' = wanted
      BY <1>1, <1>8, <2>2 DEF StopAxis
    <3> QED
      BY <2>1, <2>2, <3>1 DEF ByMaster
  <2>3. CASE a = s
    <3>1. n1[s] = 0 /\ c1[s] = CW_STOP /\ wanted'[s] = NoPosition
      BY <1>1, <1>2, <1>8, <2>3 DEF StopAxis
    <3> QED
      BY <2>1, <3>1 DEF StoppedFor
  <2>4. CASE a # 0 /\ a # s
    <3>1. n1[s] = sem[s] /\ c1[s] = cw[s] /\ wanted'[s] = wanted[s]
      BY <1>1, <1>2, <1>8, <2>4 DEF StopAxis
    <3> QED
      BY <2>1, <3>1 DEF Untouched
  <2> QED
    BY <2>2, <2>3, <2>4
<1>9. CASE StopAll
  <2> DEFINE c1 == [i \in Servo |-> CW_STOP]
             n1 == [i \in SemIndex |-> IF i \in Servo THEN 0 ELSE sem[i]]
  <2>1. Served(s, c1[s], n1[s]) /\ target' = target
    BY <1>3, <1>9, RoundServes DEF StopAll
  <2>2. n1[s] = 0 /\ c1[s] = CW_STOP /\ wanted'[s] = NoPosition
    BY <1>1, <1>9 DEF StopAll
  <2> QED
    BY <2>1, <2>2 DEF StoppedFor
<1> QED
  BY <1>4, <1>5, <1>6, <1>7, <1>8, <1>9 DEF Request

\* The server's part of the image, and what it expects, outside its rounds.
SameServer ==
    UNCHANGED <<cw, target, sem, wanted>>

\* An exchange brings a drive the outputs or nothing, and the inputs the drive's
\* answer or nothing.
LEMMA CycleMoves ==
    ASSUME IInv, Cycle, NEW s \in Servo
    PROVE  /\ SameServer /\ taken' = taken
           /\ inputs'[s] = inputs[s] \/ inputs'[s] = StatusOf(drive[s])
           /\ \/ drive'[s] = drive[s]
              \/ drive'[s] = [drive[s] EXCEPT !.cw = cw[s], !.target = target[s]]
           /\ drive[s] \in Drive
<1> PICK R \in SUBSET Servo, returned \in BOOLEAN : Exchange(R, returned)
  BY DEF Cycle
<1> QED
  BY DEF Exchange, SameServer, IInv, TypeOK

\* A drive that reacts goes to the state its controlword leads to, and takes
\* the target it has when it sees bit 4 rise.
LEMMA Reactions ==
    ASSUME NEW d \in Drive
    PROVE  /\ Reacted(d).state = NextState(d.state, d.cw)
           /\ Reacted(d).cw = d.cw /\ Reacted(d).target = d.target
           /\ Reacted(d).profile = d.profile
           /\ Reacted(d).bit4 <=> 4 \in d.cw
           /\ Reacted(d).ack <=> 4 \in d.cw /\ (d.ack \/ Latches(d))
           /\ Reacted(d).exec = (IF Latches(d) THEN d.target ELSE d.exec)
           /\ Reacted(d).moving <=> /\ NextState(d.state, d.cw) = "OperationEnabled"
                                    /\ d.moving \/ Latches(d)
BY DEF Reacted, Drive

LEMMA Tripped ==
    ASSUME IInv, NEW s \in Servo, DriveFaults(s)
    PROVE  /\ drive[s].state \in {"SwitchedOn", "OperationEnabled"}
           /\ drive'[s].state = "Fault" /\ ~drive'[s].ack /\ ~drive'[s].moving
           /\ drive'[s].cw = drive[s].cw /\ drive'[s].target = drive[s].target
           /\ drive'[s].bit4 = drive[s].bit4 /\ drive'[s].exec = drive[s].exec
           /\ drive'[s].profile = drive[s].profile
<1>1. drive[s] \in Drive /\ drive \in [Servo -> Drive]
  BY DEF IInv, TypeOK
<1> DEFINE d == [drive[s] EXCEPT !.state = "Fault", !.ack = FALSE, !.moving = FALSE]
<1>2. drive'[s] = d
  BY <1>1 DEF DriveFaults
<1> QED
  BY <1>1, <1>2 DEF DriveFaults, Drive

-----------------------------------------------------------------------------
\* What the server promises to a paced client, one that lets each set-point
\* handshake come to rest before its next request and addresses no slave 0.

\* The set-point handshake of one servo.  A drive acknowledges only what it has
\* processed; a bit it has not yet processed is still raised, and comes with
\* the target of now; the target is the last position asked for; and as long as
\* the server has not seen the acknowledgement, either the drive has taken that
\* position or a second command is counted for it.
AckProcessed(s) == drive[s].ack => drive[s].bit4

RiseIsCurrent(s) ==
    4 \in drive[s].cw /\ ~drive[s].bit4
        => 4 \in cw[s] /\ drive[s].target = target[s]

TargetIsWanted(s) == wanted[s] # NoPosition => target[s] = wanted[s]

StoppedOwesNothing(s) == wanted[s] = NoPosition => sem[s] = 0

RaisedAck(s) ==
    4 \in cw[s] /\ drive[s].ack
        => taken[s] /\ (drive[s].exec = wanted[s] \/ sem[s] > 1)

SettledTaken(s) ==
    wanted[s] # NoPosition /\ sem[s] = 0 => drive[s].exec = wanted[s]

HandOver(s) ==
    /\ AckProcessed(s)
    /\ RiseIsCurrent(s)
    /\ TargetIsWanted(s)
    /\ StoppedOwesNothing(s)
    /\ RaisedAck(s)
    /\ SettledTaken(s)

HInv == IInv /\ \A s \in Servo : HandOver(s)

PacedClient == Paced /\ 0 \notin Addressed

\* At first nothing is raised, asked for or owed.
LEMMA HandOverStarts == Init => \A s \in Servo : HandOver(s)
<1> SUFFICES ASSUME Init, NEW s \in Servo PROVE HandOver(s)
  OBVIOUS
<1>1. s \in SemIndex
  BY DEF SemIndex
<1> QED
  BY <1>1 DEF Init, NewDrive, HandOver, AckProcessed, RiseIsCurrent,
              TargetIsWanted, StoppedOwesNothing, RaisedAck, SettledTaken

\* The control logic works off a command only on an acknowledgement of a raised
\* bit, and then lowers it.
LEMMA WorkedOff ==
    ASSUME NEW c, NEW n \in Nat, NEW st
    PROVE  \/ ControlSem(c, n, st) = n
           \/ /\ ControlSem(c, n, st) = n - 1
              /\ 4 \in c /\ 12 \in st
              /\ 4 \notin ControlCw(c, n, st)
<1> SUFFICES ASSUME Acknowledged(c, st)
             PROVE  4 \in c /\ 12 \in st /\ 4 \notin ControlCw(c, n, st)
  BY DEF ControlSem
<1>1. 4 \in c
  BY DEF Acknowledged, ycoe_ppm_checkcontrol, Masked, CW_PPM_MASK_SNPI, CW_PPM_SNPI2
<1>2. 12 \in st
  BY DEF Acknowledged, ycoe_ppm_checkstatus, SW_PPM_SETPOINT_ACK
<1>3. ControlCw(c, n, st) = CW_LOWER
  BY DEF Acknowledged, ControlCw, HandshakeCw
<1> QED
  BY <1>1, <1>2, <1>3, ControlWords

\* A round, whatever it served: a command is settled only when the drive has
\* taken the position asked for last.
LEMMA RequestHandsOver ==
    ASSUME PacedClient, HInv, Request, NEW s \in Servo
    PROVE  HandOver(s)'
<1>1. /\ drive[s] \in Drive /\ cw[s] \in Word /\ sem[s] \in Nat /\ CW_STOP \in Word
      /\ 4 \in cw[s] => sem[s] > 0
      /\ HandOver(s) /\ IInv /\ 4 \notin CW_STOP
  BY ControlWords, BoundAssumption
     DEF HInv, IInv, TypeOK, RaisedHasCommand, SemIndex
<1>2. ASSUME ServerMayRun
      PROVE  /\ 4 \in cw[s] <=> 4 \in drive[s].cw
             /\ 4 \in cw[s] <=> drive[s].bit4
             /\ 12 \in inputs[s] <=> drive[s].ack
  BY <1>1, <1>2 DEF ServerMayRun, Settled, PacedClient, Drive
<1>3. CASE Untouched(s)
  <2>1. \/ sem'[s] = sem[s]
        \/ /\ sem'[s] = sem[s] - 1 /\ 4 \in cw[s] /\ 12 \in inputs[s]
           /\ 4 \notin cw'[s]
    BY <1>1, <1>3, WorkedOff DEF Untouched, Served
  <2> QED
    BY <1>1, <1>2, <1>3, <2>1
       DEF Untouched, Served, SameDrive, HandOver, AckProcessed, RiseIsCurrent,
           TargetIsWanted, StoppedOwesNothing, RaisedAck, SettledTaken
<1>4. CASE AskedFor(s)
  <2>1. \/ sem'[s] = sem[s] + 1
        \/ /\ sem'[s] = sem[s] /\ 4 \in cw[s] /\ 12 \in inputs[s]
           /\ 4 \notin cw'[s]
    <3> DEFINE n == sem[s] + 1
    <3>1. n \in Nat /\ n - 1 = sem[s]
      BY <1>1
    <3>2. /\ cw'[s] = ControlCw(cw[s], n, inputs[s])
          /\ sem'[s] = ControlSem(cw[s], n, inputs[s])
      BY <1>4 DEF AskedFor, Served
    <3> HIDE DEF n
    <3>3. \/ sem'[s] = n
          \/ /\ sem'[s] = n - 1 /\ 4 \in cw[s] /\ 12 \in inputs[s]
             /\ 4 \notin cw'[s]
      BY <3>1, <3>2, WorkedOff
    <3> QED
      BY <3>1, <3>3 DEF n
  <2>2. wanted'[s] # NoPosition
    BY <1>4, PositionAssumption DEF AskedFor
  <2> QED
    BY <1>1, <1>2, <1>4, <2>1, <2>2
       DEF AskedFor, Served, SameDrive, HandOver, AckProcessed, RiseIsCurrent,
           TargetIsWanted, StoppedOwesNothing, RaisedAck, SettledTaken
<1>5. CASE StoppedFor(s)
  <2>1. sem'[s] = 0 /\ 4 \notin cw'[s]
    <3>1. /\ ControlSem(CW_STOP, 0, inputs[s]) \in 0..0
          /\ 4 \in ControlCw(CW_STOP, 0, inputs[s]) =>
                ControlSem(CW_STOP, 0, inputs[s]) > 0
      BY <1>1, ControlLogic
    <3> QED
      BY <1>5, <3>1 DEF StoppedFor, Served
  <2> QED
    BY <1>1, <1>2, <1>5, <2>1
       DEF StoppedFor, Served, SameDrive, HandOver, AckProcessed, RiseIsCurrent,
           TargetIsWanted, StoppedOwesNothing, RaisedAck, SettledTaken
<1>6. ~ByMaster(s)
  BY DEF ByMaster, PacedClient
<1> QED
  BY <1>1, <1>3, <1>4, <1>5, <1>6, RequestServes

\* A frame brings the target of now with the bit.
LEMMA CycleHandsOver ==
    ASSUME HInv, Cycle, NEW s \in Servo
    PROVE  HandOver(s)'
<1>1. HandOver(s) /\ IInv
  BY DEF HInv
<1>2. /\ SameServer /\ taken' = taken /\ drive[s] \in Drive
      /\ \/ drive'[s] = drive[s]
         \/ drive'[s] = [drive[s] EXCEPT !.cw = cw[s], !.target = target[s]]
  BY <1>1, CycleMoves
<1> QED
  BY <1>1, <1>2
     DEF SameServer, Drive, HandOver, AckProcessed, RiseIsCurrent,
         TargetIsWanted, StoppedOwesNothing, RaisedAck, SettledTaken

\* A drive latches only while the bit is raised, and then the position wanted.
LEMMA LatchesWanted ==
    ASSUME HInv, NEW s \in Servo, Latches(drive[s])
    PROVE  4 \in cw[s] /\ sem[s] > 0 /\ drive[s].target = wanted[s]
           /\ wanted[s] # NoPosition
<1>1. 4 \in cw[s] /\ drive[s].target = target[s]
  BY DEF Latches, HInv, HandOver, RiseIsCurrent
<1>2. sem[s] > 0 /\ sem[s] \in Nat
  BY <1>1, BoundAssumption DEF HInv, IInv, TypeOK, RaisedHasCommand, SemIndex
<1> QED
  BY <1>1, <1>2 DEF HInv, HandOver, StoppedOwesNothing, TargetIsWanted

\* The drive's own steps.
LEMMA DriveHandsOver ==
    ASSUME HInv, NEW s \in Servo, DriveStep(s), NEW t \in Servo
    PROVE  HandOver(t)'
<1>1. /\ HandOver(t) /\ IInv
      /\ drive[s] \in Drive /\ drive \in [Servo -> Drive] /\ taken \in [Servo -> BOOLEAN]
      /\ cw' = cw /\ target' = target /\ sem' = sem /\ wanted' = wanted
  BY DEF HInv, IInv, TypeOK, DriveStep, DriveReacts, MotionEnds, DriveFaults, FaultReset
<1>2. CASE t # s
  <2>1. drive'[t] = drive[t] /\ taken'[t] = taken[t]
    BY <1>1, <1>2 DEF DriveStep, DriveReacts, MotionEnds, DriveFaults, FaultReset
  <2> QED
    BY <1>1, <2>1
       DEF HandOver, AckProcessed, RiseIsCurrent,
           TargetIsWanted, StoppedOwesNothing, RaisedAck, SettledTaken
<1>3. CASE t = s /\ DriveReacts(s)
  <2>1. drive'[s] = Reacted(drive[s]) /\ (taken'[s] <=> taken[s] \/ Latches(drive[s]))
    BY <1>1, <1>3 DEF DriveReacts
  <2>2. CASE Latches(drive[s])
    <3>1. /\ 4 \in cw[s] /\ sem[s] > 0 /\ drive[s].target = wanted[s]
          /\ wanted[s] # NoPosition
      BY <2>2, LatchesWanted
    <3> QED
      BY <1>1, <1>3, <2>1, <2>2, <3>1, Reactions
         DEF HandOver, AckProcessed, RiseIsCurrent,
             TargetIsWanted, StoppedOwesNothing, RaisedAck, SettledTaken
  <2>3. CASE ~Latches(drive[s])
    BY <1>1, <1>3, <2>1, <2>3, Reactions
       DEF HandOver, AckProcessed, RiseIsCurrent,
           TargetIsWanted, StoppedOwesNothing, RaisedAck, SettledTaken
  <2> QED
    BY <2>2, <2>3
<1>4. CASE t = s /\ DriveFaults(s)
  <2>1. taken' = taken
    BY <1>4 DEF DriveFaults
  <2> QED
    BY <1>1, <1>4, <2>1, Tripped
       DEF HandOver, AckProcessed, RiseIsCurrent,
           TargetIsWanted, StoppedOwesNothing, RaisedAck, SettledTaken
<1>5. CASE t = s /\ (MotionEnds(s) \/ FaultReset(s))
  BY <1>1, <1>5
     DEF MotionEnds, FaultReset, Drive, HandOver, AckProcessed, RiseIsCurrent,
         TargetIsWanted, StoppedOwesNothing, RaisedAck, SettledTaken
<1> QED
  BY <1>2, <1>3, <1>4, <1>5 DEF DriveStep

LEMMA HandOverInductive == PacedClient /\ HInv /\ [Next]_vars => HInv'
<1> SUFFICES ASSUME PacedClient, HInv, [Next]_vars PROVE HInv'
  OBVIOUS
<1>1. IInv'
  BY Inductive DEF HInv
<1> SUFFICES ASSUME NEW t \in Servo PROVE HandOver(t)'
  BY <1>1 DEF HInv
<1>2. CASE UNCHANGED vars
  BY <1>2 DEF vars, HInv, HandOver, AckProcessed, RiseIsCurrent,
              TargetIsWanted, StoppedOwesNothing, RaisedAck, SettledTaken
<1>3. CASE Request
  BY <1>3, RequestHandsOver
<1>4. CASE Cycle
  BY <1>4, CycleHandsOver
<1>5. CASE \E s \in Servo : DriveStep(s)
  BY <1>5, DriveHandsOver
<1> QED
  BY <1>2, <1>3, <1>4, <1>5 DEF Next

LEMMA HandOverHolds == ASSUME PacedClient PROVE Spec => []HInv
<1>1. Init => HInv
  BY Initial, HandOverStarts DEF HInv
<1>2. HInv /\ [Next]_vars => HInv'
  BY HandOverInductive
<1> QED
  BY <1>1, <1>2, PTL DEF Spec

\* An idle axis stands where the LAST position asked for is, whatever was asked
\* before, whatever frames were lost and whenever the drive tripped
\* (ppm_debug.c:72, 163-168).
THEOREM IdleTaken == ASSUME PacedClient PROVE Spec => []IdleMeansTaken
<1>1. HInv => IdleMeansTaken
  BY DEF HInv, HandOver, SettledTaken, IdleMeansTaken
<1> QED
  BY <1>1, HandOverHolds, PTL

-----------------------------------------------------------------------------
\* One step of AckMeansTaken.
TakesTaken ==
    \A s \in Servo :
        Acknowledged(cw[s], inputs[s]) /\ cw'[s] = CW_LOWER => taken[s]

\* The server takes an acknowledgement only when the drive has latched a
\* set-point since the bit was raised (ppm_debug.c:163-166): it never takes the
\* acknowledgement of the set-point before.
THEOREM AckTaken == ASSUME PacedClient PROVE Spec => AckMeansTaken
<1>1. HInv /\ [Next]_vars => [TakesTaken]_vars
  <2> SUFFICES ASSUME HInv, Next, NEW s \in Servo,
                      Acknowledged(cw[s], inputs[s]), cw'[s] = CW_LOWER
               PROVE  taken[s]
    BY DEF TakesTaken
  <2>1. 4 \in cw[s] /\ 12 \in inputs[s] /\ cw'[s] # cw[s]
    <3>1. 4 \in cw[s]
      BY DEF Acknowledged, ycoe_ppm_checkcontrol, Masked, CW_PPM_MASK_SNPI,
             CW_PPM_SNPI2
    <3>2. 12 \in inputs[s]
      BY DEF Acknowledged, ycoe_ppm_checkstatus, SW_PPM_SETPOINT_ACK
    <3> QED
      BY <3>1, <3>2, ControlWords
  <2>2. ~Cycle /\ ~(\E t \in Servo : DriveStep(t))
    BY <2>1 DEF Cycle, Exchange, DriveStep, DriveReacts, MotionEnds, DriveFaults,
                FaultReset
  <2>3. ServerMayRun
    BY <2>2 DEF Next, Request, Poll, SetPosition, SetAllPositions, SetProfile,
                StopAxis, StopAll, Round
  <2>4. drive[s].ack
    BY <2>1, <2>3 DEF ServerMayRun, Settled, PacedClient, HInv, IInv, TypeOK, Drive
  <2> QED
    BY <2>1, <2>4 DEF HInv, HandOver, RaisedAck
<1> QED
  BY <1>1, HandOverHolds, PTL DEF Spec, AckMeansTaken, TakesTaken

-----------------------------------------------------------------------------
\* One step of the channels.
ChannelStep == \A s \in Servo : [Channel(s)!Next]_(Channel(s)!vars)

\* A round asks, stops, settles or leaves a channel.
LEMMA RequestImplements ==
    ASSUME PacedClient, HInv, Request, NEW s \in Servo
    PROVE  [Channel(s)!Next]_(Channel(s)!vars)
<1>1. /\ drive[s] \in Drive /\ sem[s] \in Nat
      /\ 4 \in cw[s] => sem[s] > 0
      /\ HandOver(s) /\ IInv
  BY BoundAssumption DEF HInv, IInv, TypeOK, RaisedHasCommand, SemIndex
<1>2. ASSUME ServerMayRun
      PROVE  12 \in inputs[s] <=> drive[s].ack
  BY <1>1, <1>2 DEF ServerMayRun, Settled, PacedClient, Drive
<1>3. CASE Untouched(s)
  <2>1. wanted'[s] = wanted[s] /\ drive'[s].exec = drive[s].exec
    BY <1>3 DEF Untouched, Served, SameDrive
  <2>2. \/ sem'[s] = sem[s]
        \/ sem'[s] = sem[s] - 1 /\ 4 \in cw[s] /\ drive[s].ack
    <3>1. ServerMayRun /\ sem'[s] = ControlSem(cw[s], sem[s], inputs[s])
      BY <1>3 DEF Untouched, Served
    <3>2. \/ sem'[s] = sem[s]
          \/ sem'[s] = sem[s] - 1 /\ 4 \in cw[s] /\ 12 \in inputs[s]
      BY <1>1, <3>1, WorkedOff
    <3> QED
      BY <1>2, <3>1, <3>2
  <2>3. CASE sem'[s] > 0 <=> sem[s] > 0
    BY <2>1, <2>3 DEF Channel!vars
  <2>4. CASE ~(sem'[s] > 0 <=> sem[s] > 0)
    <3>1. sem[s] > 0 /\ ~(sem'[s] > 0) /\ ~(sem[s] > 1) /\ 4 \in cw[s] /\ drive[s].ack
      BY <1>1, <2>2, <2>4
    <3>2. drive[s].exec = wanted[s]
      BY <1>1, <3>1 DEF HandOver, RaisedAck
    <3>3. Channel(s)!Settle
      BY <2>1, <3>1, <3>2 DEF Channel!Settle
    <3> QED
      BY <3>3 DEF Channel!Next
  <2> QED
    BY <2>3, <2>4
<1>4. CASE AskedFor(s)
  <2>1. wanted'[s] \in Position /\ drive'[s].exec = drive[s].exec
    BY <1>4 DEF AskedFor, Served, SameDrive
  <2>2. sem'[s] > 0
    <3> DEFINE n == sem[s] + 1
    <3>1. n \in Nat /\ n - 1 = sem[s] /\ n > 0
      BY <1>1
    <3>2. sem'[s] = ControlSem(cw[s], n, inputs[s])
      BY <1>4 DEF AskedFor, Served
    <3> HIDE DEF n
    <3>3. \/ sem'[s] = n
          \/ sem'[s] = n - 1 /\ 4 \in cw[s]
      BY <3>1, <3>2, WorkedOff
    <3> QED
      BY <1>1, <3>1, <3>3
  <2>3. Channel(s)!Ask(wanted'[s])
    BY <2>1, <2>2 DEF Channel!Ask
  <2> QED
    BY <2>1, <2>3 DEF Channel!Next
<1>5. CASE StoppedFor(s)
  <2>1. ~(sem'[s] > 0)
    BY <1>5, WorkedOff DEF StoppedFor, Served, ControlSem
  <2>2. Channel(s)!Stop
    BY <1>5, <2>1 DEF StoppedFor, Served, SameDrive, Channel!Stop
  <2> QED
    BY <2>2 DEF Channel!Next
<1>6. ~ByMaster(s)
  BY DEF ByMaster, PacedClient
<1> QED
  BY <1>1, <1>3, <1>4, <1>5, <1>6, RequestServes

\* A drive that latches takes the position wanted; its other steps leave the
\* channel.
LEMMA DriveImplements ==
    ASSUME HInv, NEW s \in Servo, DriveStep(s), NEW t \in Servo
    PROVE  [Channel(t)!Next]_(Channel(t)!vars)
<1>1. /\ drive[s] \in Drive /\ drive \in [Servo -> Drive]
      /\ wanted[t] \in Position \cup {NoPosition}
      /\ sem' = sem /\ wanted' = wanted
  BY DEF HInv, IInv, TypeOK, DriveStep, DriveReacts, MotionEnds, DriveFaults, FaultReset
<1>2. CASE drive'[t].exec = drive[t].exec
  BY <1>1, <1>2 DEF Channel!vars
<1>3. CASE drive'[t].exec # drive[t].exec
  <2>1. t = s /\ DriveReacts(s)
    <3>1. t = s
      BY <1>1, <1>3 DEF DriveStep, DriveReacts, MotionEnds, DriveFaults, FaultReset
    <3>2. ~DriveFaults(s)
      BY <1>3, <3>1, Tripped DEF HInv
    <3>3. ~MotionEnds(s) /\ ~FaultReset(s)
      BY <1>1, <1>3, <3>1 DEF MotionEnds, FaultReset, Drive
    <3> QED
      BY <3>1, <3>2, <3>3 DEF DriveStep
  <2>2. drive'[s] = Reacted(drive[s])
    BY <1>1, <2>1 DEF DriveReacts
  <2>3. Latches(drive[s]) /\ drive'[s].exec = drive[s].target
    BY <1>1, <1>3, <2>1, <2>2, Reactions
  <2>4. Channel(s)!Take
    BY <1>1, <2>1, <2>3, LatchesWanted DEF Channel!Take
  <2> QED
    BY <2>1, <2>4 DEF Channel!Next
<1> QED
  BY <1>2, <1>3

\* The server, the exchange and the drives together implement a set-point
\* channel for each servo (ppm_debug.c:65-176): no interleaving of requests,
\* lost frames, stale inputs and faults settles a command early, latches a
\* position that is no longer wanted, or makes a drive take one after a stop.
THEOREM SetPointImplemented == ASSUME PacedClient PROVE Spec => ImplementsSetPoint
<1>1. Init => \A s \in Servo : Channel(s)!Init
  BY DEF Init, NewDrive, Channel!Init, SemIndex
<1>2. HInv /\ [Next]_vars => [ChannelStep]_vars
  <2> SUFFICES ASSUME HInv, Next, NEW s \in Servo
               PROVE  [Channel(s)!Next]_(Channel(s)!vars)
    BY DEF ChannelStep
  <2>1. CASE Cycle
    <3>1. /\ SameServer
          /\ \/ drive'[s] = drive[s]
             \/ drive'[s] = [drive[s] EXCEPT !.cw = cw[s], !.target = target[s]]
          /\ drive[s] \in Drive
      BY <2>1, CycleMoves DEF HInv
    <3> QED
      BY <3>1 DEF SameServer, Drive, Channel!vars
  <2> QED
    BY <2>1, RequestImplements, DriveImplements DEF Next
<1> QED
  BY <1>1, <1>2, HandOverHolds, PTL DEF Spec, ImplementsSetPoint, ChannelStep
=============================================================================
