-------------------------- MODULE PpmPrograms_proofs --------------------------
(***************************************************************************)
(* Theorems about PpmPrograms for any number of servos, positions and lost *)
(* frames: both programs do nothing that the server of PpmServer does not, *)
(* so that its theorems hold for them; and the automatic sequence keeps in *)
(* step with its drives.                                                   *)
(***************************************************************************)
EXTENDS PpmPrograms, PpmEnabling_proofs

\* What the theorems assume of the sequence: its rounds are slower than the
\* set-point handshake; not all drives stand at its upper position at first;
\* and the model's bound leaves room for two commands.
SlowSequence == Paced /\ ~RestHigh /\ MaxSem >= 2

-----------------------------------------------------------------------------
\* What holds of one servo in every phase.  A drive read as enabled is; it
\* acknowledges what it has processed; and what it is about to process is what
\* the server asks for now.
Answered(s) ==
    /\ Read(s) = "OperationEnabled" => drive[s].state = "OperationEnabled"
    /\ drive[s].bit4 <=> drive[s].ack
    /\ 4 \in drive[s].cw => drive[s].state = "OperationEnabled"
    /\ 4 \in cw[s] /\ drive[s].ack => 4 \in drive[s].cw
    /\ 4 \in cw[s] /\ 12 \in inputs[s] => drive[s].ack
    /\ 4 \in drive[s].cw /\ ~drive[s].bit4
          => 4 \in cw[s] /\ drive[s].target = target[s]

\* TARGET_REACHED in the inputs means that the drive stands, unless a set-point
\* is on its way to it; where a drive stands or goes to is where it was sent.
Honest(s) ==
    /\ reached[s] => Read(s) = "OperationEnabled"
    /\ reached[s] /\ (4 \in cw[s] => 12 \in inputs[s]) => ~drive[s].moving
    /\ drive[s].exec # NoPosition /\ ~drive[s].moving => at[s] = drive[s].exec
    /\ drive[s].moving => drive[s].exec = target[s]
    /\ 4 \in cw[s] /\ drive[s].bit4 => drive[s].exec = target[s]

-----------------------------------------------------------------------------
\* The phases of the sequence.  In all but the first, all servos have the same
\* controlword, commands pending and target.
All(c, n, p) ==
    /\ \A s \in Servo : /\ cw[s] = c /\ sem[s] = n /\ target[s] = p
                        /\ Read(s) = "OperationEnabled"
    /\ p \in {Low, High}
    /\ upper <=> p = High

OneOnItsWay == \E s \in Servo : at[s] # target[s]

Still(s) == drive[s].exec = NoPosition /\ ~drive[s].moving

\* Some drive is not yet enabled, or has not said so.
PowerUp ==
    /\ upper
    /\ \E s \in Servo : at[s] # High
    /\ \A s \in Servo :
          /\ cw[s] \in {{}, CW_SHUTDOWN, CW_SWITCHON, CW_ENABLEOP}
          /\ sem[s] = 0 /\ target[s] = NoPosition /\ Still(s)

\* Low is asked for, and replaced by High in the next round, since the drives
\* still stand; the handshake for the first command then brings High, and the
\* one for the second brings it again.
First ==
    /\ All(CW_LOWER, 1, Low)
    /\ \A s \in Servo : reached[s] /\ Still(s)
    /\ \E s \in Servo : at[s] # High

Second == All(CW_RAISE, 2, High) /\ OneOnItsWay

Third ==
    /\ All(CW_LOWER, 1, High) /\ OneOnItsWay
    /\ \A s \in Servo : drive[s].exec = High

\* From then on a position is asked for, taken, and replaced when all drives
\* have come to it.
Raised == \E p \in {Low, High} : All(CW_RAISE, 1, p) /\ OneOnItsWay

Sent ==
    \E p \in {Low, High} :
        All(CW_LOWER, 0, p) /\ \A s \in Servo : drive[s].exec = p

Phase == PowerUp \/ First \/ Second \/ Third \/ Raised \/ Sent

AutoInv ==
    program = "ppm_auto" =>
        /\ at \in [Servo -> Position \cup {NoPosition}]
        /\ Phase
        /\ \A s \in Servo : Answered(s) /\ Honest(s)

PInv == EInv /\ AutoInv

-----------------------------------------------------------------------------
\* The four controlwords of the handshake, and what it makes of them for a drive
\* read as enabled.
LEMMA HandshakeWords ==
    /\ 4 \in CW_RAISE /\ 4 \notin CW_LOWER
    /\ \A c \in {{}, CW_SHUTDOWN, CW_SWITCHON, CW_ENABLEOP} : 4 \notin c
    /\ ycoe_ppm_checkcontrol(CW_RAISE, CW_PPM_SNPI2)
    /\ ycoe_ppm_checkcontrol(CW_LOWER, CW_PPM_SNPI1)
    /\ ~ycoe_ppm_checkcontrol(CW_LOWER, CW_PPM_SNPI2)
    /\ ~ycoe_ppm_checkcontrol(CW_ENABLEOP, CW_PPM_SNPI1)
    /\ ~ycoe_ppm_checkcontrol(CW_ENABLEOP, CW_PPM_SNPI2)
<1>1. /\ CW_RAISE = {0, 1, 2, 3, 4, 5} /\ CW_LOWER = {0, 1, 2, 3, 5}
      /\ CW_ENABLEOP = {0, 1, 2, 3}
  BY DEF CW_RAISE, CW_LOWER, CW_ENABLEOP, CW_PPM_SNPI1, CW_PPM_SNPI2
<1>2. CW_PPM_SNPI1 = {5} /\ CW_PPM_SNPI2 = {4, 5} /\ CW_PPM_MASK_SNPI = {4, 5}
  BY DEF CW_PPM_SNPI1, CW_PPM_SNPI2, CW_PPM_MASK_SNPI
<1>3. /\ CW_RAISE \cap {4, 5} = {4, 5} /\ CW_LOWER \cap {4, 5} = {5}
      /\ CW_ENABLEOP \cap {4, 5} = {} /\ {4, 5} # {5} /\ {} # {5} /\ {} # {4, 5}
  BY <1>1
<1> QED
  BY <1>1, <1>2, <1>3, ControlWords DEF ycoe_ppm_checkcontrol, Masked

LEMMA HandshakeStep ==
    ASSUME NEW n \in Nat, NEW st, Seen(st) = "OperationEnabled"
    PROVE  /\ ControlCw(CW_ENABLEOP, n, st) =
                 IF n = 0 THEN CW_ENABLEOP ELSE CW_LOWER
           /\ ControlSem(CW_ENABLEOP, n, st) = n
           /\ ControlCw(CW_LOWER, n, st) = IF n = 0 THEN CW_LOWER ELSE CW_RAISE
           /\ ControlSem(CW_LOWER, n, st) = n
           /\ 12 \in st => /\ ControlCw(CW_RAISE, n, st) = CW_LOWER
                           /\ ControlSem(CW_RAISE, n, st) = n - 1
<1>1. \A c : ControlCw(c, n, st) = HandshakeCw(c, n, st)
  BY DEF ControlCw
<1>2. ~Acknowledged(CW_ENABLEOP, st) /\ ~Acknowledged(CW_LOWER, st)
  BY HandshakeWords DEF Acknowledged
<1>3. 12 \in st => Acknowledged(CW_RAISE, st)
  BY HandshakeWords DEF Acknowledged, ycoe_ppm_checkstatus, SW_PPM_SETPOINT_ACK
<1> QED
  BY <1>1, <1>2, <1>3, HandshakeWords DEF HandshakeCw, ControlSem

\* Bit 12 of the drive's word is its acknowledgement.
LEMMA AckBit == ASSUME NEW d \in Drive PROVE 12 \in StatusOf(d) <=> d.ack
<1>1. d.state \in DriveState
  BY DEF Drive
<1>2. 12 \notin StateBits[d.state]
  BY <1>1 DEF StateBits, DriveState, SW_SWITCHON_DISABLED, SW_RTSO,
              SW_SWITCHED_ON, SW_OP_ENABLED, SW_FAULT
<1> QED
  BY <1>2 DEF StatusOf, SW_PPM_SETPOINT_ACK

\* What the phases say of one servo.
LEMMA InPhase ==
    ASSUME Phase, NEW s \in Servo
    PROVE  /\ cw[s] \in {{}, CW_SHUTDOWN, CW_SWITCHON, CW_ENABLEOP, CW_LOWER, CW_RAISE}
           /\ 4 \in cw[s] => cw[s] = CW_RAISE /\ Read(s) = "OperationEnabled"
           /\ sem[s] \in 0..2
<1>1. CASE PowerUp
  BY <1>1, HandshakeWords DEF PowerUp
<1>2. CASE ~PowerUp
  <2>1. /\ Read(s) = "OperationEnabled" /\ sem[s] \in 0..2
        /\ cw[s] \in {CW_LOWER, CW_RAISE}
    BY <1>2 DEF Phase, First, Second, Third, Raised, Sent, All
  <2> QED
    BY <2>1, HandshakeWords
<1> QED
  BY <1>1, <1>2

\* A round runs when the handshake has come to rest.
LEMMA AtRest ==
    ASSUME Paced, PInv, program = "ppm_auto", ServerMayRun, NEW s \in Servo
    PROVE  /\ Answered(s) /\ Honest(s) /\ Phase /\ drive[s] \in Drive
           /\ 4 \in drive[s].cw <=> 4 \in cw[s]
           /\ drive[s].bit4 <=> 4 \in cw[s]
           /\ drive[s].ack <=> 4 \in cw[s]
           /\ 12 \in inputs[s] <=> 4 \in cw[s]
           /\ reached[s] => ~drive[s].moving
<1>1. Answered(s) /\ Honest(s) /\ Phase /\ Settled(s) /\ drive[s] \in Drive
  BY DEF PInv, AutoInv, ServerMayRun, EInv, IInv, TypeOK
<1>2. drive[s].ack \in BOOLEAN /\ drive[s].bit4 \in BOOLEAN
  BY <1>1 DEF Drive
<1>3. /\ 4 \in drive[s].cw <=> 4 \in cw[s]
      /\ drive[s].bit4 <=> 4 \in cw[s]
      /\ 12 \in inputs[s] <=> drive[s].ack
  BY <1>1, <1>2 DEF Settled
<1> QED
  BY <1>1, <1>3 DEF Answered, Honest

-----------------------------------------------------------------------------
\* The sequence goes on only before anything was sent, in the round after, or
\* when every drive has come to the position it was last sent to.
LEMMA SequenceWhen ==
    ASSUME Paced, PInv, program = "ppm_auto", Sequence
    PROVE  /\ PowerUp \/ First \/ Sent
           /\ \A s \in Servo : /\ ~drive[s].moving /\ Read(s) = "OperationEnabled"
                               /\ sem[s] < 2
<1>1. ServerMayRun /\ Phase
  BY DEF Sequence, Round, PInv, AutoInv
<1>2. ASSUME NEW s \in Servo
      PROVE  ~drive[s].moving /\ Read(s) = "OperationEnabled"
  BY <1>1, AtRest DEF Sequence, BothReached, Honest
<1>3. ASSUME Second \/ Third \/ Raised PROVE FALSE
  <2>1. PICK s \in Servo : at[s] # target[s]
    BY <1>3 DEF Second, Third, Raised, OneOnItsWay
  <2>2. target[s] \in {Low, High} /\ target[s] # NoPosition
    BY <1>3, PositionAssumption, ProgramAssumption DEF Second, Third, Raised, All
  <2>3. drive[s].exec = target[s]
    <3>1. CASE Third
      BY <3>1 DEF Third, All
    <3>2. CASE Second \/ Raised
      <4>1. 4 \in cw[s]
        BY <3>2, HandshakeWords DEF Second, Raised, All
      <4> QED
        BY <1>1, <4>1, AtRest DEF Honest
    <3> QED
      BY <1>3, <3>1, <3>2
  <2> QED
    BY <1>1, <1>2, <2>1, <2>2, <2>3, AtRest DEF Honest
<1>4. PowerUp \/ First \/ Sent
  BY <1>1, <1>3 DEF Phase
<1>5. \A s \in Servo : sem[s] < 2
  BY <1>4 DEF PowerUp, First, Sent, All
<1> QED
  BY <1>2, <1>4, <1>5

\* A round is a round of the server: it sends the other target to all servos, or
\* nothing.
LEMMA RoundIsServers ==
    ASSUME SlowSequence, PInv, program = "ppm_auto", AutoRound
    PROVE  Request
<1>1. CASE Sequence
  <2> DEFINE p == NextTarget
  <2>1. p \in Position
    BY ProgramAssumption DEF NextTarget
  <2>2. \A s \in Servo : sem[s] < MaxSem
    <3>1. \A s \in Servo : sem[s] < 2 /\ sem[s] \in 0..MaxSem
      BY <1>1, SequenceWhen DEF SlowSequence, PInv, EInv, IInv, TypeOK, SemIndex
    <3> QED
      BY <3>1, BoundAssumption DEF SlowSequence
  <2>3. SetAllPositions(p)
    BY <1>1, <2>2 DEF Sequence, SetAllPositions
  <2> HIDE DEF p
  <2> QED
    BY <2>1, <2>3 DEF Request
<1>2. CASE Poll
  BY <1>2 DEF Request
<1> QED
  BY <1>1, <1>2 DEF AutoRound

\* What a round does with one servo; its drive, its inputs and what they told of
\* it stay.
LEMMA AutoServes ==
    ASSUME SlowSequence, PInv, program = "ppm_auto", AutoRound
    PROVE  /\ ServerMayRun
           /\ UNCHANGED <<inputs, program, reached, at>>
           /\ \/ /\ ~BothReached /\ upper' = upper /\ target' = target
                 /\ \A s \in Servo : Served(s, cw[s], sem[s])
              \/ /\ Sequence
                 /\ upper' = ~upper
                 /\ \A s \in Servo : /\ target'[s] = NextTarget
                                     /\ Served(s, cw[s], sem[s] + 1)
<1>1. IInv /\ \A s \in Servo : Profiles[s] = drive[s].profile
  BY DEF PInv, EInv, Profiles
<1>2. UNCHANGED <<program, reached, at>>
  BY DEF AutoRound
<1>3. CASE ~BothReached /\ Poll /\ UNCHANGED upper
  <2>1. Round(cw, target, sem, Profiles)
    BY <1>3 DEF Poll
  <2>2. \A s \in Servo : Served(s, cw[s], sem[s])
    BY <1>1, <2>1, RoundServes
  <2>3. ServerMayRun /\ target' = target /\ inputs' = inputs
    BY <2>1 DEF Round
  <2> QED
    BY <1>2, <1>3, <2>2, <2>3
<1>4. CASE Sequence
  <2> DEFINE t1 == [s \in Servo |-> NextTarget]
             n1 == [i \in SemIndex |-> IF i \in Servo THEN sem[i] + 1 ELSE sem[i]]
  <2>1. Round(cw, t1, n1, Profiles) /\ upper' = ~upper
    BY <1>4 DEF Sequence
  <2>2. \A s \in Servo : t1[s] = NextTarget /\ n1[s] = sem[s] + 1
    BY DEF SemIndex
  <2> HIDE DEF t1, n1
  <2>3. \A s \in Servo : Served(s, cw[s], n1[s]) /\ target' = t1
    BY <1>1, <2>1, RoundServes
  <2> QED
    BY <1>2, <1>4, <2>1, <2>2, <2>3 DEF Round
<1> QED
  BY <1>3, <1>4 DEF AutoRound

\* A round leaves every servo's handshake and its report as they have to be: a
\* raised bit that has come to rest is lowered in this very round.
LEMMA RoundAnswers ==
    ASSUME SlowSequence, PInv, program = "ppm_auto", AutoRound, NEW s \in Servo
    PROVE  Answered(s)' /\ Honest(s)'
<1>1. ServerMayRun /\ UNCHANGED <<inputs, program, reached, at>>
  BY AutoServes
<1>2. /\ Answered(s) /\ Honest(s) /\ Phase /\ drive[s] \in Drive
      /\ 4 \in drive[s].cw <=> 4 \in cw[s]
      /\ drive[s].bit4 <=> 4 \in cw[s]
      /\ drive[s].ack <=> 4 \in cw[s]
      /\ 12 \in inputs[s] <=> 4 \in cw[s]
      /\ reached[s] => ~drive[s].moving
  BY <1>1, AtRest DEF SlowSequence
<1>3. PICK n \in Nat : Served(s, cw[s], n)
  <2>1. sem[s] \in Nat /\ sem[s] + 1 \in Nat
    BY <1>2, InPhase
  <2> QED
    BY <2>1, AutoServes
<1>4. SameDrive(s) /\ cw'[s] = ControlCw(cw[s], n, inputs[s]) /\ Read(s)' = Read(s)
  BY <1>1, <1>3 DEF Served, Read
<1>5. 4 \in cw[s] => 4 \notin cw'[s]
  BY <1>2, <1>4, InPhase, HandshakeStep, HandshakeWords DEF Read
<1>6. target'[s] = target[s] \/ ~drive[s].moving
  BY AutoServes, SequenceWhen DEF SlowSequence
<1>7. Answered(s)'
  BY <1>1, <1>2, <1>4, <1>5 DEF Answered, SameDrive
<1>8. Honest(s)'
  BY <1>1, <1>2, <1>4, <1>5, <1>6 DEF Honest, SameDrive
<1> QED
  BY <1>7, <1>8

-----------------------------------------------------------------------------
\* A round that turns no drive round carries the handshake on.
LEMMA PollPhase ==
    ASSUME SlowSequence, PInv, program = "ppm_auto", ServerMayRun,
           ~BothReached, UNCHANGED <<inputs, upper, target, at>>,
           \A s \in Servo : Served(s, cw[s], sem[s])
    PROVE  Phase'
<1>1. /\ EInv /\ Phase
      /\ \A s \in Servo :
            /\ Answered(s) /\ Honest(s)
            /\ 4 \in cw[s] => 12 \in inputs[s] /\ drive[s].bit4
  <2>1. EInv /\ Phase
    BY DEF PInv, AutoInv
  <2> QED
    BY <2>1, AtRest DEF SlowSequence
<1>2. \A s \in Servo : /\ Read(s)' = Read(s) /\ drive'[s].exec = drive[s].exec
                       /\ Still(s) => Still(s)'
                       /\ cw'[s] = ControlCw(cw[s], sem[s], inputs[s])
                       /\ sem'[s] = ControlSem(cw[s], sem[s], inputs[s])
  BY DEF Served, SameDrive, Read, Still
<1>3. OneOnItsWay => OneOnItsWay'
  BY DEF OneOnItsWay
<1>4. CASE PowerUp
  <2>1. ASSUME NEW s \in Servo
        PROVE  /\ cw'[s] \in {{}, CW_SHUTDOWN, CW_SWITCHON, CW_ENABLEOP}
               /\ sem'[s] = 0
    <3>1. /\ cw[s] \in {{}, CW_SHUTDOWN, CW_SWITCHON, CW_ENABLEOP} /\ 4 \notin cw[s]
          /\ sem[s] = 0 /\ 0 \in Nat /\ cw[s] \in Written
      BY <1>1, <1>4, HandshakeWords DEF PowerUp, EInv, Enabling
    <3>2. Seen(inputs[s]) \in {"SwitchOnDisabled", "ReadyToSwitchOn", "SwitchedOn",
                               "OperationEnabled", "Fault"}
      BY DEF Seen
    <3>3. cw'[s] \in {CW_SHUTDOWN, CW_SWITCHON, CW_ENABLEOP, cw[s]}
      <4>1. cw'[s] = ControlCw(cw[s], 0, inputs[s])
        BY <1>2, <3>1
      <4>2. /\ Seen(inputs[s]) = "SwitchOnDisabled" => cw'[s] = CW_SHUTDOWN
            /\ Seen(inputs[s]) = "ReadyToSwitchOn" => cw'[s] = CW_SWITCHON
            /\ Seen(inputs[s]) = "SwitchedOn" => cw'[s] = CW_ENABLEOP
            /\ Seen(inputs[s]) = "OperationEnabled" => cw'[s] = cw[s]
            /\ Seen(inputs[s]) = "Fault" => cw'[s] = cw[s]
        BY <3>1, <4>1, Writes
      <4> QED
        BY <3>2, <4>2
    <3>4. sem'[s] = 0
      <4>1. sem[s] \in Nat /\ sem'[s] = sem[s]
        BY <1>2, <3>1, WorkedOff
      <4> QED
        BY <3>1, <4>1
    <3> QED
      BY <3>1, <3>3, <3>4
  <2> QED
    BY <1>2, <1>4, <2>1 DEF PowerUp, Phase
<1>5. CASE First
  BY <1>5 DEF First, BothReached
<1>6. CASE Second
  <2>1. ASSUME NEW s \in Servo
        PROVE  cw'[s] = CW_LOWER /\ sem'[s] = 1 /\ drive'[s].exec = High
    <3>1. cw[s] = CW_RAISE /\ sem[s] = 2 /\ target[s] = High
             /\ Seen(inputs[s]) = "OperationEnabled"
      BY <1>6 DEF Second, All, Read
    <3> QED
      BY <1>1, <1>2, <3>1, HandshakeStep, HandshakeWords DEF Honest
  <2>2. Third'
    BY <1>2, <1>3, <1>6, <2>1 DEF Second, Third, All
  <2> QED
    BY <2>2 DEF Phase
<1>7. CASE Third
  <2>1. ASSUME NEW s \in Servo PROVE cw'[s] = CW_RAISE /\ sem'[s] = 1
    <3>1. cw[s] = CW_LOWER /\ sem[s] = 1 /\ Seen(inputs[s]) = "OperationEnabled"
      BY <1>7 DEF Third, All, Read
    <3> QED
      BY <1>2, <3>1, HandshakeStep
  <2>2. All(CW_RAISE, 1, High)' /\ OneOnItsWay'
    BY <1>2, <1>3, <1>7, <2>1 DEF Third, All
  <2> QED
    BY <2>2 DEF Phase, Raised
<1>8. CASE Raised
  <2>1. PICK p \in {Low, High} : All(CW_RAISE, 1, p)
    BY <1>8 DEF Raised
  <2>2. ASSUME NEW s \in Servo
        PROVE  cw'[s] = CW_LOWER /\ sem'[s] = 0 /\ drive'[s].exec = p
    <3>1. cw[s] = CW_RAISE /\ sem[s] = 1 /\ target[s] = p
             /\ Seen(inputs[s]) = "OperationEnabled"
      BY <2>1 DEF All, Read
    <3> QED
      BY <1>1, <1>2, <3>1, HandshakeStep, HandshakeWords DEF Honest
  <2>3. All(CW_LOWER, 0, p)'
    BY <1>2, <2>1, <2>2 DEF All
  <2> QED
    BY <2>2, <2>3 DEF Phase, Sent
<1>9. CASE Sent
  <2>1. PICK p \in {Low, High} :
           All(CW_LOWER, 0, p) /\ \A s \in Servo : drive[s].exec = p
    BY <1>9 DEF Sent
  <2>2. ASSUME NEW s \in Servo PROVE cw'[s] = CW_LOWER /\ sem'[s] = 0
    <3>1. cw[s] = CW_LOWER /\ sem[s] = 0 /\ Seen(inputs[s]) = "OperationEnabled"
      BY <2>1 DEF All, Read
    <3> QED
      BY <1>2, <3>1, HandshakeStep
  <2>3. All(CW_LOWER, 0, p)'
    BY <1>2, <2>1, <2>2 DEF All
  <2> QED
    BY <1>2, <2>1, <2>3 DEF Phase, Sent
<1> QED
  BY <1>1, <1>4, <1>5, <1>6, <1>7, <1>8, <1>9 DEF Phase

\* A round that turns the drives round sends them on their way.
LEMMA SequencePhase ==
    ASSUME SlowSequence, PInv, program = "ppm_auto", Sequence,
           upper' = ~upper, UNCHANGED <<inputs, reached, at>>,
           \A s \in Servo : /\ target'[s] = NextTarget
                            /\ Served(s, cw[s], sem[s] + 1)
    PROVE  Phase'
<1>1. /\ EInv /\ \A s \in Servo : Answered(s) /\ reached[s]
      /\ PowerUp \/ First \/ Sent
      /\ \A s \in Servo : ~drive[s].moving /\ Seen(inputs[s]) = "OperationEnabled"
  BY SequenceWhen DEF SlowSequence, PInv, AutoInv, Sequence, BothReached, Read
<1>2. \A s \in Servo : /\ Read(s)' = "OperationEnabled"
                       /\ drive'[s].exec = drive[s].exec
                       /\ Still(s) => Still(s)'
                       /\ cw'[s] = ControlCw(cw[s], sem[s] + 1, inputs[s])
                       /\ sem'[s] = ControlSem(cw[s], sem[s] + 1, inputs[s])
  BY <1>1 DEF Served, SameDrive, Read, Still
<1>3. Low # High /\ {Low, High} \subseteq Position /\ FirstSlave \in Servo
  BY ProgramAssumption, ServoAssumption
<1>4. CASE PowerUp
  <2>1. ASSUME NEW s \in Servo
        PROVE  cw'[s] = CW_LOWER /\ sem'[s] = 1
    <3>1. cw[s] \in Running
      BY <1>1 DEF EInv, Enabling, StepByStep, AtOperationEnabled, Pair, Answered, Read
    <3>2. cw[s] = CW_ENABLEOP /\ sem[s] = 0
      BY <1>4, <3>1, Commands DEF PowerUp
    <3> QED
      BY <1>1, <1>2, <3>2, HandshakeStep
  <2>2. upper /\ NextTarget = Low /\ (\E s \in Servo : at[s] # High)
           /\ \A s \in Servo : Still(s)
    BY <1>4 DEF PowerUp, NextTarget
  <2>3. First'
    BY <1>1, <1>2, <1>3, <2>1, <2>2 DEF First, All
  <2> QED
    BY <2>3 DEF Phase
<1>5. CASE First
  <2>1. ASSUME NEW s \in Servo PROVE cw'[s] = CW_RAISE /\ sem'[s] = 2
    <3>1. cw[s] = CW_LOWER /\ sem[s] = 1
      BY <1>5 DEF First, All
    <3> QED
      BY <1>1, <1>2, <3>1, HandshakeStep
  <2>2. ~upper /\ NextTarget = High /\ (\E s \in Servo : at[s] # High)
    BY <1>3, <1>5 DEF First, All, NextTarget
  <2>3. Second'
    BY <1>2, <2>1, <2>2 DEF Second, All, OneOnItsWay
  <2> QED
    BY <2>3 DEF Phase
<1>6. CASE Sent
  <2>1. PICK p \in {Low, High} :
           All(CW_LOWER, 0, p) /\ \A s \in Servo : drive[s].exec = p
    BY <1>6 DEF Sent
  <2>2. ASSUME NEW s \in Servo PROVE cw'[s] = CW_RAISE /\ sem'[s] = 1
    <3>1. cw[s] = CW_LOWER /\ sem[s] = 0
      BY <2>1 DEF All
    <3> QED
      BY <1>1, <1>2, <3>1, HandshakeStep
  <2>3. PICK q \in {Low, High} : q = NextTarget /\ q # p /\ (upper' <=> q = High)
    BY <1>3, <2>1 DEF All, NextTarget
  <2>4. All(CW_RAISE, 1, q)'
    BY <1>2, <2>2, <2>3 DEF All
  <2>5. at[FirstSlave] = p
    BY <1>1, <1>3, <2>1, PositionAssumption DEF Honest, PInv, AutoInv
  <2>6. OneOnItsWay'
    BY <1>3, <2>3, <2>5 DEF OneOnItsWay
  <2> QED
    BY <2>3, <2>4, <2>6 DEF Phase, Raised
<1> QED
  BY <1>1, <1>4, <1>5, <1>6

-----------------------------------------------------------------------------
\* Between two rounds a phase stays, if the drives do what they were sent, still
\* drives keep TARGET_REACHED, and only a drive that moves comes to another place,
\* when no command is pending.
LEMMA PhaseStays ==
    ASSUME Phase, UNCHANGED <<cw, sem, target, upper>>,
           \A s \in Servo :
              /\ Read(s) = "OperationEnabled" => Read(s)' = "OperationEnabled"
              /\ 4 \notin cw[s] => /\ drive'[s].exec = drive[s].exec
                                   /\ drive'[s].moving => drive[s].moving
              /\ Read(s) = "OperationEnabled" /\ reached[s] /\ Still(s) => reached'[s]
              /\ at'[s] = at[s] \/ (sem[s] = 0 /\ drive[s].moving)
    PROVE  Phase'
<1>1. ASSUME \A s \in Servo : sem[s] # 0 PROVE OneOnItsWay => OneOnItsWay'
  BY <1>1 DEF OneOnItsWay
<1>2. ASSUME NEW c, NEW n, NEW p, All(c, n, p) PROVE All(c, n, p)'
  BY <1>2 DEF All
<1>3. CASE PowerUp
  <2>1. \A s \in Servo : 4 \notin cw[s] /\ ~drive[s].moving
    BY <1>3, HandshakeWords DEF PowerUp, Still
  <2>2. (\E s \in Servo : at'[s] # High) /\ \A s \in Servo : Still(s)'
    BY <1>3, <2>1 DEF PowerUp, Still
  <2> QED
    BY <1>3, <2>2 DEF PowerUp, Phase
<1>4. CASE First
  <2>1. \A s \in Servo : 4 \notin cw[s] /\ sem[s] = 1 /\ Read(s) = "OperationEnabled"
    BY <1>4, HandshakeWords DEF First, All
  <2>2. \A s \in Servo : Still(s)' /\ reached'[s] /\ at'[s] = at[s]
    BY <1>4, <2>1 DEF First, Still
  <2> QED
    BY <1>2, <1>4, <2>2 DEF First, Phase
<1>5. CASE Second
  <2>1. \A s \in Servo : sem[s] # 0
    BY <1>5 DEF Second, All
  <2> QED
    BY <1>1, <1>2, <1>5, <2>1 DEF Second, Phase
<1>6. CASE Third
  <2>1. \A s \in Servo : 4 \notin cw[s] /\ sem[s] # 0
    BY <1>6, HandshakeWords DEF Third, All
  <2>2. \A s \in Servo : drive'[s].exec = High
    BY <1>6, <2>1 DEF Third
  <2> QED
    BY <1>1, <1>2, <1>6, <2>1, <2>2 DEF Third, Phase
<1>7. CASE Raised
  <2>1. PICK p \in {Low, High} : All(CW_RAISE, 1, p) /\ OneOnItsWay
    BY <1>7 DEF Raised
  <2>2. \A s \in Servo : sem[s] # 0
    BY <2>1 DEF All
  <2>3. All(CW_RAISE, 1, p)' /\ OneOnItsWay'
    BY <1>1, <1>2, <2>1, <2>2
  <2> QED
    BY <2>3 DEF Raised, Phase
<1>8. CASE Sent
  <2>1. PICK p \in {Low, High} :
           All(CW_LOWER, 0, p) /\ \A s \in Servo : drive[s].exec = p
    BY <1>8 DEF Sent
  <2>2. \A s \in Servo : drive'[s].exec = p
    BY <2>1, HandshakeWords DEF All
  <2>3. All(CW_LOWER, 0, p)'
    BY <1>2, <2>1
  <2> QED
    BY <2>2, <2>3 DEF Sent, Phase
<1> QED
  BY <1>3, <1>4, <1>5, <1>6, <1>7, <1>8 DEF Phase

\* A frame brings a drive the set-point with its bit, and its return the
\* acknowledgement with TARGET_REACHED.
LEMMA ExchangeAuto ==
    ASSUME PInv, program = "ppm_auto", NEW R \in SUBSET Servo,
           NEW returned \in BOOLEAN, ExchangeReached(R, returned)
    PROVE  AutoInv'
<1>1. /\ EInv /\ Phase /\ \A s \in Servo : Answered(s) /\ Honest(s)
      /\ at \in [Servo -> Position \cup {NoPosition}]
      /\ drive \in [Servo -> Drive]
  BY DEF PInv, AutoInv, EInv, IInv, TypeOK
<1>2. /\ UNCHANGED <<cw, target, sem, program, upper, at>>
      /\ \A s \in Servo :
            /\ drive'[s] = IF s \in R
                           THEN [drive[s] EXCEPT !.cw = cw[s], !.target = target[s]]
                           ELSE drive[s]
            /\ inputs'[s] = IF s \in R /\ returned THEN StatusOf(drive[s]) ELSE inputs[s]
  BY DEF ExchangeReached, Exchange
<1>3. \A s \in Servo :
         /\ s \in R /\ returned =>
               (reached'[s] <=> drive[s].state = "OperationEnabled" /\ ~drive[s].moving)
         /\ ~(s \in R /\ returned) => (reached'[s] <=> reached[s])
  BY DEF ExchangeReached
<1>4. ASSUME NEW s \in Servo
      PROVE  /\ drive'[s].state = drive[s].state /\ drive'[s].exec = drive[s].exec
             /\ drive'[s].moving = drive[s].moving /\ drive'[s].bit4 = drive[s].bit4
             /\ drive'[s].ack = drive[s].ack
             /\ \/ drive'[s].cw = cw[s] /\ drive'[s].target = target[s]
                \/ drive'[s].cw = drive[s].cw /\ drive'[s].target = drive[s].target
  BY <1>1, <1>2 DEF Drive
<1>5. ASSUME NEW s \in Servo
      PROVE  /\ Read(s)' = IF s \in R /\ returned THEN drive[s].state ELSE Read(s)
             /\ s \in R /\ returned => (12 \in inputs'[s] <=> drive[s].ack)
  <2>1. drive[s] \in Drive
    BY <1>1
  <2> QED
    BY <1>2, <2>1, Readings, AckBit DEF Read
<1>6. ASSUME NEW s \in Servo PROVE Answered(s)' /\ Honest(s)'
  <2>1. 4 \in cw[s] => Read(s) = "OperationEnabled"
    BY <1>1, InPhase
  <2>2. Answered(s) /\ Honest(s) /\ cw'[s] = cw[s] /\ target'[s] = target[s]
           /\ at'[s] = at[s]
    BY <1>1, <1>2
  <2>3. CASE s \in R /\ returned
    <3>1. /\ Read(s)' = drive[s].state
          /\ 12 \in inputs'[s] <=> drive[s].ack
          /\ reached'[s] <=> drive[s].state = "OperationEnabled" /\ ~drive[s].moving
      BY <1>3, <1>5, <2>3
    <3>2. Answered(s)'
      BY <1>4, <2>1, <2>2, <3>1 DEF Answered
    <3>3. Honest(s)'
      BY <1>4, <2>2, <3>1 DEF Honest
    <3> QED
      BY <3>2, <3>3
  <2>4. CASE ~(s \in R /\ returned)
    <3>1. /\ Read(s)' = Read(s) /\ inputs'[s] = inputs[s]
          /\ reached'[s] <=> reached[s]
      BY <1>2, <1>3, <1>5, <2>4
    <3>2. Answered(s)'
      BY <1>4, <2>1, <2>2, <3>1 DEF Answered
    <3>3. Honest(s)'
      BY <1>4, <2>2, <3>1 DEF Honest
    <3> QED
      BY <3>2, <3>3
  <2> QED
    BY <2>3, <2>4
<1>7. Phase'
  <2>1. \A s \in Servo : Read(s) = "OperationEnabled" => Read(s)' = "OperationEnabled"
    BY <1>1, <1>5 DEF Answered
  <2>2. \A s \in Servo :
           Read(s) = "OperationEnabled" /\ reached[s] /\ Still(s) => reached'[s]
    BY <1>1, <1>3 DEF Answered, Still
  <2> QED
    BY <1>1, <1>2, <1>4, <2>1, <2>2, PhaseStays
<1> QED
  BY <1>1, <1>2, <1>6, <1>7 DEF AutoInv

\* A drive latches the set-point that the server asks for now, and says so.
LEMMA ReactAuto ==
    ASSUME PInv, program = "ppm_auto", NEW s \in Servo, ReactsInProgram(s)
    PROVE  AutoInv'
<1>1. /\ EInv /\ Phase /\ \A t \in Servo : Answered(t) /\ Honest(t)
      /\ at \in [Servo -> Position \cup {NoPosition}]
      /\ drive[s] \in Drive /\ drive \in [Servo -> Drive]
  BY DEF PInv, AutoInv, EInv, IInv, TypeOK
<1>2. /\ UNCHANGED <<cw, target, sem, inputs, program, reached, upper, at>>
      /\ drive'[s] = Reacted(drive[s])
      /\ \A t \in Servo \ {s} : drive'[t] = drive[t]
      /\ \A t \in Servo : Read(t)' = Read(t)
  BY <1>1 DEF ReactsInProgram, DriveReacts, pvars, Read
<1>3. /\ drive[s].state = "OperationEnabled" => drive'[s].state = "OperationEnabled"
      /\ drive[s].moving => drive[s].state = "OperationEnabled"
  BY <1>1, ReactEnables DEF ReactsInProgram, EInv, Enabling
<1>4. /\ drive'[s].state = NextState(drive[s].state, drive[s].cw)
      /\ drive'[s].cw = drive[s].cw /\ drive'[s].target = drive[s].target
      /\ drive'[s].bit4 <=> 4 \in drive[s].cw
      /\ drive'[s].ack <=> 4 \in drive[s].cw /\ (drive[s].ack \/ Latches(drive[s]))
      /\ drive'[s].exec = (IF Latches(drive[s]) THEN drive[s].target ELSE drive[s].exec)
      /\ drive'[s].moving <=> /\ drive'[s].state = "OperationEnabled"
                              /\ drive[s].moving \/ Latches(drive[s])
  BY <1>1, <1>2, Reactions
<1>5. Latches(drive[s]) <=> /\ drive[s].state = "OperationEnabled"
                            /\ drive'[s].state = "OperationEnabled"
                            /\ 4 \in drive[s].cw /\ ~drive[s].bit4 /\ ~drive[s].ack
  BY <1>4 DEF Latches
<1>6. Answered(s)'
  BY <1>1, <1>2, <1>3, <1>4, <1>5 DEF Answered
<1>7. Honest(s)'
  BY <1>1, <1>2, <1>3, <1>4, <1>5 DEF Answered, Honest
<1>8. ASSUME NEW t \in Servo PROVE Answered(t)' /\ Honest(t)'
  <2>1. CASE t # s
    BY <1>1, <1>2, <2>1 DEF Answered, Honest
  <2> QED
    BY <1>6, <1>7, <2>1
<1>9. Phase'
  <2>1. ASSUME NEW t \in Servo, 4 \notin cw[t]
        PROVE  drive'[t].exec = drive[t].exec /\ (drive'[t].moving => drive[t].moving)
    BY <1>1, <1>2, <1>4, <1>5, <2>1 DEF Answered
  <2> QED
    BY <1>1, <1>2, <2>1, PhaseStays
<1> QED
  BY <1>1, <1>2, <1>8, <1>9 DEF AutoInv

\* A motion ends where the drive was sent, and, if that is not where the drive
\* was, when the command is worked off.
LEMMA MotionAuto ==
    ASSUME PInv, program = "ppm_auto", NEW s \in Servo, MotionEndsAt(s)
    PROVE  AutoInv'
<1>1. /\ EInv /\ Phase /\ \A t \in Servo : Answered(t) /\ Honest(t)
      /\ at \in [Servo -> Position \cup {NoPosition}]
      /\ drive[s] \in Drive /\ drive \in [Servo -> Drive]
  BY DEF PInv, AutoInv, EInv, IInv, TypeOK
<1>2. /\ UNCHANGED <<cw, target, sem, inputs, program, reached, upper>>
      /\ drive' = [drive EXCEPT ![s].moving = FALSE] /\ drive[s].moving
      /\ at' = [at EXCEPT ![s] = drive[s].exec]
      /\ sem[s] = 0 \/ at[s] = drive[s].exec
      /\ \A t \in Servo : Read(t)' = Read(t)
  BY DEF MotionEndsAt, MotionEnds, Read
<1>3. /\ drive'[s].state = drive[s].state /\ drive'[s].cw = drive[s].cw
      /\ drive'[s].target = drive[s].target /\ drive'[s].bit4 = drive[s].bit4
      /\ drive'[s].ack = drive[s].ack /\ drive'[s].exec = drive[s].exec
      /\ ~drive'[s].moving
      /\ \A t \in Servo \ {s} : drive'[t] = drive[t] /\ at'[t] = at[t]
      /\ at'[s] = drive[s].exec
  BY <1>1, <1>2 DEF Drive
<1>4. at' \in [Servo -> Position \cup {NoPosition}]
  BY <1>1, <1>2 DEF Drive
<1>5. ASSUME NEW t \in Servo PROVE Answered(t)' /\ Honest(t)'
  <2>1. CASE t = s
    BY <1>1, <1>2, <1>3, <2>1 DEF Answered, Honest
  <2>2. CASE t # s
    BY <1>1, <1>2, <1>3, <2>2 DEF Answered, Honest
  <2> QED
    BY <2>1, <2>2
<1>6. Phase'
  <2>1. \A t \in Servo : /\ drive'[t].exec = drive[t].exec
                         /\ drive'[t].moving => drive[t].moving
                         /\ at'[t] = at[t] \/ (sem[t] = 0 /\ drive[t].moving)
    BY <1>2, <1>3
  <2> QED
    BY <1>1, <1>2, <2>1, PhaseStays
<1> QED
  BY <1>4, <1>5, <1>6 DEF AutoInv

-----------------------------------------------------------------------------
\* Before the first exchange no drive is enabled and nothing is sent.
LEMMA AutoStarts == ASSUME ~RestHigh PROVE ProgramInit => AutoInv
<1> SUFFICES ASSUME ProgramInit, program = "ppm_auto" PROVE AutoInv
  BY DEF AutoInv
<1>1. /\ at \in [Servo -> Position \cup {NoPosition}]
      /\ upper /\ \E s \in Servo : at[s] # High
  BY ProgramAssumption DEF ProgramInit
<1>2. \A s \in Servo :
         /\ cw[s] = {} /\ sem[s] = 0 /\ target[s] = NoPosition /\ inputs[s] = {}
         /\ drive[s] = NewDrive /\ reached[s] = FALSE
  BY DEF ProgramInit, Init, SemIndex
<1>3. Seen({}) # "OperationEnabled"
  <2>1. ~HasStatus({}, SW_OP_ENABLED)
    BY StatusTestsExact DEF Masked, SW_MASK_RSOQ, SW_OP_ENABLED
  <2> QED
    BY <2>1 DEF Seen
<1>4. PowerUp
  BY <1>1, <1>2 DEF PowerUp, Still, NewDrive
<1>5. \A s \in Servo : Answered(s) /\ Honest(s)
  <2> SUFFICES ASSUME NEW s \in Servo PROVE Answered(s) /\ Honest(s)
    OBVIOUS
  <2>1. /\ inputs[s] = {} /\ ~reached[s] /\ cw[s] = {} /\ drive[s] = NewDrive
    BY <1>2
  <2>2. Read(s) # "OperationEnabled"
    BY <1>3, <2>1 DEF Read
  <2>3. /\ drive[s].cw = {} /\ ~drive[s].bit4 /\ ~drive[s].ack /\ ~drive[s].moving
        /\ drive[s].exec = NoPosition
    BY <2>1 DEF NewDrive
  <2> QED
    BY <2>1, <2>2, <2>3 DEF Answered, Honest
<1> QED
  BY <1>1, <1>4, <1>5 DEF AutoInv, Phase

\* Every step of a program is a step of the server, or none.
LEMMA ServersStep ==
    ASSUME SlowSequence, PInv, [ProgramNext]_allvars
    PROVE  [Next]_vars
<1>1. CASE UNCHANGED allvars
  BY <1>1 DEF allvars
<1>2. CASE UserRequest
  BY <1>2 DEF UserRequest, Request, Next
<1>3. CASE AutoRound
  BY <1>3, RoundIsServers DEF AutoRound, Next
<1>4. ASSUME NEW R \in SUBSET Servo, NEW returned \in BOOLEAN,
             ExchangeReached(R, returned)
      PROVE  Next
  BY <1>4 DEF ExchangeReached, Cycle, Next
<1>5. CASE GoodExchangeReached
  BY <1>4, <1>5 DEF GoodExchangeReached
<1>6. ASSUME NEW s \in Servo, MotionEndsAt(s) \/ ReactsInProgram(s)
      PROVE  Next
  BY <1>6 DEF MotionEndsAt, ReactsInProgram, DriveStep, Next
<1> QED
  BY <1>1, <1>2, <1>3, <1>4, <1>5, <1>6 DEF ProgramNext

LEMMA AutoInductive ==
    ASSUME SlowSequence, PInv, [ProgramNext]_allvars
    PROVE  AutoInv'
<1>1. CASE UNCHANGED allvars
  <2>1. AutoInv
    BY DEF PInv
  <2> QED
    BY <1>1, <2>1 DEF allvars, vars, pvars, AutoInv, Phase, PowerUp, First, Second,
                      Third, Raised, Sent, All, OneOnItsWay, Still, Answered, Honest, Read
<1>2. CASE UserRequest
  BY <1>2 DEF UserRequest, pvars, AutoInv
<1>3. CASE AutoRound
  <2>1. program = "ppm_auto" /\ at' = at /\ at \in [Servo -> Position \cup {NoPosition}]
    BY <1>3 DEF AutoRound, PInv, AutoInv
  <2>2. \A s \in Servo : Answered(s)' /\ Honest(s)'
    BY <1>3, <2>1, RoundAnswers
  <2>3. Phase'
    BY <1>3, <2>1, AutoServes, PollPhase, SequencePhase
  <2> QED
    BY <2>1, <2>2, <2>3 DEF AutoInv
<1>4. ASSUME NEW R \in SUBSET Servo, NEW returned \in BOOLEAN,
             ExchangeReached(R, returned)
      PROVE  AutoInv'
  <2>1. CASE program = "ppm_auto"
    BY <1>4, <2>1, ExchangeAuto
  <2>2. CASE program # "ppm_auto"
    BY <1>4, <2>2 DEF ExchangeReached, AutoInv
  <2> QED
    BY <2>1, <2>2
<1>5. CASE GoodExchangeReached
  BY <1>4, <1>5 DEF GoodExchangeReached
<1>6. ASSUME NEW s \in Servo, MotionEndsAt(s) \/ ReactsInProgram(s)
      PROVE  AutoInv'
  <2>1. CASE program = "ppm_auto"
    BY <1>6, <2>1, MotionAuto, ReactAuto
  <2>2. CASE program # "ppm_auto"
    BY <1>6, <2>2 DEF MotionEndsAt, ReactsInProgram, pvars, AutoInv
  <2> QED
    BY <2>1, <2>2
<1> QED
  BY <1>1, <1>2, <1>3, <1>4, <1>5, <1>6 DEF ProgramNext

LEMMA ProgramInvHolds ==
    ASSUME SlowSequence
    PROVE  ProgramSpec => []PInv
<1>1. ProgramInit => PInv
  BY AutoStarts, Initial, EnablingStarts DEF SlowSequence, ProgramInit, PInv, EInv
<1>2. PInv /\ [ProgramNext]_allvars => PInv'
  BY ServersStep, AutoInductive, EnablingInductive DEF PInv
<1> QED
  BY <1>1, <1>2, PTL DEF ProgramSpec

\* ppm_user and ppm_auto do nothing that the server of ppm_debug.c does not do
\* for some client: an exchange, a round and a request of theirs is one of its
\* own, so that whatever PpmServer promises holds for them.
THEOREM ProgramsAreServers == ASSUME SlowSequence PROVE ProgramSpec => Spec
<1>1. ProgramInit => Init
  BY DEF ProgramInit
<1>2. PInv /\ [ProgramNext]_allvars => [Next]_vars
  BY ServersStep
<1> QED
  BY <1>1, <1>2, ProgramInvHolds, PTL DEF ProgramSpec, Spec

\* After a stop request to ppm_user (ppm_user.c:138-152) no motion goes on
\* without HALT in the outputs.
THEOREM ProgramsStop == ASSUME SlowSequence PROVE ProgramSpec => []StopHolds
BY ProgramsAreServers, StopHeld, PTL

\* With no command pending, a drive of ppm_user or ppm_auto has executed the
\* last position asked for.
THEOREM ProgramsIdle ==
    ASSUME SlowSequence, 0 \notin Addressed
    PROVE  ProgramSpec => []IdleMeansTaken
<1>1. PacedClient
  BY DEF SlowSequence, PacedClient
<1> QED
  BY <1>1, ProgramsAreServers, IdleTaken, PTL

\* No test bounds pos_cmd_sem in ppm_auto (ppm_auto.c:60), and TARGET_REACHED
\* has not always fallen when the next round looks (:54): the commands still
\* never pile up.
THEOREM KeepsUp == ASSUME SlowSequence PROVE ProgramSpec => []AutoKeepsUp
<1>1. PInv => AutoKeepsUp
  <2> SUFFICES ASSUME PInv, program = "ppm_auto", NEW s \in Servo PROVE sem[s] <= 2
    BY DEF AutoKeepsUp
  <2>1. sem[s] \in 0..2
    BY InPhase DEF PInv, AutoInv
  <2> QED
    BY <2>1
<1> QED
  BY <1>1, ProgramInvHolds, PTL

\* One step of ReplacedWhenDone.
Replaces ==
    program = "ppm_auto" /\ target' # target
        => \/ \E s \in Servo : drive[s].exec = NoPosition
           \/ \A s \in Servo : drive[s].exec = target[s] /\ ~drive[s].moving

\* A position of the sequence is replaced only when every drive has executed it
\* and stands (ppm_auto.c:54-63), except for the very first, which is replaced
\* before any drive has taken it.
THEOREM ReplacedDone == ASSUME SlowSequence PROVE ProgramSpec => ReplacedWhenDone
<1>1. PInv /\ [ProgramNext]_allvars => [Replaces]_allvars
  <2> SUFFICES ASSUME PInv, ProgramNext, program = "ppm_auto", target' # target
               PROVE  \/ \E s \in Servo : drive[s].exec = NoPosition
                      \/ \A s \in Servo : drive[s].exec = target[s] /\ ~drive[s].moving
    BY DEF Replaces
  <2>1. AutoRound
    BY DEF ProgramNext, UserRequest, GoodExchangeReached, ExchangeReached, Exchange,
           MotionEndsAt, MotionEnds, ReactsInProgram, DriveReacts
  <2>2. Sequence
    BY <2>1, AutoServes
  <2>3. /\ PowerUp \/ First \/ Sent
        /\ \A s \in Servo : ~drive[s].moving
    BY <2>2, SequenceWhen DEF SlowSequence
  <2>4. CASE PowerUp \/ First
    BY <2>4, ServoAssumption DEF PowerUp, First, Still
  <2>5. CASE Sent
    BY <2>3, <2>5 DEF Sent, All
  <2> QED
    BY <2>3, <2>4, <2>5
<1> QED
  BY <1>1, ProgramInvHolds, PTL DEF ProgramSpec, ReplacedWhenDone, Replaces
=============================================================================
