-------------------------- MODULE IpmServer_proofs --------------------------
(***************************************************************************)
(* Theorems about IpmServer for any number of servos, positions, requests, *)
(* faults and lost frames.                                                 *)
(***************************************************************************)
EXTENDS IpmServer, StatusWord_proofs

\* One step of the interpolation goes towards the position asked for, by no
\* more than Velocity, and ends there when it is that near
\* (ycoe_interpolation.c:142-163).
LEMMA GotoPosition ==
    ASSUME NEW from \in Int, NEW to \in Int
    PROVE  LET next == ycoe_ipm_goto_position(from, to)
           IN  /\ next \in Int
               /\ next - from \in -Velocity..Velocity
               /\ to - from \in -Velocity..Velocity => next = to
BY BoundAssumption DEF ycoe_ipm_goto_position

\* Every value control_engine writes to a controlword is a 16-bit word.
LEMMA ControlWords ==
    ASSUME NEW s \in Servo, cw[s] \in Word
    PROVE  ControlCw(s) \in Word
<1>1. /\ CW_SHUTDOWN \in Word /\ CW_SWITCHON \in Word /\ CW_ENABLEOP \in Word
      /\ CW_IPM_ENABLE \in Word
  BY DEF Word, Bits, CW_SHUTDOWN, CW_SWITCHON, CW_ENABLEOP, CW_IPM_ENABLE
<1>2. CW_ENABLEOP \cup CW_IPM_ENABLE \in Word
  BY <1>1 DEF Word
<1>3. ControlCw(s) \in {CW_SHUTDOWN, CW_SWITCHON, CW_ENABLEOP,
                        CW_ENABLEOP \cup CW_IPM_ENABLE, cw[s]}
  BY DEF ControlCw
<1> QED
  BY <1>1, <1>2, <1>3

\* A drive goes from state to state.
LEMMA NextStates ==
    ASSUME NEW st \in DriveState, NEW c
    PROVE  NextState(st, c) \in DriveState
BY DEF NextState, DriveState

\* A drive reports a word the control logic has a reading for.
LEMMA Reports ==
    ASSUME NEW d \in Drive, d.active => d.state = "OperationEnabled"
    PROVE  StatusOf(d) \in Reported
<1>1. d.state \in DriveState /\ d.active \in BOOLEAN
  BY DEF Drive
<1>2. CASE d.active
  <2>1. StatusOf(d) = StateBits["OperationEnabled"] \cup SW_IPM_ACTIVE
    BY <1>2 DEF StatusOf
  <2> QED
    BY <2>1 DEF Reported
<1>3. CASE ~d.active
  <2>1. StatusOf(d) = StateBits[d.state] \cup {}
    BY <1>3 DEF StatusOf
  <2>2. StatusOf(d) = StateBits[d.state]
    BY <2>1
  <2> QED
    BY <1>1, <2>2 DEF Reported
<1> QED
  BY <1>1, <1>2, <1>3

-----------------------------------------------------------------------------
\* A semaphore counts the requests so far and at most the one command a drive
\* found switched on is given; a drive interpolates only while enabled.
SemCounted == \A i \in 0..N : sem[i] <= spent.requests + 1
ActiveEnabled == \A s \in Servo : drive[s].active => drive[s].state = "OperationEnabled"

IInv == TypeOK /\ SemCounted /\ ActiveEnabled

\* At power-up no command is counted and no drive interpolates.
LEMMA Initial == Init => IInv
<1> SUFFICES ASSUME Init PROVE IInv
  OBVIOUS
<1>1. {} \in Word /\ {} \in Reported
  BY DEF Word, Reported
<1>2. /\ N \in Nat /\ 0 \in 0..MaxRequests + 1 /\ 0 \in 0..MaxRequests
      /\ 0 \in 0..MaxTroubles
  BY ServoAssumption, BoundAssumption
<1>3. \A s \in Servo : drive[s] \in Drive /\ ~drive[s].active
  <2> SUFFICES ASSUME NEW s \in Servo PROVE drive[s] \in Drive /\ ~drive[s].active
    OBVIOUS
  <2>1. PICK p \in Rest : drive[s] = [state |-> "SwitchOnDisabled", cw |-> {},
                                      active |-> FALSE, position |-> p]
    BY DEF Init
  <2>2. p \in Int /\ FALSE \in BOOLEAN /\ "SwitchOnDisabled" \in DriveState
    BY PositionAssumption DEF DriveState
  <2> QED
    BY <1>1, <2>1, <2>2 DEF Drive
<1>4. drive \in [Servo -> Drive]
  BY <1>3 DEF Init
<1>5. TypeOK
  BY <1>1, <1>2, <1>4 DEF Init, TypeOK
<1>6. SemCounted
  BY <1>2 DEF Init, SemCounted
<1>7. ActiveEnabled
  BY <1>3 DEF ActiveEnabled
<1> QED
  BY <1>5, <1>6, <1>7 DEF IInv

\* A round of control_engine: no semaphore is decremented below zero.
LEMMA ControlKeeps == IInv /\ Control => IInv'
<1> SUFFICES ASSUME IInv, Control PROVE IInv'
  OBVIOUS
<1> USE DEF IInv
<1>1. /\ N \in Nat /\ 1..numslaves \subseteq Servo /\ Servo \subseteq 0..N
      /\ numslaves \in Int
  BY ServoAssumption DEF TypeOK, Servo
<1>2. final_position' \in {0, Home} \cup Position
  BY DEF Control, FinalAt, TypeOK
<1>3. \A s \in Servo : FinalAt(s) \in Int
  BY PositionAssumption DEF FinalAt, TypeOK
<1>4. cw' \in [Servo -> Word]
  BY ControlWords DEF Control, TypeOK
<1>5. out' \in [Servo -> Int]
  <2> SUFFICES ASSUME NEW s \in Servo PROVE OutAt(s) \in Int
    BY DEF Control, TypeOK
  <2>1. inputs[s].position \in Int
    BY DEF TypeOK
  <2> QED
    BY <1>3, <2>1, GotoPosition DEF OutAt
<1>6. \A i \in 0..N : sem'[i] \in 0..MaxRequests + 1 /\ sem'[i] <= spent.requests + 1
  <2> SUFFICES ASSUME NEW i \in 0..N
               PROVE  sem'[i] \in 0..MaxRequests + 1 /\ sem'[i] <= spent.requests + 1
    OBVIOUS
  <2>1. /\ sem[i] \in 0..MaxRequests + 1 /\ sem[i] <= spent.requests + 1
        /\ MaxRequests \in Nat /\ spent.requests \in 0..MaxRequests
    BY BoundAssumption DEF TypeOK, SemCounted
  <2>2. sem'[i] \in {sem[i], ControlSem(i)}
    BY DEF Control
  <2>3. \/ ControlSem(i) = 1
        \/ ControlSem(i) = sem[i]
        \/ sem[i] > 0 /\ ControlSem(i) = sem[i] - 1
    BY DEF ControlSem, Moves
  <2> QED
    BY <2>1, <2>2, <2>3
<1>7. sem' \in [0..N -> 0..MaxRequests + 1]
  BY <1>6 DEF Control
<1> QED
  BY <1>2, <1>4, <1>5, <1>6, <1>7
     DEF Control, TypeOK, SemCounted, ActiveEnabled

\* A request counts at most one command for an axis.
LEMMA RequestKeeps == IInv /\ Request => IInv'
<1> SUFFICES ASSUME IInv, Request PROVE IInv'
  OBVIOUS
<1> USE DEF IInv
<1>1. CASE Poll
  BY <1>1 DEF Poll, TypeOK, SemCounted, ActiveEnabled
<1>2. ASSUME NEW A, NEW p \in Position, AskFor(A, p) PROVE IInv'
  <2>1. /\ MaxRequests \in Nat /\ spent.requests \in 0..MaxRequests
        /\ spent.requests < MaxRequests /\ spent.troubles \in 0..MaxTroubles
    BY <1>2, BoundAssumption DEF AskFor, TypeOK
  <2>2. /\ spent' \in [requests : 0..MaxRequests, troubles : 0..MaxTroubles]
        /\ spent'.requests = spent.requests + 1
    <3>1. spent.requests + 1 \in 0..MaxRequests
      BY <2>1
    <3>2. spent' = [spent EXCEPT !.requests = @ + 1]
      BY <1>2 DEF AskFor
    <3> QED
      BY <3>1, <3>2 DEF TypeOK
  <2>3. \A i \in 0..N : sem'[i] \in 0..MaxRequests + 1 /\ sem'[i] <= spent'.requests + 1
    <3> SUFFICES ASSUME NEW i \in 0..N
                 PROVE  sem'[i] \in 0..MaxRequests + 1 /\ sem'[i] <= spent'.requests + 1
      OBVIOUS
    <3>1. sem[i] \in 0..MaxRequests + 1 /\ sem[i] <= spent.requests + 1
      BY DEF TypeOK, SemCounted
    <3>2. sem'[i] = sem[i] \/ sem'[i] = sem[i] + 1
      BY <1>2 DEF AskFor
    <3> QED
      BY <2>1, <2>2, <3>1, <3>2
  <2>4. sem' \in [0..N -> 0..MaxRequests + 1]
    BY <1>2, <2>3 DEF AskFor
  <2> QED
    BY <1>2, <2>2, <2>3, <2>4 DEF AskFor, TypeOK, SemCounted, ActiveEnabled
<1> QED
  BY <1>1, <1>2 DEF Request, SetPosition, SetAllPositions

\* An exchange, whichever drives it reaches.
LEMMA ExchangeKeeps ==
    ASSUME IInv, NEW R, NEW returned \in BOOLEAN, Exchange(R, returned),
           spent' \in [requests : 0..MaxRequests, troubles : 0..MaxTroubles],
           spent'.requests = spent.requests
    PROVE  IInv'
<1> USE DEF IInv
<1>1. \A s \in Servo : /\ drive[s] \in Drive
                       /\ drive[s].active \in BOOLEAN
                       /\ drive[s].position \in Int
                       /\ StatusOf(drive[s]) \in Reported
  BY Reports DEF TypeOK, Drive, ActiveEnabled
<1>2. inputs' \in [Servo -> [status : Reported, position : Int]]
  BY <1>1 DEF Exchange, TypeOK
<1>3. \A s \in Servo :
        /\ drive'[s] \in Drive
        /\ drive'[s].active = drive[s].active /\ drive'[s].state = drive[s].state
  <2> SUFFICES ASSUME NEW s \in Servo
               PROVE  /\ drive'[s] \in Drive
                      /\ drive'[s].active = drive[s].active
                      /\ drive'[s].state = drive[s].state
    OBVIOUS
  <2>1. drive[s] \in Drive /\ cw[s] \in Word /\ out[s] \in Int
    BY DEF TypeOK
  <2>2. CASE s \notin R
    BY <2>1, <2>2 DEF Exchange
  <2>3. CASE s \in R
    <3>1. drive'[s] = [drive[s] EXCEPT !.cw = cw[s],
                          !.position = IF drive[s].active THEN out[s] ELSE @]
      BY <2>3 DEF Exchange
    <3>2. (IF drive[s].active THEN out[s] ELSE drive[s].position) \in Int
      BY <1>1, <2>1
    <3> QED
      BY <2>1, <3>1, <3>2 DEF Drive
  <2> QED
    BY <2>2, <2>3
<1>4. drive' \in [Servo -> Drive]
  BY <1>3 DEF Exchange
<1>5. counted' \in {0, N} /\ numslaves' \in {0, counted'}
  BY DEF Exchange, TypeOK
<1> QED
  BY <1>2, <1>3, <1>4, <1>5 DEF Exchange, TypeOK, SemCounted, ActiveEnabled

\* A drive reacts, trips or is reset.
LEMMA DriveKeeps ==
    ASSUME IInv, NEW s \in Servo, React(s) \/ Trip(s) \/ Reset(s)
    PROVE  IInv'
<1> USE DEF IInv
<1>1. /\ drive[s] \in Drive /\ drive[s].state \in DriveState
      /\ drive[s].position \in Int /\ drive \in [Servo -> Drive]
  BY DEF TypeOK, Drive
<1>2. ASSUME NEW d \in Drive, d.active => d.state = "OperationEnabled",
             drive' = [drive EXCEPT ![s] = d],
             spent' \in [requests : 0..MaxRequests, troubles : 0..MaxTroubles],
             spent'.requests = spent.requests,
             UNCHANGED <<cw, out, inputs, final_position, sem, counted, numslaves>>
      PROVE  IInv'
  BY <1>1, <1>2 DEF TypeOK, SemCounted, ActiveEnabled
<1>3. CASE React(s)
  <2> DEFINE d == Reacted(drive[s])
  <2>1. d.state \in DriveState /\ d = [drive[s] EXCEPT !.state = d.state,
                                                       !.active = d.active]
    BY <1>1, NextStates DEF Reacted, Drive
  <2>2. d.active \in BOOLEAN /\ (d.active => d.state = "OperationEnabled")
    BY <1>1 DEF Reacted, Drive
  <2>3. d \in Drive
    BY <1>1, <2>1, <2>2 DEF Drive
  <2> HIDE DEF d
  <2> QED
    BY <1>2, <1>3, <2>2, <2>3 DEF React, d, TypeOK
<1>4. CASE Trip(s)
  <2> DEFINE d == [drive[s] EXCEPT !.state = "Fault", !.active = FALSE]
  <2>1. "Fault" \in DriveState /\ FALSE \in BOOLEAN
    BY DEF DriveState
  <2>2. d \in Drive /\ d.active = FALSE
    BY <1>1, <2>1 DEF Drive
  <2>3. /\ spent' \in [requests : 0..MaxRequests, troubles : 0..MaxTroubles]
        /\ spent'.requests = spent.requests
    <3>1. /\ spent.troubles \in 0..MaxTroubles /\ spent.troubles < MaxTroubles
          /\ MaxTroubles \in Nat
      BY <1>4, BoundAssumption DEF Trip, TypeOK
    <3>2. spent.troubles + 1 \in 0..MaxTroubles
      BY <3>1
    <3>3. spent' = [spent EXCEPT !.troubles = @ + 1]
      BY <1>4 DEF Trip
    <3> QED
      BY <3>2, <3>3 DEF TypeOK
  <2>4. drive' = [drive EXCEPT ![s] = d]
    BY <1>1, <1>4 DEF Trip
  <2> HIDE DEF d
  <2> QED
    BY <1>2, <1>4, <2>2, <2>3, <2>4 DEF Trip
<1>5. CASE Reset(s)
  <2>1. PICK p \in Rest \cup {drive[s].position} :
           drive' = [drive EXCEPT ![s].state = "SwitchOnDisabled", ![s].position = p]
    BY <1>5 DEF Reset
  <2> DEFINE d == [drive[s] EXCEPT !.state = "SwitchOnDisabled", !.position = p]
  <2>2. p \in Int /\ "SwitchOnDisabled" \in DriveState
    BY <1>1, PositionAssumption DEF DriveState
  <2>3. ~drive[s].active
    BY <1>5 DEF Reset, ActiveEnabled
  <2>4. d \in Drive /\ ~d.active
    BY <1>1, <2>2, <2>3 DEF Drive
  <2>5. drive' = [drive EXCEPT ![s] = d]
    BY <1>1, <2>1
  <2> HIDE DEF d
  <2> QED
    BY <1>2, <1>5, <2>4, <2>5 DEF Reset, TypeOK
<1> QED
  BY <1>3, <1>4, <1>5

\* Every step of the program, of a drive and of the link keeps the invariant.
LEMMA Inductive == IInv /\ [Next]_vars => IInv'
<1> SUFFICES ASSUME IInv, [Next]_vars PROVE IInv'
  OBVIOUS
<1>1. CASE Control
  BY <1>1, ControlKeeps
<1>2. CASE Request
  BY <1>2, RequestKeeps
<1>3. CASE GoodExchange
  <2>1. Exchange(Servo, TRUE) /\ spent' = spent
    BY <1>3 DEF GoodExchange
  <2> QED
    BY <2>1, ExchangeKeeps DEF IInv, TypeOK
<1>4. CASE LossyExchange
  <2>1. PICK R \in SUBSET Servo, returned \in BOOLEAN : Exchange(R, returned)
    BY <1>4 DEF LossyExchange
  <2>2. /\ spent.troubles \in 0..MaxTroubles /\ spent.troubles < MaxTroubles
        /\ MaxTroubles \in Nat /\ spent.requests \in 0..MaxRequests
    BY <1>4, BoundAssumption DEF LossyExchange, IInv, TypeOK
  <2>3. /\ spent' \in [requests : 0..MaxRequests, troubles : 0..MaxTroubles]
        /\ spent'.requests = spent.requests
    BY <1>4, <2>2 DEF LossyExchange, IInv, TypeOK
  <2> QED
    BY <2>1, <2>3, ExchangeKeeps
<1>5. CASE \E s \in Servo : React(s) \/ Trip(s) \/ Reset(s)
  BY <1>5, DriveKeeps
<1>6. CASE UNCHANGED vars
  BY <1>6 DEF IInv, TypeOK, SemCounted, ActiveEnabled, vars
<1> QED
  BY <1>1, <1>2, <1>3, <1>4, <1>5, <1>6 DEF Next

\* The types hold for any number of servos and any bounds; in particular
\* pos_cmd_sem never goes below zero and never counts more commands than were
\* asked for and the one that enabling gives (ipm_debug.c:57-84).
THEOREM TypeCorrect == Spec => []TypeOK
<1>1. IInv => TypeOK
  BY DEF IInv
<1> QED
  BY <1>1, Initial, Inductive, PTL DEF Spec

-----------------------------------------------------------------------------
\* The control logic reads a drive's state out of the word it reported.
LEMMA Readings ==
    ASSUME NEW d \in Drive, d.active => d.state = "OperationEnabled"
    PROVE  StateRead[StatusOf(d)] = d.state
<1> DEFINE w == StatusOf(d)
<1>1. StateRead[w] = Seen(w)
  BY Reports DEF StateRead
<1>2. d.state \in DriveState /\ d.active \in BOOLEAN
  BY DEF Drive
<1>3. CASE d.state = "SwitchOnDisabled"
  <2>1. w = {6}
    BY <1>2, <1>3 DEF StatusOf, StateBits, DriveState, SW_SWITCHON_DISABLED
  <2>2. HasStatus(w, SW_SWITCHON_DISABLED)
    BY <2>1, StatusTestsExact DEF Masked, SW_MASK_SWON_DISABLED, SW_SWITCHON_DISABLED
  <2> QED
    BY <1>1, <1>3, <2>2 DEF Seen
<1>4. CASE d.state = "ReadyToSwitchOn"
  <2>1. w = {0, 5}
    BY <1>2, <1>4 DEF StatusOf, StateBits, DriveState, SW_RTSO
  <2>2. ~HasStatus(w, SW_SWITCHON_DISABLED)
    BY <2>1, StatusTestsExact DEF Masked, SW_MASK_SWON_DISABLED, SW_SWITCHON_DISABLED
  <2>3. HasStatus(w, SW_RTSO)
    BY <2>1, StatusTestsExact DEF Masked, SW_MASK_RSOQ, SW_RTSO
  <2> QED
    BY <1>1, <1>4, <2>2, <2>3 DEF Seen
<1>5. CASE d.state = "SwitchedOn"
  <2>1. w = {0, 1, 5}
    BY <1>2, <1>5 DEF StatusOf, StateBits, DriveState, SW_SWITCHED_ON
  <2>2. ~HasStatus(w, SW_SWITCHON_DISABLED)
    BY <2>1, StatusTestsExact DEF Masked, SW_MASK_SWON_DISABLED, SW_SWITCHON_DISABLED
  <2>3. ~HasStatus(w, SW_RTSO)
    BY <2>1, StatusTestsExact DEF Masked, SW_MASK_RSOQ, SW_RTSO
  <2>4. HasStatus(w, SW_SWITCHED_ON)
    BY <2>1, StatusTestsExact DEF Masked, SW_MASK_RSOQ, SW_SWITCHED_ON
  <2> QED
    BY <1>1, <1>5, <2>2, <2>3, <2>4 DEF Seen
<1>6. CASE d.state = "OperationEnabled"
  <2>1. w = {0, 1, 2, 5} \/ w = {0, 1, 2, 5, 12}
    BY <1>2, <1>6 DEF StatusOf, StateBits, DriveState, SW_OP_ENABLED, SW_IPM_ACTIVE
  <2>2. ~HasStatus(w, SW_SWITCHON_DISABLED)
    BY <2>1, StatusTestsExact DEF Masked, SW_MASK_SWON_DISABLED, SW_SWITCHON_DISABLED
  <2>3. ~HasStatus(w, SW_RTSO)
    BY <2>1, StatusTestsExact DEF Masked, SW_MASK_RSOQ, SW_RTSO
  <2>4. ~HasStatus(w, SW_SWITCHED_ON)
    BY <2>1, StatusTestsExact DEF Masked, SW_MASK_RSOQ, SW_SWITCHED_ON
  <2>5. HasStatus(w, SW_OP_ENABLED)
    BY <2>1, StatusTestsExact DEF Masked, SW_MASK_RSOQ, SW_OP_ENABLED
  <2> QED
    BY <1>1, <1>6, <2>2, <2>3, <2>4, <2>5 DEF Seen
<1>7. CASE d.state = "Fault"
  <2>1. w = {3}
    BY <1>2, <1>7 DEF StatusOf, StateBits, DriveState, SW_FAULT
  <2>2. ~HasStatus(w, SW_SWITCHON_DISABLED)
    BY <2>1, StatusTestsExact DEF Masked, SW_MASK_SWON_DISABLED, SW_SWITCHON_DISABLED
  <2>3. ~HasStatus(w, SW_RTSO)
    BY <2>1, StatusTestsExact DEF Masked, SW_MASK_RSOQ, SW_RTSO
  <2>4. ~HasStatus(w, SW_SWITCHED_ON)
    BY <2>1, StatusTestsExact DEF Masked, SW_MASK_RSOQ, SW_SWITCHED_ON
  <2>5. ~HasStatus(w, SW_OP_ENABLED)
    BY <2>1, StatusTestsExact DEF Masked, SW_MASK_RSOQ, SW_OP_ENABLED
  <2> QED
    BY <1>1, <1>7, <2>2, <2>3, <2>4, <2>5 DEF Seen
<1> QED
  BY <1>2, <1>3, <1>4, <1>5, <1>6, <1>7 DEF DriveState

\* The controlwords control_engine writes are different, only the last starts
\* the interpolation, and each lets a drive leave one state.
CW_INTERPOLATE == CW_ENABLEOP \cup CW_IPM_ENABLE
Written == {{}, CW_SHUTDOWN, CW_SWITCHON, CW_ENABLEOP, CW_INTERPOLATE}

LEMMA Different ==
    /\ CW_SHUTDOWN \notin {{}, CW_SWITCHON, CW_ENABLEOP, CW_INTERPOLATE}
    /\ CW_SWITCHON \notin {{}, CW_ENABLEOP, CW_INTERPOLATE}
    /\ CW_ENABLEOP \notin {{}, CW_INTERPOLATE}
    /\ CW_INTERPOLATE # {}
    /\ \A c \in Written : CW_IPM_ENABLE \subseteq c <=> c = CW_INTERPOLATE
    /\ \A c \in Written : ycoe_ipm_checkcontrol(c, {}) <=> c # CW_INTERPOLATE
<1>1. /\ 1 \in CW_SHUTDOWN /\ 2 \in CW_SHUTDOWN /\ 0 \notin CW_SHUTDOWN
      /\ 4 \notin CW_SHUTDOWN
      /\ 0 \in CW_SWITCHON /\ 3 \notin CW_SWITCHON /\ 4 \notin CW_SWITCHON
      /\ 0 \in CW_ENABLEOP /\ 3 \in CW_ENABLEOP /\ 4 \notin CW_ENABLEOP
      /\ 0 \in CW_INTERPOLATE /\ 3 \in CW_INTERPOLATE /\ 4 \in CW_INTERPOLATE
  BY DEF CW_SHUTDOWN, CW_SWITCHON, CW_ENABLEOP, CW_INTERPOLATE, CW_IPM_ENABLE
<1>2. \A c \in Written : 4 \in c <=> c = CW_INTERPOLATE
  BY <1>1 DEF Written
<1>3. \A c \in Written : CW_IPM_ENABLE \subseteq c <=> 4 \in c
  BY DEF CW_IPM_ENABLE
<1>4. \A c \in Written : ycoe_ipm_checkcontrol(c, {}) <=> 4 \notin c
  BY DEF CW_IPM_ENABLE, ycoe_ipm_checkcontrol, Masked
<1> QED
  BY <1>1, <1>2, <1>3, <1>4

\* Where each written controlword takes a drive from each state.
LEMMA Transitions ==
    ASSUME NEW c \in Written
    PROVE  /\ NextState("SwitchOnDisabled", c) =
                 IF c = CW_SHUTDOWN THEN "ReadyToSwitchOn" ELSE "SwitchOnDisabled"
           /\ c \in {CW_SHUTDOWN, CW_SWITCHON} =>
                 NextState("ReadyToSwitchOn", c) =
                    IF c = CW_SWITCHON THEN "SwitchedOn" ELSE "ReadyToSwitchOn"
           /\ c \in {CW_SWITCHON, CW_ENABLEOP} =>
                 NextState("SwitchedOn", c) =
                    IF c = CW_ENABLEOP THEN "OperationEnabled" ELSE "SwitchedOn"
           /\ c \in {CW_ENABLEOP, CW_INTERPOLATE} =>
                 NextState("OperationEnabled", c) = "OperationEnabled"
           /\ NextState("Fault", c) = "Fault"
<1>1. /\ \A d \in {CW_SHUTDOWN, CW_SWITCHON, CW_ENABLEOP, CW_INTERPOLATE} : ~IsDisable(d)
      /\ IsDisable({})
  BY DEF IsDisable, CW_SHUTDOWN, CW_SWITCHON, CW_ENABLEOP, CW_INTERPOLATE
<1>2. IsShutdown(CW_SHUTDOWN)
  BY DEF IsShutdown, Masked, CW_SHUTDOWN
<1>3. \A d \in {CW_SWITCHON, CW_ENABLEOP, CW_INTERPOLATE} : ~IsShutdown(d)
  <2>1. \A d \in {CW_SWITCHON, CW_ENABLEOP, CW_INTERPOLATE} : 0 \in d \cap {0, 1, 2}
    BY DEF CW_SWITCHON, CW_ENABLEOP, CW_INTERPOLATE
  <2>2. 0 \notin CW_SHUTDOWN
    BY DEF CW_SHUTDOWN
  <2> QED
    BY <2>1, <2>2 DEF IsShutdown, Masked
<1>4. IsSwitchOn(CW_SWITCHON) /\ ~IsEnableOp(CW_SWITCHON)
  BY DEF IsSwitchOn, IsEnableOp, Masked, CW_SWITCHON, CW_ENABLEOP
<1>5. IsEnableOp(CW_ENABLEOP) /\ ~IsSwitchOn(CW_ENABLEOP)
  BY DEF IsSwitchOn, IsEnableOp, Masked, CW_SWITCHON, CW_ENABLEOP
<1>6. ~IsSwitchOn(CW_INTERPOLATE)
  <2>1. 3 \in CW_INTERPOLATE \cap {0, 1, 2, 3} /\ 3 \notin CW_SWITCHON
    BY DEF CW_INTERPOLATE, CW_ENABLEOP, CW_SWITCHON
  <2> QED
    BY <2>1 DEF IsSwitchOn, Masked
<1>7. ~IsSwitchOn(CW_SHUTDOWN) /\ ~IsEnableOp(CW_SHUTDOWN)
  <2>1. 0 \in CW_SWITCHON /\ 0 \in CW_ENABLEOP /\ 0 \notin CW_SHUTDOWN
    BY DEF CW_SWITCHON, CW_ENABLEOP, CW_SHUTDOWN
  <2> QED
    BY <2>1 DEF IsSwitchOn, IsEnableOp, Masked
<1>8. NextState("SwitchOnDisabled", c) =
         IF c = CW_SHUTDOWN THEN "ReadyToSwitchOn" ELSE "SwitchOnDisabled"
  <2>1. CASE c = {}
    <3>1. IsDisable(c) /\ ~IsShutdown(c)
      <4>1. 1 \in CW_SHUTDOWN /\ 1 \notin c
        BY <2>1 DEF CW_SHUTDOWN
      <4> QED
        BY <4>1 DEF IsDisable, IsShutdown, Masked
    <3>2. c # CW_SHUTDOWN
      BY <2>1, Different
    <3> QED
      BY <3>1, <3>2 DEF NextState
  <2>2. CASE c = CW_SHUTDOWN
    BY <1>1, <1>2, <2>2 DEF NextState
  <2>3. CASE c \in {CW_SWITCHON, CW_ENABLEOP, CW_INTERPOLATE}
    <3>1. ~IsDisable(c) /\ ~IsShutdown(c) /\ c # CW_SHUTDOWN
      BY <1>1, <1>3, <2>3, Different
    <3> QED
      BY <3>1 DEF NextState
  <2> QED
    BY <2>1, <2>2, <2>3 DEF Written
<1>9. c \in {CW_SHUTDOWN, CW_SWITCHON} =>
         NextState("ReadyToSwitchOn", c) =
            IF c = CW_SWITCHON THEN "SwitchedOn" ELSE "ReadyToSwitchOn"
  <2>1. CASE c = CW_SHUTDOWN
    <3>1. ~IsDisable(c) /\ IsShutdown(c) /\ c # CW_SWITCHON
             /\ ~IsSwitchOn(c) /\ ~IsEnableOp(c)
      BY <1>1, <1>2, <1>7, <2>1, Different
    <3> QED
      BY <3>1 DEF NextState
  <2>2. CASE c = CW_SWITCHON
    <3>1. ~IsDisable(c) /\ ~IsShutdown(c) /\ IsSwitchOn(c) /\ ~IsEnableOp(c)
      BY <1>1, <1>3, <1>4, <2>2
    <3> QED
      BY <3>1, <2>2 DEF NextState
  <2> QED
    BY <2>1, <2>2
<1>10. c \in {CW_SWITCHON, CW_ENABLEOP} =>
         NextState("SwitchedOn", c) =
            IF c = CW_ENABLEOP THEN "OperationEnabled" ELSE "SwitchedOn"
  <2>1. CASE c = CW_SWITCHON
    <3>1. ~IsDisable(c) /\ ~IsShutdown(c) /\ ~IsEnableOp(c) /\ c # CW_ENABLEOP
      BY <1>1, <1>3, <1>4, <2>1, Different
    <3> QED
      BY <3>1 DEF NextState
  <2>2. CASE c = CW_ENABLEOP
    <3>1. ~IsDisable(c) /\ ~IsShutdown(c) /\ IsEnableOp(c)
      BY <1>1, <1>3, <1>5, <2>2
    <3> QED
      BY <3>1, <2>2 DEF NextState
  <2> QED
    BY <2>1, <2>2
<1>11. c \in {CW_ENABLEOP, CW_INTERPOLATE} =>
         NextState("OperationEnabled", c) = "OperationEnabled"
  <2> SUFFICES ASSUME c \in {CW_ENABLEOP, CW_INTERPOLATE}
               PROVE  NextState("OperationEnabled", c) = "OperationEnabled"
    OBVIOUS
  <2>1. ~IsDisable(c) /\ ~IsShutdown(c) /\ ~IsSwitchOn(c)
    BY <1>1, <1>3, <1>5, <1>6
  <2> QED
    BY <2>1 DEF NextState
<1>12. NextState("Fault", c) = "Fault"
  BY DEF NextState
<1> QED
  BY <1>8, <1>9, <1>10, <1>11, <1>12

-----------------------------------------------------------------------------
\* A drive is enabled step by step, and each step waits for the report of the
\* one before: the controlword in the outputs, the one the drive has, the state
\* it is in and the state last read are never more than one step apart.  So
\* when it gets bit 4, a round of control_engine has seen it enabled, with a
\* command pending since it was switched on, and has set the target position
\* from the place where it stands.
Fresh(s) == inputs[s].position = drive[s].position
Near(s) == out[s] - drive[s].position \in -Velocity..Velocity

Pair(s, read, received, sent) ==
    StateOf(s) = read /\ drive[s].cw = received /\ cw[s] = sent

AtSwitchOnDisabled(s) ==
    \/ /\ StateOf(s) = "SwitchOnDisabled" /\ Fresh(s)
       /\ drive[s].cw = CW_SHUTDOWN => cw[s] = CW_SHUTDOWN
    \/ /\ StateOf(s) # "SwitchOnDisabled"
       /\ drive[s].cw # CW_SHUTDOWN /\ cw[s] # CW_SHUTDOWN

AtReadyToSwitchOn(s) ==
    /\ Fresh(s)
    /\ \/ Pair(s, "SwitchOnDisabled", CW_SHUTDOWN, CW_SHUTDOWN)
       \/ Pair(s, "ReadyToSwitchOn", CW_SHUTDOWN, CW_SHUTDOWN)
       \/ Pair(s, "ReadyToSwitchOn", CW_SHUTDOWN, CW_SWITCHON)
       \/ Pair(s, "ReadyToSwitchOn", CW_SWITCHON, CW_SWITCHON)

AtSwitchedOn(s) ==
    /\ Fresh(s)
    /\ \/ Pair(s, "ReadyToSwitchOn", CW_SWITCHON, CW_SWITCHON)
       \/ Pair(s, "SwitchedOn", CW_SWITCHON, CW_SWITCHON)
       \/ Pair(s, "SwitchedOn", CW_SWITCHON, CW_ENABLEOP)
       \/ Pair(s, "SwitchedOn", CW_ENABLEOP, CW_ENABLEOP)

AtOperationEnabled(s) ==
    \/ Pair(s, "SwitchedOn", CW_ENABLEOP, CW_ENABLEOP) /\ ~drive[s].active
    \/ Pair(s, "OperationEnabled", CW_ENABLEOP, CW_ENABLEOP)
    \/ Pair(s, "OperationEnabled", CW_ENABLEOP, CW_INTERPOLATE)
    \/ Pair(s, "OperationEnabled", CW_INTERPOLATE, CW_INTERPOLATE)

AtFault(s) ==
    /\ StateOf(s) # "SwitchOnDisabled"
    /\ drive[s].cw # CW_SHUTDOWN /\ cw[s] # CW_SHUTDOWN

StepByStep(s) ==
    /\ drive[s].state = "SwitchOnDisabled" => AtSwitchOnDisabled(s)
    /\ drive[s].state = "ReadyToSwitchOn" => AtReadyToSwitchOn(s)
    /\ drive[s].state = "SwitchedOn" => AtSwitchedOn(s)
    /\ drive[s].state = "OperationEnabled" => AtOperationEnabled(s)
    /\ drive[s].state = "Fault" => AtFault(s)

\* While it waits to interpolate it stands still, with its command pending
\* until the target is set.
Waiting(s) ==
    /\ drive[s].state \in {"SwitchedOn", "OperationEnabled"} /\ cw[s] = CW_ENABLEOP
          => sem[s] > 0
    /\ drive[s].state = "OperationEnabled" /\ ~drive[s].active
          => Fresh(s) /\ (cw[s] = CW_INTERPOLATE => Near(s))

Enabling(s) ==
    /\ cw[s] \in Written /\ drive[s].cw \in Written
    /\ drive[s].active => drive[s].cw = CW_INTERPOLATE
    /\ StepByStep(s)
    /\ Waiting(s)

EInv == IInv /\ \A s \in Servo : Enabling(s)

\* At power-up no controlword was sent and no state read.
LEMMA EnablingStarts == Init => \A s \in Servo : Enabling(s)
<1> SUFFICES ASSUME Init, NEW s \in Servo PROVE Enabling(s)
  OBVIOUS
<1>1. /\ drive[s].state = "SwitchOnDisabled" /\ drive[s].cw = {}
      /\ ~drive[s].active /\ cw[s] = {} /\ inputs[s].status = {}
  BY DEF Init
<1>2. StateOf(s) # "SwitchOnDisabled"
  <2>1. {} \in Reported
    BY DEF Reported
  <2>2. ~HasStatus({}, SW_SWITCHON_DISABLED)
    BY StatusTestsExact DEF Masked, SW_MASK_SWON_DISABLED, SW_SWITCHON_DISABLED
  <2> QED
    BY <1>1, <2>1, <2>2 DEF StateOf, StateRead, Seen
<1>3. StepByStep(s)
  BY <1>1, <1>2, Different DEF StepByStep, AtSwitchOnDisabled
<1> QED
  BY <1>1, <1>3 DEF Enabling, Waiting, Written

\* What a round of control_engine writes for a slave it knows.
LEMMA Round ==
    ASSUME IInv, Control, NEW s \in 1..numslaves, s \in Servo, cw[s] \in Written
    PROVE  /\ StateOf(s) = "SwitchOnDisabled" => cw'[s] = CW_SHUTDOWN
           /\ StateOf(s) = "ReadyToSwitchOn" => cw'[s] = CW_SWITCHON
           /\ StateOf(s) = "SwitchedOn" => cw'[s] = CW_ENABLEOP /\ sem'[s] = 1
           /\ StateOf(s) = "OperationEnabled" => cw'[s] = CW_INTERPOLATE
           /\ StateOf(s) \notin {"SwitchOnDisabled", "ReadyToSwitchOn", "SwitchedOn",
                                 "OperationEnabled"}
                 => cw'[s] = cw[s] /\ sem'[s] = sem[s]
           /\ StateOf(s) = "OperationEnabled" /\ sem[s] > 0 /\ Fresh(s) => Near(s)'
           /\ ~(StateOf(s) = "OperationEnabled" /\ sem[s] > 0) => out'[s] = out[s]
<1>1. /\ cw \in [Servo -> Word] /\ out \in [Servo -> Int] /\ s \in 0..N
      /\ inputs[s].position \in Int /\ FinalAt(s) \in Int
  BY ServoAssumption, PositionAssumption DEF IInv, TypeOK, Servo, FinalAt
<1>2. cw'[s] = ControlCw(s) /\ sem'[s] = ControlSem(s)
  BY <1>1 DEF Control
<1>3. out'[s] = IF Moves(s) THEN OutAt(s) ELSE out[s]
  BY DEF Control
<1>4. StateOf(s) = "OperationEnabled" => ControlCw(s) = CW_INTERPOLATE
  <2>1. Idle(s) \/ cw[s] = CW_INTERPOLATE
    BY Different DEF Idle
  <2> QED
    BY <2>1 DEF ControlCw, Enabled, CW_INTERPOLATE
<1>5. /\ StateOf(s) = "SwitchOnDisabled" => ControlCw(s) = CW_SHUTDOWN
      /\ StateOf(s) = "ReadyToSwitchOn" => ControlCw(s) = CW_SWITCHON
      /\ StateOf(s) = "SwitchedOn" => ControlCw(s) = CW_ENABLEOP /\ ControlSem(s) = 1
      /\ StateOf(s) \notin {"SwitchOnDisabled", "ReadyToSwitchOn", "SwitchedOn",
                            "OperationEnabled"}
            => ControlCw(s) = cw[s] /\ ControlSem(s) = sem[s]
  BY DEF ControlCw, ControlSem, Enabled, Moves
<1>6. ASSUME StateOf(s) = "OperationEnabled", sem[s] > 0, Fresh(s) PROVE Near(s)'
  <2>1. out'[s] = ycoe_ipm_goto_position(inputs[s].position, FinalAt(s))
    BY <1>3, <1>6 DEF Moves, Enabled, OutAt
  <2>2. out'[s] - inputs[s].position \in -Velocity..Velocity
    BY <1>1, <2>1, GotoPosition
  <2>3. drive'[s].position = inputs[s].position
    BY <1>6 DEF Fresh, Control
  <2> QED
    BY <2>2, <2>3 DEF Near
<1> QED
  BY <1>2, <1>3, <1>4, <1>5, <1>6 DEF Moves, Enabled

\* A round of control_engine takes a drive at most one step further.
LEMMA ControlEnables ==
    ASSUME EInv, Control, NEW s \in Servo
    PROVE  Enabling(s)'
<1>1. /\ StateOf(s)' = StateOf(s) /\ drive'[s] = drive[s]
      /\ Fresh(s)' <=> Fresh(s)
  BY DEF Control, StateOf, Fresh
<1>2. Enabling(s) /\ IInv
  BY DEF EInv
<1>3. CASE s \notin 1..numslaves
  <2>1. cw'[s] = cw[s] /\ sem'[s] = sem[s] /\ (Near(s)' <=> Near(s))
    BY <1>3, ServoAssumption DEF Control, Near, Servo
  <2> QED
    BY <1>1, <1>2, <2>1
       DEF Enabling, StepByStep, Waiting, AtSwitchOnDisabled, AtReadyToSwitchOn,
           AtSwitchedOn, AtOperationEnabled, AtFault, Pair
<1>4. CASE s \in 1..numslaves
  <2>1. /\ StateOf(s) = "SwitchOnDisabled" => cw'[s] = CW_SHUTDOWN
        /\ StateOf(s) = "ReadyToSwitchOn" => cw'[s] = CW_SWITCHON
        /\ StateOf(s) = "SwitchedOn" => cw'[s] = CW_ENABLEOP /\ sem'[s] = 1
        /\ StateOf(s) = "OperationEnabled" => cw'[s] = CW_INTERPOLATE
        /\ StateOf(s) \notin {"SwitchOnDisabled", "ReadyToSwitchOn", "SwitchedOn",
                              "OperationEnabled"}
              => cw'[s] = cw[s] /\ sem'[s] = sem[s]
    BY <1>2, <1>4, Round DEF Enabling
  <2>2. cw'[s] \in Written
    BY <1>2, <2>1 DEF Enabling, Written
  <2>3. StepByStep(s)'
    BY <1>1, <1>2, <2>1, Different
       DEF Enabling, StepByStep, AtSwitchOnDisabled, AtReadyToSwitchOn,
           AtSwitchedOn, AtOperationEnabled, AtFault, Pair
  <2>4. drive[s].state \in {"SwitchedOn", "OperationEnabled"} /\ cw'[s] = CW_ENABLEOP
           => sem'[s] > 0
    BY <1>2, <2>1, Different
       DEF Enabling, StepByStep, Waiting, AtSwitchedOn, AtOperationEnabled, Pair
  <2>5. ASSUME drive[s].state = "OperationEnabled", ~drive[s].active,
               cw'[s] = CW_INTERPOLATE
        PROVE  Near(s)'
    <3>1. StateOf(s) = "OperationEnabled"
      BY <1>2, <2>1, <2>5, Different
         DEF Enabling, StepByStep, AtOperationEnabled, Pair
    <3>2. Fresh(s) /\ (cw[s] = CW_INTERPOLATE => Near(s))
      BY <1>2, <2>5 DEF Enabling, Waiting
    <3>3. CASE sem[s] > 0
      BY <1>2, <1>4, <3>1, <3>2, <3>3, Round DEF Enabling
    <3>4. CASE ~(sem[s] > 0)
      <4>1. cw[s] = CW_INTERPOLATE
        BY <1>2, <2>5, <3>1, <3>4
           DEF Enabling, StepByStep, Waiting, AtOperationEnabled, Pair
      <4>2. out'[s] = out[s]
        BY <1>2, <1>4, <3>4, Round DEF Enabling
      <4> QED
        BY <1>1, <3>2, <4>1, <4>2 DEF Near
    <3> QED
      BY <3>3, <3>4
  <2> QED
    BY <1>1, <1>2, <2>2, <2>3, <2>4, <2>5 DEF Enabling, Waiting
<1> QED
  BY <1>3, <1>4

\* Requests only add commands.
LEMMA RequestEnables ==
    ASSUME EInv, Request, NEW s \in Servo
    PROVE  Enabling(s)'
<1>1. /\ StateOf(s)' = StateOf(s) /\ drive'[s] = drive[s] /\ cw'[s] = cw[s]
      /\ (Fresh(s)' <=> Fresh(s)) /\ (Near(s)' <=> Near(s))
  BY DEF Request, Poll, SetPosition, SetAllPositions, AskFor, StateOf, Fresh, Near
<1>2. sem[s] > 0 => sem'[s] > 0
  <2>1. s \in 0..N /\ sem[s] \in Int
    BY ServoAssumption DEF Servo, EInv, IInv, TypeOK
  <2>2. sem'[s] = sem[s] \/ sem'[s] = sem[s] + 1
    BY <2>1 DEF Request, Poll, SetPosition, SetAllPositions, AskFor
  <2> QED
    BY <2>1, <2>2
<1> QED
  BY <1>1, <1>2
     DEF EInv, Enabling, StepByStep, Waiting, AtSwitchOnDisabled, AtReadyToSwitchOn,
         AtSwitchedOn, AtOperationEnabled, AtFault, Pair

\* A frame brings a drive the controlword in the outputs; its return brings the
\* state and the place the drive had, where it still is unless it interpolates.
LEMMA ExchangeEnables ==
    ASSUME EInv, NEW R, NEW returned \in BOOLEAN, Exchange(R, returned), NEW s \in Servo
    PROVE  Enabling(s)'
<1>1. /\ Enabling(s) /\ drive[s] \in Drive /\ drive \in [Servo -> Drive]
      /\ drive[s].active => drive[s].state = "OperationEnabled"
  BY DEF EInv, IInv, TypeOK, ActiveEnabled
<1>2. cw'[s] = cw[s] /\ sem'[s] = sem[s] /\ out'[s] = out[s]
  BY DEF Exchange
<1>3. CASE s \notin R
  <2>1. inputs'[s] = inputs[s] /\ drive'[s] = drive[s]
    BY <1>3 DEF Exchange
  <2>2. /\ StateOf(s)' = StateOf(s)
        /\ (Fresh(s)' <=> Fresh(s)) /\ (Near(s)' <=> Near(s))
    BY <1>2, <2>1 DEF StateOf, Fresh, Near
  <2> QED
    BY <1>1, <1>2, <2>1, <2>2
       DEF Enabling, StepByStep, Waiting, AtSwitchOnDisabled, AtReadyToSwitchOn,
           AtSwitchedOn, AtOperationEnabled, AtFault, Pair
<1>4. CASE s \in R
  <2>1. drive'[s] = [drive[s] EXCEPT !.cw = cw[s],
                        !.position = IF drive[s].active THEN out[s] ELSE @]
    BY <1>4 DEF Exchange
  <2>2. /\ drive'[s].cw = cw[s] /\ drive'[s].state = drive[s].state
        /\ drive'[s].active = drive[s].active
        /\ ~drive[s].active => drive'[s].position = drive[s].position
    BY <1>1, <2>1 DEF Drive
  <2>3. ~drive[s].active => (Near(s)' <=> Near(s))
    BY <1>2, <2>2 DEF Near
  <2>4. drive[s].active => drive[s].state = "OperationEnabled" /\ cw[s] = CW_INTERPOLATE
    BY <1>1, Different DEF Enabling, StepByStep, AtOperationEnabled, Pair
  <2>5. CASE returned
    <3>1. /\ inputs'[s].status = StatusOf(drive[s])
          /\ inputs'[s].position = drive[s].position
      BY <1>4, <2>5 DEF Exchange
    <3>2. StateOf(s)' = drive[s].state
      BY <1>1, <3>1, Readings DEF StateOf, StateRead
    <3>3. ~drive[s].active => Fresh(s)'
      BY <2>2, <3>1 DEF Fresh
    <3>4. StepByStep(s)'
      BY <1>1, <1>2, <2>2, <2>4, <3>2, <3>3, Different
         DEF Enabling, StepByStep, AtSwitchOnDisabled, AtReadyToSwitchOn,
             AtSwitchedOn, AtOperationEnabled, AtFault, Pair
    <3> QED
      BY <1>1, <1>2, <2>2, <2>3, <2>4, <3>3, <3>4 DEF Enabling, Waiting
  <2>6. CASE ~returned
    <3>1. inputs'[s] = inputs[s]
      BY <2>6 DEF Exchange
    <3>2. StateOf(s)' = StateOf(s) /\ (~drive[s].active => (Fresh(s)' <=> Fresh(s)))
      BY <2>2, <3>1 DEF StateOf, Fresh
    <3>3. StepByStep(s)'
      BY <1>1, <1>2, <2>2, <2>4, <3>2, Different
         DEF Enabling, StepByStep, AtSwitchOnDisabled, AtReadyToSwitchOn,
             AtSwitchedOn, AtOperationEnabled, AtFault, Pair
    <3> QED
      BY <1>1, <1>2, <2>2, <2>3, <2>4, <3>2, <3>3 DEF Enabling, Waiting
  <2> QED
    BY <2>5, <2>6
<1> QED
  BY <1>3, <1>4

\* What leaves another drive, and all the words, alone keeps this one.
LEMMA OthersEnable ==
    ASSUME EInv, NEW s \in Servo, drive'[s] = drive[s],
           UNCHANGED <<cw, out, inputs, sem>>
    PROVE  Enabling(s)'
<1>1. /\ StateOf(s)' = StateOf(s)
      /\ (Fresh(s)' <=> Fresh(s)) /\ (Near(s)' <=> Near(s))
  BY DEF StateOf, Fresh, Near
<1> QED
  BY <1>1
     DEF EInv, Enabling, StepByStep, Waiting, AtSwitchOnDisabled, AtReadyToSwitchOn,
         AtSwitchedOn, AtOperationEnabled, AtFault, Pair

\* A drive that reacts goes to the state its controlword leads to, and starts to
\* interpolate only next to its target position.
LEMMA ReactEnables ==
    ASSUME EInv, NEW s \in Servo, React(s)
    PROVE  /\ Enabling(s)'
           /\ ~drive[s].active /\ drive'[s].active => Near(s)
<1>1. /\ Enabling(s) /\ drive[s] \in Drive /\ drive \in [Servo -> Drive]
      /\ drive[s].active => drive[s].state = "OperationEnabled"
      /\ drive[s].state \in DriveState /\ drive[s].cw \in Written
  BY DEF EInv, IInv, TypeOK, ActiveEnabled, Drive, Enabling
<1>2. /\ StateOf(s)' = StateOf(s) /\ cw'[s] = cw[s] /\ sem'[s] = sem[s]
      /\ drive'[s] = Reacted(drive[s])
  BY <1>1 DEF React, StateOf
<1>3. /\ drive'[s].state = NextState(drive[s].state, drive[s].cw)
      /\ drive'[s].cw = drive[s].cw /\ drive'[s].position = drive[s].position
      /\ drive'[s].active <=> /\ drive'[s].state = "OperationEnabled"
                              /\ drive[s].cw = CW_INTERPOLATE
  <2> DEFINE d == Reacted(drive[s])
  <2>1. /\ d.state = NextState(drive[s].state, drive[s].cw)
        /\ d.cw = drive[s].cw /\ d.position = drive[s].position
    BY <1>1 DEF Reacted, Drive
  <2>2. d.active <=> /\ NextState(drive[s].state, drive[s].cw) = "OperationEnabled"
                     /\ CW_IPM_ENABLE \subseteq drive[s].cw
    BY <1>1 DEF Reacted, Drive
  <2>3. CW_IPM_ENABLE \subseteq drive[s].cw <=> drive[s].cw = CW_INTERPOLATE
    BY <1>1, Different
  <2>4. drive'[s] = d
    BY <1>2
  <2> HIDE DEF d
  <2> QED
    BY <2>1, <2>2, <2>3, <2>4
<1>4. (Fresh(s)' <=> Fresh(s)) /\ (Near(s)' <=> Near(s))
  BY <1>2, <1>3 DEF React, Fresh, Near
<1>5. CASE drive[s].state = "SwitchOnDisabled"
  <2>1. drive'[s].state = IF drive[s].cw = CW_SHUTDOWN THEN "ReadyToSwitchOn"
                          ELSE "SwitchOnDisabled"
    BY <1>1, <1>3, <1>5, Transitions
  <2> QED
    BY <1>1, <1>2, <1>3, <1>4, <1>5, <2>1
       DEF Enabling, StepByStep, Waiting, AtSwitchOnDisabled, AtReadyToSwitchOn, Pair
<1>6. CASE drive[s].state = "ReadyToSwitchOn"
  <2>1. AtReadyToSwitchOn(s)
    BY <1>1, <1>6 DEF Enabling, StepByStep
  <2>2. drive'[s].state = IF drive[s].cw = CW_SWITCHON THEN "SwitchedOn"
                          ELSE "ReadyToSwitchOn"
    BY <1>1, <1>3, <1>6, <2>1, Transitions DEF AtReadyToSwitchOn, Pair
  <2> QED
    BY <1>1, <1>2, <1>3, <1>4, <1>6, <2>1, <2>2, Different
       DEF Enabling, StepByStep, Waiting, AtReadyToSwitchOn, AtSwitchedOn, Pair
<1>7. CASE drive[s].state = "SwitchedOn"
  <2>1. AtSwitchedOn(s)
    BY <1>1, <1>7 DEF Enabling, StepByStep
  <2>2. drive'[s].state = IF drive[s].cw = CW_ENABLEOP THEN "OperationEnabled"
                          ELSE "SwitchedOn"
    BY <1>1, <1>3, <1>7, <2>1, Transitions DEF AtSwitchedOn, Pair
  <2> QED
    BY <1>1, <1>2, <1>3, <1>4, <1>7, <2>1, <2>2, Different
       DEF Enabling, StepByStep, Waiting, AtSwitchedOn, AtOperationEnabled, Pair
<1>8. CASE drive[s].state = "OperationEnabled"
  <2>1. AtOperationEnabled(s)
    BY <1>1, <1>8 DEF Enabling, StepByStep
  <2>2. drive'[s].state = "OperationEnabled"
    BY <1>1, <1>3, <1>8, <2>1, Transitions DEF AtOperationEnabled, Pair
  <2>3. AtOperationEnabled(s)'
    BY <1>2, <1>3, <2>1, <2>2, Different DEF AtOperationEnabled, Pair
  <2>4. Waiting(s)'
    BY <1>1, <1>2, <1>3, <1>4, <1>8, <2>1, <2>2, Different
       DEF Enabling, Waiting, AtOperationEnabled, Pair
  <2>5. ~drive[s].active /\ drive'[s].active => Near(s)
    BY <1>1, <1>3, <1>8, <2>1, Different DEF Enabling, Waiting, AtOperationEnabled, Pair
  <2> QED
    BY <1>1, <1>2, <1>3, <2>2, <2>3, <2>4, <2>5 DEF Enabling, StepByStep
<1>9. CASE drive[s].state = "Fault"
  <2>1. drive'[s].state = "Fault"
    BY <1>1, <1>3, <1>9, Transitions
  <2> QED
    BY <1>1, <1>2, <1>3, <1>4, <1>9, <2>1
       DEF Enabling, StepByStep, Waiting, AtFault
<1> QED
  BY <1>1, <1>5, <1>6, <1>7, <1>8, <1>9 DEF DriveState

\* A drive that trips or is reset has to be enabled from the start.
LEMMA TroubleEnables ==
    ASSUME EInv, NEW s \in Servo, Trip(s) \/ Reset(s)
    PROVE  Enabling(s)' /\ ~(~drive[s].active /\ drive'[s].active)
<1>1. /\ Enabling(s) /\ drive[s] \in Drive /\ drive \in [Servo -> Drive]
      /\ drive[s].active => drive[s].state = "OperationEnabled"
  BY DEF EInv, IInv, TypeOK, ActiveEnabled
<1>2. StateOf(s)' = StateOf(s) /\ cw'[s] = cw[s] /\ sem'[s] = sem[s]
  BY DEF Trip, Reset, StateOf
<1>3. CASE Trip(s)
  <2>1. /\ drive[s].state \in {"SwitchedOn", "OperationEnabled"}
        /\ drive'[s].state = "Fault" /\ ~drive'[s].active
        /\ drive'[s].cw = drive[s].cw
    BY <1>1, <1>3 DEF Trip, Drive
  <2>2. AtFault(s)
    BY <1>1, <2>1, Different
       DEF Enabling, StepByStep, AtSwitchedOn, AtOperationEnabled, AtFault, Pair
  <2> QED
    BY <1>1, <1>2, <2>1, <2>2 DEF Enabling, StepByStep, Waiting, AtFault
<1>4. CASE Reset(s)
  <2>1. /\ drive[s].state = "Fault" /\ drive'[s].state = "SwitchOnDisabled"
        /\ drive'[s].active = drive[s].active /\ drive'[s].cw = drive[s].cw
    <3>1. PICK p \in Rest \cup {drive[s].position} :
             drive' = [drive EXCEPT ![s].state = "SwitchOnDisabled", ![s].position = p]
      BY <1>4 DEF Reset
    <3>2. drive'[s] = [drive[s] EXCEPT !.state = "SwitchOnDisabled", !.position = p]
      BY <1>1, <3>1
    <3> QED
      BY <1>1, <1>4, <3>2 DEF Reset, Drive
  <2>2. AtFault(s) /\ ~drive[s].active
    BY <1>1, <2>1 DEF Enabling, StepByStep
  <2> QED
    BY <1>1, <1>2, <2>1, <2>2
       DEF Enabling, StepByStep, Waiting, AtFault, AtSwitchOnDisabled
<1> QED
  BY <1>3, <1>4

\* The step of the inductive invariant, and of the property.
LEMMA EnablingInductive ==
    ASSUME EInv, [Next]_vars
    PROVE  /\ EInv'
           /\ \A s \in Servo : ~drive[s].active /\ drive'[s].active => Near(s)
<1>1. IInv'
  BY Inductive DEF EInv
<1> SUFFICES ASSUME NEW s \in Servo
             PROVE  Enabling(s)' /\ (~drive[s].active /\ drive'[s].active => Near(s))
  BY <1>1 DEF EInv
<1>2. CASE Control
  <2>1. drive'[s] = drive[s]
    BY <1>2 DEF Control
  <2> QED
    BY <1>2, <2>1, ControlEnables
<1>3. CASE Request
  <2>1. drive'[s] = drive[s]
    BY <1>3 DEF Request, Poll, SetPosition, SetAllPositions, AskFor
  <2> QED
    BY <1>3, <2>1, RequestEnables
<1>4. CASE GoodExchange \/ LossyExchange
  <2>1. PICK R \in SUBSET Servo, returned \in BOOLEAN : Exchange(R, returned)
    <3>1. CASE GoodExchange
      <4>1. Servo \in SUBSET Servo /\ TRUE \in BOOLEAN
        OBVIOUS
      <4> QED
        BY <3>1, <4>1 DEF GoodExchange
    <3>2. CASE LossyExchange
      BY <3>2 DEF LossyExchange
    <3> QED
      BY <1>4, <3>1, <3>2
  <2>2. drive'[s].active = drive[s].active
    <3>1. drive[s] \in Drive
      BY DEF EInv, IInv, TypeOK
    <3> QED
      BY <2>1, <3>1 DEF Exchange, Drive
  <2> QED
    BY <2>1, <2>2, ExchangeEnables
<1>5. CASE \E t \in Servo : React(t) \/ Trip(t) \/ Reset(t)
  <2>1. PICK t \in Servo : React(t) \/ Trip(t) \/ Reset(t)
    BY <1>5
  <2>2. CASE t = s
    BY <2>1, <2>2, ReactEnables, TroubleEnables
  <2>3. CASE t # s
    <3>1. drive'[s] = drive[s] /\ UNCHANGED <<cw, out, inputs, sem>>
      BY <2>1, <2>3 DEF React, Trip, Reset, EInv, IInv, TypeOK
    <3> QED
      BY <3>1, OthersEnable
  <2> QED
    BY <2>2, <2>3
<1>6. CASE UNCHANGED vars
  <2>1. drive'[s] = drive[s] /\ UNCHANGED <<cw, out, inputs, sem>>
    BY <1>6 DEF vars
  <2> QED
    BY <2>1, OthersEnable
<1> QED
  BY <1>2, <1>3, <1>4, <1>5, <1>6 DEF Next

\* However the threads, the requests, the lost frames and the faults
\* interleave, a drive that starts to interpolate finds a target position at
\* most one step away (ipm_debug.c:57-82): the guard of the code, that it works
\* on a drive only after it read the state it was waiting for, is enough.
THEOREM RestfulStart == Spec => StartsAtRest
<1>1. Init => EInv
  BY Initial, EnablingStarts DEF EInv
<1>2. EInv /\ [Next]_vars => EInv'
  BY EnablingInductive
<1>3. EInv /\ [Next]_vars
      => [\A s \in Servo :
             ~drive[s].active /\ drive'[s].active
             => out[s] - drive[s].position \in -Velocity..Velocity]_vars
  BY EnablingInductive DEF Near
<1> QED
  BY <1>1, <1>2, <1>3, PTL DEF Spec, StartsAtRest
=============================================================================
