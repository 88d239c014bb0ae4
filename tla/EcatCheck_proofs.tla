-------------------------- MODULE EcatCheck_proofs --------------------------
(***************************************************************************)
(* Theorems about EcatCheck for any number of slaves, failures and retries.*)
(***************************************************************************)
EXTENDS EcatCheck, TLAPS

\* As long as the network is open: the slaves a pass has left behind, if lost,
\* have set docheckstate; so has the one it is at, unless its second half is
\* about to find it again.
LostFlagged ==
    engine # "closed" =>
        /\ checker # "idle" => \A s \in Slave : s < slave /\ islost[s] => docheckstate
        /\ checker = "lost" /\ islost[slave] /\ state[slave] = "NONE" => docheckstate

\* A slave last read in INIT or PRE_OP is still there, however old the reading:
\* only ecatcheck takes it further, and reads it then.
ReadIsNear ==
    \A s \in Slave : state[s] \in {"INIT", "PRE_OP"} => al[s] \in {"INIT", "PRE_OP"}

IInv ==
    /\ TypeOK
    /\ checker = "lost" => slave \in Slave
    /\ LostFlagged
    /\ ReadIsNear
    /\ LostIsChecked

-----------------------------------------------------------------------------
\* At first every slave has just been read and none is lost.
LEMMA Initial == Init => IInv
<1> SUFFICES ASSUME Init PROVE IInv
  OBVIOUS
<1>1. SlaveCount \in Nat \ {0} /\ MaxDrops \in Nat /\ Retries \in Nat
  BY CountAssumption
<1>2. TypeOK
  <2>1. /\ al \in [Slave -> ALState \ {"NONE"}] /\ state \in [Slave -> ALState]
        /\ link \in [Slave -> BOOLEAN] /\ asked \in [Slave -> Asked]
        /\ islost \in [Slave -> BOOLEAN]
    BY DEF Init, ALState, Asked
  <2>2. /\ drops \in 0..MaxDrops /\ chk \in 0..Retries /\ slave \in 1..(SlaveCount + 1)
    BY <1>1 DEF Init
  <2>3. /\ docheckstate \in BOOLEAN /\ checker \in {"idle", "state", "lost"}
        /\ engine \in EnginePhase /\ expected \in BOOLEAN /\ wkcLow \in BOOLEAN
    BY DEF Init, EnginePhase
  <2> QED
    BY <2>1, <2>2, <2>3 DEF TypeOK
<1> QED
  BY <1>2 DEF Init, IInv, LostFlagged, ReadIsNear, LostIsChecked

\* The steps of ecatcheck.
LEMMA CheckerKeeps == IInv /\ CheckerStep => IInv'
<1> SUFFICES ASSUME IInv, CheckerStep PROVE IInv'
  OBVIOUS
<1>0. SlaveCount \in Nat \ {0} /\ MaxDrops \in Nat /\ Retries \in Nat
  BY CountAssumption
<1> USE <1>0
       DEF slaveVars, engineVars, Slave, ALState, Asked, EnginePhase, TypeOK,
           LostFlagged, ReadIsNear, LostIsChecked, IInv
<1>1. CASE StartPass
  <2>1. \A s \in Slave : /\ Answer(s) \in ALState
                         /\ Answer(s) = al[s] \/ Answer(s) = "NONE"
    BY DEF Answer
  <2>2. /\ state' = [s \in Slave |-> Answer(s)]
        /\ docheckstate' = FALSE /\ checker' = "state" /\ slave' = 1
        /\ UNCHANGED <<islost, al, link, asked, drops, engine, chk, expected, wkcLow>>
    BY <1>1 DEF StartPass, Answers
  <2>3. state' \in [Slave -> ALState]
    BY <2>1, <2>2
  <2>4. TypeOK'
    <3>1. slave' \in 1..(SlaveCount + 1)
      BY <2>2
    <3>2. checker' \in {"idle", "state", "lost"} /\ docheckstate' \in BOOLEAN
      BY <2>2
    <3> QED
      BY <2>2, <2>3, <3>1, <3>2
  <2>5. LostFlagged'
    BY <2>2
  <2>6. ReadIsNear'
    BY <2>1, <2>2
  <2>7. LostIsChecked'
    BY <2>2
  <2> QED
    BY <2>2, <2>4, <2>5, <2>6, <2>7
<1>2. CASE IsOperational
  BY <1>2 DEF IsOperational, ToLost
<1>3. CASE AckError
  BY <1>3 DEF AckError, Write, NotOperational, ToLost
<1>4. CASE AskOperational
  BY <1>4 DEF AskOperational, Write, NotOperational, ToLost
<1>5. CASE \E r \in {"NONE", "INIT", "PRE_OP", "SAFE_OP"} : Reconfigure(r)
  <2> PICK r \in {"NONE", "INIT", "PRE_OP", "SAFE_OP"} : Reconfigure(r)
    BY <1>5
  <2>1. /\ slave \in Slave /\ slave' = slave
        /\ checker' = "lost" /\ docheckstate' = TRUE
        /\ state' = [state EXCEPT ![slave] = r]
        /\ islost' = [islost EXCEPT ![slave] = @ /\ r = "NONE"]
        /\ UNCHANGED <<link, drops, engine, chk, expected, wkcLow>>
    BY DEF Reconfigure, NotOperational, ToLost
  <2>2. \/ link[slave] /\ r # "NONE" /\ al' = [al EXCEPT ![slave] = r]
           /\ asked' = [asked EXCEPT ![slave] = "nothing"]
        \/ r = "NONE" /\ UNCHANGED <<al, asked>>
    BY DEF Reconfigure
  <2>3. /\ state' \in [Slave -> ALState] /\ al' \in [Slave -> ALState \ {"NONE"}]
        /\ asked' \in [Slave -> Asked]
    <3>1. state' \in [Slave -> ALState]
      BY <2>1
    <3>2. al' \in [Slave -> ALState \ {"NONE"}]
      BY <2>2
    <3>3. asked' \in [Slave -> Asked]
      BY <2>2
    <3> QED
      BY <3>1, <3>2, <3>3
  <2>4. islost' \in [Slave -> BOOLEAN]
    <3>1. (islost[slave] /\ r = "NONE") \in BOOLEAN
      OBVIOUS
    <3> QED
      BY <2>1, <3>1
  <2>5. TypeOK'
    BY <2>1, <2>3, <2>4
  <2>6. ReadIsNear'
    BY <2>1, <2>2
  <2> QED
    BY <2>1, <2>5, <2>6
<1>6. CASE Recheck
  BY <1>6 DEF Recheck, NotOperational, ToLost, Answer
<1>7. CASE KnownLost
  BY <1>7 DEF KnownLost, NotOperational, ToLost
<1>8. CASE NotLost
  BY <1>8 DEF NotLost, NextSlave
<1>9. CASE \E ok \in BOOLEAN : Recover(ok)
  BY <1>9 DEF Recover, NextSlave
<1>10. CASE Found
  BY <1>10 DEF Found, NextSlave
<1>11. CASE EndPass
  BY <1>11 DEF EndPass
<1> QED
  BY <1>1, <1>2, <1>3, <1>4, <1>5, <1>6, <1>7, <1>8, <1>9, <1>10, <1>11
     DEF CheckerStep

\* The steps of the engine.
LEMMA EngineStepKeeps == IInv /\ EngineStep => IInv'
<1> SUFFICES ASSUME IInv, EngineStep PROVE IInv'
  OBVIOUS
<1>0. SlaveCount \in Nat \ {0} /\ MaxDrops \in Nat /\ Retries \in Nat
  BY CountAssumption
<1> USE <1>0
       DEF slaveVars, checkerVars, EngineKeeps, Slave, ALState, Asked, EnginePhase,
           TypeOK, LostFlagged, ReadIsNear, LostIsChecked, IInv
<1>1. CASE SetExpectedWKC
  BY <1>1 DEF SetExpectedWKC
<1>2. CASE SendValidData
  BY <1>2 DEF SendValidData
<1>3. CASE RequestOp
  BY <1>3 DEF RequestOp, Write
<1>4. CASE CheckOp
  BY <1>4 DEF CheckOp
<1>5. CASE GiveUp
  BY <1>5 DEF GiveUp, Write, Answers, Answer
<1>6. CASE Exchange
  BY <1>6 DEF Exchange, AllOp
<1> QED
  BY <1>1, <1>2, <1>3, <1>4, <1>5, <1>6
     DEF EngineStep

\* The steps of a slave.
LEMMA SlaveKeeps == ASSUME IInv, NEW s \in Slave, SlaveStep(s) PROVE IInv'
<1>0. SlaveCount \in Nat \ {0} /\ MaxDrops \in Nat /\ Retries \in Nat
  BY CountAssumption
<1> USE <1>0
       DEF checkerVars, engineVars, Slave, ALState, Asked, EnginePhase, TypeOK,
           LostFlagged, ReadIsNear, LostIsChecked, IInv
<1>1. CASE SlaveObeys(s)
  BY <1>1 DEF SlaveObeys, Obeys
<1>2. CASE SlaveTrips(s)
  BY <1>2 DEF SlaveTrips, Fails
<1>3. CASE SlaveRestarts(s)
  BY <1>3 DEF SlaveRestarts, Fails
<1>4. CASE LinkDrops(s)
  BY <1>4 DEF LinkDrops, Fails
<1>5. CASE LinkReturns(s)
  BY <1>5 DEF LinkReturns
<1> QED
  BY <1>1, <1>2, <1>3, <1>4, <1>5 DEF SlaveStep

\* Every step of both threads and of the slaves keeps the invariant.
LEMMA Inductive == IInv /\ [Next]_vars => IInv'
<1> SUFFICES ASSUME IInv, [Next]_vars PROVE IInv'
  OBVIOUS
<1>1. CASE CheckerStep
  BY <1>1, CheckerKeeps
<1>2. CASE EngineStep
  BY <1>2, EngineStepKeeps
<1>3. CASE \E s \in Slave : SlaveStep(s)
  BY <1>3, SlaveKeeps
<1>4. CASE UNCHANGED vars
  BY <1>4 DEF vars, IInv, TypeOK, LostFlagged, ReadIsNear, LostIsChecked
<1> QED
  BY <1>1, <1>2, <1>3, <1>4 DEF Next

\* So it holds always.
LEMMA InvariantHolds == Spec => []IInv
BY Initial, Inductive, PTL DEF Spec

\* The types hold for any number of slaves, failures and retries.
THEOREM TypeCorrect == Spec => []TypeOK
<1>1. IInv => TypeOK
  BY DEF IInv
<1> QED
  BY <1>1, InvariantHolds, PTL

\* No lost slave is forgotten: between two passes docheckstate stands for it,
\* whatever slaves did during the pass (ycoe_engine.c:64-120).
THEOREM LostChecked == Spec => []LostIsChecked
<1>1. IInv => LostIsChecked
  BY DEF IInv
<1> QED
  BY <1>1, InvariantHolds, PTL

-----------------------------------------------------------------------------
\* One step of OpIsKept.
KeepsOp ==
    \A s \in Slave : al[s] = "OP" /\ al'[s] # "OP"
        => drops' > drops \/ ~link[s] \/ asked[s] = "INIT"

\* ecatcheck reconfigures only a slave that was read in INIT or PRE_OP, which
\* by ReadIsNear it is in still; its other branches change no slave's state.
LEMMA CheckerKeepsOp == IInv /\ CheckerStep => KeepsOp
<1> SUFFICES ASSUME IInv, CheckerStep, NEW s \in Slave, al[s] = "OP"
             PROVE  al'[s] = "OP"
  BY DEF KeepsOp
<1>1. CASE \E r \in {"NONE", "INIT", "PRE_OP", "SAFE_OP"} : Reconfigure(r)
  <2> PICK r \in {"NONE", "INIT", "PRE_OP", "SAFE_OP"} : Reconfigure(r)
    BY <1>1
  <2>1. slave \in Slave /\ state[slave] \in {"INIT", "PRE_OP"}
    BY DEF Reconfigure, NotOperational, ToLost
  <2>2. s # slave
    BY <2>1 DEF IInv, ReadIsNear
  <2> QED
    BY <2>2 DEF Reconfigure, IInv, TypeOK
<1>2. CASE UNCHANGED al
  BY <1>2
<1> QED
  BY <1>1, <1>2
     DEF CheckerStep, StartPass, IsOperational, AckError, AskOperational,
         Recheck, KnownLost, NotLost, Recover, Found, NextSlave, EndPass, slaveVars

\* A slave obeys only what it was asked, and from OPERATIONAL only INIT; every
\* other way out of it is a failure, or goes with the link.
LEMMA SlaveKeepsOp == ASSUME IInv, NEW s \in Slave, SlaveStep(s) PROVE KeepsOp
<1> SUFFICES ASSUME NEW t \in Slave, al[t] = "OP", al'[t] # "OP"
             PROVE  drops' > drops \/ ~link[t] \/ asked[t] = "INIT"
  BY DEF KeepsOp
<1>1. drops \in Nat /\ al \in [Slave -> ALState \ {"NONE"}]
  BY CountAssumption DEF IInv, TypeOK
<1>2. CASE SlaveObeys(s)
  BY <1>1, <1>2 DEF SlaveObeys, Obeys
<1>3. CASE SlaveTrips(s) \/ SlaveRestarts(s)
  BY <1>1, <1>3 DEF SlaveTrips, SlaveRestarts, Fails
<1>4. CASE LinkDrops(s)
  BY <1>4 DEF LinkDrops
<1>5. CASE LinkReturns(s)
  BY <1>1, <1>5 DEF LinkReturns
<1> QED
  BY <1>2, <1>3, <1>4, <1>5 DEF SlaveStep

\* The two threads never undo each other: no slave is taken out of OPERATIONAL
\* on an old reading of its state (ycoe_engine.c:64-120 beside 188-261).
THEOREM OpKept == Spec => OpIsKept
<1>1. IInv /\ [Next]_vars => [KeepsOp]_vars
  <2> SUFFICES ASSUME IInv, Next PROVE KeepsOp
    OBVIOUS
  <2>1. CASE EngineStep
    BY <2>1 DEF EngineStep, SetExpectedWKC, SendValidData, RequestOp, CheckOp,
                GiveUp, Exchange, slaveVars, KeepsOp
  <2> QED
    BY <2>1, CheckerKeepsOp, SlaveKeepsOp DEF Next
<1> QED
  BY <1>1, InvariantHolds, PTL DEF Spec, OpIsKept, KeepsOp
=============================================================================
