--------------------------- MODULE CspMaster_proofs ---------------------------
(***************************************************************************)
(* Theorems about the ramp generator of CspMotion, for all positions, and  *)
(* about CspMaster, for any set of its programs, positions, requests,      *)
(* faults and lost frames, any period of the array and length of the ring. *)
(***************************************************************************)
EXTENDS CspMaster, StatusWord_proofs

\* One step of Newton's method on x at least halves a root that is too large,
\* but for rounding, and no more.
LEMMA NewtonStep ==
    ASSUME NEW x \in Nat, NEW r \in Nat, NEW k \in Nat, r >= 2 * k + 1
    PROVE  /\ (r + x \div r) \div 2 \in Nat
           /\ (r + x \div r) \div 2 >= k
<1> DEFINE q == x \div r
<1>1. q \in Nat
  OBVIOUS
<1> HIDE DEF q
<1>2. (r + q) \div 2 \in Nat /\ (r + q) \div 2 >= k
  BY <1>1
<1> QED
  BY <1>2 DEF q

\* From 63, six steps divide by 63 and then by at least 31, 15, 7, 3 and 1:
\* sqroot (ycoe_cyclicposition.c:114-131) never divides by zero, and returns
\* an integer that is not negative.
THEOREM SqrootDefined == ASSUME NEW x \in Nat PROVE sqroot(x) \in Nat
<1> DEFINE Step(r) == (r + x \div r) \div 2
           r1 == Step(63)
           r2 == Step(r1)
           r3 == Step(r2)
           r4 == Step(r3)
           r5 == Step(r4)
           r6 == Step(r5)
           g  == [n \in 0..6 |-> IF n = 0 THEN 63 ELSE IF n = 1 THEN r1
                                 ELSE IF n = 2 THEN r2 ELSE IF n = 3 THEN r3
                                 ELSE IF n = 4 THEN r4 ELSE IF n = 5 THEN r5 ELSE r6]
           root[n \in 0..6] ==
               IF n = 0 THEN 63 ELSE (root[n - 1] + x \div root[n - 1]) \div 2
<1>1. sqroot(x) = root[6]
  BY DEF sqroot
<1>2. g = [n \in 0..6 |-> IF n = 0 THEN 63 ELSE (g[n - 1] + x \div g[n - 1]) \div 2]
  <2> DEFINE Body(n) == IF n = 0 THEN 63 ELSE Step(g[n - 1])
  <2>1. /\ r1 = Step(63) /\ r2 = Step(r1) /\ r3 = Step(r2)
        /\ r4 = Step(r3) /\ r5 = Step(r4) /\ r6 = Step(r5)
    OBVIOUS
  <2> HIDE DEF r1, r2, r3, r4, r5, r6, Step
  <2>2. /\ g[0] = 63 /\ g[1] = r1 /\ g[2] = r2 /\ g[3] = r3
        /\ g[4] = r4 /\ g[5] = r5 /\ g[6] = r6
    OBVIOUS
  <2>3. g = [n \in 0..6 |-> g[n]]
    OBVIOUS
  <2> HIDE DEF g
  <2>4. \A n \in 0..6 : g[n] = Body(n)
    <3>1. 1 - 1 = 0 /\ 2 - 1 = 1 /\ 3 - 1 = 2 /\ 4 - 1 = 3 /\ 5 - 1 = 4 /\ 6 - 1 = 5
      OBVIOUS
    <3>2. g[0] = Body(0) /\ g[1] = Body(1) /\ g[2] = Body(2) /\ g[3] = Body(3)
      BY <2>1, <2>2, <3>1
    <3>3. g[4] = Body(4) /\ g[5] = Body(5) /\ g[6] = Body(6)
      BY <2>1, <2>2, <3>1
    <3> HIDE DEF Body
    <3> SUFFICES ASSUME NEW n \in 0..6 PROVE g[n] = Body(n)
      OBVIOUS
    <3>4. n \in {0, 1, 2, 3, 4, 5, 6}
      OBVIOUS
    <3> QED
      BY <3>2, <3>3, <3>4
  <2> HIDE DEF Body
  <2>5. g = [n \in 0..6 |-> Body(n)]
    BY <2>3, <2>4
  <2> QED
    BY <2>5 DEF Body, Step
<1>3. root = [n \in 0..6 |->
                 IF n = 0 THEN 63 ELSE (root[n - 1] + x \div root[n - 1]) \div 2]
  <2> HIDE DEF g
  <2> QED
    BY <1>2 DEF root
<1> HIDE DEF root, g
<1>4. /\ root[0] = 63 /\ root[1] = Step(root[0]) /\ root[2] = Step(root[1])
      /\ root[3] = Step(root[2]) /\ root[4] = Step(root[3])
      /\ root[5] = Step(root[4]) /\ root[6] = Step(root[5])
  <2> DEFINE Body(n) == IF n = 0 THEN 63 ELSE (root[n - 1] + x \div root[n - 1]) \div 2
  <2>1. \A n \in 0..6 : root[n] = Body(n)
    BY <1>3
  <2> QED
    BY <2>1
<1> HIDE DEF Step
<1>5. \A r, k \in Nat : r >= 2 * k + 1 => Step(r) \in Nat /\ Step(r) >= k
  BY NewtonStep DEF Step
<1>6. root[1] \in Nat /\ root[1] >= 31
  BY <1>4, <1>5
<1>7. root[2] \in Nat /\ root[2] >= 15
  BY <1>4, <1>5, <1>6
<1>8. root[3] \in Nat /\ root[3] >= 7
  BY <1>4, <1>5, <1>7
<1>9. root[4] \in Nat /\ root[4] >= 3
  BY <1>4, <1>5, <1>8
<1>10. root[5] \in Nat /\ root[5] >= 1
  BY <1>4, <1>5, <1>9
<1>11. root[6] \in Nat
  BY <1>4, <1>5, <1>10
<1> QED
  BY <1>1, <1>11

-----------------------------------------------------------------------------
\* A motion of the ramp generator: five integers.
Motion == [{"target", "peak", "ramp", "demand", "previous"} -> Int]

LEMMA Peaks == ASSUME NEW d \in Nat PROVE PeakVelocity(d) \in Int /\ RampDistance(d) \in Int
<1>1. d \div 65536 \in Nat /\ d * 16 \in Nat /\ d \div 2 \in Int
  OBVIOUS
<1>2. acceleration * 16 \in Nat
  BY AccelerationAssumption
<1> DEFINE a == sqroot(acceleration * 16)
           b == sqroot(d \div 65536)
           c == sqroot(d * 16)
<1>3. a \in Nat /\ b \in Nat /\ c \in Nat
  BY <1>1, <1>2, SqrootDefined
<1> HIDE DEF a, b, c
<1> DEFINE e == IF d > 1048576 THEN b * 1024 ELSE c
<1>4. 4 * a \in Nat /\ e \in Nat
  BY <1>3
<1> HIDE DEF e
<1>5. 4 * a * e \in Nat
  BY <1>4
<1>6. (4 * a * e) \div 16 \in Int
  BY <1>5
<1>7. PeakVelocity(d) = IF d > max_2ramp_distance THEN 1600000 ELSE (4 * a * e) \div 16
  BY DEF PeakVelocity, a, b, c, e
<1>8. PeakVelocity(d) \in Int
  BY <1>6, <1>7
<1>9. RampDistance(d) \in Int
  BY <1>1 DEF RampDistance
<1> QED
  BY <1>8, <1>9

\* A request leaves a motion (ycoe_cyclicposition.c:143-170).
LEMMA Requested ==
    ASSUME NEW m \in Motion, NEW own \in Int, NEW p \in Int
    PROVE  ycoe_csp_set_position(m, own, p) \in Motion
<1>1. Distance(p, own) \in Nat
  BY DEF Distance
<1>2. PeakVelocity(Distance(p, own)) \in Int /\ RampDistance(Distance(p, own)) \in Int
  BY <1>1, Peaks
<1> QED
  BY <1>2 DEF ycoe_csp_set_position, Motion

\* The demand velocity goes towards the one wanted, by no more than the
\* acceleration, and never past it.
LEMMA DemandStep ==
    ASSUME NEW v \in Int, NEW w \in Int
    PROVE  /\ Towards(v, w) \in Int
           /\ Towards(v, w) - v \in -acceleration..acceleration
           /\ v <= w => Towards(v, w) \in v..w
           /\ w <= v => Towards(v, w) \in w..v
BY AccelerationAssumption DEF Towards

\* One cycle of an axis (ycoe_cyclicposition.c:171-227): it is done only within
\* its ramp and acceleration50 counts of its target, which it is then sent to;
\* before, its demand velocity changes by no more than the acceleration, and
\* the target position is the lower axis' position and the demand velocity.
THEOREM OneCycle ==
    ASSUME NEW m \in Motion, NEW own \in Int, NEW low \in Int
    PROVE  LET way == ycoe_csp_goto_possync(m, own, low) IN
           /\ way.motion \in Motion /\ way.out \in Int /\ way.done \in BOOLEAN
           /\ way.done => /\ way.out = m.target
                          /\ m.target - low \in -acceleration50..acceleration50
           /\ ~way.done =>
                 /\ way.out = low + way.motion.demand
                 /\ way.motion.demand - m.demand \in -acceleration..acceleration
<1>1. /\ m.target \in Int /\ m.peak \in Int /\ m.ramp \in Int /\ m.demand \in Int
      /\ m.previous \in Int
  BY DEF Motion
<1> DEFINE gap  == m.target - low
           w    == WantedVelocity(m, gap)
           next == ycoe_csp_accel_ramp(m, own, w)
<1>2. gap \in Int
  BY <1>1
<1> HIDE DEF gap
<1>3. w \in Int
  <2>1. acceleration50 \in Int /\ acceleration50 > 0
    BY AccelerationAssumption
  <2> QED
    BY <1>1, <1>2, <2>1 DEF WantedVelocity
<1> HIDE DEF w
<1>4. /\ next \in Motion
      /\ next.demand \in Int /\ next.demand - m.demand \in -acceleration..acceleration
  <2> DEFINE d == IF own = m.previous THEN m.demand ELSE Towards(m.demand, w)
  <2>1. d \in Int /\ d - m.demand \in -acceleration..acceleration
    <3>1. acceleration \in Nat
      BY AccelerationAssumption
    <3>2. /\ Towards(m.demand, w) \in Int
          /\ Towards(m.demand, w) - m.demand \in -acceleration..acceleration
      BY <1>1, <1>3, DemandStep
    <3>3. CASE own = m.previous
      BY <1>1, <3>1, <3>3
    <3>4. CASE own # m.previous
      BY <3>2, <3>4
    <3> QED
      BY <3>3, <3>4
  <2>2. next = [m EXCEPT !.demand = d, !.previous = own]
    BY DEF ycoe_csp_accel_ramp
  <2> HIDE DEF d
  <2> QED
    BY <2>1, <2>2 DEF Motion
<1> HIDE DEF next
<1> DEFINE way == ycoe_csp_goto_possync(m, own, low)
<1>5. way = IF Near(m, gap)
            THEN [motion |-> [m EXCEPT !.demand = 0], out |-> m.target, done |-> TRUE]
            ELSE [motion |-> next, out |-> low + next.demand, done |-> FALSE]
  BY DEF ycoe_csp_goto_possync, gap, next, w
<1> HIDE DEF way
<1>6. CASE Near(m, gap)
  <2>1. /\ way.motion = [m EXCEPT !.demand = 0] /\ way.out = m.target /\ way.done = TRUE
    BY <1>5, <1>6
  <2>2. way.motion \in Motion
    BY <2>1 DEF Motion
  <2>3. m.target - low \in -acceleration50..acceleration50
    BY <1>6 DEF Near, gap
  <2>4. /\ way.motion \in Motion /\ way.out \in Int /\ way.done \in BOOLEAN
        /\ way.out = m.target /\ way.done
    BY <1>1, <2>1, <2>2
  <2> QED
    BY <2>3, <2>4 DEF way
<1>7. CASE ~Near(m, gap)
  <2>1. way.motion = next /\ way.out = low + next.demand /\ way.done = FALSE
    BY <1>5, <1>7
  <2>2. /\ way.motion \in Motion /\ way.out \in Int /\ way.done \in BOOLEAN
        /\ way.out = low + way.motion.demand /\ ~way.done
        /\ way.motion.demand - m.demand \in -acceleration..acceleration
    <3>1. way.done \in BOOLEAN /\ ~way.done
      BY <2>1
    <3>2. /\ way.motion \in Motion /\ way.out = low + way.motion.demand
          /\ way.motion.demand \in Int
          /\ way.motion.demand - m.demand \in -acceleration..acceleration
      BY <1>4, <2>1
    <3>3. way.out \in Int
      BY <3>2
    <3> QED
      BY <3>1, <3>2, <3>3
  <2> QED
    BY <2>2 DEF way
<1> QED
  BY <1>6, <1>7

-----------------------------------------------------------------------------
\* Every step keeps the types: a command semaphore never exceeds the requests
\* made so far and the one command of switching the drive on.
SemCounted == \A s \in Axis : sem[s] <= spent.requests + 1

IInv == TypeOK /\ SemCounted

\* What the control logic reads out of the words it may find.
LEMMA Readings ==
    /\ \A st \in DriveState : StateBits[st] \in Reported /\ StateRead[StateBits[st]] = st
    /\ {} \in Reported /\ StateRead[{}] = "Fault"
    /\ \A w \in Reported : StateRead[w] \in DriveState
<1>1. /\ StateBits["SwitchOnDisabled"] = {6}
      /\ StateBits["ReadyToSwitchOn"] = {0, 5}
      /\ StateBits["SwitchedOn"] = {0, 1, 5}
      /\ StateBits["OperationEnabled"] = {0, 1, 2, 5}
      /\ StateBits["Fault"] = {3}
  BY DEF StateBits, DriveState, SW_SWITCHON_DISABLED, SW_RTSO, SW_SWITCHED_ON,
         SW_OP_ENABLED, SW_FAULT
<1>2. \A w : /\ HasStatus(w, SW_SWITCHON_DISABLED) <=> w \cap {6} = {6}
             /\ HasStatus(w, SW_RTSO) <=> w \cap {0, 1, 2, 3, 5} = {0, 5}
             /\ HasStatus(w, SW_SWITCHED_ON) <=> w \cap {0, 1, 2, 3, 5} = {0, 1, 5}
             /\ HasStatus(w, SW_OP_ENABLED) <=> w \cap {0, 1, 2, 3, 5} = {0, 1, 2, 5}
  BY StatusTestsExact
     DEF Masked, SW_MASK_SWON_DISABLED, SW_MASK_RSOQ, SW_SWITCHON_DISABLED,
         SW_RTSO, SW_SWITCHED_ON, SW_OP_ENABLED
<1>3. Seen({6}) = "SwitchOnDisabled"
  BY <1>2 DEF Seen
<1>4. Seen({0, 5}) = "ReadyToSwitchOn"
  <2>1. 6 \notin {0, 5}
    OBVIOUS
  <2> QED
    BY <1>2, <2>1 DEF Seen
<1>5. Seen({0, 1, 5}) = "SwitchedOn"
  <2> DEFINE w == {0, 1, 5}
  <2>1. w \cap {6} # {6} /\ w \cap {0, 1, 2, 3, 5} # {0, 5}
           /\ w \cap {0, 1, 2, 3, 5} = {0, 1, 5}
    OBVIOUS
  <2> QED
    BY <1>2, <2>1 DEF Seen
<1>6. Seen({0, 1, 2, 5}) = "OperationEnabled"
  <2> DEFINE w == {0, 1, 2, 5}
  <2>1. w \cap {6} # {6} /\ w \cap {0, 1, 2, 3, 5} # {0, 5}
           /\ w \cap {0, 1, 2, 3, 5} # {0, 1, 5}
           /\ w \cap {0, 1, 2, 3, 5} = {0, 1, 2, 5}
    OBVIOUS
  <2> QED
    BY <1>2, <2>1 DEF Seen
<1>7. ASSUME NEW w \in {{}, {3}} PROVE Seen(w) = "Fault"
  <2>1. 0 \notin w /\ 6 \notin w
    OBVIOUS
  <2> QED
    BY <1>2, <2>1 DEF Seen
<1>8. /\ \A st \in DriveState : StateBits[st] \in Reported
      /\ {} \in Reported
      /\ \A w \in Reported : StateRead[w] = Seen(w)
      /\ \A w \in Reported : w = {} \/ \E st \in DriveState : w = StateBits[st]
  BY DEF Reported, StateRead
<1>9. \A st \in DriveState : Seen(StateBits[st]) = st
  BY <1>1, <1>3, <1>4, <1>5, <1>6, <1>7 DEF DriveState
<1>10. Seen({}) = "Fault" /\ "Fault" \in DriveState
  BY <1>7 DEF DriveState
<1> QED
  BY <1>8, <1>9, <1>10

LEMMA Initial == Init => IInv
<1> SUFFICES ASSUME Init PROVE IInv
  OBVIOUS
<1>1. program \in Programs /\ MaxTroubles[program] \in Nat
  BY BoundsAssumption DEF Init
<1>2. {} \in Word /\ {} \in Reported
  BY DEF Word, Reported
<1>3. motion \in [Axis -> Motion]
  BY DEF Init, NewMotion, Motion
<1>4. index \in 0..Period - 1 /\ graph \in [at : 0..Ring - 1, position : Int]
  <2>1. Period \in Nat \ {0} /\ Ring \in Nat \ {0}
    BY BoundsAssumption
  <2>2. 0 \in 0..Period - 1 /\ Ring - 1 \in 0..Ring - 1
    BY <2>1
  <2> QED
    BY <2>2 DEF Init
<1>5. drive \in [Axis -> [state : DriveState, cw : Word, position : Int]]
  <2> DEFINE D == [state : DriveState, cw : Word, position : Int]
             P == {[state |-> "SwitchOnDisabled", cw |-> {}, position |-> p] : p \in Rest}
  <2>1. P \subseteq D
    BY <1>2, PositionAssumption DEF DriveState
  <2>2. drive \in [Axis -> P]
    BY DEF Init
  <2> HIDE DEF P, D
  <2>3. drive \in [Axis -> D]
    BY <2>1, <2>2
  <2> QED
    BY <2>3 DEF D
<1>6. spent \in [requests : 0..MaxRequests, troubles : 0..MaxTroubles[program]]
  BY <1>1, BoundsAssumption DEF Init
<1>7. sem \in [Axis -> 0..MaxRequests + 1] /\ SemCounted
  BY BoundsAssumption DEF Init, SemCounted
<1>8. skipped \in [Axis -> Int]
  BY DEF Init
<1> QED
  BY <1>1, <1>2, <1>3, <1>4, <1>5, <1>6, <1>7, <1>8
     DEF IInv, TypeOK, Init, Motion

LEMMA StartUpKeeps ==
    IInv /\ (RampStartUp \/ DebugStartUp \/ SinStartUp \/ XenoStartUp) => IInv'
<1> SUFFICES ASSUME IInv, RampStartUp \/ DebugStartUp \/ SinStartUp \/ XenoStartUp
             PROVE  IInv'
  OBVIOUS
<1>1. /\ UNCHANGED <<program, server, turned, drive, spent>>
      /\ phase' \in {"init", "noNetwork", "config", "mapped", "cyclic",
                  "closed", "crashed"}
  BY DEF RampStartUp, DebugStartUp, SinStartUp, XenoStartUp, StartUp, NoNetwork,
         FindSlaves, MapImage, ReachOp, GiveUp, catch_signal, Goes
<1> QED
  BY <1>1 DEF IInv, TypeOK, SemCounted, server, turned

\* The control logic of any of the programs.
AnyControl == RampControl \/ DebugControl \/ SinControl \/ XenoControl

LEMMA ControlKeeps ==
    ASSUME IInv, AnyControl
    PROVE  /\ motion' \in [Axis -> Motion]
           /\ out' \in [Axis -> Int]
           /\ index' \in 0..Period - 1
           /\ sem' \in [Axis -> 0..MaxRequests + 1]
           /\ \A s \in Axis : sem'[s] <= spent.requests + 1
<1>1. /\ motion \in [Axis -> Motion] /\ out \in [Axis -> Int] /\ index \in 0..Period - 1
      /\ sem \in [Axis -> 0..MaxRequests + 1] /\ spent.requests \in 0..MaxRequests
      /\ inputs \in [Axis -> [status : Reported, position : Int]]
      /\ \A s \in Axis : sem[s] <= spent.requests + 1
      /\ MaxRequests \in Nat /\ Period \in Nat \ {0}
  BY BoundsAssumption DEF IInv, TypeOK, SemCounted, Motion
<1>2. \A s \in Axis : EnableSem(s) \in 0..MaxRequests + 1 /\ EnableSem(s) <= spent.requests + 1
  BY <1>1 DEF EnableSem
<1>3. ASSUME NEW follow, ArrayControl(follow)
      PROVE  /\ motion' = motion /\ out' \in [Axis -> Int] /\ index' \in 0..Period - 1
             /\ sem' = [s \in Axis |-> EnableSem(s)]
  <2>1. ycoe_csp_follow_posarray(index) \in 0..Period - 1
    BY <1>1 DEF ycoe_csp_follow_posarray
  <2>2. index' \in 0..Period - 1
    BY <1>1, <1>3, <2>1 DEF ArrayControl
  <2>3. out' \in [Axis -> Int]
    BY <1>1, <1>3, <2>2 DEF ArrayControl
  <2> QED
    BY <1>3, <2>2, <2>3 DEF ArrayControl
<1>4. CASE RampControl
  <2>1. Low \in Int /\ 1 \in Axis /\ 2 \in Axis
    BY <1>1 DEF Low, Axis
  <2>2. ASSUME NEW s \in Axis
        PROVE  Way(s).motion \in Motion /\ Way(s).out \in Int
    BY <1>1, <2>1, OneCycle DEF Way
  <2>3. motion' \in [Axis -> Motion]
    BY <1>1, <1>4, <2>2 DEF RampControl
  <2>4. out' \in [Axis -> Int]
    BY <1>1, <1>4, <2>2 DEF RampControl
  <2>5. ASSUME NEW s \in Axis
        PROVE  sem'[s] \in 0..MaxRequests + 1 /\ sem'[s] <= spent.requests + 1
    <3>1. sem'[s] = IF Moves(s) /\ Way(s).done THEN sem[s] - 1 ELSE EnableSem(s)
      BY <1>4 DEF RampControl
    <3>2. CASE Moves(s) /\ Way(s).done
      BY <1>1, <3>1, <3>2 DEF Moves
    <3>3. CASE ~(Moves(s) /\ Way(s).done)
      BY <1>2, <3>1, <3>3
    <3> QED
      BY <3>2, <3>3
  <2>6. sem' = [s \in Axis |-> sem'[s]]
    BY <1>4 DEF RampControl
  <2>7. index' \in 0..Period - 1
    BY <1>1, <1>4 DEF RampControl
  <2> QED
    BY <2>3, <2>4, <2>5, <2>6, <2>7
<1>5. CASE DebugControl
  <2>1. PICK positive \in BOOLEAN : ArrayControl(BothEnabled /\ positive)
    BY <1>5 DEF DebugControl
  <2> QED
    BY <1>1, <1>2, <1>3, <2>1
<1>6. CASE SinControl
  <2>1. PICK positive \in BOOLEAN : ArrayControl(BothEnabled /\ positive)
    BY <1>6 DEF SinControl
  <2> QED
    BY <1>1, <1>2, <1>3, <2>1
<1>7. CASE XenoControl
  BY <1>1, <1>2, <1>3, <1>7 DEF XenoControl
<1> QED
  BY <1>4, <1>5, <1>6, <1>7 DEF AnyControl

\* The controlword an axis is sent.
LEMMA EnableCwWord == ASSUME TypeOK, NEW s \in Axis PROVE EnableCw(s) \in Word
<1>1. cw[s] \in Word
  BY DEF TypeOK
<1>2. CW_SHUTDOWN \in Word /\ CW_SWITCHON \in Word /\ CW_ENABLEOP \in Word
  BY DEF Word, Bits, CW_SHUTDOWN, CW_SWITCHON, CW_ENABLEOP
<1> QED
  BY <1>1, <1>2 DEF EnableCw

LEMMA ExchangeKeeps ==
    ASSUME IInv, NEW R \in SUBSET Axis, NEW returned \in BOOLEAN,
           Complete(R, returned) \/ spent.troubles < MaxTroubles[program],
           out' \in [Axis -> Int],
           Exchange(R, returned)
    PROVE  /\ program' = program /\ phase' = phase
           /\ cw' \in [Axis -> Word]
           /\ inputs' \in [Axis -> [status : Reported, position : Int]]
           /\ drive' \in [Axis -> [state : DriveState, cw : Word, position : Int]]
           /\ skipped' \in [Axis -> Int]
           /\ spent' \in [requests : 0..MaxRequests, troubles : 0..MaxTroubles[program]]
           /\ spent'.requests = spent.requests
<1> DEFINE I == [status : Reported, position : Int]
           D == [state : DriveState, cw : Word, position : Int]
<1>1. /\ TypeOK /\ inputs \in [Axis -> I] /\ drive \in [Axis -> D]
      /\ spent \in [requests : 0..MaxRequests, troubles : 0..MaxTroubles[program]]
      /\ MaxRequests \in Nat /\ MaxTroubles[program] \in Nat
  BY BoundsAssumption DEF IInv, TypeOK
<1>2. program' = program /\ phase' = phase
  BY DEF Exchange
<1>3. cw' \in [Axis -> Word]
  BY <1>1, EnableCwWord DEF Exchange
<1>4. ASSUME NEW s \in Axis
      PROVE  [status |-> StateBits[drive[s].state], position |-> drive[s].position] \in I
  BY <1>1, Readings
<1>5. inputs' = [s \in Axis |->
          IF s \in R /\ returned
          THEN [status |-> StateBits[drive[s].state], position |-> drive[s].position]
          ELSE inputs[s]]
  BY DEF Exchange
<1>6. inputs' \in [Axis -> I]
  <2> HIDE DEF I
  <2> QED
    BY <1>1, <1>4, <1>5
<1>7. ASSUME NEW s \in Axis, NEW p \in Int
      PROVE  [drive[s] EXCEPT !.cw = cw'[s], !.position = p] \in D
  BY <1>1, <1>3
<1>8. ASSUME NEW s \in Axis PROVE drive'[s] \in D
  <2> DEFINE p == IF drive[s].state = "OperationEnabled" THEN out'[s] ELSE drive[s].position
  <2>1. p \in Int
    BY <1>1
  <2>2. drive'[s] = IF s \notin R THEN drive[s]
                    ELSE [drive[s] EXCEPT !.cw = cw'[s], !.position = p]
    BY DEF Exchange
  <2> HIDE DEF p, D
  <2> QED
    BY <1>1, <1>7, <2>1, <2>2
<1>9. drive' = [s \in Axis |-> drive'[s]]
  BY DEF Exchange
<1>10. drive' \in [Axis -> D]
  <2> HIDE DEF D
  <2> QED
    BY <1>8, <1>9
<1>11. /\ spent' \in [requests : 0..MaxRequests, troubles : 0..MaxTroubles[program]]
       /\ spent'.requests = spent.requests
  <2>1. CASE Complete(R, returned)
    BY <1>1, <2>1 DEF Exchange
  <2>2. CASE ~Complete(R, returned)
    <3>1. spent' = [spent EXCEPT !.troubles = @ + 1]
      BY <2>2 DEF Exchange
    <3>2. spent.troubles + 1 \in 0..MaxTroubles[program]
      BY <1>1, <2>2
    <3> QED
      BY <1>1, <3>1, <3>2
  <2> QED
    BY <2>1, <2>2
<1>12. skipped' \in [Axis -> Int]
  <2>1. \A a, b \in Int : Ahead(a, b) \in Int
    <3>1. Period \in Nat \ {0}
      BY BoundsAssumption
    <3> QED
      BY <3>1 DEF Ahead
  <2>2. \A s \in Axis : drive[s].position \in Int /\ drive'[s].position \in Int
    BY <1>1, <1>10
  <2>3. ASSUME NEW s \in Axis PROVE PassedOver(s) \in Int
    <3> DEFINE g == Ahead(drive[s].position, drive'[s].position)
    <3>1. g \in Int /\ g - 1 \in Int
      <4>1. g \in Int
        BY <2>1, <2>2
      <4> QED
        BY <4>1
    <3>2. PassedOver(s) = g - 1 \/ PassedOver(s) = 0
      BY DEF PassedOver
    <3> HIDE DEF g
    <3> QED
      BY <3>1, <3>2
  <2>4. skipped \in [Axis -> Int]
    BY <1>1 DEF TypeOK
  <2>5. ASSUME NEW s \in Axis PROVE skipped[s] + PassedOver(s) \in Int
    BY <2>3, <2>4
  <2>6. skipped' = [s \in Axis |-> skipped[s] + PassedOver(s)]
    BY DEF Exchange
  <2> QED
    BY <2>5, <2>6
<1> QED
  BY <1>2, <1>3, <1>6, <1>10, <1>11, <1>12

\* A turn of the cycle keeps the types if it may lose the frame f it loses.
LEMMA TurnKeeps ==
    ASSUME IInv, NEW R \in SUBSET Axis, NEW returned \in BOOLEAN,
           Complete(R, returned) \/ spent.troubles < MaxTroubles[program],
           AnyControl, Exchange(R, returned),
           Graph(R, returned) \/ UNCHANGED graph
    PROVE  IInv'
<1>1. /\ motion' \in [Axis -> Motion]
      /\ out' \in [Axis -> Int]
      /\ index' \in 0..Period - 1
      /\ sem' \in [Axis -> 0..MaxRequests + 1]
      /\ \A s \in Axis : sem'[s] <= spent.requests + 1
  BY ControlKeeps
<1>2. /\ program' = program /\ phase' = phase
      /\ cw' \in [Axis -> Word]
      /\ inputs' \in [Axis -> [status : Reported, position : Int]]
      /\ drive' \in [Axis -> [state : DriveState, cw : Word, position : Int]]
      /\ skipped' \in [Axis -> Int]
      /\ spent' \in [requests : 0..MaxRequests, troubles : 0..MaxTroubles[program]]
      /\ spent'.requests = spent.requests
  BY <1>1, ExchangeKeeps
<1>3. graph' \in [at : 0..Ring - 1, position : Int]
  <2>1. graph \in [at : 0..Ring - 1, position : Int] /\ Ring \in Nat \ {0}
    BY BoundsAssumption DEF IInv, TypeOK
  <2>2. NextPlace(graph.at) \in 0..Ring - 1
    BY <2>1 DEF NextPlace
  <2>3. inputs'[1].position \in Int
    BY <1>2 DEF Axis
  <2> QED
    BY <2>1, <2>2, <2>3 DEF Graph
<1> QED
  BY <1>1, <1>2, <1>3 DEF IInv, TypeOK, SemCounted, Motion

\* The parts every turn has.
LEMMA TurnParts ==
    ASSUME NEW f \in Frame, Turn(f)
    PROVE  /\ f[1] \in SUBSET Axis /\ f[2] \in BOOLEAN
           /\ AnyControl /\ Exchange(f[1], f[2])
           /\ Graph(f[1], f[2]) \/ UNCHANGED graph
<1>1. f[1] \in SUBSET Axis /\ f[2] \in BOOLEAN
  <2>1. ASSUME NEW R \in SUBSET Axis, NEW b \in BOOLEAN, f = <<R, b>>
        PROVE  f[1] \in SUBSET Axis /\ f[2] \in BOOLEAN
    <3>1. f[1] = R /\ f[2] = b
      BY <2>1
    <3> QED
      BY <3>1
  <2>2. {} \in SUBSET Axis /\ {1} \in SUBSET Axis /\ Axis \in SUBSET Axis
    BY DEF Axis
  <2>3. \/ f = <<Axis, TRUE>> \/ f = <<Axis, FALSE>> \/ f = <<{1}, TRUE>>
        \/ f = <<{}, FALSE>>
    BY DEF Frame
  <2> QED
    BY <2>1, <2>2, <2>3
<1> QED
  BY <1>1 DEF Turn, RampCycle, DebugCycle, SinCycle, XenoCycle, AnyControl

LEMMA CycleKeeps == IInv /\ (GoodCycle \/ LossyCycle) => IInv'
<1> SUFFICES ASSUME IInv, GoodCycle \/ LossyCycle PROVE IInv'
  OBVIOUS
<1>1. PICK f \in Frame :
         /\ Turn(f)
         /\ Complete(f[1], f[2]) \/ spent.troubles < MaxTroubles[program]
  BY DEF GoodCycle, LossyCycle, Frame, Complete
<1> QED
  BY <1>1, TurnParts, TurnKeeps

LEMMA RequestKeeps == IInv /\ (RampRequest \/ DebugRequest) => IInv'
<1> SUFFICES ASSUME IInv, RampRequest \/ DebugRequest PROVE IInv'
  OBVIOUS
<1>1. CASE TooEarly
  BY <1>1 DEF TooEarly, IInv, TypeOK, SemCounted, server, turned
<1>2. ASSUME NEW A \in SUBSET Axis, NEW p \in Position, SetPositions(A, p)
      PROVE  IInv'
  <2>1. /\ motion \in [Axis -> Motion] /\ p \in Int
        /\ inputs \in [Axis -> [status : Reported, position : Int]]
        /\ sem \in [Axis -> 0..MaxRequests + 1] /\ MaxRequests \in Nat
        /\ \A s \in Axis : sem[s] <= spent.requests + 1
        /\ spent \in [requests : 0..MaxRequests, troubles : 0..MaxTroubles[program]]
        /\ spent.requests < MaxRequests
    BY <1>2, BoundsAssumption, PositionAssumption
       DEF IInv, TypeOK, SemCounted, Motion, SetPositions, HasRequests
  <2>2. motion' \in [Axis -> Motion]
    <3>1. \A s \in Axis :
             ycoe_csp_set_position(motion[s], inputs[s].position, p) \in Motion
      BY <2>1, Requested
    <3> QED
      BY <1>2, <2>1, <3>1 DEF SetPositions
  <2>3. /\ spent' \in [requests : 0..MaxRequests, troubles : 0..MaxTroubles[program]]
        /\ spent'.requests = spent.requests + 1
    BY <1>2, <2>1 DEF SetPositions
  <2>4. /\ sem' \in [Axis -> 0..MaxRequests + 1]
        /\ \A s \in Axis : sem'[s] <= spent.requests + 2
    BY <1>2, <2>1 DEF SetPositions
  <2>5. UNCHANGED <<program, phase, turned, drive>>
    BY <1>2 DEF SetPositions
  <2>6. SemCounted'
    BY <2>1, <2>3, <2>4 DEF SemCounted
  <2> QED
    BY <2>2, <2>3, <2>4, <2>5, <2>6 DEF IInv, TypeOK, Motion, turned
<1> QED
  BY <1>1, <1>2 DEF RampRequest, DebugRequest, Asks

LEMMA DriveKeeps ==
    IInv /\ (\E s \in Axis : React(s) \/ Trip(s) \/ Reset(s)) => IInv'
<1> SUFFICES ASSUME IInv, NEW s \in Axis, React(s) \/ Trip(s) \/ Reset(s)
             PROVE  IInv'
  OBVIOUS
<1> DEFINE D == [state : DriveState, cw : Word, position : Int]
<1>1. drive \in [Axis -> D] /\ drive[s].state \in DriveState
  BY DEF IInv, TypeOK
<1>2. NextState(drive[s].state, drive[s].cw) \in DriveState
  BY <1>1 DEF NextState, DriveState
<1>3. ASSUME NEW st \in DriveState
      PROVE  [drive EXCEPT ![s].state = st] \in [Axis -> D]
  BY <1>1
<1>4. drive' \in [Axis -> D]
  <2>1. PICK st \in DriveState : drive' = [drive EXCEPT ![s].state = st]
    BY <1>2 DEF React, Trip, Reset, DriveState
  <2> QED
    BY <1>3, <2>1
<1>5. UNCHANGED <<program, phase, server, turned>>
  BY DEF React, Trip, Reset
<1>6. /\ spent' \in [requests : 0..MaxRequests, troubles : 0..MaxTroubles[program]]
      /\ spent'.requests = spent.requests
  <2>1. /\ MaxTroubles[program] \in Nat
        /\ spent \in [requests : 0..MaxRequests, troubles : 0..MaxTroubles[program]]
    BY BoundsAssumption DEF IInv, TypeOK
  <2> QED
    BY <2>1 DEF React, Trip, Reset
<1> QED
  BY <1>4, <1>5, <1>6 DEF IInv, TypeOK, SemCounted, server, turned

LEMMA Inductive == IInv /\ [Next]_vars => IInv'
<1> SUFFICES ASSUME IInv, [Next]_vars PROVE IInv'
  OBVIOUS
<1>1. CASE UNCHANGED vars
  BY <1>1 DEF vars, IInv, TypeOK, SemCounted
<1>2. CASE Next
  BY <1>2, StartUpKeeps, CycleKeeps, RequestKeeps, DriveKeeps DEF Next
<1> QED
  BY <1>1, <1>2

\* The variables keep their types in every program: in particular the graph
\* index stays inside its ring (csp_ramp.c:178-190), the array index inside the
\* array, and no semaphore goes below zero.
THEOREM TypeCorrect == Spec => []TypeOK
<1>1. Init => IInv
  BY Initial
<1>2. IInv /\ [Next]_vars => IInv'
  BY Inductive
<1>3. IInv => TypeOK
  BY DEF IInv
<1> QED
  BY <1>1, <1>2, <1>3, PTL DEF Spec

-----------------------------------------------------------------------------
\* A drive is enabled step by step, each step waiting for the report of the one
\* before: the controlword in the outputs, the one the drive has, the state it
\* is in and the state last read are never more than one step apart, whatever
\* frames are lost and whichever drive trips.
Written == {{}, CW_SHUTDOWN, CW_SWITCHON, CW_ENABLEOP}

Pair(s, read, received, sent) ==
    StateOf(s) = read /\ drive[s].cw = received /\ cw[s] = sent

AtSwitchOnDisabled(s) ==
    \/ /\ StateOf(s) = "SwitchOnDisabled"
       /\ drive[s].cw = CW_SHUTDOWN => cw[s] = CW_SHUTDOWN
    \/ /\ StateOf(s) # "SwitchOnDisabled"
       /\ drive[s].cw # CW_SHUTDOWN /\ cw[s] # CW_SHUTDOWN

AtReadyToSwitchOn(s) ==
    \/ Pair(s, "SwitchOnDisabled", CW_SHUTDOWN, CW_SHUTDOWN)
    \/ Pair(s, "ReadyToSwitchOn", CW_SHUTDOWN, CW_SHUTDOWN)
    \/ Pair(s, "ReadyToSwitchOn", CW_SHUTDOWN, CW_SWITCHON)
    \/ Pair(s, "ReadyToSwitchOn", CW_SWITCHON, CW_SWITCHON)

AtSwitchedOn(s) ==
    \/ Pair(s, "ReadyToSwitchOn", CW_SWITCHON, CW_SWITCHON)
    \/ Pair(s, "SwitchedOn", CW_SWITCHON, CW_SWITCHON)
    \/ Pair(s, "SwitchedOn", CW_SWITCHON, CW_ENABLEOP)
    \/ Pair(s, "SwitchedOn", CW_ENABLEOP, CW_ENABLEOP)

AtOperationEnabled(s) ==
    \/ Pair(s, "SwitchedOn", CW_ENABLEOP, CW_ENABLEOP)
    \/ Pair(s, "OperationEnabled", CW_ENABLEOP, CW_ENABLEOP)

AtFault(s) ==
    /\ StateOf(s) # "SwitchOnDisabled"
    /\ drive[s].cw # CW_SHUTDOWN /\ cw[s] # CW_SHUTDOWN

StepByStep(s) ==
    /\ cw[s] \in Written /\ drive[s].cw \in Written
    /\ drive[s].state = "SwitchOnDisabled" => AtSwitchOnDisabled(s)
    /\ drive[s].state = "ReadyToSwitchOn" => AtReadyToSwitchOn(s)
    /\ drive[s].state = "SwitchedOn" => AtSwitchedOn(s)
    /\ drive[s].state = "OperationEnabled" => AtOperationEnabled(s)
    /\ drive[s].state = "Fault" => AtFault(s)

\* The drive of axis s is off and the master does not know yet: it may let the
\* array go on once more before it does.
Unnoticed(s) ==
    IF StateOf(s) = "OperationEnabled" /\ drive[s].state # "OperationEnabled"
    THEN 1 ELSE 0

\* How far the drive of axis s lags behind the index, once it is on the array.
Behind(s) ==
    IF drive[s].position \in 0..Period - 1 THEN Ahead(drive[s].position, index) ELSE 0

\* Both outputs hold the sample of the index; and the samples a drive was sent
\* past, together with those it lags behind and will be sent past, are no more
\* than the disturbances, one of them spared for a fault still unnoticed.
Lag(s) ==
    program \in ArrayPrograms =>
        /\ out[s] = index
        /\ skipped[s] + Behind(s) + Unnoticed(s) <= spent.troubles

LInv == IInv /\ \A s \in Axis : StepByStep(s) /\ Lag(s)

\* The four controlwords differ, and where each of them takes a drive.
LEMMA Transitions ==
    /\ CW_SHUTDOWN # CW_SWITCHON /\ CW_SHUTDOWN # CW_ENABLEOP
    /\ CW_SWITCHON # CW_ENABLEOP /\ CW_SHUTDOWN # {}
    /\ \A c \in Written :
          /\ NextState("SwitchOnDisabled", c) =
                IF c = CW_SHUTDOWN THEN "ReadyToSwitchOn" ELSE "SwitchOnDisabled"
          /\ c \in {CW_SHUTDOWN, CW_SWITCHON} =>
                NextState("ReadyToSwitchOn", c) =
                   IF c = CW_SWITCHON THEN "SwitchedOn" ELSE "ReadyToSwitchOn"
          /\ c \in {CW_SWITCHON, CW_ENABLEOP} =>
                NextState("SwitchedOn", c) =
                   IF c = CW_ENABLEOP THEN "OperationEnabled" ELSE "SwitchedOn"
          /\ c = CW_ENABLEOP =>
                NextState("OperationEnabled", c) = "OperationEnabled"
          /\ NextState("Fault", c) = "Fault"
<1>1. /\ 0 \notin CW_SHUTDOWN /\ 1 \in CW_SHUTDOWN /\ 3 \notin CW_SHUTDOWN
      /\ 0 \in CW_SWITCHON /\ 1 \in CW_SWITCHON /\ 3 \notin CW_SWITCHON
      /\ 0 \in CW_ENABLEOP /\ 1 \in CW_ENABLEOP /\ 3 \in CW_ENABLEOP
  BY DEF CW_SHUTDOWN, CW_SWITCHON, CW_ENABLEOP
<1>2. /\ CW_SHUTDOWN # CW_SWITCHON /\ CW_SHUTDOWN # CW_ENABLEOP
      /\ CW_SWITCHON # CW_ENABLEOP /\ CW_SHUTDOWN # {}
      /\ CW_SWITCHON # {} /\ CW_ENABLEOP # {}
  BY <1>1
<1>3. IsDisable({}) /\ ~IsShutdown({})
  <2>1. 1 \in CW_SHUTDOWN
    BY <1>1
  <2> QED
    BY <2>1 DEF IsDisable, IsShutdown, Masked
<1>4. /\ IsShutdown(CW_SHUTDOWN) /\ ~IsDisable(CW_SHUTDOWN)
      /\ ~IsSwitchOn(CW_SHUTDOWN) /\ ~IsEnableOp(CW_SHUTDOWN)
  <2>1. CW_SHUTDOWN \cap {0, 1, 2} = CW_SHUTDOWN
    BY DEF CW_SHUTDOWN
  <2>2. 0 \notin CW_SHUTDOWN \cap {0, 1, 2, 3}
    BY <1>1
  <2> QED
    BY <1>1, <2>1, <2>2 DEF IsShutdown, IsDisable, IsSwitchOn, IsEnableOp, Masked
<1>5. /\ IsSwitchOn(CW_SWITCHON) /\ ~IsDisable(CW_SWITCHON)
      /\ ~IsShutdown(CW_SWITCHON) /\ ~IsEnableOp(CW_SWITCHON)
  <2>1. CW_SWITCHON \cap {0, 1, 2, 3} = CW_SWITCHON
    BY DEF CW_SWITCHON
  <2>2. 0 \in CW_SWITCHON \cap {0, 1, 2}
    BY <1>1
  <2> QED
    BY <1>1, <2>1, <2>2 DEF IsShutdown, IsDisable, IsSwitchOn, IsEnableOp, Masked
<1>6. /\ IsEnableOp(CW_ENABLEOP) /\ ~IsDisable(CW_ENABLEOP)
      /\ ~IsShutdown(CW_ENABLEOP) /\ ~IsSwitchOn(CW_ENABLEOP)
  <2>1. CW_ENABLEOP \cap {0, 1, 2, 3} = CW_ENABLEOP
    BY DEF CW_ENABLEOP
  <2>2. 0 \in CW_ENABLEOP \cap {0, 1, 2}
    BY <1>1
  <2> QED
    BY <1>1, <2>1, <2>2 DEF IsShutdown, IsDisable, IsSwitchOn, IsEnableOp, Masked
<1>7. ASSUME NEW c \in Written
      PROVE  /\ NextState("SwitchOnDisabled", c) =
                   IF c = CW_SHUTDOWN THEN "ReadyToSwitchOn" ELSE "SwitchOnDisabled"
             /\ c \in {CW_SHUTDOWN, CW_SWITCHON} =>
                   NextState("ReadyToSwitchOn", c) =
                      IF c = CW_SWITCHON THEN "SwitchedOn" ELSE "ReadyToSwitchOn"
             /\ c \in {CW_SWITCHON, CW_ENABLEOP} =>
                   NextState("SwitchedOn", c) =
                      IF c = CW_ENABLEOP THEN "OperationEnabled" ELSE "SwitchedOn"
             /\ c = CW_ENABLEOP =>
                   NextState("OperationEnabled", c) = "OperationEnabled"
             /\ NextState("Fault", c) = "Fault"
  <2>1. CASE c = {}
    BY <1>2, <1>3, <2>1 DEF NextState
  <2>2. CASE c = CW_SHUTDOWN
    BY <1>2, <1>4, <2>2 DEF NextState
  <2>3. CASE c = CW_SWITCHON
    BY <1>2, <1>5, <2>3 DEF NextState
  <2>4. CASE c = CW_ENABLEOP
    BY <1>2, <1>6, <2>4 DEF NextState
  <2> QED
    BY <2>1, <2>2, <2>3, <2>4 DEF Written
<1> QED
  BY <1>2, <1>7

\* What a turn of the cycle does to an axis, if its frame reached the drive and
\* if it came back.
Cycled(s, reached, returned) ==
    /\ cw'[s] = EnableCw(s)
    /\ inputs'[s].status = IF reached /\ returned THEN StateBits[drive[s].state]
                           ELSE inputs[s].status
    /\ drive'[s].state = drive[s].state
    /\ drive'[s].cw = IF reached THEN cw'[s] ELSE drive[s].cw
    /\ drive'[s].position =
          IF reached /\ drive[s].state = "OperationEnabled" THEN out'[s]
          ELSE drive[s].position

LEMMA TurnCycles ==
    ASSUME TypeOK, NEW R \in SUBSET Axis, NEW returned \in BOOLEAN,
           Exchange(R, returned), NEW s \in Axis
    PROVE  Cycled(s, s \in R, returned)
<1>1. drive[s] = [state |-> drive[s].state, cw |-> drive[s].cw,
                  position |-> drive[s].position]
  BY DEF TypeOK
<1>2. cw'[s] = EnableCw(s)
  BY DEF Exchange
<1>3. inputs'[s] = IF s \in R /\ returned
          THEN [status |-> StateBits[drive[s].state], position |-> drive[s].position]
          ELSE inputs[s]
  BY DEF Exchange
<1>4. CASE s \in R
  <2> DEFINE p == IF drive[s].state = "OperationEnabled" THEN out'[s] ELSE drive[s].position
  <2>1. drive'[s] = [drive[s] EXCEPT !.cw = cw'[s], !.position = p]
    BY <1>4 DEF Exchange
  <2>2. /\ drive'[s].state = drive[s].state /\ drive'[s].cw = cw'[s]
        /\ drive'[s].position = p
    <3> HIDE DEF p
    <3> QED
      BY <1>1, <2>1
  <2> QED
    BY <1>2, <1>3, <1>4, <2>2 DEF Cycled
<1>5. CASE s \notin R
  <2>1. drive'[s] = drive[s]
    BY <1>5 DEF Exchange
  <2> QED
    BY <1>2, <1>3, <1>5, <2>1 DEF Cycled
<1> QED
  BY <1>4, <1>5

\* The state read after a turn.
LEMMA StateAfter ==
    ASSUME TypeOK, NEW s \in Axis, NEW reached, NEW returned,
           Cycled(s, reached, returned)
    PROVE  /\ StateOf(s)' = IF reached /\ returned THEN drive[s].state ELSE StateOf(s)
           /\ StateOf(s) \in DriveState /\ drive[s].state \in DriveState
<1>1. drive[s].state \in DriveState /\ inputs[s].status \in Reported
  BY DEF TypeOK
<1> QED
  BY <1>1, Readings DEF Cycled, StateOf

LEMMA CycleEnables ==
    ASSUME TypeOK, NEW s \in Axis, StepByStep(s), NEW reached, NEW returned,
           Cycled(s, reached, returned)
    PROVE  StepByStep(s)'
<1>1. /\ StateOf(s)' = IF reached /\ returned THEN drive[s].state ELSE StateOf(s)
      /\ StateOf(s) \in DriveState /\ drive[s].state \in DriveState
  BY StateAfter
<1>2. /\ drive'[s].state = drive[s].state
      /\ drive'[s].cw = IF reached THEN cw'[s] ELSE drive[s].cw
      /\ cw'[s] = EnableCw(s)
  BY DEF Cycled
<1>3. /\ StateOf(s) = "SwitchOnDisabled" => EnableCw(s) = CW_SHUTDOWN
      /\ StateOf(s) = "ReadyToSwitchOn" => EnableCw(s) = CW_SWITCHON
      /\ StateOf(s) = "SwitchedOn" => EnableCw(s) = CW_ENABLEOP
      /\ StateOf(s) \in {"OperationEnabled", "Fault"} => EnableCw(s) = cw[s]
  BY DEF EnableCw
<1>4. /\ CW_SHUTDOWN # CW_SWITCHON /\ CW_SHUTDOWN # CW_ENABLEOP
      /\ CW_SWITCHON # CW_ENABLEOP /\ CW_SHUTDOWN # {}
  BY Transitions
<1>5. cw'[s] \in Written /\ drive'[s].cw \in Written
  BY <1>1, <1>2, <1>3 DEF StepByStep, Written, DriveState
<1>6. CASE drive[s].state = "SwitchOnDisabled"
  BY <1>1, <1>2, <1>3, <1>4, <1>5, <1>6
     DEF StepByStep, AtSwitchOnDisabled, DriveState
<1>7. CASE drive[s].state = "ReadyToSwitchOn"
  BY <1>1, <1>2, <1>3, <1>5, <1>7 DEF StepByStep, AtReadyToSwitchOn, Pair
<1>8. CASE drive[s].state = "SwitchedOn"
  BY <1>1, <1>2, <1>3, <1>5, <1>8 DEF StepByStep, AtSwitchedOn, Pair
<1>9. CASE drive[s].state = "OperationEnabled"
  BY <1>1, <1>2, <1>3, <1>5, <1>9 DEF StepByStep, AtOperationEnabled, Pair
<1>10. CASE drive[s].state = "Fault"
  BY <1>1, <1>2, <1>3, <1>4, <1>5, <1>10 DEF StepByStep, AtFault, DriveState
<1> QED
  BY <1>1, <1>6, <1>7, <1>8, <1>9, <1>10 DEF DriveState

\* What a step of a drive does to it: it goes to the state st; its outputs and
\* inputs stay.
MovesTo(s, st) ==
    /\ cw'[s] = cw[s] /\ inputs'[s] = inputs[s]
    /\ drive'[s].state = st
    /\ drive'[s].cw = drive[s].cw /\ drive'[s].position = drive[s].position

LEMMA DriveSteps ==
    ASSUME TypeOK, NEW s \in Axis,
           \E r \in Axis : React(r) \/ Trip(r) \/ Reset(r)
    PROVE  \/ MovesTo(s, drive[s].state)
           \/ MovesTo(s, NextState(drive[s].state, drive[s].cw))
           \/ /\ MovesTo(s, "Fault")
              /\ drive[s].state \in {"SwitchedOn", "OperationEnabled"}
              /\ spent'.troubles = spent.troubles + 1
           \/ MovesTo(s, "SwitchOnDisabled") /\ drive[s].state = "Fault"
<1> PICK r \in Axis : React(r) \/ Trip(r) \/ Reset(r)
  OBVIOUS
<1>1. /\ drive \in [Axis -> [state : DriveState, cw : Word, position : Int]]
      /\ spent \in [requests : 0..MaxRequests, troubles : 0..MaxTroubles[program]]
  BY DEF TypeOK
<1>2. cw'[s] = cw[s] /\ inputs'[s] = inputs[s]
  BY DEF React, Trip, Reset, turned
<1>3. ASSUME NEW st, drive' = [drive EXCEPT ![r].state = st]
      PROVE  /\ s = r => MovesTo(s, st)
             /\ s # r => MovesTo(s, drive[s].state)
  BY <1>1, <1>2, <1>3 DEF MovesTo
<1>4. CASE s # r
  <2>1. \E st : drive' = [drive EXCEPT ![r].state = st]
    BY DEF React, Trip, Reset
  <2> QED
    BY <1>3, <1>4, <2>1
<1>5. CASE s = r /\ React(r)
  <2>1. drive' = [drive EXCEPT ![r].state = NextState(drive[r].state, drive[r].cw)]
    BY <1>1, <1>5 DEF React
  <2> QED
    BY <1>3, <1>5, <2>1
<1>6. CASE s = r /\ Trip(r)
  BY <1>1, <1>3, <1>6 DEF Trip
<1>7. CASE s = r /\ Reset(r)
  BY <1>3, <1>7 DEF Reset
<1> QED
  BY <1>4, <1>5, <1>6, <1>7

LEMMA StepsEnable ==
    ASSUME TypeOK, NEW s \in Axis, StepByStep(s),
           \/ MovesTo(s, drive[s].state)
           \/ MovesTo(s, NextState(drive[s].state, drive[s].cw))
           \/ /\ MovesTo(s, "Fault")
              /\ drive[s].state \in {"SwitchedOn", "OperationEnabled"}
           \/ MovesTo(s, "SwitchOnDisabled") /\ drive[s].state = "Fault"
    PROVE  /\ StepByStep(s)' /\ StateOf(s)' = StateOf(s)
           /\ drive[s].state = "OperationEnabled" =>
                 NextState(drive[s].state, drive[s].cw) = "OperationEnabled"
<1>1. /\ StateOf(s)' = StateOf(s) /\ cw'[s] = cw[s] /\ drive'[s].cw = drive[s].cw
      /\ drive[s].state \in DriveState
  BY DEF MovesTo, StateOf, TypeOK
<1>2. /\ CW_SHUTDOWN # CW_SWITCHON /\ CW_SHUTDOWN # CW_ENABLEOP
      /\ CW_SWITCHON # CW_ENABLEOP /\ CW_SHUTDOWN # {}
  BY Transitions
<1>3. drive[s].cw \in Written /\ cw[s] \in Written
  BY DEF StepByStep
<1>4. drive[s].state = "OperationEnabled" =>
         NextState(drive[s].state, drive[s].cw) = "OperationEnabled"
  BY <1>3, Transitions DEF StepByStep, AtOperationEnabled, Pair
<1>5. CASE drive'[s].state = drive[s].state
  BY <1>1, <1>4, <1>5 DEF StepByStep, AtSwitchOnDisabled, AtReadyToSwitchOn,
                    AtSwitchedOn, AtOperationEnabled, AtFault, Pair
<1>6. CASE /\ drive'[s].state = "Fault"
           /\ drive[s].state \in {"SwitchedOn", "OperationEnabled"}
  BY <1>1, <1>2, <1>3, <1>4, <1>6
     DEF StepByStep, AtSwitchedOn, AtOperationEnabled, AtFault, Pair
<1>7. CASE drive'[s].state = "SwitchOnDisabled" /\ drive[s].state = "Fault"
  BY <1>1, <1>3, <1>4, <1>7 DEF StepByStep, AtSwitchOnDisabled, AtFault
<1>8. CASE /\ drive'[s].state = NextState(drive[s].state, drive[s].cw)
           /\ drive'[s].state # drive[s].state
  <2>1. CASE drive[s].state = "SwitchOnDisabled"
    <3>1. drive[s].cw = CW_SHUTDOWN /\ drive'[s].state = "ReadyToSwitchOn"
      BY <1>3, <1>8, <2>1, Transitions
    <3> QED
      BY <1>1, <1>2, <1>3, <2>1, <3>1
         DEF StepByStep, AtSwitchOnDisabled, AtReadyToSwitchOn, Pair
  <2>2. CASE drive[s].state = "ReadyToSwitchOn"
    <3>1. drive[s].cw \in {CW_SHUTDOWN, CW_SWITCHON}
      BY <2>2 DEF StepByStep, AtReadyToSwitchOn, Pair
    <3>2. drive[s].cw = CW_SWITCHON /\ drive'[s].state = "SwitchedOn"
      BY <1>3, <1>8, <2>2, <3>1, Transitions
    <3> QED
      BY <1>1, <1>2, <1>3, <2>2, <3>2
         DEF StepByStep, AtReadyToSwitchOn, AtSwitchedOn, Pair
  <2>3. CASE drive[s].state = "SwitchedOn"
    <3>1. drive[s].cw \in {CW_SWITCHON, CW_ENABLEOP}
      BY <2>3 DEF StepByStep, AtSwitchedOn, Pair
    <3>2. drive[s].cw = CW_ENABLEOP /\ drive'[s].state = "OperationEnabled"
      BY <1>3, <1>8, <2>3, <3>1, Transitions
    <3> QED
      BY <1>1, <1>2, <1>3, <2>3, <3>2
         DEF StepByStep, AtSwitchedOn, AtOperationEnabled, Pair
  <2>4. CASE drive[s].state = "OperationEnabled"
    BY <1>8, <1>4, <2>4
  <2>5. CASE drive[s].state = "Fault"
    BY <1>3, <1>8, <2>5, Transitions
  <2> QED
    BY <1>1, <2>1, <2>2, <2>3, <2>4, <2>5 DEF DriveState
<1> QED
  BY <1>1, <1>4, <1>5, <1>6, <1>7, <1>8 DEF MovesTo

-----------------------------------------------------------------------------
\* The array is traced round and round: going on by one sample, the index gets
\* further ahead of a drive by one at most.
LEMMA AheadOf ==
    ASSUME NEW a \in 0..Period - 1, NEW b \in 0..Period - 1
    PROVE  /\ Ahead(a, b) = IF b >= a THEN b - a ELSE b - a + Period
           /\ Ahead(a, b) \in 0..Period - 1
<1>1. Period \in Nat \ {0}
  BY BoundsAssumption
<1>2. \A x \in 0..Period - 1 : x % Period = x
  BY <1>1
<1>3. \A x \in -Period..-1 : x % Period = x + Period
  BY <1>1
<1>4. CASE b >= a
  <2>1. b - a \in 0..Period - 1
    BY <1>1, <1>4
  <2> QED
    BY <1>2, <1>4, <2>1 DEF Ahead
<1>5. CASE b < a
  <2>1. b - a \in -Period..-1 /\ b - a + Period \in 0..Period - 1
    BY <1>1, <1>5
  <2> QED
    BY <1>3, <1>5, <2>1 DEF Ahead
<1> QED
  BY <1>4, <1>5

LEMMA AheadNext ==
    ASSUME NEW a \in 0..Period - 1, NEW b \in 0..Period - 1
    PROVE  /\ ycoe_csp_follow_posarray(b) \in 0..Period - 1
           /\ Ahead(a, ycoe_csp_follow_posarray(b)) <= Ahead(a, b) + 1
           /\ Ahead(a, a) = 0
<1>1. Period \in Nat \ {0}
  BY BoundsAssumption
<1> DEFINE c == ycoe_csp_follow_posarray(b)
<1>2. c = IF b + 1 >= Period THEN 0 ELSE b + 1
  BY DEF ycoe_csp_follow_posarray
<1>3. c \in 0..Period - 1
  BY <1>1, <1>2
<1> HIDE DEF c
<1>4. /\ Ahead(a, b) = IF b >= a THEN b - a ELSE b - a + Period
      /\ Ahead(a, c) = IF c >= a THEN c - a ELSE c - a + Period
      /\ Ahead(a, a) = 0
  BY <1>3, AheadOf
<1>5. Ahead(a, c) <= Ahead(a, b) + 1
  BY <1>1, <1>2, <1>4
<1> QED
  BY <1>3, <1>4, <1>5 DEF c

\* One step of the index at most, and only if both drives are read enabled.
LEMMA ArraySteps ==
    ASSUME TypeOK, AnyControl, program \in ArrayPrograms, NEW s \in Axis,
           out[s] = index
    PROVE  /\ out'[s] = index'
           /\ \/ index' = index
              \/ /\ index' = ycoe_csp_follow_posarray(index)
                 /\ StateOf(s) = "OperationEnabled"
<1>1. ~RampControl
  BY DEF RampControl, ArrayPrograms
<1>2. ASSUME NEW follow, ArrayControl(follow), follow => BothEnabled
      PROVE  /\ out'[s] = index'
             /\ \/ index' = index
                \/ /\ index' = ycoe_csp_follow_posarray(index)
                   /\ StateOf(s) = "OperationEnabled"
  <2>1. CASE follow
    BY <1>2, <2>1 DEF ArrayControl, BothEnabled, Enabled
  <2>2. CASE ~follow
    BY <1>2, <2>2 DEF ArrayControl
  <2> QED
    BY <2>1, <2>2
<1>3. CASE DebugControl
  <2>1. PICK positive \in BOOLEAN : ArrayControl(BothEnabled /\ positive)
    BY <1>3 DEF DebugControl
  <2> QED
    BY <1>2, <2>1
<1>4. CASE SinControl
  <2>1. PICK positive \in BOOLEAN : ArrayControl(BothEnabled /\ positive)
    BY <1>4 DEF SinControl
  <2> QED
    BY <1>2, <2>1
<1>5. CASE XenoControl
  BY <1>2, <1>5 DEF XenoControl
<1> QED
  BY <1>1, <1>3, <1>4, <1>5 DEF AnyControl

\* A turn may let the drive of axis s lag by one more sample, but then a frame
\* was lost or the fault that was spared for is noticed; a drive that is moved
\* is sent past the samples it lagged by, at most.
LEMMA TurnLags ==
    ASSUME IInv, NEW s \in Axis, Lag(s), program \in ArrayPrograms,
           NEW R \in SUBSET Axis, NEW returned \in BOOLEAN,
           AnyControl, Exchange(R, returned)
    PROVE  Lag(s)'
<1> DEFINE a  == drive[s].position
           i1 == index'
           k  == skipped[s]
<1>1. /\ TypeOK /\ spent.troubles \in 0..MaxTroubles[program]
      /\ MaxTroubles[program] \in Nat /\ index \in 0..Period - 1
      /\ out[s] = index /\ k \in Int
      /\ a \in 0..Period - 1 \/ a \notin 0..Period - 1
  BY BoundsAssumption DEF IInv, TypeOK, Lag
<1>2. Cycled(s, s \in R, returned) /\ program' = program
  BY <1>1, TurnCycles DEF Exchange
<1>3. /\ StateOf(s)' = IF s \in R /\ returned THEN drive[s].state ELSE StateOf(s)
      /\ drive'[s].state = drive[s].state
      /\ drive'[s].position =
            IF s \in R /\ drive[s].state = "OperationEnabled" THEN out'[s]
            ELSE drive[s].position
  BY <1>1, <1>2, StateAfter DEF Cycled
<1>4. /\ out'[s] = i1
      /\ \/ i1 = index
         \/ /\ i1 = ycoe_csp_follow_posarray(index)
            /\ StateOf(s) = "OperationEnabled"
  BY <1>1, ArraySteps DEF Lag
<1>5. /\ (s \in R /\ returned) \/ spent'.troubles = spent.troubles + 1
      /\ spent'.troubles \in Nat /\ spent'.troubles >= spent.troubles
  <2>1. spent \in [requests : 0..MaxRequests, troubles : 0..MaxTroubles[program]]
    BY DEF IInv, TypeOK
  <2>2. CASE Complete(R, returned)
    <3>1. s \in R /\ returned
      BY <2>2 DEF Complete
    <3>2. spent' = spent
      BY <2>2 DEF Exchange
    <3> QED
      BY <1>1, <3>1, <3>2
  <2>3. CASE ~Complete(R, returned)
    <3>1. spent' = [spent EXCEPT !.troubles = @ + 1]
      BY <2>3 DEF Exchange
    <3>2. spent'.troubles = spent.troubles + 1
      BY <2>1, <3>1
    <3> QED
      BY <1>1, <3>2
  <2> QED
    BY <2>2, <2>3
<1>6. /\ k + Behind(s) + Unnoticed(s) <= spent.troubles
      /\ Behind(s) = IF a \in 0..Period - 1 THEN Ahead(a, index) ELSE 0
  BY DEF Lag, Behind
<1>7. /\ i1 \in 0..Period - 1 /\ Ahead(i1, i1) = 0
      /\ a \in 0..Period - 1 =>
            /\ Ahead(a, index) \in Nat /\ Ahead(a, i1) \in Nat
            /\ i1 # index => Ahead(a, i1) <= Ahead(a, index) + 1
  <2>1. i1 \in 0..Period - 1
    BY <1>1, <1>4, AheadNext
  <2> HIDE DEF i1
  <2>2. Ahead(i1, i1) = 0
    BY <2>1, AheadNext
  <2>3. a \in 0..Period - 1 => Ahead(a, index) \in Nat /\ Ahead(a, i1) \in Nat
    <3> HIDE DEF a
    <3>1. ASSUME a \in 0..Period - 1, NEW t \in 0..Period - 1 PROVE Ahead(a, t) \in Nat
      BY <3>1, AheadOf
    <3> QED
      BY <1>1, <2>1, <3>1
  <2>4. a \in 0..Period - 1 /\ i1 # index => Ahead(a, i1) <= Ahead(a, index) + 1
    BY <1>1, <1>4, AheadNext
  <2> QED
    BY <2>1, <2>2, <2>3, <2>4
<1>8. Unnoticed(s) \in 0..1 /\ Unnoticed(s)' \in 0..1
  BY DEF Unnoticed
<1>9. Behind(s) \in Nat /\ Behind(s)' \in Nat
  <2>1. Behind(s)' = IF drive'[s].position \in 0..Period - 1
                     THEN Ahead(drive'[s].position, i1) ELSE 0
    BY DEF Behind, Ahead
  <2>2. \A p \in 0..Period - 1 : Ahead(p, i1) \in Nat
    <3> HIDE DEF i1
    <3> QED
      BY <1>7, AheadOf
  <2> HIDE DEF i1
  <2> QED
    BY <1>6, <1>7, <2>1, <2>2
<1>10. skipped'[s] = k + PassedOver(s)
  BY DEF Exchange
<1>11. CASE s \in R /\ drive[s].state = "OperationEnabled"
  <2>1. drive'[s].position = i1
    BY <1>3, <1>4, <1>11
  <2>2. Unnoticed(s)' = 0
    BY <1>3, <1>11 DEF Unnoticed
  <2>3. Behind(s)' = 0
    <3>1. Behind(s)' = IF i1 \in 0..Period - 1 THEN Ahead(i1, i1) ELSE 0
      BY <2>1 DEF Behind, Ahead
    <3> HIDE DEF i1
    <3> QED
      BY <1>7, <3>1
  <2>4. PassedOver(s) \in Int /\ PassedOver(s) <= Behind(s)
    <3>1. PassedOver(s) = IF a \in 0..Period - 1 /\ i1 # a THEN Ahead(a, i1) - 1 ELSE 0
      BY <2>1 DEF PassedOver
    <3> HIDE DEF i1, a
    <3>2. CASE a \in 0..Period - 1 /\ i1 # a
      BY <1>6, <1>7, <3>1, <3>2
    <3>3. CASE ~(a \in 0..Period - 1 /\ i1 # a)
      BY <1>9, <3>1, <3>3
    <3> QED
      BY <3>2, <3>3
  <2>5. skipped'[s] + Behind(s)' + Unnoticed(s)' <= spent'.troubles
    <3> HIDE DEF k
    <3> QED
      BY <1>1, <1>5, <1>6, <1>8, <1>9, <1>10, <2>2, <2>3, <2>4
  <2> QED
    BY <1>4, <2>5 DEF Lag
<1>12. CASE ~(s \in R /\ drive[s].state = "OperationEnabled")
  <2>1. drive'[s].position = a
    BY <1>3, <1>12
  <2>2. skipped'[s] = k
    <3>1. PassedOver(s) = 0
      BY <2>1 DEF PassedOver
    <3> HIDE DEF k
    <3> QED
      BY <1>1, <1>10, <3>1
  <2>3. Behind(s)' = IF a \in 0..Period - 1 THEN Ahead(a, i1) ELSE 0
    BY <2>1 DEF Behind, Ahead
  <2>4. /\ i1 = index => Behind(s)' = Behind(s)
        /\ Behind(s)' <= Behind(s) + 1
    <3> HIDE DEF i1, a
    <3>1. CASE a \in 0..Period - 1
      BY <1>6, <1>7, <1>9, <2>3, <3>1
    <3>2. CASE a \notin 0..Period - 1
      BY <1>6, <2>3, <3>2
    <3> QED
      BY <3>1, <3>2
  <2>5. k + Behind(s)' + Unnoticed(s)' <= spent'.troubles
    <3>1. CASE i1 = index
      <4>1. Unnoticed(s)' <= Unnoticed(s)
        BY <1>3 DEF Unnoticed
      <4> HIDE DEF i1, k
      <4> QED
        BY <1>1, <1>5, <1>6, <1>8, <1>9, <2>4, <3>1, <4>1
    <3>2. CASE i1 # index /\ s \notin R
      <4>1. Unnoticed(s)' = Unnoticed(s)
        BY <1>3, <3>2 DEF Unnoticed
      <4> HIDE DEF i1, k
      <4> QED
        BY <1>1, <1>5, <1>6, <1>8, <1>9, <2>4, <3>2, <4>1
    <3>3. CASE i1 # index /\ s \in R
      <4>1. Unnoticed(s) = 1
        BY <1>4, <1>12, <3>3 DEF Unnoticed
      <4>2. returned => Unnoticed(s)' = 0
        BY <1>3, <1>12, <3>3 DEF Unnoticed
      <4> HIDE DEF i1, k
      <4> QED
        BY <1>1, <1>5, <1>6, <1>8, <1>9, <2>4, <3>3, <4>1, <4>2
    <3> QED
      BY <3>1, <3>2, <3>3
  <2> QED
    BY <1>4, <2>2, <2>5 DEF Lag
<1> QED
  BY <1>11, <1>12

\* The axes are found off the array, or at its first sample.
OffTheArray == Rest \cap 1..Period - 1 = {}

LEMMA LagStarts ==
    ASSUME OffTheArray, Init
    PROVE  LInv
<1> SUFFICES ASSUME NEW s \in Axis PROVE StepByStep(s) /\ Lag(s)
  BY Initial DEF LInv
<1>1. /\ cw[s] = {} /\ out[s] = 0 /\ index = 0 /\ inputs[s].status = {}
      /\ spent.troubles = 0 /\ skipped[s] = 0
  BY DEF Init
<1>2. PICK p \in Rest : drive[s] = [state |-> "SwitchOnDisabled", cw |-> {}, position |-> p]
  <2> DEFINE P == {[state |-> "SwitchOnDisabled", cw |-> {}, position |-> p] : p \in Rest}
  <2>1. drive[s] \in P
    BY DEF Init
  <2> QED
    BY <2>1
<1>3. StateOf(s) = "Fault"
  BY <1>1, Readings DEF StateOf
<1>4. StepByStep(s)
  BY <1>1, <1>2, <1>3, Transitions DEF StepByStep, AtSwitchOnDisabled, Written
<1>5. Unnoticed(s) = 0
  BY <1>3 DEF Unnoticed
<1>6. p \in 0..Period - 1 => p = 0 /\ Ahead(p, index) = 0
  <2>1. Period \in Nat \ {0}
    BY BoundsAssumption
  <2>2. p \in 0..Period - 1 => p = 0
    BY <2>1 DEF OffTheArray
  <2>3. Ahead(0, 0) = 0
    BY <2>1, AheadNext
  <2> QED
    BY <1>1, <2>2, <2>3
<1>7. Lag(s)
  <2>1. drive[s].position = p
    BY <1>2
  <2>2. Behind(s) = 0
    BY <1>6, <2>1 DEF Behind
  <2> QED
    BY <1>1, <1>5, <2>2 DEF Lag
<1> QED
  BY <1>4, <1>7

\* A step that leaves the drives, the inputs and the outputs.
LEMMA OthersLag ==
    ASSUME LInv, UNCHANGED <<program, turned, drive>>,
           spent'.troubles = spent.troubles
    PROVE  (\A s \in Axis : StepByStep(s) /\ Lag(s))'
<1> SUFFICES ASSUME NEW s \in Axis PROVE StepByStep(s)' /\ Lag(s)'
  OBVIOUS
<1>1. StepByStep(s) /\ Lag(s)
  BY DEF LInv
<1>2. /\ cw' = cw /\ out' = out /\ inputs' = inputs /\ index' = index
      /\ drive' = drive /\ program' = program /\ skipped' = skipped
  BY DEF turned
<1>3. /\ StateOf(s)' = StateOf(s) /\ Unnoticed(s)' = Unnoticed(s)
      /\ Behind(s)' = Behind(s)
  BY <1>2 DEF StateOf, Unnoticed, Behind, Ahead
<1> QED
  BY <1>1, <1>2, <1>3
     DEF StepByStep, AtSwitchOnDisabled, AtReadyToSwitchOn, AtSwitchedOn,
         AtOperationEnabled, AtFault, Pair, Lag

LEMMA CycleLags ==
    ASSUME LInv, GoodCycle \/ LossyCycle
    PROVE  (\A s \in Axis : StepByStep(s) /\ Lag(s))'
<1>1. PICK f \in Frame : Turn(f)
  BY DEF GoodCycle, LossyCycle, Frame
<1>2. /\ f[1] \in SUBSET Axis /\ f[2] \in BOOLEAN
      /\ AnyControl /\ Exchange(f[1], f[2])
  BY <1>1, TurnParts
<1>3. IInv /\ TypeOK /\ program' = program
  BY <1>2 DEF LInv, IInv, Exchange
<1>4. ASSUME NEW s \in Axis PROVE StepByStep(s)'
  <2>1. StepByStep(s)
    BY DEF LInv
  <2>2. Cycled(s, s \in f[1], f[2])
    BY <1>2, <1>3, TurnCycles
  <2> QED
    BY <1>3, <2>1, <2>2, CycleEnables
<1>5. ASSUME NEW s \in Axis, program \in ArrayPrograms PROVE Lag(s)'
  <2>1. Lag(s)
    BY DEF LInv
  <2> QED
    BY <1>2, <1>3, <1>5, <2>1, TurnLags
<1>6. ASSUME NEW s \in Axis, program \notin ArrayPrograms PROVE Lag(s)'
  BY <1>3, <1>6 DEF Lag
<1> QED
  BY <1>4, <1>5, <1>6

LEMMA DriveLags ==
    ASSUME LInv, \E r \in Axis : React(r) \/ Trip(r) \/ Reset(r)
    PROVE  (\A s \in Axis : StepByStep(s) /\ Lag(s))'
<1>1. /\ IInv /\ TypeOK /\ program' = program /\ out' = out /\ index' = index
      /\ skipped' = skipped
      /\ spent.troubles \in Nat /\ spent'.troubles \in Nat
      /\ spent'.troubles >= spent.troubles
  <2>1. /\ IInv /\ TypeOK /\ spent.troubles \in Nat
        /\ spent \in [requests : 0..MaxRequests, troubles : 0..MaxTroubles[program]]
    BY DEF LInv, IInv, TypeOK
  <2>2. /\ program' = program /\ out' = out /\ index' = index
        /\ skipped' = skipped
        /\ spent' = spent \/ spent' = [spent EXCEPT !.troubles = @ + 1]
    BY DEF React, Trip, Reset, turned
  <2> QED
    BY <2>1, <2>2
<1> SUFFICES ASSUME NEW s \in Axis PROVE StepByStep(s)' /\ Lag(s)'
  OBVIOUS
<1>2. \/ MovesTo(s, drive[s].state)
      \/ MovesTo(s, NextState(drive[s].state, drive[s].cw))
      \/ /\ MovesTo(s, "Fault")
         /\ drive[s].state \in {"SwitchedOn", "OperationEnabled"}
         /\ spent'.troubles = spent.troubles + 1
      \/ MovesTo(s, "SwitchOnDisabled") /\ drive[s].state = "Fault"
  BY <1>1, DriveSteps
<1>3. /\ StepByStep(s)' /\ StateOf(s)' = StateOf(s)
      /\ drive[s].state = "OperationEnabled" =>
            NextState(drive[s].state, drive[s].cw) = "OperationEnabled"
  <2>1. StepByStep(s)
    BY DEF LInv
  <2> QED
    BY <1>1, <1>2, <2>1, StepsEnable
<1>4. drive'[s].position = drive[s].position
  BY <1>2 DEF MovesTo
<1>5. \/ Unnoticed(s)' <= Unnoticed(s)
      \/ /\ Unnoticed(s)' <= Unnoticed(s) + 1
         /\ spent'.troubles = spent.troubles + 1
  BY <1>2, <1>3 DEF MovesTo, Unnoticed
<1>6. Lag(s)'
  <2>1. Behind(s)' = Behind(s) /\ Behind(s) \in Int /\ skipped[s] \in Int
    <3>1. index \in 0..Period - 1 /\ skipped[s] \in Int
      BY <1>1 DEF TypeOK
    <3>2. drive[s].position \in 0..Period - 1 => Ahead(drive[s].position, index) \in Int
      BY <3>1, AheadOf
    <3> QED
      BY <1>1, <1>4, <3>1, <3>2 DEF Behind, Ahead
  <2>2. Unnoticed(s) \in Int /\ Unnoticed(s)' \in Int
    BY DEF Unnoticed
  <2>3. ASSUME program \in ArrayPrograms
        PROVE  /\ out[s] = index
               /\ skipped[s] + Behind(s) + Unnoticed(s) <= spent.troubles
    BY <2>3 DEF LInv, Lag
  <2>4. ASSUME program \in ArrayPrograms
        PROVE  skipped[s] + Behind(s)' + Unnoticed(s)' <= spent'.troubles
    BY <1>1, <1>5, <2>1, <2>2, <2>3, <2>4
  <2> QED
    BY <1>1, <2>3, <2>4 DEF Lag
<1> QED
  BY <1>3, <1>6

LEMMA LagInductive ==
    ASSUME LInv, [Next]_vars
    PROVE  LInv'
<1>1. IInv'
  BY Inductive DEF LInv
<1>2. CASE UNCHANGED vars
  BY <1>1, <1>2, OthersLag DEF vars, turned, LInv
<1>3. CASE RampStartUp \/ DebugStartUp \/ SinStartUp \/ XenoStartUp
  <2>1. UNCHANGED <<program, turned, drive, spent>>
    BY <1>3 DEF RampStartUp, DebugStartUp, SinStartUp, XenoStartUp, StartUp,
                NoNetwork, FindSlaves, MapImage, ReachOp, GiveUp, catch_signal, Goes
  <2> QED
    BY <1>1, <2>1, OthersLag DEF LInv
<1>4. CASE GoodCycle \/ LossyCycle
  BY <1>1, <1>4, CycleLags DEF LInv
<1>5. CASE RampRequest \/ DebugRequest
  <2>1. UNCHANGED <<program, turned, drive>> /\ spent'.troubles = spent.troubles
    <3>1. spent \in [requests : 0..MaxRequests, troubles : 0..MaxTroubles[program]]
      BY DEF LInv, IInv, TypeOK
    <3> QED
      BY <1>5, <3>1 DEF RampRequest, DebugRequest, Asks, TooEarly, SetPositions
  <2> QED
    BY <1>1, <2>1, OthersLag DEF LInv
<1>6. CASE \E s \in Axis : React(s) \/ Trip(s) \/ Reset(s)
  BY <1>1, <1>6, DriveLags DEF LInv
<1> QED
  BY <1>2, <1>3, <1>4, <1>5, <1>6 DEF Next

\* All the samples a drive was ever sent past are no more than the frames lost
\* and the faults so far (ycoe_cyclicposition.c:265-274, csp_debug.c:173-180):
\* the index stops for both drives as soon as one is not enabled.
THEOREM SkipsAccountedFor == ASSUME OffTheArray PROVE Spec => []SkipsAccounted
<1>1. Init => LInv
  BY LagStarts
<1>2. LInv /\ [Next]_vars => LInv'
  BY LagInductive
<1>3. LInv => SkipsAccounted
  <2> SUFFICES ASSUME LInv, program \in ArrayPrograms, NEW s \in Axis
               PROVE  skipped[s] <= spent.troubles
    BY DEF SkipsAccounted
  <2>1. /\ skipped[s] \in Int /\ spent.troubles \in Int
        /\ index \in 0..Period - 1
    BY BoundsAssumption DEF LInv, IInv, TypeOK
  <2>2. skipped[s] + Behind(s) + Unnoticed(s) <= spent.troubles
    BY DEF LInv, Lag
  <2>3. Behind(s) \in Nat /\ Unnoticed(s) \in Nat
    BY <2>1, AheadOf DEF Behind, Unnoticed
  <2> QED
    BY <2>1, <2>2, <2>3
<1> QED
  BY <1>1, <1>2, <1>3, PTL DEF Spec
=============================================================================
