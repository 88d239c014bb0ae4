---------------------------- MODULE Engine_proofs ----------------------------
(***************************************************************************)
(* Theorems about Engine for any number of slaves and of retries, in both  *)
(* signalling styles.                                                      *)
(***************************************************************************)
EXTENDS Engine, TLAPS

\* How far the server is, told by the signals it has completed.
ServerSent ==
    /\ srv \in {"awaitPreop", "setUp", "load1", "store1"} => sent = 0
    /\ srv \in {"awaitSafeop", "load2", "store2"} => sent = 1
    /\ srv = "serve" => sent = 2

\* The counter never exceeds the signals sent, lost updates or not; while the
\* engine is about to decrement it, it is positive; and after the first
\* decrement it stays at 0 until the second signal.
CounterFollowsSignals ==
    /\ sem <= sent
    /\ srv = "store1" => loadedS = 0
    /\ srv = "store2" => loadedS <= 1
    /\ pc \in {"load1", "load2"} => sem > 0
    /\ pc \in {"store1", "store2"} => loadedE \in 1..sent
    /\ pc \in {"map", "safeop", "wait2"} => sent = 2 \/ sem = 0

\* What is published, and whether the image is mapped, tell where the engine is.
PublishedWhere ==
    /\ ycoestate = "PREOP" => pc \in {"wait1", "load1", "store1", "map", "safeop"}
    /\ ycoestate = "SAFEOP" => pc \in {"wait2", "load2", "store2", "opCheck", "op"}
    /\ ycoestate = "OPERATIONAL" => pc \in {"branch", "cycle", "close", "end"}
    /\ ycoestate \in {"SAFEOP", "OPERATIONAL"} => mapped
    /\ pc \in {"init", "config", "preopCheck", "preop", "wait1", "load1", "store1",
               "map"} => ~mapped
    /\ pc \in {"preop", "preopCheck"} => ycoestate = "none"
    /\ pc \in {"safeop", "wait2", "load2", "store2", "opCheck", "op", "branch",
               "cycle"} => mapped

\* A slave count is known only in the cycle, which has no end; a lockstep server
\* has waited for SAFEOP when it sends its second signal.
ServedWhere ==
    /\ datamap # 0 => pc = "cycle"
    /\ numslaves # 0 => datamap # 0
    /\ style = "lockstep" /\ srv \in {"load2", "store2", "serve"} => mapped

IInv ==
    /\ TypeOK
    /\ ServerSent
    /\ CounterFollowsSignals
    /\ PublishedWhere
    /\ ServedWhere
    /\ SignalledBeforeAdvance
    /\ SetUpBeforeMap

-----------------------------------------------------------------------------
\* Nothing is published, mapped or signalled at first.
LEMMA Initial == Init => IInv
<1> SUFFICES ASSUME Init PROVE IInv
  OBVIOUS
<1>1. srv \in {"load1", "awaitPreop"} /\ Retries \in Nat
  BY SlavesAssumption DEF Init
<1>2. TypeOK
  <2>1. /\ pc \in EnginePc /\ srv \in ServerPc /\ ycoestate \in PublishedState
        /\ style \in Styles /\ ctl \in {"waiting", "running"}
    BY <1>1 DEF Init, EnginePc, ServerPc, PublishedState
  <2>2. /\ chk \in 0..Retries /\ loadedE \in 0..2 /\ loadedS \in 0..1
        /\ sem \in 0..2 /\ sent \in 0..2
    BY <1>1 DEF Init
  <2>3. /\ reached \in BOOLEAN /\ mapped \in BOOLEAN
        /\ datamap \in {0, SlaveCount} /\ numslaves \in {0, SlaveCount}
    BY DEF Init
  <2> QED
    BY <2>1, <2>2, <2>3 DEF TypeOK
<1>3. ServerSent /\ CounterFollowsSignals /\ PublishedWhere
  BY <1>1 DEF Init, ServerSent, CounterFollowsSignals, PublishedWhere
<1>4. ServedWhere /\ SignalledBeforeAdvance /\ SetUpBeforeMap
  BY <1>1 DEF Init, ServedWhere, SignalledBeforeAdvance, SetUpBeforeMap
<1> QED
  BY <1>2, <1>3, <1>4 DEF IInv

\* The engine's steps.
LEMMA EngineKeeps == IInv /\ EngineStep => IInv'
<1> SUFFICES ASSUME IInv, EngineStep PROVE IInv'
  OBVIOUS
<1>0. SlaveCount \in Nat \ {0} /\ Retries \in Nat
  BY SlavesAssumption
<1> USE <1>0
       DEF KeepOthers, Goto, EnginePc, ServerPc, PublishedState, TypeOK, ServerSent,
           CounterFollowsSignals, PublishedWhere, ServedWhere, SignalledBeforeAdvance,
           SetUpBeforeMap, IInv
<1>1. CASE OpenSocket
  BY <1>1 DEF OpenSocket
<1>2. CASE FindSlaves
  BY <1>2 DEF FindSlaves
<1>3. CASE CheckPreop
  BY <1>3 DEF CheckPreop, CheckLoop
<1>4. CASE PublishPreop
  BY <1>4 DEF PublishPreop, Publish
<1>5. CASE SeeSignal("wait1", "load1")
  BY <1>5 DEF SeeSignal
<1>6. CASE LoadE("load1", "store1")
  BY <1>6 DEF LoadE
<1>7. CASE StoreE("store1", "map")
  BY <1>7 DEF StoreE
<1>8. CASE MapImage
  BY <1>8 DEF MapImage
<1>9. CASE PublishSafeop
  BY <1>9 DEF PublishSafeop, Publish
<1>10. CASE SeeSignal("wait2", "load2")
  BY <1>10 DEF SeeSignal
<1>11. CASE LoadE("load2", "store2")
  BY <1>11 DEF LoadE
<1>12. CASE StoreE("store2", "opCheck")
  BY <1>12 DEF StoreE
<1>13. CASE CheckOp
  BY <1>13 DEF CheckOp, CheckLoop
<1>14. CASE PublishOp
  BY <1>14 DEF PublishOp, Publish
<1>15. CASE Branch
  BY <1>15 DEF Branch
<1>16. CASE Exchange
  BY <1>16 DEF Exchange
<1>17. CASE Close
  BY <1>17 DEF Close
<1> QED
  BY <1>1, <1>2, <1>3, <1>4, <1>5, <1>6, <1>7, <1>8, <1>9, <1>10, <1>11, <1>12, <1>13, <1>14, <1>15, <1>16, <1>17
     DEF EngineStep, TakeFirst, TakeSecond

\* The server's steps.
LEMMA ServerKeeps == IInv /\ ServerStep => IInv'
<1> SUFFICES ASSUME IInv, ServerStep PROVE IInv'
  OBVIOUS
<1>0. SlaveCount \in Nat \ {0} /\ Retries \in Nat
  BY SlavesAssumption
<1> USE <1>0
       DEF engineVars, EnginePc, ServerPc, PublishedState, TypeOK, ServerSent,
           CounterFollowsSignals, PublishedWhere, ServedWhere, SignalledBeforeAdvance,
           SetUpBeforeMap, IInv
<1>1. CASE AwaitPreop
  BY <1>1 DEF AwaitPreop, Await
<1>2. CASE SetUpSlaves
  BY <1>2 DEF SetUpSlaves
<1>3. CASE LoadS("load1", "store1")
  BY <1>3 DEF LoadS
<1>4. CASE StoreS("store1", IF style = "eager" THEN "load2" ELSE "awaitSafeop")
  BY <1>4 DEF StoreS
<1>5. CASE AwaitSafeop
  BY <1>5 DEF AwaitSafeop, Await
<1>6. CASE LoadS("load2", "store2")
  BY <1>6 DEF LoadS
<1>7. CASE StoreS("store2", "serve")
  BY <1>7 DEF StoreS
<1>8. CASE Serve
  BY <1>8 DEF Serve
<1> QED
  BY <1>1, <1>2, <1>3, <1>4, <1>5, <1>6, <1>7, <1>8
     DEF ServerStep, switch_to_next_ycoestate_1, switch_to_next_ycoestate_2

\* The control thread's step.
LEMMA ControlKeeps == IInv /\ ControlStarts => IInv'
BY DEF ControlStarts, engineVars, serverVars, TypeOK, ServerSent, CounterFollowsSignals,
       PublishedWhere, ServedWhere, SignalledBeforeAdvance, SetUpBeforeMap, IInv

\* Every step of the three threads keeps the invariant.
LEMMA Inductive == IInv /\ [Next]_vars => IInv'
<1> SUFFICES ASSUME IInv, [Next]_vars PROVE IInv'
  OBVIOUS
<1>1. CASE EngineStep
  BY <1>1, EngineKeeps
<1>2. CASE ServerStep
  BY <1>2, ServerKeeps
<1>3. CASE ControlStarts
  BY <1>3, ControlKeeps
<1>4. CASE UNCHANGED vars
  BY <1>4 DEF vars, TypeOK, ServerSent, CounterFollowsSignals, PublishedWhere,
             ServedWhere, SignalledBeforeAdvance, SetUpBeforeMap, IInv
<1> QED
  BY <1>1, <1>2, <1>3, <1>4 DEF Next

\* So it holds always.
LEMMA InvariantHolds == Spec => []IInv
BY Initial, Inductive, PTL DEF Spec

\* The types hold; in particular the unlocked counter stays between 0 and 2
\* whichever of its loads and stores overlap.
THEOREM TypeCorrect == Spec => []TypeOK
<1>1. IInv => TypeOK
  BY DEF IInv
<1> QED
  BY <1>1, InvariantHolds, PTL

\* No state is entered without its signal (ycoe_engine.c:161, 179): an update of
\* the counter may be lost, but none is ever made up.
THEOREM SignalledCorrect == Spec => []SignalledBeforeAdvance
<1>1. IInv => SignalledBeforeAdvance
  BY DEF IInv
<1> QED
  BY <1>1, InvariantHolds, PTL

\* ipm_debug sets the drives up (ipm_debug.c:103-113) before the engine reads
\* their PDO mapping, and the engine waits for it.
THEOREM SetUpCorrect == Spec => []SetUpBeforeMap
<1>1. IInv => SetUpBeforeMap
  BY DEF IInv
<1> QED
  BY <1>1, InvariantHolds, PTL

\* A lockstep program serves no request before the process image is mapped.
THEOREM ServesMappedCorrect == Spec => []ServesMapped
<1>1. IInv => ServesMapped
  BY DEF IInv, ServedWhere, ServesMapped
<1> QED
  BY <1>1, InvariantHolds, PTL

\* The control thread may be started by an OPERATIONAL that was not reached, and
\* still touches no drive before the cycle runs.
THEOREM ControlCorrect == Spec => []ControlOnlyInCycle
<1>1. IInv => ControlOnlyInCycle
  BY DEF IInv, ServedWhere, PublishedWhere, ControlOnlyInCycle
<1> QED
  BY <1>1, InvariantHolds, PTL
=============================================================================
