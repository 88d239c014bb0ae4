------------------------------- MODULE Engine -------------------------------
(***************************************************************************)
(* Start-up of the master: the thread of ycoe_engine()                     *)
(* (ycoe/ycoe_engine.c), the server thread that lets it advance through    *)
(* the counter switch_ycoestate_sem, and the control thread of             *)
(* main/ipm_debug.c that waits for ycoestate.                              *)
(*                                                                         *)
(* The counter and ycoestate are plain ints read and written without a     *)
(* lock: switch_ycoestate_sem++ and --switch_ycoestate_sem are a load and  *)
(* a store, and another thread may run in between.                         *)
(*                                                                         *)
(* Programs signal in one of two styles:                                   *)
(*   "eager"    ppm_debug.c, ppm_user.c, ppm_auto.c: two signals at once,  *)
(*              then requests are served;                                  *)
(*   "lockstep" ipm_debug.c: wait for PREOP, set the slaves up, signal;    *)
(*              wait for SAFEOP, signal; then requests are served.         *)
(***************************************************************************)
EXTENDS Integers

CONSTANTS
    Styles,     \* the signalling styles to consider
    SlaveCount, \* slaves on the network
    Retries     \* chk: state checks beyond the first, 40 in the code

ASSUME StylesAssumption == Styles \subseteq {"eager", "lockstep"}
ASSUME SlavesAssumption == SlaveCount \in Nat \ {0} /\ Retries \in Nat

VARIABLES
    style,      \* how this program signals
    pc,         \* engine thread
    chk,        \* its loop counter
    loadedE,    \* the value --switch_ycoestate_sem has loaded
    reached,    \* the last state check found every slave in the state asked for
    srv,        \* server thread
    loadedS,    \* the value switch_ycoestate_sem++ has loaded
    ctl,        \* control thread (lockstep programs)
    ycoestate,  \* published state, 0 before any
    sem,        \* switch_ycoestate_sem
    mapped,     \* ec_config_map has set the process image up
    datamap,    \* slave count in the first word of the data map, 0 at first
    numslaves,  \* the server's copy of it
    sent        \* ghost: signals the server has completed

vars == <<style, pc, chk, loadedE, reached, srv, loadedS, ctl, ycoestate, sem,
          mapped, datamap, numslaves, sent>>
engineVars == <<pc, chk, loadedE, reached, mapped, datamap>>
serverVars == <<srv, loadedS, numslaves, sent>>

\* The steps of ycoe_engine(), in order.
EnginePc == {"init", "config", "preopCheck", "preop", "wait1", "load1",
             "store1", "map", "safeop", "wait2", "load2", "store2", "opCheck",
             "op", "branch", "cycle", "close", "end"}
ServerPc == {"awaitPreop", "setUp", "load1", "store1", "awaitSafeop", "load2",
             "store2", "serve"}
PublishedState == {"none", "PREOP", "SAFEOP", "OPERATIONAL"}

TypeOK ==
    /\ style \in Styles
    /\ pc \in EnginePc
    /\ chk \in 0..Retries
    /\ loadedE \in 0..2
    /\ reached \in BOOLEAN
    /\ srv \in ServerPc
    /\ loadedS \in 0..1
    /\ ctl \in {"waiting", "running"}
    /\ ycoestate \in PublishedState
    /\ sem \in 0..2
    /\ mapped \in BOOLEAN
    /\ datamap \in {0, SlaveCount}
    /\ numslaves \in {0, SlaveCount}
    /\ sent \in 0..2

Init ==
    /\ style \in Styles
    /\ pc = "init"
    /\ chk = 0
    /\ loadedE = 0
    /\ reached = FALSE
    /\ srv = IF style = "eager" THEN "load1" ELSE "awaitPreop"
    /\ loadedS = 0
    /\ ctl = "waiting"
    /\ ycoestate = "none"
    /\ sem = 0
    /\ mapped = FALSE
    /\ datamap = 0
    /\ numslaves = 0
    /\ sent = 0

-----------------------------------------------------------------------------
\* ycoe_engine()

Goto(next) == pc' = next
KeepOthers == UNCHANGED <<style, srv, loadedS, ctl, numslaves, sent>>

\* ec_init may find no socket.
OpenSocket ==
    /\ pc = "init"
    /\ Goto("config") \/ Goto("end")
    /\ UNCHANGED <<chk, loadedE, reached, ycoestate, sem, mapped, datamap>>
    /\ KeepOthers

\* ec_config_init may find no slave.
FindSlaves ==
    /\ pc = "config"
    /\ \/ Goto("preopCheck") /\ chk' = Retries
       \/ Goto("close") /\ UNCHANGED chk
    /\ UNCHANGED <<loadedE, reached, ycoestate, sem, mapped, datamap>>
    /\ KeepOthers

\* Mutant: chk is decremented and never tested.
CheckLoopEndless(here, next) ==
    /\ pc = here
    /\ reached' \in BOOLEAN
    /\ IF reached' THEN Goto(next) /\ chk' = 0
                   ELSE chk' = chk - 1 /\ UNCHANGED pc
    /\ UNCHANGED <<loadedE, ycoestate, sem, mapped, datamap>>
    /\ KeepOthers

\* One turn of do { ... } while (chk-- && not in the state): the slaves either
\* have reached the state or not, and the loop also ends when chk was 0.
CheckLoop(here, next) ==
    /\ pc = here
    /\ reached' \in BOOLEAN
    /\ IF reached' \/ chk = 0
       THEN Goto(next) /\ chk' = 0
       ELSE chk' = chk - 1 /\ UNCHANGED pc
    /\ UNCHANGED <<loadedE, ycoestate, sem, mapped, datamap>>
    /\ KeepOthers

CheckPreop == CheckLoop("preopCheck", "preop")

\* ycoestate = ...: published whatever the check loop found.
Publish(here, state, next) ==
    /\ pc = here
    /\ ycoestate' = state
    /\ Goto(next)
    /\ UNCHANGED <<chk, loadedE, reached, sem, mapped, datamap>>
    /\ KeepOthers

PublishPreop == Publish("preop", "PREOP", "wait1")

\* Mutant: while (switch_ycoestate_sem < 0).
SeeSignalAtZero(here, next) ==
    /\ pc = here
    /\ sem >= 0
    /\ Goto(next)
    /\ UNCHANGED <<chk, loadedE, reached, ycoestate, sem, mapped, datamap>>
    /\ KeepOthers

\* Mutant: while (switch_ycoestate_sem <= 1).
SeeSignalAboveOne(here, next) ==
    /\ pc = here
    /\ sem > 1
    /\ Goto(next)
    /\ UNCHANGED <<chk, loadedE, reached, ycoestate, sem, mapped, datamap>>
    /\ KeepOthers

\* while (switch_ycoestate_sem <= 0) osal_usleep(1000);
SeeSignal(here, next) ==
    /\ pc = here
    /\ sem > 0
    /\ Goto(next)
    /\ UNCHANGED <<chk, loadedE, reached, ycoestate, sem, mapped, datamap>>
    /\ KeepOthers

\* --switch_ycoestate_sem
LoadE(here, next) ==
    /\ pc = here
    /\ loadedE' = sem
    /\ Goto(next)
    /\ UNCHANGED <<chk, reached, ycoestate, sem, mapped, datamap>>
    /\ KeepOthers

StoreE(here, next) ==
    /\ pc = here
    /\ sem' = loadedE - 1
    /\ Goto(next)
    /\ chk' = IF next = "opCheck" THEN Retries ELSE chk
    /\ UNCHANGED <<loadedE, reached, ycoestate, mapped, datamap>>
    /\ KeepOthers

TakeFirst ==
    \/ SeeSignal("wait1", "load1")
    \/ LoadE("load1", "store1")
    \/ StoreE("store1", "map")

TakeSecond ==
    \/ SeeSignal("wait2", "load2")
    \/ LoadE("load2", "store2")
    \/ StoreE("store2", "opCheck")

\* ec_configdc, ec_config_map, one check for SAFE_OP.
MapImage ==
    /\ pc = "map"
    /\ mapped' = TRUE
    /\ reached' \in BOOLEAN
    /\ Goto("safeop")
    /\ UNCHANGED <<chk, loadedE, ycoestate, sem, datamap>>
    /\ KeepOthers

PublishSafeop == Publish("safeop", "SAFEOP", "wait2")
CheckOp       == CheckLoop("opCheck", "op")
PublishOp     == Publish("op", "OPERATIONAL", "branch")

Branch ==
    /\ pc = "branch"
    /\ Goto(IF reached THEN "cycle" ELSE "close")
    /\ UNCHANGED <<chk, loadedE, reached, ycoestate, sem, mapped, datamap>>
    /\ KeepOthers

\* A good exchange of the cyclic loop: update_network_pdomap().
Exchange ==
    /\ pc = "cycle"
    /\ datamap' = SlaveCount
    /\ UNCHANGED <<pc, chk, loadedE, reached, ycoestate, sem, mapped>>
    /\ KeepOthers

Close ==
    /\ pc = "close"
    /\ Goto("end")
    /\ UNCHANGED <<chk, loadedE, reached, ycoestate, sem, mapped, datamap>>
    /\ KeepOthers

EngineStep ==
    \/ OpenSocket \/ FindSlaves \/ CheckPreop \/ PublishPreop \/ TakeFirst
    \/ MapImage \/ PublishSafeop \/ TakeSecond \/ CheckOp \/ PublishOp
    \/ Branch \/ Exchange \/ Close

-----------------------------------------------------------------------------
\* The server thread

\* Mutant: the server does not wait for the state.
AwaitNothing(here, state, next) ==
    /\ srv = here
    /\ srv' = next
    /\ UNCHANGED <<style, ctl, ycoestate, sem, loadedS, numslaves, sent>>
    /\ UNCHANGED engineVars

\* while (1) if (ycoestate == state) break;
Await(here, state, next) ==
    /\ srv = here
    /\ ycoestate = state
    /\ srv' = next
    /\ UNCHANGED <<style, ctl, ycoestate, sem, loadedS, numslaves, sent>>
    /\ UNCHANGED engineVars

AwaitPreop  == Await("awaitPreop", "PREOP", "setUp")
AwaitSafeop == Await("awaitSafeop", "SAFEOP", "load2")

\* Mode, PDO assignment and parameters of slaves 1 and 2, by SDO.
SetUpSlaves ==
    /\ srv = "setUp"
    /\ srv' = "load1"
    /\ UNCHANGED <<style, ctl, ycoestate, sem, loadedS, numslaves, sent>>
    /\ UNCHANGED engineVars

\* switch_ycoestate_sem++
LoadS(here, next) ==
    /\ srv = here
    /\ loadedS' = sem
    /\ srv' = next
    /\ UNCHANGED <<style, ctl, ycoestate, sem, numslaves, sent>>
    /\ UNCHANGED engineVars

StoreS(here, next) ==
    /\ srv = here
    /\ sem' = loadedS + 1
    /\ srv' = next
    /\ sent' = sent + 1
    /\ UNCHANGED <<style, ctl, ycoestate, loadedS, numslaves>>
    /\ UNCHANGED engineVars

switch_to_next_ycoestate_1 ==
    \/ LoadS("load1", "store1")
    \/ StoreS("store1", IF style = "eager" THEN "load2" ELSE "awaitSafeop")

switch_to_next_ycoestate_2 ==
    LoadS("load2", "store2") \/ StoreS("store2", "serve")

\* Mutant: #define numslaves ec_slavecount, as in ppm_debug.c:27.
ServeAllSlaves ==
    /\ srv = "serve"
    /\ numslaves' = SlaveCount
    /\ UNCHANGED <<style, ctl, ycoestate, sem, srv, loadedS, sent>>
    /\ UNCHANGED engineVars

\* A request: the server copies the slave count out of the data map.
Serve ==
    /\ srv = "serve"
    /\ numslaves' = datamap
    /\ UNCHANGED <<style, ctl, ycoestate, sem, srv, loadedS, sent>>
    /\ UNCHANGED engineVars

ServerStep ==
    \/ AwaitPreop \/ SetUpSlaves \/ switch_to_next_ycoestate_1
    \/ AwaitSafeop \/ switch_to_next_ycoestate_2 \/ Serve

\* control_engine(): it loops over the slaves 1 to numslaves once it runs.
ControlStarts ==
    /\ style = "lockstep"
    /\ ctl = "waiting"
    /\ ycoestate = "OPERATIONAL"
    /\ ctl' = "running"
    /\ UNCHANGED <<style, ycoestate, sem>>
    /\ UNCHANGED engineVars
    /\ UNCHANGED serverVars

Next == EngineStep \/ ServerStep \/ ControlStarts

Spec == Init /\ [][Next]_vars

\* Every thread goes on running.
FairSpec == Spec /\ WF_vars(EngineStep) /\ WF_vars(ServerStep)
                 /\ WF_vars(ControlStarts)

-----------------------------------------------------------------------------
\* The slaves are taken to SAFE_OP, and to OPERATIONAL, only after as many
\* signals (comments at ycoe_engine.c:161 and 179), lost updates or not.
SignalledBeforeAdvance ==
    /\ pc \in {"load1", "store1", "map", "safeop", "wait2"} => sent >= 1
    /\ pc \in {"load2", "store2", "opCheck", "op", "branch", "cycle"}
           => sent = 2

\* The drives are set up (ipm_debug.c:103-113) while the engine still waits to
\* read their PDO mapping: it never runs past them.
SetUpBeforeMap == srv = "setUp" => pc = "wait1" /\ ~mapped

\* A lockstep program serves requests, which read and write process data, only
\* when that data has been mapped.
ServesMapped == style = "lockstep" /\ srv = "serve" => mapped

\* OPERATIONAL is published even when no exchange will ever take place, but
\* the control thread touches a drive only if its outputs are being exchanged:
\* the slave count it loops over stays 0 until the first good exchange.
ControlOnlyInCycle ==
    ctl = "running" /\ numslaves > 0 => mapped /\ pc = "cycle"

\* Once the slaves have been found, a lockstep program gets through the
\* start-up and comes to serve requests: the engine never waits "for signal
\* from semaphore" (ycoe_engine.c:161, 179) for a signal that was already sent.
LockstepStarts ==
    style = "lockstep" /\ pc = "wait1"
        ~> pc \in {"cycle", "end"} /\ srv = "serve"

\* The same of an eager program: the engine waits "for signal from semaphore"
\* (ycoe_engine.c:161, 179), so two signals take it past both waits.
EagerStarts ==
    style = "eager" /\ pc = "wait1" ~> pc \in {"cycle", "end"}

\* ycoestate = OPERATIONAL tells the other threads that the loop that is to
\* "wait for all slaves to reach OP state" (ycoe_engine.c:197) has done so.
PublishedOpIsReached ==
    ycoestate = "OPERATIONAL" => reached
=============================================================================
