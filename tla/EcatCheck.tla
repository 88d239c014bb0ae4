------------------------------ MODULE EcatCheck ------------------------------
(***************************************************************************)
(* The error-handling thread ecatcheck() (ycoe/ycoe_engine.c, and the same *)
(* code in ycoe/ecatcheck.c) beside the engine thread, which takes the     *)
(* slaves to OPERATIONAL and then exchanges process data.  Both threads    *)
(* talk to the slaves and share ec_slave[], the group's docheckstate, wkc  *)
(* and expectedWKC; ecatcheck takes no lock.  Each SOEM call is a step of  *)
(* its own: slaves change state, and the engine runs, between the calls of *)
(* one pass.                                                               *)
(*                                                                         *)
(* The slaves and SOEM's calls are external: a slave obeys or refuses a    *)
(* state request, drops out of operation, loses its link or its power, and *)
(* comes back.                                                             *)
(***************************************************************************)
EXTENDS Naturals

CONSTANTS
    SlaveCount, \* ec_slavecount; all slaves are in the current group
    MaxDrops,   \* bound on the failures of slaves
    Retries     \* chk: OP checks beyond the first, 40 in the code

ASSUME CountAssumption ==
    SlaveCount \in Nat \ {0} /\ MaxDrops \in Nat /\ Retries \in Nat

Slave == 1..SlaveCount

\* Application layer state of a slave as a read returns it; NONE: no answer.
ALState == {"NONE", "INIT", "PRE_OP", "SAFE_OP", "SAFE_OP+ERROR", "OP"}
\* The last ec_writestate to a slave, not yet obeyed.
Asked == {"nothing", "INIT", "SAFE_OP+ACK", "OP"}

VARIABLES
    al,       \* the state each slave is in
    link,     \* whether it is reached at all
    asked,    \* the state each slave has been asked for
    drops,    \* failures so far
    state,    \* ec_slave[].state, as last read or assigned
    islost,   \* ec_slave[].islost
    docheckstate,
    checker,  \* ecatcheck: "idle", or the part of the loop body it is in
    slave,    \* its loop variable
    engine,   \* where the engine thread is
    chk,      \* its loop counter
    expected, \* expectedWKC has been set
    wkcLow    \* wkc is below the value expectedWKC gets

vars == <<al, link, asked, drops, state, islost, docheckstate, checker, slave,
          engine, chk, expected, wkcLow>>
slaveVars   == <<al, link, asked, drops>>
checkerVars == <<state, islost, docheckstate, checker, slave>>
engineVars  == <<engine, chk, expected, wkcLow>>

EnginePhase == {"mapped", "expecting", "sent", "waiting", "cycle", "giveUp",
                "closed"}

TypeOK ==
    /\ al \in [Slave -> ALState \ {"NONE"}]
    /\ link \in [Slave -> BOOLEAN]
    /\ asked \in [Slave -> Asked]
    /\ drops \in 0..MaxDrops
    /\ state \in [Slave -> ALState]
    /\ islost \in [Slave -> BOOLEAN]
    /\ docheckstate \in BOOLEAN
    /\ checker \in {"idle", "state", "lost"}
    /\ slave \in 1..(SlaveCount + 1)
    /\ engine \in EnginePhase
    /\ chk \in 0..Retries
    /\ expected \in BOOLEAN
    /\ wkcLow \in BOOLEAN

\* The engine has mapped the image; SAFE_OP was asked of every slave, and one
\* check made, but nothing ensures that all are there (ycoe_engine.c:173-178).
Init ==
    /\ al \in [Slave -> {"PRE_OP", "SAFE_OP"}]
    /\ link = [s \in Slave |-> TRUE]
    /\ asked = [s \in Slave |-> "nothing"]
    /\ drops = 0
    /\ state = al
    /\ islost = [s \in Slave |-> FALSE]
    /\ docheckstate = FALSE
    /\ checker = "idle"
    /\ slave = 1
    /\ engine = "mapped"
    /\ chk = 0
    /\ expected = FALSE
    /\ wkcLow = TRUE

-----------------------------------------------------------------------------
\* What a read of a slave's state returns.
Answer(s) == IF link[s] THEN al[s] ELSE "NONE"
Answers == [s \in Slave |-> Answer(s)]

\* ec_writestate(): the slaves in S are asked for the state st.  The request to a
\* slave that is not reached is lost.
Write(S, st) ==
    asked' = [s \in Slave |-> IF s \in S /\ link[s] THEN st ELSE asked[s]]

\* ecatcheck(): one pass of its loop

\* (wkc < expectedWKC) || docheckstate, then ec_readstate().
StartPass ==
    /\ checker = "idle"
    /\ engine # "closed"
    /\ (expected /\ wkcLow) \/ docheckstate
    /\ docheckstate' = FALSE
    /\ state' = Answers
    /\ checker' = "state"
    /\ slave' = 1
    /\ UNCHANGED islost
    /\ UNCHANGED slaveVars
    /\ UNCHANGED engineVars

\* The loop body for one slave has two ifs; this is what the first leaves.
ToLost ==
    /\ checker = "state"
    /\ slave \in Slave
    /\ checker' = "lost"
    /\ UNCHANGED slave

\* Mutant: docheckstate is not set again.
NotOperationalUnflagged(st) ==
    /\ ToLost
    /\ state[slave] = st
    /\ UNCHANGED docheckstate

NotOperational(st) ==
    /\ ToLost
    /\ state[slave] = st
    /\ docheckstate' = TRUE

IsOperational ==
    /\ ToLost
    /\ state[slave] = "OP"
    /\ UNCHANGED <<state, islost, docheckstate>>
    /\ UNCHANGED slaveVars
    /\ UNCHANGED engineVars

\* Mutant: the state is assigned but ec_writestate() is not called.
AckErrorUnwritten ==
    /\ NotOperational("SAFE_OP+ERROR")
    /\ UNCHANGED <<state, islost>>
    /\ UNCHANGED slaveVars
    /\ UNCHANGED engineVars

\* EC_STATE_ACK and EC_STATE_ERROR are the same bit: state keeps its value.
AckError ==
    /\ NotOperational("SAFE_OP+ERROR")
    /\ Write({slave}, "SAFE_OP+ACK")
    /\ UNCHANGED <<al, link, drops, state, islost>>
    /\ UNCHANGED engineVars

AskOperational ==
    /\ NotOperational("SAFE_OP")
    /\ state' = [state EXCEPT ![slave] = "OP"]
    /\ Write({slave}, "OP")
    /\ UNCHANGED <<al, link, drops, islost>>
    /\ UNCHANGED engineVars

\* Mutant: "> EC_STATE_NONE" is tested before SAFE_OP.
ReconfigureFirst(r) ==
    /\ \/ NotOperational("INIT") \/ NotOperational("PRE_OP")
       \/ NotOperational("SAFE_OP")
    /\ (r = "NONE") = ~link[slave]
    /\ IF link[slave]
       THEN /\ al' = [al EXCEPT ![slave] = r]
            /\ asked' = [asked EXCEPT ![slave] = "nothing"]
       ELSE UNCHANGED <<al, asked>>
    /\ state' = [state EXCEPT ![slave] = r]
    /\ islost' = [islost EXCEPT ![slave] = @ /\ r = "NONE"]
    /\ UNCHANGED <<link, drops>>
    /\ UNCHANGED engineVars

\* ec_reconfig_slave() takes an answering slave to the state r, SAFE_OP if all
\* goes well, and returns it; it returns 0 (NONE) when the slave is silent.
Reconfigure(r) ==
    /\ NotOperational("INIT") \/ NotOperational("PRE_OP")
    /\ (r = "NONE") = ~link[slave]
    /\ IF link[slave]
       THEN /\ al' = [al EXCEPT ![slave] = r]
            /\ asked' = [asked EXCEPT ![slave] = "nothing"]
       ELSE UNCHANGED <<al, asked>>
    /\ state' = [state EXCEPT ![slave] = r]
    /\ islost' = [islost EXCEPT ![slave] = @ /\ r = "NONE"]
    /\ UNCHANGED <<link, drops>>
    /\ UNCHANGED engineVars

\* ec_statecheck() of a slave that did not answer and is not known to be lost.
Recheck ==
    /\ NotOperational("NONE")
    /\ ~islost[slave]
    /\ state' = [state EXCEPT ![slave] = Answer(slave)]
    /\ islost' = [islost EXCEPT ![slave] = ~link[slave]]
    /\ UNCHANGED slaveVars
    /\ UNCHANGED engineVars

KnownLost ==
    /\ NotOperational("NONE")
    /\ islost[slave]
    /\ UNCHANGED <<state, islost>>
    /\ UNCHANGED slaveVars
    /\ UNCHANGED engineVars

\* if (ec_slave[slave].islost): the second if; then the next slave.
NextSlave ==
    /\ checker = "lost"
    /\ checker' = "state"
    /\ slave' = slave + 1
    /\ UNCHANGED <<state, docheckstate>>
    /\ UNCHANGED slaveVars
    /\ UNCHANGED engineVars

NotLost ==
    /\ NextSlave
    /\ ~islost[slave]
    /\ UNCHANGED islost

\* ec_recover_slave() can succeed only with a slave that answers.
Recover(ok) ==
    /\ NextSlave
    /\ islost[slave]
    /\ state[slave] = "NONE"
    /\ ok => link[slave]
    /\ islost' = [islost EXCEPT ![slave] = ~ok]

\* Mutant: a slave that is found again stays marked as lost.
FoundStillLost ==
    /\ NextSlave
    /\ islost[slave]
    /\ state[slave] # "NONE"
    /\ UNCHANGED islost

Found ==
    /\ NextSlave
    /\ islost[slave]
    /\ state[slave] # "NONE"
    /\ islost' = [islost EXCEPT ![slave] = FALSE]

\* "OK : all slaves resumed OPERATIONAL." when docheckstate is still FALSE.
EndPass ==
    /\ checker = "state"
    /\ slave = SlaveCount + 1
    /\ checker' = "idle"
    /\ slave' = 1
    /\ UNCHANGED <<state, islost, docheckstate>>
    /\ UNCHANGED slaveVars
    /\ UNCHANGED engineVars

CheckerStep ==
    \/ StartPass \/ IsOperational \/ AckError \/ AskOperational
    \/ \E r \in {"NONE", "INIT", "PRE_OP", "SAFE_OP"} : Reconfigure(r)
    \/ Recheck \/ KnownLost \/ NotLost
    \/ \E ok \in BOOLEAN : Recover(ok)
    \/ Found \/ EndPass

-----------------------------------------------------------------------------
\* ycoe_engine() from the request for OPERATIONAL on (lines 188-261)

EngineKeeps == UNCHANGED checkerVars

SetExpectedWKC ==
    /\ engine = "mapped"
    /\ engine' = "expecting"
    /\ expected' = TRUE
    /\ UNCHANGED <<chk, wkcLow>>
    /\ UNCHANGED slaveVars
    /\ EngineKeeps

\* One exchange before the request; its working counter is not stored.
SendValidData ==
    /\ engine = "expecting"
    /\ engine' = "sent"
    /\ UNCHANGED <<chk, expected, wkcLow>>
    /\ UNCHANGED slaveVars
    /\ EngineKeeps

\* Mutant: one check too many.
RequestOpOnceMore ==
    /\ engine = "sent"
    /\ engine' = "waiting"
    /\ chk' = Retries + 1
    /\ Write(Slave, "OP")
    /\ UNCHANGED <<al, link, drops, expected, wkcLow>>
    /\ EngineKeeps

RequestOp ==
    /\ engine = "sent"
    /\ engine' = "waiting"
    /\ chk' = Retries
    /\ Write(Slave, "OP")
    /\ UNCHANGED <<al, link, drops, expected, wkcLow>>
    /\ EngineKeeps

AllOp == \A s \in Slave : Answer(s) = "OP"

\* do { exchange; check } while (chk-- && not all OP)
CheckOp ==
    /\ engine = "waiting"
    /\ \/ AllOp /\ engine' = "cycle" /\ chk' = 0
       \/ ~AllOp /\ chk > 0 /\ chk' = chk - 1 /\ UNCHANGED engine
       \/ ~AllOp /\ chk = 0 /\ engine' = "giveUp" /\ UNCHANGED chk
    /\ UNCHANGED <<expected, wkcLow>>
    /\ UNCHANGED slaveVars
    /\ EngineKeeps

\* ec_readstate(), then ec_writestate(0) with INIT.
GiveUp ==
    /\ engine = "giveUp"
    /\ engine' = "closed"
    /\ state' = Answers
    /\ Write(Slave, "INIT")
    /\ UNCHANGED <<al, link, drops, chk, expected, wkcLow>>
    /\ UNCHANGED <<islost, docheckstate, checker, slave>>

\* wkc = ec_receive_processdata(): full only if every slave is operational.
Exchange ==
    /\ engine = "cycle"
    /\ wkcLow' = ~AllOp
    /\ UNCHANGED <<engine, chk, expected>>
    /\ UNCHANGED slaveVars
    /\ EngineKeeps

EngineStep ==
    \/ SetExpectedWKC \/ SendValidData \/ RequestOp \/ CheckOp \/ GiveUp
    \/ Exchange

-----------------------------------------------------------------------------
\* The slaves

\* The transitions a slave makes on a request; a refusal is an error that has
\* to be acknowledged, and counts as a failure.
Obeys(from, to) ==
    \/ from = "SAFE_OP+ERROR" /\ to = "SAFE_OP+ACK"
    \/ from = "SAFE_OP" /\ to = "OP"
    \/ to = "INIT"

SlaveObeys(s) ==
    /\ Obeys(al[s], asked[s])
    /\ al' = [al EXCEPT ![s] =
                  IF asked[s] = "SAFE_OP+ACK" THEN "SAFE_OP" ELSE asked[s]]
    /\ asked' = [asked EXCEPT ![s] = "nothing"]
    /\ UNCHANGED <<link, drops>>
    /\ UNCHANGED checkerVars
    /\ UNCHANGED engineVars

Fails(s) ==
    /\ drops < MaxDrops
    /\ drops' = drops + 1
    /\ UNCHANGED checkerVars
    /\ UNCHANGED engineVars

\* Its watchdog trips, or it refuses a request.
SlaveTrips(s) ==
    /\ Fails(s)
    /\ al[s] \in {"SAFE_OP", "OP"}
    /\ al' = [al EXCEPT ![s] = "SAFE_OP+ERROR"]
    /\ asked' = [asked EXCEPT ![s] = "nothing"]
    /\ UNCHANGED link

\* A power cycle.
SlaveRestarts(s) ==
    /\ Fails(s)
    /\ al[s] # "INIT"
    /\ al' = [al EXCEPT ![s] = "INIT"]
    /\ asked' = [asked EXCEPT ![s] = "nothing"]
    /\ UNCHANGED link

LinkDrops(s) ==
    /\ Fails(s)
    /\ link[s]
    /\ link' = [link EXCEPT ![s] = FALSE]
    /\ UNCHANGED <<al, asked>>

\* The link is back; meanwhile the slave may have tripped its watchdog, or lost
\* its power.
LinkReturns(s) ==
    /\ ~link[s]
    /\ link' = [link EXCEPT ![s] = TRUE]
    /\ \E to \in {al[s], "INIT"} \cup
              (IF al[s] \in {"SAFE_OP", "OP"} THEN {"SAFE_OP+ERROR"} ELSE {}) :
          /\ al' = [al EXCEPT ![s] = to]
          /\ asked' = IF to = al[s] THEN asked
                      ELSE [asked EXCEPT ![s] = "nothing"]
    /\ UNCHANGED drops
    /\ UNCHANGED checkerVars
    /\ UNCHANGED engineVars

SlaveStep(s) ==
    \/ SlaveObeys(s) \/ SlaveTrips(s) \/ SlaveRestarts(s)
    \/ LinkDrops(s) \/ LinkReturns(s)

Next == CheckerStep \/ EngineStep \/ \E s \in Slave : SlaveStep(s)

Spec == Init /\ [][Next]_vars

\* Both threads run for ever, slaves obey and come back, and an attempt that is
\* made again and again on an answering slave succeeds in the end.
Fairness ==
    /\ WF_vars(CheckerStep)
    /\ WF_vars(EngineStep)
    /\ \A s \in Slave : /\ WF_vars(SlaveObeys(s))
                        /\ WF_vars(LinkReturns(s))
                        /\ SF_vars(slave = s /\ Reconfigure("SAFE_OP"))
                        /\ SF_vars(slave = s /\ Recover(TRUE))

FairSpec == Spec /\ Fairness

-----------------------------------------------------------------------------
\* Between passes a lost slave keeps docheckstate set: the thread comes back
\* for it whatever wkc says (ycoe_engine.c:64-120).
LostIsChecked ==
    /\ checker = "idle"
    /\ engine # "closed"
    /\ \E s \in Slave : islost[s]
    => docheckstate

\* The two threads never undo each other: a slave leaves OPERATIONAL only when
\* it fails, loses its link or when the engine closes the network, not because
\* the checker acts on a state it read before the engine's request was obeyed.
OpIsKept ==
    [][\A s \in Slave : al[s] = "OP" /\ al'[s] # "OP"
          => drops' > drops \/ ~link[s] \/ asked[s] = "INIT"]_vars

\* While the engine cycles, every slave that drops out, in whatever way, is
\* brought back to OPERATIONAL once failures stop.
AllResume == <>[](engine = "cycle" => AllOp)

\* A lost slave is eventually no longer marked so (recovered or found).
LostIsRecovered ==
    \A s \in Slave : islost[s] ~> ~islost[s] \/ engine = "closed"

\* No slave is asked for OPERATIONAL before the engine has sent "one valid
\* process data to make outputs in slaves happy" (ycoe_engine.c:191).
OpAfterValidData ==
    engine \in {"mapped", "expecting"} => \A s \in Slave : asked[s] # "OP"
=============================================================================
