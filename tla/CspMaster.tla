----------------------------- MODULE CspMaster -----------------------------
(***************************************************************************)
(* The cyclic synchronous position programs: main/csp_ramp.c moves the     *)
(* axes on requests, main/csp_debug.c, main/csp_sin.c and main/xeno.c make *)
(* them follow an array of positions.  They start the network themselves,  *)
(* without ycoe_engine.c, and have no drives but the two axes.             *)
(*                                                                         *)
(* A turn of the cycle (control logic, exchange, graph) and a request are  *)
(* one step each: both run under IOmutex.  An enabled drive (external)     *)
(* goes to the target position of every frame that reaches it; it reports  *)
(* the position it had when the frame came.  It walks its enabling states  *)
(* when it gets to it.                                                     *)
(*                                                                         *)
(* Positions are counts in csp_ramp and numbers of samples in the others.  *)
(***************************************************************************)
EXTENDS CspMotion, DriveStates

CONSTANTS
    Programs,    \* the programs the instance runs
    Position,    \* positions a client asks for
    Rest,        \* where the axes may stand at power-up
    Period,      \* period_in_cycles
    Ring,        \* length of the graph's rings, 500 in the code
    MaxRequests, \* bound on the number of requests
    MaxTroubles  \* per program, bound on the number of faults and lost frames

Axis == {1, 2}
ArrayPrograms == {"csp_debug", "csp_sin", "xeno"}

ASSUME ProgramsAssumption == Programs \subseteq {"csp_ramp"} \cup ArrayPrograms
ASSUME PositionAssumption == Position \subseteq Int /\ Rest \subseteq Int
ASSUME BoundsAssumption ==
    /\ {Period, Ring} \subseteq Nat \ {0}
    /\ MaxRequests \in Nat
    /\ MaxTroubles \in [Programs -> Nat]

VARIABLES
    program,  \* the program that runs
    phase,    \* how far its network is
    cw,       \* controlword in each axis' outputs
    out,      \* target position in each axis' outputs
    inputs,   \* statusword and position in each axis' inputs
    motion,   \* the ramp generator's statics
    sem,      \* pos_cmd_sem[1], pos_cmd_sem[2]
    index,    \* position_index
    graph,    \* graphIndex, and the position of axis 1 it was advanced for
    drive,    \* the drives
    skipped,  \* ghost: samples of the array each drive was sent past, not to
    spent     \* requests, and faults and lost frames, so far

vars == <<program, phase, cw, out, inputs, motion, sem, index, graph, drive,
          skipped, spent>>

\* Statuswords in the inputs: none yet, or the ones of a drive's states.
Reported == {{}} \cup {StateBits[st] : st \in DriveState}

server == <<motion, sem>>
turned == <<cw, out, inputs, index, graph, skipped>> \* by the cycle only

TypeOK ==
    /\ program \in Programs
    /\ phase \in {"init", "noNetwork", "config", "mapped", "cyclic", "closed",
                  "crashed"}
    /\ cw \in [Axis -> Word]
    /\ out \in [Axis -> Int]
    /\ inputs \in [Axis -> [status : Reported, position : Int]]
    /\ motion \in [Axis -> [{"target", "peak", "ramp", "demand", "previous"} -> Int]]
    /\ sem \in [Axis -> 0..MaxRequests + 1]
    /\ index \in 0..Period - 1
    /\ graph \in [at : 0..Ring - 1, position : Int]
    /\ drive \in [Axis -> [state : DriveState, cw : Word, position : Int]]
    /\ skipped \in [Axis -> Int]
    /\ spent \in [requests : 0..MaxRequests, troubles : 0..MaxTroubles[program]]

\* graphIndex starts at 44, its own offset in the buffer; any place will do.
Init ==
    /\ program \in Programs
    /\ phase = "init"
    /\ cw = [s \in Axis |-> {}]
    /\ out = [s \in Axis |-> 0]
    /\ inputs = [s \in Axis |-> [status |-> {}, position |-> 0]]
    /\ motion = [s \in Axis |-> NewMotion]
    /\ sem = [s \in Axis |-> 0]
    /\ index = 0
    /\ graph = [at |-> Ring - 1, position |-> 0]
    /\ drive \in [Axis -> {[state |-> "SwitchOnDisabled", cw |-> {},
                            position |-> p] : p \in Rest}]
    /\ skipped = [s \in Axis |-> 0]
    /\ spent = [requests |-> 0, troubles |-> 0]

-----------------------------------------------------------------------------
\* Start-up: no socket or no slaves, slaves found and set up, process image
\* mapped, OPERATIONAL reached or not within its 41 checks.
Goes(from, to) ==
    /\ phase = from
    /\ phase' = to
    /\ UNCHANGED <<program, server, turned, drive, spent>>

NoNetwork  == Goes("init", "noNetwork")
FindSlaves == Goes("init", "config")
MapImage   == Goes("config", "mapped")
ReachOp    == Goes("mapped", "cyclic")
GiveUp     == Goes("mapped", "closed")

StartUp == NoNetwork \/ FindSlaves \/ MapImage \/ ReachOp \/ GiveUp

\* A signal ends xeno's cycle; the others have no end.
catch_signal == Goes("cyclic", "closed")

\* Each program has a copy of the start-up.
RampStartUp  == program = "csp_ramp" /\ StartUp
DebugStartUp == program = "csp_debug" /\ StartUp
SinStartUp   == program = "csp_sin" /\ StartUp
XenoStartUp  == program = "xeno" /\ (StartUp \/ catch_signal)

-----------------------------------------------------------------------------
\* The state the control logic reads for an axis (a table of Seen, for TLC).
StateRead == [w \in Reported |-> Seen(w)]
StateOf(s) == StateRead[inputs[s].status]
Enabled(s) == StateOf(s) = "OperationEnabled"

\* Mutant: a drive found disabled is left as it is.
EnableCwOnce(s) ==
    CASE StateOf(s) = "SwitchOnDisabled" -> IF cw[s] = {} THEN CW_SHUTDOWN ELSE cw[s]
      [] StateOf(s) = "ReadyToSwitchOn"  -> CW_SWITCHON
      [] StateOf(s) = "SwitchedOn"       -> CW_ENABLEOP
      [] OTHER                           -> cw[s]

\* The enabling sequence, the same in all programs.
EnableCw(s) ==
    CASE StateOf(s) = "SwitchOnDisabled" -> CW_SHUTDOWN
      [] StateOf(s) = "ReadyToSwitchOn"  -> CW_SWITCHON
      [] StateOf(s) = "SwitchedOn"       -> CW_ENABLEOP
      [] OTHER                           -> cw[s]

EnableSem(s) == IF StateOf(s) = "SwitchedOn" THEN 1 ELSE sem[s]

Low == IF inputs[1].position > inputs[2].position
       THEN inputs[2].position ELSE inputs[1].position

Way(s) == ycoe_csp_goto_possync(motion[s], inputs[s].position, Low)
Moves(s) == Enabled(s) /\ sem[s] > 0

\* Control logic of csp_ramp: each enabled axis with a command goes its way.
RampControl ==
    /\ program = "csp_ramp"
    /\ phase = "cyclic"
    /\ motion' = [s \in Axis |-> IF Moves(s) THEN Way(s).motion ELSE motion[s]]
    /\ out' = [s \in Axis |-> IF Moves(s) THEN Way(s).out ELSE out[s]]
    /\ sem' = [s \in Axis |-> IF Moves(s) /\ Way(s).done THEN sem[s] - 1
                              ELSE EnableSem(s)]
    /\ UNCHANGED index

\* Mutant: one enabled axis is enough.
OneEnabled == \E s \in Axis : Enabled(s)

BothEnabled == \A s \in Axis : Enabled(s)

ycoe_csp_follow_posarray(i) == IF i + 1 >= Period THEN 0 ELSE i + 1

\* Control logic of the programs that follow the array: both axes go to the
\* next sample, or stay.
ArrayControl(follow) ==
    /\ phase = "cyclic"
    /\ sem' = [s \in Axis |-> EnableSem(s)]
    /\ index' = IF follow THEN ycoe_csp_follow_posarray(index) ELSE index
    /\ out' = IF follow THEN [s \in Axis |-> index'] ELSE out
    /\ UNCHANGED motion

\* csp_debug and csp_sin also test pos_cmd_sem[3], past the end of the array,
\* which may be positive or not.
DebugControl == program = "csp_debug" /\ \E positive \in BOOLEAN :
                   ArrayControl(BothEnabled /\ positive)
SinControl   == program = "csp_sin" /\ \E positive \in BOOLEAN :
                   ArrayControl(BothEnabled /\ positive)
XenoControl  == program = "xeno" /\ ArrayControl(BothEnabled)

-----------------------------------------------------------------------------
\* Samples from a to b, round the array.
Ahead(a, b) == (b - a) % Period

\* The samples of the array that a drive passes over on its way to the next
\* position it is sent to.
PassedOver(s) ==
    IF /\ program \in ArrayPrograms
       /\ drive[s].position \in 0..Period - 1
       /\ drive'[s].position # drive[s].position
    THEN Ahead(drive[s].position, drive'[s].position) - 1
    ELSE 0

\* The frame reaches the drives in R; its return may be lost.
Complete(R, returned) == R = Axis /\ returned

Exchange(R, returned) ==
    /\ cw' = [s \in Axis |-> EnableCw(s)]
    /\ inputs' = [s \in Axis |->
          IF s \in R /\ returned
          THEN [status |-> StateBits[drive[s].state], position |-> drive[s].position]
          ELSE inputs[s]]
    /\ drive' = [s \in Axis |->
          IF s \notin R THEN drive[s]
          ELSE [drive[s] EXCEPT !.cw = cw'[s],
                    !.position = IF drive[s].state = "OperationEnabled"
                                 THEN out'[s] ELSE @]]
    /\ skipped' = [s \in Axis |-> skipped[s] + PassedOver(s)]
    /\ spent' = IF Complete(R, returned) THEN spent
                ELSE [spent EXCEPT !.troubles = @ + 1]
    /\ UNCHANGED <<program, phase>>

\* Mutant: the ring has one place too many.
NextPlaceLate(i) == IF i + 1 > Ring THEN 0 ELSE i + 1

NextPlace(i) == IF i + 1 >= Ring THEN 0 ELSE i + 1

\* A complete exchange that finds axis 1 at another position than the last one
\* adds the positions of both axes to the graph.
Graph(R, returned) ==
    graph' = IF Complete(R, returned) /\ inputs'[1].position # graph.position
             THEN [at |-> NextPlace(graph.at), position |-> inputs'[1].position]
             ELSE graph

\* The axes are a line behind the master: a frame reaches both, the first or
\* none.
Frame == {<<Axis, TRUE>>, <<Axis, FALSE>>, <<{1}, TRUE>>, <<{}, FALSE>>}

RampCycle(f)  == RampControl  /\ Exchange(f[1], f[2]) /\ Graph(f[1], f[2])
DebugCycle(f) == DebugControl /\ Exchange(f[1], f[2]) /\ Graph(f[1], f[2])
SinCycle(f)   == SinControl   /\ Exchange(f[1], f[2]) /\ Graph(f[1], f[2])
XenoCycle(f)  == XenoControl  /\ Exchange(f[1], f[2]) /\ UNCHANGED graph

Turn(f) == RampCycle(f) \/ DebugCycle(f) \/ SinCycle(f) \/ XenoCycle(f)

GoodCycle  == Turn(<<Axis, TRUE>>)
LossyCycle == /\ spent.troubles < MaxTroubles[program]
              /\ \E f \in Frame : ~Complete(f[1], f[2]) /\ Turn(f)

-----------------------------------------------------------------------------
\* Requests 3 and 33 of csp_ramp and csp_debug.  csp_sin only replies, xeno has
\* no server.
HasRequests == program \in {"csp_ramp", "csp_debug"} /\ spent.requests < MaxRequests

\* Before the image is mapped the inputs of all slaves are null pointers.  An
\* axis is asked only once slaves are found, address 0 before that too.
TooEarly ==
    /\ HasRequests
    /\ phase \in {"init", "noNetwork", "config"}
    /\ phase' = "crashed"
    /\ UNCHANGED <<program, server, turned, drive, spent>>

\* A position for the axes in A.  Address 0 is the master slave, with statics and
\* a semaphore of its own that the cycle never reads: it asks no axis.
SetPositions(A, p) ==
    /\ HasRequests
    /\ phase \in {"mapped", "cyclic", "closed"}
    /\ motion' = [s \in Axis |->
          IF s \in A THEN ycoe_csp_set_position(motion[s], inputs[s].position, p)
          ELSE motion[s]]
    /\ sem' = [s \in Axis |-> IF s \in A THEN sem[s] + 1 ELSE sem[s]]
    /\ spent' = [spent EXCEPT !.requests = @ + 1]
    /\ UNCHANGED <<program, phase, turned, drive>>

\* Address 0, one axis or both.
Asks == TooEarly \/ \E A \in SUBSET Axis, p \in Position : SetPositions(A, p)

RampRequest  == program = "csp_ramp" /\ Asks
DebugRequest == program = "csp_debug" /\ Asks

-----------------------------------------------------------------------------
\* The drives.
React(s) ==
    /\ NextState(drive[s].state, drive[s].cw) # drive[s].state
    /\ drive' = [drive EXCEPT ![s].state = NextState(@, drive[s].cw)]
    /\ UNCHANGED <<program, phase, server, turned, spent>>

Trip(s) ==
    /\ spent.troubles < MaxTroubles[program]
    /\ drive[s].state \in {"SwitchedOn", "OperationEnabled"}
    /\ drive' = [drive EXCEPT ![s].state = "Fault"]
    /\ spent' = [spent EXCEPT !.troubles = @ + 1]
    /\ UNCHANGED <<program, phase, server, turned>>

Reset(s) ==
    /\ drive[s].state = "Fault"
    /\ drive' = [drive EXCEPT ![s].state = "SwitchOnDisabled"]
    /\ UNCHANGED <<program, phase, server, turned, spent>>

Next ==
    \/ RampStartUp \/ DebugStartUp \/ SinStartUp \/ XenoStartUp
    \/ GoodCycle
    \/ LossyCycle
    \/ RampRequest
    \/ DebugRequest
    \/ \E s \in Axis : React(s) \/ Trip(s) \/ Reset(s)

Spec == Init /\ [][Next]_vars

\* The cycle goes on, frames are lost a bounded number of times, drives react
\* and tripped drives are reset.
FairSpec ==
    /\ Spec
    /\ WF_vars(GoodCycle)
    /\ \A s \in Axis : WF_vars(React(s)) /\ WF_vars(Reset(s))

-----------------------------------------------------------------------------
\* The programs that follow the array lead a drive from sample to sample
\* (ycoe_cyclicposition.c:265-274).  The index goes on whether or not a frame
\* arrives, so a drive is sent past a sample now and then; but all the samples a
\* drive was ever sent past are no more than the frames lost and the faults so
\* far: the index stops for both as soon as one is not enabled, and a drive that
\* comes back finds it where it stopped.
SkipsAccounted ==
    program \in ArrayPrograms => \A s \in Axis : skipped[s] <= spent.troubles

\* xeno's drives trace the array again and again, after a trip too, until the
\* program ends.  (csp_debug and csp_sin follow it only if the word after
\* pos_cmd_sem is positive: csp_debug.c:176, csp_sin.c:143.)
ArrayIsTraced ==
    program = "xeno" =>
        \/ []<>(phase # "cyclic")
        \/ \A p \in 0..Period - 1 : []<>(\A s \in Axis : drive[s].position = p)

\* Both axes were just sent to p from the place where they rest, enabled.  An
\* axis that reports the same position as when its demand velocity was last
\* worked out would keep its demand velocity of 0 (ycoe_cyclicposition.c:176).
SentTogether(p) ==
    /\ program = "csp_ramp" /\ phase = "cyclic"
    /\ \A s \in Axis :
          /\ sem[s] = 1
          /\ motion[s].demand = 0
          /\ motion[s].previous # inputs[s].position
          /\ motion[s].target = p
          /\ motion[s].ramp = RampDistance(Distance(p, inputs[s].position))
          /\ Enabled(s)
          /\ drive[s].state = "OperationEnabled"
          /\ drive[s].position = inputs[1].position
          /\ inputs[s].position = inputs[1].position

\* Both axes of csp_ramp arrive where they were sent together, up or down, with
\* a lost frame on the way, unless one trips or is sent elsewhere.
JointArrives ==
    \A p \in Position :
        SentTogether(p)
        ~> \/ \A s \in Axis : drive[s].position = p /\ sem[s] = 0
           \/ \E s \in Axis : \/ motion[s].target # p
                              \/ drive[s].state # "OperationEnabled"
=============================================================================
