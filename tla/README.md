# YaskawaCoE in TLA+

YaskawaCoE is an EtherCAT master for Yaskawa servo drives: C programs on top of
SOEM that bring the slaves to OPERATIONAL, exchange process data with them every
few milliseconds at most, and move the drives on requests that arrive over a socket.
This directory holds TLA+ models of their concurrent parts, the TLC
configurations that check them and TLAPS proofs about them.

## 1. The system

A program (`src/main/*.c`) is linked from the library `src/ycoe/` and runs:

| Thread | Code | What it does |
| --- | --- | --- |
| engine | `ycoe_engine()` in `ycoe/ycoe_engine.c` | start-up INIT → PREOP → SAFEOP → OPERATIONAL, then the cyclic exchange under `ecat_mutex` |
| error handling | `ecatcheck()` in `ycoe/ycoe_engine.c` (same code in `ycoe/ecatcheck.c`) | brings slaves back that left OPERATIONAL; takes no lock |
| server | `controlserver()` in `main/ppm_*.c`, `main/ipm_debug.c`, `main/csp_*.c` | one client request at a time; in the profile position programs also the control logic, all under the mutex |
| control | `control_engine()` in `main/ipm_debug.c`; the cycle of `coeController()` in `main/csp_*.c` and of `main/xeno.c` | the control logic of the interpolated and cyclic modes; the cyclic programs start the network themselves and exchange in the same thread |

They interact through shared memory only: the process image (outputs and inputs
of each slave, under the mutex), the counter `switch_ycoestate_sem` and
`ycoestate` (no lock), and SOEM's `ec_slave[]`, `docheckstate`, `wkc` and
`expectedWKC` (no lock). Clients (`src/gui/`) poll with an unknown request every
0.9 s and send commands when a button is pressed; the request and its reply are
strictly alternating on the socket.

### Components

| Component | State it keeps | Operations | What makes it correct | Module |
| --- | --- | --- | --- | --- |
| Word tests (`ycoe_controlstatus`, word tests of the position modes) | none | status and control tests | a test accepts exactly the words its constant stands for | `StatusWord`, `DriveStates` |
| Profile position server (`ppm_debug.c`, `ppm_user.c`) | `pos_cmd_sem`, outputs | requests 3, 6, 9, 23, 33, 36, 39, 42, 43, poll; control logic | a command is taken once, and taken; a stop stops; drives are enabled in order | `PpmServer`, `PpmPrograms`, abstract: `SetPoint` |
| Automatic sequence (`ppm_auto.c`) | `position_request` | alternate between two targets | a target is replaced only when reached; it goes on for ever | `PpmPrograms` |
| Engine | `ycoestate`, `switch_ycoestate_sem`, data map | start-up, cycle | each state is entered on its signal, and is entered | `Engine` |
| Error handling | `docheckstate`, `islost`, `ec_slave[].state` | one pass over the slaves | no slave forgotten, none thrown out, all come back | `EcatCheck` |
| Interpolated position server (`ipm_debug.c`) | `final_position`, `pos_cmd_sem`, `numslaves` | set-up in PREOP, requests, control thread | set up before mapping; no jump when a drive starts; axes settle | start-up in `Engine`, the rest in `IpmServer` |
| Cyclic position controllers (`csp_*.c`, `ycoe_cyclicposition`, `xeno.c`) | target, peak and demand velocity per axis, array index, graph ring | start-up, requests 3 and 33, cycle | both axes arrive; a drive is sent past no more samples than frames were lost or drives tripped | `CspMotion`, `CspMaster` |
| Data map, graph ring | `ycoe_network_pdomap`, `graphIndex` | refresh, reply | slave count, place in the ring | partly, in the modules of its users |
| Remote I/O, registers, homing, identities, sample array | none of their own | output bits, SDO access, a table | bit arithmetic | not modelled |
| Clients, installers | windows, plots | requests | environment of the servers | not modelled |

### What is hard here

* A server decides on the inputs of the last good exchange and writes outputs
  for the next; a drive answers when it gets to it. Requests may follow each
  other faster than that loop closes, frames are lost, drives trip and are moved.
* `switch_ycoestate_sem++` and `--switch_ycoestate_sem` run in two threads
  without a lock.
* `ecatcheck` reads all slave states, then acts on them one by one with calls
  that take milliseconds, while the engine broadcasts requests and slaves fail.
* State is shared that looks private: one `final_position` for all axes, one
  step size from the lower axis for both, statics in the ramp generator, a
  TARGET_REACHED bit left over from the motion before.

`PROJECT.json` lists the hazards with their lines and the properties for each.

## 2. Modules

### StatusWord, DriveStates
A word is the set of the positions of its 1 bits, so a masked comparison of the
C code is `word \cap mask = value`, for all 2^16 words. `StateTests` is the
if / else-if chain of `ycoe_checkstatus` in its order; its branch is chosen by
the *target*, and the statusword is compared inside the branch. `DriveStates` has
the drive's enabling state machine (external, CiA 402) and `Seen`, the state that
the chain of tests in every program's control logic reads from a word.

### PpmServer
Variables: `cw`, `target`, `inputs` (process image of the servos), `sem`
(`pos_cmd_sem`, entry 0 included), `drive` (the drives), and the ghosts `wanted`
(last position asked for) and `taken` (a set-point was latched since bit 4 went
up). One action per request, each followed in the same step by the control logic
(`Round`), because both run under one hold of the mutex; `Exchange` is one turn
of the engine's cycle; it may reach only some drives and its return may be lost.
Drives (external) walk the enabling states and take a set-point on a rising edge
of bit 4. SDO writes that are made succeed. Refused requests, and those that only
read or set an I/O output, are `Poll`; single-axis requests come for servos and
for address 0 only. Address 0 is SOEM's master slave, whose outputs are those of
the first slave.

### SetPoint and the refinement
`SetPoint` is what the server promises for one axis: positions are asked for, the
drive takes the one wanted at the time, and the debt is settled only when the
drive has the position asked for last. `ImplementsSetPoint` of `PpmServer`
instantiates it per servo with `exec` as the drive's executed position and
`owes` as `sem[s] > 0`; the handshake, the exchanges, lost frames and the
enabling are stutters. It holds for paced clients only (see Runs).

### PpmPrograms
`ppm_user.c` and `ppm_auto.c` over the drives, exchange and control logic of
`PpmServer`. `ppm_user` takes the number of slaves from the data map, 0 before the
first complete exchange. `ppm_auto` has no client: a round every 0.9 s, which turns
both targets round when both TARGET_REACHED bits are in. `at` is where a drive
rested last. The way between the two positions takes a drive about 5.5 s at the
profile velocity, six rounds; `MotionEndsAt` therefore lets such a motion end only
when the commands before it are worked off, while a motion to where the drive
already is may be over at once.

### Engine
The thread of `ycoe_engine()` step by step, the server's signals, and the
control thread of `ipm_debug.c`. `++` and `--` are a load and a store. A state
check either finds the slaves in the state or does not. `style` says how the
program signals: *eager* (`ppm_*.c`: twice at once) or *lockstep*
(`ipm_debug.c`: wait for PREOP, set up, signal, wait for SAFEOP, signal).

### EcatCheck
`ecatcheck` with one step per SOEM call and slave, beside the engine from
`expectedWKC` on, and slaves (external) that obey, trip, restart, lose their link
and come back. A request to a slave that is not reached is lost, the checker's like
the engine's (`Write`). `AckError` leaves the state as read because `EC_STATE_ACK`
and `EC_STATE_ERROR` are the same bit.

### IpmServer
`ipm_debug.c` from OPERATIONAL on. Each hold of `ecat_mutex` is one step: `Control`
(a whole round of `control_engine` over the slaves it knows), `Poll` and `AskFor`
(requests, each refreshes the slave count), and the exchanges. The loop over the
slaves is written as functions of the slave: `FinalAt(s)` is what
`final_position` is when the loop comes to s, because a drive found switched on
changes it for itself and the later ones. An interpolating drive (external) follows the
target of every frame that reaches it; a tripped one may be moved by hand.

### CspMotion, CspMaster
`CspMotion` is the ramp generator as functions of one axis' record: `sqroot` (six
Newton steps, a recursive function), the peak velocity of a request, one cycle of
the way. `CspMaster` is the four cyclic programs over it: start-up, requests,
one turn of the cycle (control logic, exchange, graph) as one step under
`IOmutex`, and the drives. Requests that come between the slave count and the mapping
of the image crash the program (`TooEarly`), as reading an input through the
null pointer would; so does address 0 before any slave is found, since 0 passes the
test on the address. Later, address 0 works on statics and a semaphore of its own,
which the cycle never reads and the model leaves out. `skipped` is a ghost: the
samples each drive was sent past. In the programs that follow an array, positions are numbers of
samples. `csp_debug.c` and `csp_sin.c` also test `pos_cmd_sem[3]`, past the end
of the array: either outcome is a step.

### MC modules and proof modules
`MC...` modules are what the configurations run. The theorems about a module M are in
`M_proofs`; those about how `PpmServer` enables and stops drives are in
`PpmEnabling_proofs`, which needs the status tests too. Definitions whose
comment begins with "Mutant" are plausible mistakes in the definition below
them; each property is violated when its mutant takes the definition's place.

## 3. Runs

| Run | Bounds | Shows |
| --- | --- | --- |
| `ppm_paced` | 1 servo, 2 positions, 2 pending commands, 1 fault, paced | The hand-over is exact: `IdleMeansTaken` (semaphore at 0 means that the drive has the last position asked for), `AckMeansTaken`, the refinement `ImplementsSetPoint`, and under fairness `CommandTaken` and `CommandsDrain` (an axis is idle again and again unless it is asked again and again) |
| `ppm_free` | same, not paced, address 0 too | `RaisedHasCommand`, `StopHolds`, `EnabledIsSetUp`, `EnabledStaysEnabled` hold however fast requests come and however old the inputs are |
| `ppm_programs` | `ppm_user` and `ppm_auto`, 2 servos, 2 pending commands, lost frames, drives anywhere but all at the upper position | `IdleMeansTaken` and `StopHolds` for the all-axes requests; `AutoKeepsUp`, `ReplacedWhenDone`, `Alternates` for the sequence |
| `ppm_auto_rest` | as before, both drives may start at the upper position, violation | `ReplacedWhenDone` fails: the drives take the upper position, where they stand, and the lower one asked for next is replaced by the upper one again before any drive takes it |
| `ppm_stale_ack` | as `ppm_free`, violation | A stale acknowledgement is taken for the next command |
| `engine_startup` | both styles, 2 slaves, 2 retries | `SignalledBeforeAdvance`, `SetUpBeforeMap`, `ServesMapped`, `ControlOnlyInCycle`; lockstep programs always start (`LockstepStarts`) |
| `engine_lost_signal` | eager, violation | A lost update of the counter: the engine waits for ever |
| `engine_op_published` | lockstep, violation | OPERATIONAL published without being reached |
| `ecatcheck` | 2 slaves, 1 failure, 1 retry | `LostIsChecked`, `OpIsKept`, `AllResume`, `LostIsRecovered` |
| `ecat_early_op` | 2 slaves, no failure, violation | `ecatcheck` requests OPERATIONAL before any process data was sent |
| `ipm` | 2 servos, from 4 home to 2 and on request to 6 in steps of 1; 1 request, 1 fault or lost frame | `StartsAtRest`, `AllSettle`, `JointArrives` |
| `csp` | 4 programs, targets -8 and 12, 1 request; 1 fault or lost frame, 2 for `csp_sin` and `xeno`, none for `csp_debug`; period of 5 samples, ring of 2 | `SkipsAccounted` (each sample a drive is sent past has its lost frame or fault), `ArrayIsTraced`, `JointArrives`, and the ring's index in `TypeOK` |

**Pacing.** `Paced = TRUE` lets a request come only when each drive has seen the
current bit 4 and its answer is in the inputs: the handshake takes a few
1 ms cycles, the client of the repository polls every 0.9 s. It is an assumption
on clients and not something the server ensures; `ppm_free` and `ppm_stale_ack`
show what is left, and lost, without it. Pressing buttons quickly, or
two clients, break it.

**Bounds.** Two positions tell an old target from a new one; two pending
commands are enough for one to be added while another is in its handshake;
one fault falls between any two steps. `MaxSem` is a guard on requests 3 and 33.
The code allows 40 retries where the models allow 1 or 2; only the last one is
different. With one failure per behaviour in `ecatcheck` the failed slave is any
of two, in any step of a pass; two failures were tried once on the same
properties (291 thousand states) and made no difference. In `ipm` the way home and
the requested way are several steps of the interpolation, in both directions,
and requests fall in either. In `csp` the acceleration is 2 and 4 where the code
has 320 and 16000: every branch of the ramp (accelerate, peak, brake, crawl, done) is
taken in both directions on ways of 8 and 12 counts.
Positions, velocities and products are unbounded integers; the code's
are 32 bits wide and agree as long as positions are less than 2^31 apart.

**Fairness.** The threads run for ever and their waits poll, hence weak fairness
of each thread's steps. In the servers: clients poll, exchanges succeed again and
again, drives react, and tripped drives are reset; no request, loss or fault is
forced, and in `ipm` and `csp` frames are lost a bounded number of times. In
`ppm_auto` motions end. In `EcatCheck`: slaves obey and come back, and strong
fairness for the success of `ec_reconfig_slave` and `ec_recover_slave`, which are
tried again and again on a slave that answers. In `csp`, `xeno` may be ended by a
signal, which `ArrayIsTraced` excepts.

**Deadlock** is not checked in `Engine`, `EcatCheck` and `CspMaster`: the program
ends when no socket or slave is found, and then every other thread waits; a closed
network, or a crash, is an end too.

**What the properties do not say.** In `ipm`, a drive that is interpolating may be
given a target several steps away: each time `final_position` changes sides while a
frame is under way, the next step is counted from an older position. Only the
start is free of jumps, whence `StartsAtRest`. In `csp`, a drive
enabled in csp mode follows the target left in its outputs before the ramp generator
first writes it; `JointArrives` therefore begins with axes that were sent
after they were enabled, and from the same place, because each steps from the lower one.
An axis that rests at the position it had when its demand velocity was last
worked out never leaves, which `SentTogether` excludes.

**Findings.** The five violation runs are the findings of `PROJECT.json`: a signal
lost in `switch_ycoestate_sem`, OPERATIONAL published unreached, OPERATIONAL
requested early by `ecatcheck`, a stale acknowledgement taken, and `ppm_auto` replacing
positions that no drive has gone to. In the last, every round after enabling
finds TARGET_REACHED, because the only motion is to where the drives are and is over
before the next round; the trace ends when a position is replaced that no drive has
taken, with four asked for and one worked off. That this repeats every two rounds, with one
command more each time and no drive ever leaving, is what the code does next as long
as such motions are that short; it is read off the code and not shown by the run.

## 4. Proofs

*`StatusWord_proofs`*: for every statusword, legal or not, each status test of the
control logic is the masked comparison its constant stands for
(`StatusTestsExact`). The argument: no earlier branch of the chain catches one of
the four targets (`BranchOfSoD` ... `BranchOfOpEnabled`), and none carries a flag
bit (`NoFlags`).

*`PpmServer_proofs`*: from `ServoAssumption` and `BoundAssumption` only (any
number of servos, positions, faults; paced or not), `Spec => []TypeOK`
(`TypeCorrect`) and `Spec => []RaisedHasCommand` (`RaisedCorrect`). Neither is
inductive alone: that `sem` stays at or above 0 needs a command behind every
raised bit, because the decrement tests no more than the bits; and
`RaisedHasCommand` needs the types. Their conjunction `IInv` is. `ControlLogic`
is the heart: one pass of the control logic, on any statusword whatever, keeps
"raised implies pending"; `RequestKeeps` shows that each request hands it such a
state (a new position only adds; a stop lowers the bit of each semaphore it
clears, and address 0 clears a semaphore no servo uses).

The other properties concern one servo at a time. `RequestServes` reduces every
request to what it does with one servo: leave it alone, ask, stop, or reach its
outputs through address 0; each time the control logic then runs over it (`Served`).
`CycleMoves`, `Reactions` and `Tripped` do the same for exchanges and drives.

For a client that is paced and addresses no slave 0 (`PacedClient`), the second
half of the module proves `IdleMeansTaken` (`IdleTaken`), `AckMeansTaken`
(`AckTaken`) and the refinement `ImplementsSetPoint` (`SetPointImplemented`).
The invariant `HInv` adds to `IInv`, for each servo, where its handshake is
(`HandOver`): a drive acknowledges only what it has processed; a rise of bit 4 that it
has not yet processed is still the server's wish and comes with the target of now; and
until the server has seen the acknowledgement, the drive has either taken the
position wanted or a second command is counted for it. Then every step of the
server, of the exchange and of the drives is a step of each servo's channel of
`SetPoint`, or a stutter. Without pacing all three are false (`ppm_stale_ack`).

*`PpmEnabling_proofs`*: for any client, paced or not, address 0 included,
`EnabledIsSetUp` (`EnabledSetUp`), `StopHolds` (`StopHeld`) and `EnabledStaysEnabled`
(`StaysEnabledAlways`). The invariant is `EInv`: the controlword in the outputs, the
one the drive has, its state and the state last read from it are never more than
one step of the enabling sequence apart (`StepByStep`); a drive never set up was
never sent CW_SHUTDOWN (`SetUp`); a stopped axis has no command pending and HALT, or
nothing to move on (`Stopped`). `StepByStep` is what makes old inputs harmless:
the server cannot read a state that lies two controlwords back.
`Readings` (the control logic reads the state that was reported) rests on
`StatusTestsExact`; `Transitions` is the drive's answer to each controlword that
is ever written.

*`PpmPrograms_proofs`*: under `SlowSequence` (rounds slower than the handshake; not
all drives at the upper position at first, the case that `ppm_auto_rest` shows to fail;
and `MaxSem >= 2`, so that the model's bound is not what holds the commands back),
`ProgramSpec => Spec` (`ProgramsAreServers`): a behaviour of `ppm_user` or
`ppm_auto` is one of the server, so that `StopHolds` and `IdleMeansTaken` hold for them
(`ProgramsStop`, `ProgramsIdle`). For the sequence this is the same question as
`AutoKeepsUp` (`KeepsUp`), since its rounds test no bound. The invariant `PInv`
names the phases of the sequence: power-up; Low asked for (`First`); replaced by High
at once, with two commands pending (`Second`), whose handshakes both bring
High (`Third`, `Raised`); and from then on sent, raised, sent. A drive in `Second`,
`Third` or `Raised` is on its way (`OneOnItsWay`), and as a drive's TARGET_REACHED
can be trusted whenever a round runs (`Honest`), the sequence does not go on in these.
`ReplacedDone` (`ReplacedWhenDone`) follows.

*`IpmServer_proofs`*: from the module's three assumptions only (any number of
servos, positions, requests, faults, lost frames), `Spec => []TypeOK`
(`TypeCorrect`) and `Spec => StartsAtRest` (`RestfulStart`). For the types the
invariant `IInv` adds that a semaphore counts at most the requests so far and
one command of enabling, and that a drive interpolates only while enabled. For
`StartsAtRest` the invariant is `EInv`: the `StepByStep` of above, and while a drive waits to
interpolate it stands where its inputs say, with a command pending until the target
has been set from there (`Waiting`). A lost frame or an
old statusword only delays the next step, which is why none of them can bring bit 4
together with an old target. Then one lemma per action.

*`Engine_proofs`*: for any number of slaves and retries and both signalling styles,
`TypeOK`, `SignalledBeforeAdvance`, `SetUpBeforeMap`, `ServesMapped` and
`ControlOnlyInCycle`. The invariant relates the counter to the signals sent, lost
updates included: it never exceeds them, is positive while the engine is about to
decrement it, and is 0 from the first decrement to the second signal
(`ServerSent`, `CounterFollowsSignals`); and it relates what is published, mapped and
served to where the engine is (`PublishedWhere`, `ServedWhere`).

*`EcatCheck_proofs`*: for any number of slaves, failures and retries, `TypeOK`,
`LostIsChecked` (`LostChecked`) and `OpIsKept` (`OpKept`). Within a pass, the lost slaves that
the pass has left behind have set `docheckstate`, and so has the one it is at, unless
its second half is about to find it again (`LostFlagged`). A slave last
read in INIT or PRE_OP is still there, because only `ecatcheck` takes it further and
reads it then (`ReadIsNear`): that is why reconfiguring on an old reading takes
no slave out of OPERATIONAL.

*`CspMaster_proofs`*: about the ramp generator, `SqrootDefined` (`sqroot` never
divides by zero and returns a natural number; its six steps are unfolded one by
one) and `OneCycle` (in one cycle the demand velocity changes by at most the
acceleration, and the target itself is commanded only when near). About
`CspMaster`, `TypeOK` for all four programs and any bounds (`TypeCorrect`; the
invariant adds that a semaphore counts at most the requests and one enabling), and
`SkipsAccounted` (`SkipsAccountedFor`), under `OffTheArray`: each
axis stands off the array or at its first sample when the program starts. That is what the run has too: the code takes
an axis to the first sample from wherever it is found, so that one found at a later
sample does jump back, once. The invariant is `StepByStep` again,
and `Lag`: the samples a drive was sent past, those it lags behind the index now
(`Behind`), and the one it may lose because a fault has not been noticed yet
(`Unnoticed`), are together no more than the disturbances so far.

Model-checked only: liveness (`CommandTaken`, `CommandsDrain`, `Alternates`,
`LockstepStarts`, `AllResume`, `LostIsRecovered`, `AllSettle`, `ArrayIsTraced`,
`JointArrives`), since the provers here reach neither fairness nor ENABLED; and
the five violations. Every invariant and every action property of a run is proved, under
the hypotheses named above.
What the ramp generator computes over many cycles would need induction over its data,
which is out of reach too: only its single steps are proved.

## 5. Not modelled

* The layout of messages and of the data map, printing, plots, time measurement,
  error codes (`csp_debug.c:278`); a request shorter than its fields, which leaves the
  tail of the one before in the buffer.
* SOEM itself and the drives, other than as the environment described above; a
  position or a stop sent to a slave that is no servo or does not exist, and memory
  outside of `pos_cmd_sem[3]`.
* The time SDO transfers take while the mutex is held, and with it the watchdog
  trips it may cause in a running network; the SDO write of the target with which
  `ipm_debug.c` accompanies the same value in the outputs (`Control`); failing SDO writes (their
  results are ignored by the code, so nothing in it reacts to them).
* `rio_574X0.c` (bits of I/O outputs no control logic reads),
  `ycoe_registers.c` and `yaskawacoe.c` (wrappers of SOEM calls and a table),
  `ycoe_homing.c` (not called), `ycoe_math.c` (a sine table in floating point, of
  which `CspMaster` counts the samples) and the position file `csp_debug.c` reads.
* The clients, the Windows branches (they differ in the names of the lock calls),
  the Windows DLL and installers. Their requests are the servers' environment.

## 6. Plan

What is open:

1. `CspMotion`: that an axis does not pass its target, for the two accelerations of
   the code; it needs a bound on `sqroot` after six steps.
2. `EcatCheck`: that a slave that was lost and found again is never also marked lost,
   and the second half of a pass as an abstract specification of its own.
3. `IpmServer`: a bound on how many steps a target may be away once a drive
   interpolates (see "What the properties do not say").
