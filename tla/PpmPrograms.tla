---------------------------- MODULE PpmPrograms ----------------------------
(***************************************************************************)
(* The other two profile position programs, on the drives, the exchange    *)
(* and the control logic of PpmServer.                                     *)
(*                                                                         *)
(* main/ppm_user.c serves the same requests, but takes the number of       *)
(* slaves from the data map, which holds 0 until the first complete        *)
(* exchange: until then the requests to all axes reach none.               *)
(* main/ppm_auto.c has no clients.  Every 0.9 s it looks whether both      *)
(* drives report TARGET_REACHED, and then asks both for the other one of   *)
(* two positions.                                                          *)
(***************************************************************************)
EXTENDS PpmServer

CONSTANTS
    Programs,   \* which of the two programs the instance runs
    Low, High,  \* the two positions of ppm_auto, 0 and 300000000
    RestHigh,   \* TRUE: all drives may stand at High when ppm_auto starts
    Lossy       \* TRUE: frames may be lost, for some or all drives

ASSUME ProgramAssumption ==
    /\ Programs \subseteq {"ppm_user", "ppm_auto"}
    /\ {Low, High} \subseteq Position
    /\ Low # High
    /\ {RestHigh, Lossy} \subseteq BOOLEAN

VARIABLES
    program,  \* the program that runs
    known,    \* numslaves as the data map has it is that of the network, not 0
    reached,  \* ppm_auto: bit 10, TARGET_REACHED, of each servo's inputs
    upper,    \* ppm_auto: position_request > 0
    at        \* ppm_auto: where a drive rested last, NoPosition: further than
              \* the way of three rounds from either position

pvars == <<program, known, reached, upper, at>>
allvars == <<vars, pvars>>

\* position_request starts at 1500000000.
ProgramInit ==
    /\ Init
    /\ program \in Programs
    /\ known = FALSE
    /\ reached = [s \in Servo |-> FALSE]
    /\ upper = TRUE
    /\ at \in [Servo -> {Low, High, NoPosition}]
    /\ ~RestHigh => \E s \in Servo : at[s] # High
    /\ program = "ppm_user" => at = [s \in Servo |-> NoPosition]

-----------------------------------------------------------------------------
\* One turn of the server loop of ppm_user.  Its control logic is Round's, over
\* slaves 1 and 2 whatever the data map says.  Request 23 is taken to be sent to
\* I/O slaves.
UserRequest ==
    /\ program = "ppm_user"
    /\ \/ Poll
       \/ \E a \in Addressed, p \in Position :
             (known \/ a = 0) /\ SetPosition(a, p)
       \/ \E p \in Position : known /\ SetAllPositions(p)
       \/ \E a \in Addressed : SetProfile(a) \/ StopAxis(a)
       \/ known /\ StopAll
    /\ UNCHANGED pvars

\* Mutant: one drive's TARGET_REACHED suffices.
OneReached == \E s \in Servo : reached[s]

\* Both drives report that they are where they were sent.
BothReached == \A s \in Servo : reached[s]

NextTarget == IF upper THEN Low ELSE High

\* A round of ppm_auto that turns the drives round.
Sequence ==
    /\ BothReached
    /\ Round(cw, [s \in Servo |-> NextTarget], [i \in SemIndex |->
             IF i \in Servo THEN sem[i] + 1 ELSE sem[i]], Profiles)
    /\ wanted' = [s \in Servo |-> NextTarget]
    /\ upper' = ~upper

\* A round of ppm_auto; with no slaves known it does nothing.
AutoRound ==
    /\ program = "ppm_auto"
    /\ known
    /\ \/ Sequence
       \/ ~BothReached /\ Poll /\ UNCHANGED upper
    /\ UNCHANGED <<program, known, reached, at>>

-----------------------------------------------------------------------------
\* Mutant: the slave count is never written to the data map.
ExchangeUncounted(R, returned) ==
    /\ Exchange(R, returned)
    /\ reached' = [s \in Servo |-> IF program = "ppm_auto" /\ s \in R /\ returned
                     THEN drive[s].state = "OperationEnabled" /\ ~drive[s].moving
                     ELSE reached[s]]
    /\ UNCHANGED <<program, known, upper, at>>

\* The exchange brings the drives' bit 10 with the statusword, and a complete
\* one fills the data map.
ExchangeReached(R, returned) ==
    /\ Exchange(R, returned)
    /\ reached' = [s \in Servo |-> IF program = "ppm_auto" /\ s \in R /\ returned
                     THEN drive[s].state = "OperationEnabled" /\ ~drive[s].moving
                     ELSE reached[s]]
    /\ known' = (known \/ (R = Servo /\ returned))
    /\ UNCHANGED <<program, upper, at>>

GoodExchangeReached == ExchangeReached(Servo, TRUE)

\* The distance between Low and High takes a drive 5.5 s, six rounds of
\* ppm_auto, which has worked off its commands by then; a motion to where the
\* drive is may be over at once.
MotionEndsAt(s) ==
    /\ MotionEnds(s)
    /\ program = "ppm_auto" => sem[s] = 0 \/ at[s] = drive[s].exec
    /\ at' = IF program = "ppm_auto" THEN [at EXCEPT ![s] = drive[s].exec] ELSE at
    /\ UNCHANGED <<program, known, reached, upper>>

\* Faults are left to PpmServer.
ReactsInProgram(s) == DriveReacts(s) /\ UNCHANGED pvars

ProgramNext ==
    \/ UserRequest
    \/ AutoRound
    \/ GoodExchangeReached
    \/ \E R \in SUBSET Servo, returned \in BOOLEAN :
          Lossy /\ ExchangeReached(R, returned)
    \/ \E s \in Servo : MotionEndsAt(s) \/ ReactsInProgram(s)

ProgramSpec ==
    /\ ProgramInit /\ [][ProgramNext]_allvars
    /\ WF_allvars(AutoRound)
    /\ WF_allvars(GoodExchangeReached)
    /\ \A s \in Servo : WF_allvars(MotionEndsAt(s)) /\ WF_allvars(ReactsInProgram(s))

-----------------------------------------------------------------------------
\* ppm_auto asks for the next position while the previous one is still in its
\* handshake, because TARGET_REACHED has not fallen yet (ppm_auto.c:54), and no
\* test bounds pos_cmd_sem (:60); still the commands never pile up.
AutoKeepsUp ==
    program = "ppm_auto" => \A s \in Servo : sem[s] <= 2

\* Once a drive has executed a position of the sequence, the position it is
\* sent to is replaced only when both drives are done with it ("Auto
\* Sequencing", ppm_auto.c:53-63).  Not so when all drives stand at High at the
\* start (RestHigh): the first two rounds after enabling ask for Low and High,
\* the drives take High, which is over at once, and from then on a Low is
\* replaced by High, in the round that raises the set-point bit, before any
\* drive has taken it.
ReplacedWhenDone ==
    [][program = "ppm_auto" /\ target' # target
          => \/ \E s \in Servo : drive[s].exec = NoPosition
             \/ \A s \in Servo : drive[s].exec = target[s] /\ ~drive[s].moving]_allvars

\* The drives of ppm_auto go to and fro together for ever ("Auto Sequencing",
\* ppm_auto.c:53-63), unless all of them stand at High, or within three rounds'
\* way of it, at the start: see ReplacedWhenDone.
Alternates ==
    program = "ppm_auto" =>
        \A p \in {Low, High} : []<>(\A s \in Servo : drive[s].exec = p)
=============================================================================
