----------------------------- MODULE CspMotion -----------------------------
(***************************************************************************)
(* The ramp generator of ycoe/ycoe_cyclicposition.c: the peak velocity and *)
(* the ramp of a position request, and one cycle of the way to it.         *)
(* Positions are counts, velocities counts per cycle.                      *)
(*                                                                         *)
(* Integers are unbounded here and 32 bits wide in the code; they agree as *)
(* long as no two positions are further apart than 2^31 - 1.               *)
(***************************************************************************)
EXTENDS Integers

CONSTANTS
    acceleration,   \* 320 in the code
    acceleration50  \* acceleration * 50, 16000

ASSUME AccelerationAssumption ==
    /\ {acceleration, acceleration50} \subseteq Nat \ {0}
    /\ acceleration <= acceleration50

max_2ramp_distance == 547000000

\* Six steps of Newton's method from 63.
sqroot(x) ==
    LET root[n \in 0..6] ==
            IF n = 0 THEN 63 ELSE (root[n - 1] + x \div root[n - 1]) \div 2
    IN  root[6]

Distance(a, b) == IF a > b THEN a - b ELSE b - a

\* Peak velocity for a way of d counts.
PeakVelocity(d) ==
    IF d > max_2ramp_distance THEN 1600000
    ELSE (4 * sqroot(acceleration * 16)
            * (IF d > 1048576 THEN sqroot(d \div 65536) * 1024 ELSE sqroot(d * 16)))
         \div 16

RampDistance(d) == IF d > max_2ramp_distance THEN 273500000 ELSE d \div 2

\* An axis: target_position, peak_velocity, ramp_distance, demand_velocity and
\* previous_position.
NewMotion == [target |-> 0, peak |-> 0, ramp |-> 0, demand |-> 0, previous |-> 0]

\* A request for position p to an axis that reports the position own.
ycoe_csp_set_position(m, own, p) ==
    [m EXCEPT !.target = p,
              !.peak = PeakVelocity(Distance(p, own)),
              !.ramp = RampDistance(Distance(p, own))]

\* Mutant: the demand velocity never falls.
TowardsUp(v, w) ==
    IF w - v > acceleration THEN v + acceleration
    ELSE IF w > v THEN w ELSE v

\* One step of the demand velocity v towards the velocity w.
Towards(v, w) ==
    IF w - v > acceleration THEN v + acceleration
    ELSE IF w - v < -acceleration THEN v - acceleration
    ELSE w

\* The demand velocity changes only when the position has.
ycoe_csp_accel_ramp(m, own, w) ==
    [m EXCEPT !.demand = IF own = m.previous THEN @ ELSE Towards(@, w),
              !.previous = own]

\* The velocity wanted with gap counts to go.
WantedVelocity(m, gap) ==
    CASE gap > m.ramp          -> m.peak
      [] gap < -m.ramp         -> -m.peak
      [] gap > acceleration50  -> acceleration50
      [] gap < -acceleration50 -> -acceleration50
      [] OTHER                 -> 0

Near(m, gap) ==
    /\ gap \in -m.ramp..m.ramp
    /\ gap \in -acceleration50..acceleration50

\* One cycle of an axis that reports the position own, the lower one of both
\* axes being low: the motion it leaves, the target position it puts in the
\* outputs, and whether the axis is done.
ycoe_csp_goto_possync(m, own, low) ==
    LET gap  == m.target - low
        next == ycoe_csp_accel_ramp(m, own, WantedVelocity(m, gap))
    IN  IF Near(m, gap)
        THEN [motion |-> [m EXCEPT !.demand = 0], out |-> m.target, done |-> TRUE]
        ELSE [motion |-> next, out |-> low + next.demand, done |-> FALSE]
=============================================================================
