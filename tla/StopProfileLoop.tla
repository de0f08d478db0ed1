---------------------------- MODULE StopProfileLoop ----------------------------
(***************************************************************************)
(* The loop of generate_jerk_limited_stop_profile, one iteration per step, *)
(* from any initial speed.                                                 *)
(***************************************************************************)
EXTENDS StopProfile

CONSTANT
  MaxSpeed        \* the largest initial_speed_mps

ASSUME SpeedAssumption == MaxSpeed \in Nat

VARIABLES
  initial,    \* initial_speed_mps
  v,          \* speed
  a,          \* acceleration
  x,          \* distance, doubled: the trapezoid of a sample is (v + v') / 2
  out,        \* the points written so far
  result      \* "none" while the loop runs, then what the function returns

vars == <<initial, v, a, x, out, result>>

\* TrajectoryPoint, its time counted in samples.
Points == [t : Nat, speed : Nat, accel : Int, jerk : Int, distance : Nat]

Point(speed, accel, jerk) ==
  [t |-> Len(out), speed |-> speed, accel |-> accel, jerk |-> jerk, distance |-> x]

Init ==
  /\ initial \in 0..MaxSpeed
  /\ v = initial /\ a = 0 /\ x = 0
  /\ out = << >>
  /\ result = "none"

\* Seeded bug: the point gets the speed at the end of its period.
IterateLate ==
  /\ result = "none" /\ v > 0 /\ Len(out) < Capacity
  /\ a' = NextAccel(v, a)
  /\ v' = NextSpeed(v, a')
  /\ x' = x + v + v'
  /\ out' = Append(out, Point(v', a', NextJerk(v, a)))
  /\ UNCHANGED <<initial, result>>

\* Seeded bug: the distance counts the speed at the end of the period only.
IterateShort ==
  /\ result = "none" /\ v > 0 /\ Len(out) < Capacity
  /\ a' = NextAccel(v, a)
  /\ v' = NextSpeed(v, a')
  /\ x' = x + v' + v'
  /\ out' = Append(out, Point(v, a', NextJerk(v, a)))
  /\ UNCHANGED <<initial, result>>

Iterate ==
  /\ result = "none" /\ v > 0 /\ Len(out) < Capacity
  /\ a' = NextAccel(v, a)
  /\ v' = NextSpeed(v, a')
  /\ x' = x + v + v'
  /\ out' = Append(out, Point(v, a', NextJerk(v, a)))
  /\ UNCHANGED <<initial, result>>

\* The last point is at rest, with no acceleration.
Finish ==
  /\ result = "none" /\ v = 0 /\ Len(out) < Capacity
  /\ a' = 0
  /\ out' = Append(out, Point(0, 0, 0))
  /\ result' = "true"
  /\ UNCHANGED <<initial, v, x>>

Overflow ==
  /\ result = "none" /\ Len(out) >= Capacity
  /\ result' = "false"
  /\ UNCHANGED <<initial, v, a, x, out>>

Next == Iterate \/ Finish \/ Overflow

Spec == Init /\ [][Next]_vars

TypeOK ==
  /\ initial \in 0..MaxSpeed
  /\ v \in 0..initial /\ a \in (-Decel)..0 /\ x \in Nat
  /\ out \in Seq(Points) /\ Len(out) <= Capacity
  /\ result \in {"none", "true", "false"}

-------------------------------------------------------------------------------
\* "Jerk-limited emergency stop: ramps deceleration up/down to limit mechanical
\* shock" (trajectory.hpp:75), from sample to sample.  The last sample does not
\* keep it.
JerkLimited == [][a' - a \in (-Jerk)..Jerk]_vars

\* No stop is harder than the largest deceleration allows: after n samples the
\* speed is at least what a constant braking would have left.
StopsNoSooner == v + Len(out) * Decel >= initial

\* The loop makes progress at least every second sample: a buffer of more than
\* twice the initial speed is never exhausted, whatever the limits.
FitsWhenLargeEnough == result = "false" => Capacity <= 2 * initial

\* The loop and the recursive definition the drive bridge's model uses agree.
LoopIsProfile ==
  (result = "true" => [i \in DOMAIN out |-> out[i].speed] = Profile(initial)) /\ (result = "false" => Profile(initial) = << >>)

\* What test_jerk_limited_vs_standard_stop_distance asserts of one speed, of
\* all: a jerk-limited stop is no shorter than generate_emergency_stop_profile's.
StandardDistance ==
  LET k == initial \div Decel      \* whole samples of braking
  IN  (2 * k + 1) * initial - Decel * k * (k + 1)

NoShorterThanStandard == result = "true" => x >= StandardDistance
===============================================================================
