------------------------------ MODULE StopProfile ------------------------------
(***************************************************************************)
(* generate_jerk_limited_stop_profile (src/motion/trajectory.cpp), in      *)
(* units in which dt_s is 1: speeds, speed lost per sample, and change of  *)
(* that loss per sample.  With the drive bridge's defaults the unit of     *)
(* speed is 5 mm/s, and Decel = 10, Jerk = 1, Capacity = 256.              *)
(***************************************************************************)
EXTENDS Integers, Sequences

CONSTANTS
  Decel,      \* max_decel_mps2
  Jerk,       \* max_jerk_mps3
  Capacity    \* samples the caller's buffer holds

ASSUME StopAssumption ==
  Decel \in Nat \ {0} /\ Jerk \in Nat \ {0} /\ Capacity \in Nat \ {0}

\* Seeded bug: the ramp up goes on past the largest deceleration.
UnclampedAccel(v, a) == a - Jerk

\* Seeded bug: only a deceleration already under way is ramped up.
CoastingAccel(v, a) ==
  IF a < 0 /\ a > -Decel THEN IF a - Jerk < -Decel THEN -Decel ELSE a - Jerk
  ELSE IF v * Jerk <= a * a THEN IF a + Jerk > 0 THEN 0 ELSE a + Jerk
  ELSE a

\* The acceleration of the next sample: ramp the deceleration up; at its
\* largest, ramp it down if the time to stop, v / |a|, is no longer than the
\* time to ramp down, |a| / Jerk.
NextAccel(v, a) ==
  IF a > -Decel THEN IF a - Jerk < -Decel THEN -Decel ELSE a - Jerk
  ELSE IF v * Jerk <= a * a THEN IF a + Jerk > 0 THEN 0 ELSE a + Jerk
  ELSE a

\* The jerk written into the same sample: none where the acceleration was
\* clamped, although it changes there too.
NextJerk(v, a) ==
  IF a > -Decel THEN IF a - Jerk < -Decel THEN 0 ELSE -Jerk
  ELSE IF v * Jerk <= a * a /\ a + Jerk <= 0 THEN Jerk ELSE 0

NextSpeed(v, a) == IF v + a < 0 THEN 0 ELSE v + a

\* The loop's state, speed and acceleration, and its next.
Motions(v) == (0..v) \X ((-Decel)..0)

NextMotion(m) ==
  LET a == NextAccel(m[1], m[2]) IN <<NextSpeed(m[1], a), a>>

\* The speeds of a stop from any motion at no more than speed v, ending with 0.
StopSamples(v) ==
  LET samples[m \in Motions(v)] ==
        IF m[1] = 0 THEN <<0>> ELSE <<m[1]>> \o samples[NextMotion(m)]
  IN  samples

\* The stop from speed v; empty when its samples do not fit in the buffer and
\* the function returns false.
Profile(v) ==
  LET samples == StopSamples(v)[<<v, 0>>]
  IN  IF Len(samples) <= Capacity THEN samples ELSE << >>
===============================================================================
