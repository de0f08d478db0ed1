-------------------------- MODULE TrajectoryValidator --------------------------
(***************************************************************************)
(* TrajectoryValidator::validate on a sequence of points, records of time, *)
(* speed, acceleration, jerk and doubled distance; an obstacle's distance  *)
(* is doubled too, and NoObstacle when none is set.  Whole numbers are     *)
(* finite, and the tolerance of 1e-12 is for rounding.                     *)
(***************************************************************************)
EXTENDS Integers, Sequences, FiniteSetsExt

CONSTANTS
  TopSpeed,       \* envelope.max_speed_mps
  MaxAccel,       \* envelope.max_accel_mps2
  ComfortDecel,   \* envelope.max_comfort_decel_mps2
  MaxJerk,        \* max_jerk_mps3_
  Latency, Buffer \* envelope.control_latency_s, envelope.safety_buffer_m

Envelope == INSTANCE StopDistance WITH Decel <- ComfortDecel, MaxSpeed <- TopSpeed

NoObstacle == -1

Within(limit, value) == -limit <= value /\ value <= limit

\* A limit of speed or acceleration that is zero does not count.
Bounded(limit, value) == limit = 0 \/ Within(limit, value)

\* The room left at point p is what its speed requires.
WithinEnvelope(p, obstacle) ==
  ComfortDecel * (obstacle - p.distance) >= Envelope!Required(p.speed, Buffer)

\* The first check that point i fails.
Violation(points, i, obstacle) ==
  LET p == points[i]
  IN  IF i > 1 /\ p.t <= points[i - 1].t THEN "NonMonotonicTime"
      ELSE IF i > 1 /\ p.distance < points[i - 1].distance THEN "NonMonotonicDistance"
      ELSE IF ~Bounded(TopSpeed, p.speed) THEN "SpeedOutOfBounds"
      ELSE IF ~Bounded(MaxAccel, p.accel) THEN "AccelOutOfBounds"
      ELSE IF ~Within(MaxJerk, p.jerk) THEN "JerkOutOfBounds"
      ELSE IF obstacle /= NoObstacle /\ ~WithinEnvelope(p, obstacle) THEN "EnvelopeViolation"
      ELSE "None"

\* The first point that fails a check decides.
Validate(points, obstacle) ==
  LET bad == { i \in DOMAIN points : Violation(points, i, obstacle) /= "None" }
  IN  IF points = << >> THEN "EmptyTrajectory"
      ELSE IF bad = {} THEN "None"
      ELSE Violation(points, Min(bad), obstacle)
===============================================================================
