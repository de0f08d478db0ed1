----------------------------- MODULE MCStopProfile -----------------------------
(***************************************************************************)
(* The generated stop profile, handed to the trajectory validator, whose   *)
(* envelope is that of a configuration validate accepts.                   *)
(***************************************************************************)
EXTENDS StopProfileLoop, TrajectoryValidator, Configuration

ASSUME ValidatorAssumption ==
  /\ MaxJerk \in Nat
  /\ ValidEnvelope([speed |-> TopSpeed, accel |-> MaxAccel, decel |-> ComfortDecel,
                    latency |-> Latency, buffer |-> Buffer])

\* The required clearance counts on full braking at once.  The profile ramps its
\* braking up, one Jerk per sample, and travels farther by half the ramp's time.
RampDistance == initial * ((Decel \div Jerk) - 1)

\* The least room, doubled and rounded up, that the envelope asks for.
RequiredRoom == (Envelope!Required(initial, Buffer) + ComfortDecel - 1) \div ComfortDecel

\* A stop that ends within the room, doubled, is valid to its last point: it
\* never enters the protective zone, keeps every bound, and comes to rest outside
\* the buffer.
ValidatesIn(room) == result = "true" => Validate(out, room) = "None"

\* The room the envelope requires, and that of the stop's own ramp, is enough.
StopValidates == ValidatesIn(RequiredRoom + RampDistance)

\* The distance, doubled, that a latency shorter than one sample lacks.
ShortLatency == IF Latency = 0 THEN 2 * initial ELSE 0
===============================================================================
