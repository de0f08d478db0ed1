------------------------------ MODULE StopDistance ------------------------------
(***************************************************************************)
(* evaluate_stop_distance: how much room a vehicle needs at a speed, and   *)
(* in which zone it is with the room it has.  Distances, speeds and times  *)
(* are whole numbers of units that fit together (a speed is a distance per *)
(* time unit), and a comparison with a fraction is multiplied out.  Only   *)
(* the recommended speed, a square root in the code, is rounded down and   *)
(* looked for no further than MaxSpeed.                                    *)
(***************************************************************************)
EXTENDS Integers, FiniteSetsExt

CONSTANTS
  MaxSpeed,       \* envelope.max_speed_mps
  Decel,          \* envelope.max_comfort_decel_mps2
  Latency         \* envelope.control_latency_s

\* The clearance required at speed v, times 2 * Decel.
Required(v, buffer) == 2 * Decel * (Latency * v + buffer) + v * v

\* The largest speed with v * v <= 2 * Decel * available * 0.7.
WarningLimit(available) == Max({ v \in 0..MaxSpeed : 5 * v * v <= 7 * Decel * available })

\* d is the distance to the front of the vehicle.
Evaluate(d, v, buffer) ==
  IF d < buffer THEN [zone |-> "Emergency", limit |-> 0]
  ELSE IF 2 * Decel * d < Required(v, buffer) THEN [zone |-> "Protective", limit |-> 0]
  ELSE IF 4 * Decel * d < 3 * Required(v, buffer)
    THEN [zone |-> "Warning", limit |-> WarningLimit(d - buffer)]
  ELSE [zone |-> "Clear", limit |-> v]
===============================================================================
