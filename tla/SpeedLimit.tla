------------------------------ MODULE SpeedLimit ------------------------------
(***************************************************************************)
(* SpeedLimitController: the limit on forward speed published on           *)
(* safety/recovery_speed_limit.  Speeds are counted in units of            *)
(* max_speed_mps_ / (2 * RampTime), so that the linear ramp from half to   *)
(* full speed passes through whole numbers.                                *)
(***************************************************************************)
EXTENDS Ages

CONSTANT RampTime     \* ramp_ns_, in clock units

ASSUME RampTimeAssumption == RampTime \in Nat \ {0}

FullLimit == 2 * RampTime     \* max_speed_mps_
HalfLimit == RampTime         \* max_speed_mps_ * 0.5

\* A controller: current_limit_mps_, target_limit_mps_ and the age of
\* ramp_start_ns_.
SpeedControllers ==
  [current : 0..FullLimit, target : {0, HalfLimit, FullLimit}, ramp : AgeUpTo(RampTime)]

NewSpeedController == [current |-> FullLimit, target |-> FullLimit, ramp |-> None]

\* Seeded bug: the ramp is applied without looking whether one has started.
UpdateUnstartedRamp(c, safeStop) ==
  LET e == Elapsed(c.ramp, RampTime)
  IN  IF safeStop
        THEN [current |-> 0, target |-> 0, ramp |-> None]
      ELSE IF e >= RampTime
        THEN [c EXCEPT !.current = c.target, !.ramp = None]
        ELSE [c EXCEPT !.current = HalfLimit + ((c.target - HalfLimit) * e) \div RampTime]

UpdateLimit(c, safeStop) ==
  LET e == Elapsed(c.ramp, RampTime)
  IN  IF safeStop
        THEN [current |-> 0, target |-> 0, ramp |-> None]
      ELSE IF c.ramp = None \/ e >= RampTime
        THEN [c EXCEPT !.current = c.target, !.ramp = None]
        ELSE [c EXCEPT !.current = HalfLimit + ((c.target - HalfLimit) * e) \div RampTime]

LimitOnDegraded(c) == [current |-> HalfLimit, target |-> HalfLimit, ramp |-> None]

LimitOnRecovered(c) == [c EXCEPT !.target = FullLimit, !.ramp = 0]
===============================================================================
