------------------------------ MODULE DriveBridge ------------------------------
(***************************************************************************)
(* SafetyDriveBridgeNode, between Nav2's cmd_vel_nav and the drive's       *)
(* cmd_vel.  Every callback and the control timer run to completion in the *)
(* node's single thread.  Speeds are whole numbers of the unit SpeedLimit  *)
(* and StopProfile share; the turning rate, which is clamped on its own,   *)
(* is left out.  A bridge is a record                                      *)
(*   stop, fault    safe_stop_active_, fault_latched_                      *)
(*   zoneLimit      recommended_speed_limit_mps_                           *)
(*   speedLimit     recovery_speed_limit_mps_                              *)
(*   speed          measured_forward_speed_mps_                            *)
(*   cmd, heard     latest_nav_cmd_ and the age of its arrival             *)
(*   ramp           the samples of stop_profile_ still to be published     *)
(***************************************************************************)
EXTENDS StopProfile, Ages

CONSTANTS
  MaxLinear,    \* max_linear_mps
  Freshness,    \* cmd_freshness_timeout_ns_, in clock units
  Speeds        \* forward speeds commanded by Nav2 and measured by odometry

ASSUME BridgeAssumption ==
  MaxLinear \in Nat \ {0} /\ Freshness \in Nat /\ Speeds \subseteq Int

VARIABLES
  bridge,
  cmdVel        \* the last forward speed published on cmd_vel

bridgeVars == <<bridge, cmdVel>>

Least(a, b) == IF a <= b THEN a ELSE b

Positive(s) == IF s > 0 THEN s ELSE 0

BridgeTypeOK ==
  /\ bridge.stop \in BOOLEAN /\ bridge.fault \in BOOLEAN
  /\ bridge.zoneLimit \in 0..MaxLinear /\ bridge.speedLimit \in Nat
  /\ bridge.speed \in Int /\ bridge.cmd \in Int
  /\ bridge.heard \in AgeUpTo(Freshness + 1)
  /\ bridge.ramp \in Seq(Nat)
  /\ cmdVel \in Int

\* No limit is known yet; nothing below looks above MaxLinear.
BridgeInit ==
  /\ bridge = [stop |-> FALSE, fault |-> FALSE,
               zoneLimit |-> MaxLinear, speedLimit |-> MaxLinear,
               speed |-> 0, cmd |-> 0, heard |-> None, ramp |-> << >>]
  /\ cmdVel = 0

-------------------------------------------------------------------------------
(* Subscriptions, as operators on the bridge record                        *)

HearCommand(b, s) == [b EXCEPT !.cmd = s, !.heard = 0]

\* Seeded bug: Clear, whose recommended speed is the present one, sets it too.
HearEveryZone(b, zone, recommended) ==
  [b EXCEPT !.zoneLimit = Least(MaxLinear, Positive(recommended))]

\* Clear lifts the limit, another zone sets the recommended one.
HearZone(b, zone, recommended) ==
  [b EXCEPT !.zoneLimit = IF zone = "Clear" THEN MaxLinear
                          ELSE Least(MaxLinear, Positive(recommended))]

HearState(b, latched) == [b EXCEPT !.fault = latched]

HearOdom(b, s) == [b EXCEPT !.speed = s]

HearSpeedLimit(b, limit) == [b EXCEPT !.speedLimit = Positive(limit)]

\* A rising edge starts the ramp from the measured speed; FALSE abandons it.
HearStop(b, stop) ==
  [b EXCEPT !.stop = stop,
            !.ramp = IF ~stop THEN << >>
                     ELSE IF b.stop THEN @
                     ELSE Profile(Positive(b.speed))]

OnCmdVelNav == \E s \in Speeds : bridge' = HearCommand(bridge, s) /\ UNCHANGED cmdVel

OnZone(zones) ==
  /\ \E zone \in zones, s \in Speeds : bridge' = HearZone(bridge, zone, s)
  /\ UNCHANGED cmdVel

OnBridgeOdom == \E s \in Speeds : bridge' = HearOdom(bridge, s) /\ UNCHANGED cmdVel

-------------------------------------------------------------------------------
(* control_tick                                                            *)

\* Seeded bug: the recovery limit is not applied.
ClampToZone(b) ==
  LET limit == Least(MaxLinear, b.zoneLimit)
  IN  IF b.cmd > limit THEN limit ELSE IF b.cmd < -limit THEN -limit ELSE b.cmd

\* clamp_command
ClampCommand(b) ==
  LET limit == Least(Least(MaxLinear, b.zoneLimit), b.speedLimit)
  IN  IF b.cmd > limit THEN limit ELSE IF b.cmd < -limit THEN -limit ELSE b.cmd

\* Seeded bug: a command is fresh for ever.
EverFresh(b) == b.heard /= None

CommandFresh(b) == b.heard /= None /\ Elapsed(b.heard, Freshness + 1) <= Freshness

\* Seeded bug: the ramp goes before the fault and holds its first sample.
RampHeld ==
  \/ /\ bridge.stop /\ bridge.ramp /= << >>
     /\ cmdVel' = Head(bridge.ramp)
     /\ UNCHANGED bridge
  \/ /\ bridge.fault /\ (bridge.stop => bridge.ramp = << >>)
     /\ cmdVel' = 0
     /\ UNCHANGED bridge
  \/ /\ ~bridge.fault /\ (bridge.stop => bridge.ramp = << >>)
     /\ cmdVel' = IF ~bridge.stop /\ CommandFresh(bridge) THEN ClampCommand(bridge) ELSE 0
     /\ UNCHANGED bridge

\* A latched fault stops at once; a safe stop plays the ramp to its end; and
\* then a fresh command is clamped and passed on.
ControlTick ==
  \/ /\ ~bridge.fault /\ bridge.stop /\ bridge.ramp /= << >>
     /\ cmdVel' = Head(bridge.ramp)
     /\ bridge' = [bridge EXCEPT !.ramp = Tail(@)]
  \/ /\ ~bridge.fault /\ ~bridge.stop /\ CommandFresh(bridge)
     /\ cmdVel' = ClampCommand(bridge)
     /\ UNCHANGED bridge
  \/ /\ \/ bridge.fault
        \/ bridge.stop /\ bridge.ramp = << >>
        \/ ~bridge.stop /\ ~CommandFresh(bridge)
     /\ cmdVel' = 0
     /\ UNCHANGED bridge

\* Time as the bridge sees it.
Aged(b)     == [b EXCEPT !.heard = Older(@, Freshness + 1)]
Unsettled(b) == [b EXCEPT !.heard = Overtaken(@)]
===============================================================================
