---------------------------- MODULE SupervisorNode ----------------------------
(***************************************************************************)
(* SafetySupervisorNode with the ModeStateMachine, SafetySupervisor,       *)
(* SensorRecoveryManager and SpeedLimitController it owns.  rclcpp::spin   *)
(* runs the node's callbacks one at a time, so every callback is one step: *)
(* the subscriptions, the clear_fault service and the 50 ms timer.  What   *)
(* happens around the node (which messages arrive, with which stamps, when *)
(* the clock advances or is set back) is left open.                        *)
(*                                                                         *)
(* latest_zone_ and the diagnostics are left out: the node only echoes     *)
(* them.                                                                   *)
(***************************************************************************)
EXTENDS ModeRules, SensorRecovery, SpeedLimit

CONSTANTS
  LocTimeout,     \* localization_timeout_ns_, in clock units
  AutoRecover,    \* auto_recover_from_obstacle
  OdomAges,       \* how old an odometry stamp can be when it arrives
  ZoneReports,    \* the zones, sensor statuses and summaries that can arrive
  StatusReports,
  SummaryReports,
  ClockMayGoBack

Zones == {"Clear", "Warning", "Protective", "Emergency"}

ASSUME NodeAssumption ==
  /\ LocTimeout \in Nat \ {0}
  /\ AutoRecover \in BOOLEAN
  /\ OdomAges \subseteq {Ahead} \cup 0..(2 * LocTimeout)
  /\ ZoneReports \subseteq Zones
  /\ StatusReports \subseteq Statuses /\ SummaryReports \subseteq Statuses
  /\ ClockMayGoBack \in BOOLEAN

VARIABLES
  node,       \* the node's members
  published   \* the last state, safe_stop and recovery_speed_limit messages

vars == <<node, published>>

Nodes ==
  [mode       : Modes,                      \* machine_: mode_
   latched    : BOOLEAN,                    \* machine_: latched_fault_
   stop       : BOOLEAN,                    \* safe_stop_requested_
   odom       : AgeUpTo(2 * LocTimeout),    \* age of last_odom_time_ns_
   lastSample : AgeUpTo(0),                 \* age of supervisor_: last_clock_ns_
   recovery   : Managers,                   \* recovery_mgr_
   speed      : SpeedControllers]           \* speed_ctrl_

Messages == [mode : Modes, latched : BOOLEAN, stop : BOOLEAN, limit : 0..FullLimit]

TypeOK == node \in Nodes /\ published \in Messages

\* The constructor ends in Idle.  Before the first tick subscribers assume
\* neither fault nor stop nor limit.
Init ==
  /\ node = [mode       |-> "Idle",
             latched    |-> FALSE,
             stop       |-> FALSE,
             odom       |-> None,
             lastSample |-> None,
             recovery   |-> NewManager,
             speed      |-> NewSpeedController]
  /\ published = [mode |-> "Init", latched |-> FALSE, stop |-> FALSE, limit |-> FullLimit]

-------------------------------------------------------------------------------
(* Calls on machine_ and supervisor_, each an operator on the node record  *)

TransitionTo(n, target) ==
  IF (n.latched => target = "SafeStop") /\ Allowed(n.mode, target)
    THEN [n EXCEPT !.mode = target]
    ELSE n

LatchFault(n) == [n EXCEPT !.latched = TRUE, !.mode = "SafeStop"]

\* latch_fault, transition_to(SafeStop) and safe_stop_requested_ = true: the
\* sequence of every stop the node itself decides.
ForceStop(n) == [TransitionTo(LatchFault(n), "SafeStop") EXCEPT !.stop = TRUE]

\* escalate_degraded and escalate_critical.
EscalateDegraded(n) == TransitionTo(n, "Degraded")
EscalateCritical(n) == LatchFault(n)

\* process_monitor_event, of the severities None, Warning, Degraded and Critical.
ProcessMonitorEvent(n, severity) ==
  IF severity = "Critical" THEN EscalateCritical(n)
  ELSE IF severity = "Degraded" THEN EscalateDegraded(n)
  ELSE n

\* Seeded bug: however old the odometry is, the node only degrades.
NeverCritical(n, age) ==
  IF age <= LocTimeout THEN n ELSE TransitionTo(n, "Degraded")

\* observe_localization_age: Critical from twice the timeout, else Degraded.
ObserveLocalizationAge(n, age) ==
  IF age <= LocTimeout THEN n
  ELSE ProcessMonitorEvent(n, IF age >= 2 * LocTimeout THEN "Critical" ELSE "Degraded")

\* A clock that went back is Critical; the sample is stored either way.
ObserveClockSample(n) ==
  [IF n.lastSample = Ahead THEN ProcessMonitorEvent(n, "Critical") ELSE n EXCEPT !.lastSample = 0]

-------------------------------------------------------------------------------
(* Subscriptions and service                                               *)

OnOdom ==
  /\ \E age \in OdomAges : node' = [node EXCEPT !.odom = age]
  /\ UNCHANGED published

\* Seeded bug: an emergency stops without latching a fault.
StopWithoutFault(n, zone) ==
  IF zone = "Emergency" THEN [TransitionTo(n, "SafeStop") EXCEPT !.stop = TRUE]
  ELSE IF zone = "Protective" /\ n.mode = "Moving" THEN TransitionTo(n, "AvoidingObstacle")
  ELSE IF zone \in {"Clear", "Warning"} /\ n.mode = "AvoidingObstacle" /\ AutoRecover
    THEN [TransitionTo(n, "Moving") EXCEPT !.stop = FALSE]
  ELSE n

HandleZoneTransition(n, zone) ==
  IF zone = "Emergency" THEN ForceStop(n)
  ELSE IF zone = "Protective" /\ n.mode = "Moving" THEN TransitionTo(n, "AvoidingObstacle")
  ELSE IF zone \in {"Clear", "Warning"} /\ n.mode = "AvoidingObstacle" /\ AutoRecover
    THEN [TransitionTo(n, "Moving") EXCEPT !.stop = FALSE]
  ELSE n

OnEnvelope(zone) ==
  LET n == IF node.mode = "Idle" /\ zone = "Clear"
             THEN [TransitionTo(node, "Moving") EXCEPT !.stop = FALSE]
             ELSE node
  IN  /\ node' = HandleZoneTransition(n, zone)
      /\ UNCHANGED published

HandleSensorDegraded(n) ==
  LET d == IF n.mode = "Moving" THEN TransitionTo(n, "Degraded") ELSE n
  IN  [d EXCEPT !.recovery.degraded = TRUE, !.speed = LimitOnDegraded(@)]

\* Seeded bug: the first sensor to recover ends the degradation.
RecoverOnFirst(n) ==
  LET d == IF n.mode = "Degraded" THEN TransitionTo(n, "Moving") ELSE n
  IN  [d EXCEPT !.recovery.degraded = FALSE, !.speed = LimitOnRecovered(@)]

HandleSensorRecovered(n) ==
  IF IsAnyDegraded(n.recovery) THEN n
  ELSE LET d == IF n.mode = "Degraded" THEN TransitionTo(n, "Moving") ELSE n
       IN  [d EXCEPT !.recovery.degraded = FALSE, !.speed = LimitOnRecovered(@)]

OnSensorHealth(s, status) ==
  LET n == [node EXCEPT !.recovery = ProcessHealthMsg(@, s, status)]
      t == HealthTransition(node.recovery, s, status)
  IN  /\ node' = IF t = "kDegraded" THEN HandleSensorDegraded(n)
                 ELSE IF t = "kRecovered" THEN HandleSensorRecovered(n)
                 ELSE n
      /\ UNCHANGED published

\* The message named "all" only feeds the next tick.
OnSummary(status) ==
  /\ node' = [node EXCEPT !.recovery = UpdateSummary(@, status)]
  /\ UNCHANGED published

\* Seeded bug: the stop request survives the fault.
ClearKeepingStop ==
  /\ node.latched
  /\ node' = [node EXCEPT !.latched = FALSE, !.mode = "Idle"]
  /\ UNCHANGED published

\* Seeded bug: clearing resumes driving at once.
ClearIntoMoving ==
  /\ node.latched
  /\ node' = [node EXCEPT !.latched = FALSE, !.mode = "Moving", !.stop = FALSE]
  /\ UNCHANGED published

\* clear_fault is refused, and nothing changes, unless a fault is latched.
OnClearFault ==
  /\ node.latched
  /\ node' = [node EXCEPT !.latched = FALSE, !.mode = "Idle", !.stop = FALSE]
  /\ UNCHANGED published

-------------------------------------------------------------------------------
(* timer_tick                                                              *)

CheckLocalizationStaleness(n) ==
  IF n.odom = None THEN n
  ELSE LET age == Elapsed(n.odom, 2 * LocTimeout)
           o   == ObserveLocalizationAge(n, age)
       IN  IF age > LocTimeout /\ o.mode \notin {"LocalizationLost", "SafeStop"}
             THEN TransitionTo(o, "LocalizationLost")
             ELSE o

StopOnFault(n) == [ForceStop(n) EXCEPT !.recovery.degraded = FALSE]

\* Seeded bug: Degraded is entered without raising in_degraded_mode_.
EnterWithoutFlag(n) == TransitionTo(n, "Degraded")

EnterDegraded(n) == [TransitionTo(n, "Degraded") EXCEPT !.recovery.degraded = TRUE]

LeaveDegraded(n) == [TransitionTo(n, "Moving") EXCEPT !.recovery.degraded = FALSE]

CheckSensorHealth(n) ==
  LET r == n.recovery
  IN  IF n.mode = "SafeStop" \/ ~SummaryFresh(r) THEN n
      ELSE IF r.worst = "FAULT" THEN StopOnFault(n)
      ELSE IF r.worst = "DEGRADED" /\ n.mode = "Moving" /\ ~r.degraded THEN EnterDegraded(n)
      ELSE IF r.worst = "HEALTHY" /\ r.degraded /\ n.mode = "Degraded" THEN LeaveDegraded(n)
      ELSE n

\* s is the sensor check_timeouts comes to first.
CheckSensorRecoveryTimeouts(n, s) ==
  IF n.mode = "SafeStop" \/ s \notin Overdue(n.recovery) THEN n
  ELSE [ForceStop(n) EXCEPT !.recovery = [TimeOut(@, s) EXCEPT !.degraded = FALSE]]

\* Seeded bug: the limit follows the stop request, which not every fault raises.
LimitFromStopRequest(n) == [n EXCEPT !.speed = UpdateLimit(@, n.stop)]

UpdateSpeedLimit(n) == [n EXCEPT !.speed = UpdateLimit(@, n.mode = "SafeStop")]

\* Seeded bug: the latch is read before the checks, like the mode.
LatchReadEarly(before, after, speed) ==
  [mode    |-> before.mode,
   latched |-> before.latched,
   stop    |-> after.stop \/ before.mode = "SafeStop",
   limit   |-> speed.current]

\* The three messages of a tick: the mode is the one cached before the checks,
\* the latch and the stop request are read after them.
StateMessages(before, after, speed) ==
  [mode    |-> before.mode,
   latched |-> after.latched,
   stop    |-> after.stop \/ before.mode = "SafeStop",
   limit   |-> speed.current]

\* The checks, in the order of the tick.
TimerTick ==
  \E s \in Sensors :
    LET checked == CheckSensorHealth(CheckLocalizationStaleness(node))
        limited == UpdateSpeedLimit(CheckSensorRecoveryTimeouts(checked, s))
        final   == ObserveClockSample(limited)
    IN  /\ Overdue(checked.recovery) = {} \/ s \in Overdue(checked.recovery)
        /\ node' = final
        /\ published' = StateMessages(node, final, limited.speed)

-------------------------------------------------------------------------------
(* The clock                                                               *)

TimePasses ==
  /\ node' = [node EXCEPT
       !.odom           = Older(@, 2 * LocTimeout),
       !.recovery.heard = Older(@, SensorTimeout + 1),
       !.recovery.since = [s \in Sensors |-> Older(@[s], RecoveryTimeout + 1)],
       !.speed.ramp     = Older(@, RampTime)]
  /\ UNCHANGED published

\* The ROS clock is set back, as when a simulation restarts.
ClockSetBack ==
  /\ ClockMayGoBack
  /\ node' = [node EXCEPT
       !.odom           = Overtaken(@),
       !.lastSample     = Overtaken(@),
       !.recovery.heard = Overtaken(@),
       !.recovery.since = [s \in Sensors |-> Overtaken(@[s])],
       !.speed.ramp     = Overtaken(@)]
  /\ UNCHANGED published

-------------------------------------------------------------------------------
Receive ==
  \/ OnOdom
  \/ \E zone \in ZoneReports : OnEnvelope(zone)
  \/ \E s \in Sensors, status \in StatusReports : OnSensorHealth(s, status)
  \/ \E status \in SummaryReports : OnSummary(status)
  \/ OnClearFault

Next == Receive \/ TimerTick \/ TimePasses \/ ClockSetBack

Spec == Init /\ [][Next]_vars

-------------------------------------------------------------------------------
(* Safety                                                                  *)

\* A latched fault means SafeStop, and the node is never in SafeStop without
\* one: only then does the clear_fault service, which refuses an unlatched
\* machine, always offer a way out.
LatchedIffStopped == node.latched <=> node.mode = "SafeStop"

\* safe_stop_requested_ is raised and dropped in five places; it never outlives
\* the fault it came with.
StopNeedsFault == node.stop => node.latched

\* While a sensor counts as DEGRADED the limit is at most half the maximum and
\* no ramp towards full speed is under way, however degradations, recoveries
\* and stops of several sensors interleave.
DegradedIsSlow ==
  IsAnyDegraded(node.recovery) =>
    /\ node.speed.current <= HalfLimit /\ node.speed.target <= HalfLimit
    /\ node.speed.ramp = None

\* Degraded mode is never entered without in_degraded_mode_, the flag that lets
\* the node leave it again when the sensors are healthy.
DegradedCanRecover == node.mode = "Degraded" => node.recovery.degraded

\* A published stop is published with its fault in the same tick.
StopMessageHasFault == published.stop => published.latched

\* One tick after a fault is latched, by whatever check, subscribers have been
\* told of the fault, of the stop and of a zero limit.
StopAnnounced ==
  [][TimerTick /\ node.latched =>
       published'.latched /\ published'.stop /\ published'.limit = 0]_vars

\* SafeStop is left only by clear_fault, into Idle, with the request dropped.
OnlyClearResumes ==
  [][node.mode = "SafeStop" /\ node'.mode /= "SafeStop" =>
       node.latched /\ node'.mode = "Idle" /\ ~node'.latched /\ ~node'.stop]_vars
===============================================================================
