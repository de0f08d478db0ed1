---------------------------- MODULE SensorRecovery ----------------------------
(***************************************************************************)
(* SensorRecoveryManager: per-sensor health, degradation timers and the    *)
(* "all" summary.  A manager is a record                                   *)
(*   status    last accepted status of each sensor; a sensor without an    *)
(*             entry in sensor_states_ is like one that is UNKNOWN         *)
(*   since     age of its degradation_start_ns                             *)
(*   timedOut  its timed_out flag                                          *)
(*   worst     worst_sensor_status_, from the "all" messages               *)
(*   heard     age of last_sensor_health_time_ns_                          *)
(*   degraded  in_degraded_mode_                                           *)
(***************************************************************************)
EXTENDS Ages

CONSTANTS
  Sensors,
  SensorTimeout,      \* sensor_timeout_ns_, in clock units
  RecoveryTimeout     \* recovery_timeout_ns_

ASSUME SensorAssumption ==
  /\ Sensors /= {}
  /\ SensorTimeout \in Nat
  /\ RecoveryTimeout \in Nat

Statuses == {"UNKNOWN", "HEALTHY", "DEGRADED", "FAULT"}

Managers ==
  [status   : [Sensors -> Statuses],
   since    : [Sensors -> AgeUpTo(RecoveryTimeout + 1)],
   timedOut : [Sensors -> BOOLEAN],
   worst    : Statuses,
   heard    : AgeUpTo(SensorTimeout + 1),
   degraded : BOOLEAN]

NewManager ==
  [status   |-> [s \in Sensors |-> "UNKNOWN"],
   since    |-> [s \in Sensors |-> None],
   timedOut |-> [s \in Sensors |-> FALSE],
   worst    |-> "UNKNOWN",
   heard    |-> None,
   degraded |-> FALSE]

\* The transition process_health_msg reports to the node.  A sensor that has
\* timed out is not heard when it reports DEGRADED.
HealthTransition(m, s, status) ==
  IF m.status[s] = status \/ (m.timedOut[s] /\ status = "DEGRADED") THEN "kNone"
  ELSE IF status = "DEGRADED" THEN "kDegraded"
  ELSE IF status = "HEALTHY" /\ m.status[s] = "DEGRADED" THEN "kRecovered"
  ELSE "kNone"

\* The entry of s after the message.  UNKNOWN leaves the timer running.
ProcessHealthMsg(m, s, status) ==
  IF m.status[s] = status \/ (m.timedOut[s] /\ status = "DEGRADED") THEN m
  ELSE [m EXCEPT
         !.status[s] = status,
         !.since[s]  = IF status = "DEGRADED" THEN 0
                       ELSE IF status = "FAULT" THEN None
                       ELSE IF status = "HEALTHY" /\ m.status[s] = "DEGRADED" THEN None
                       ELSE @]

\* The sensors check_timeouts would stop at; it takes the first in the order
\* of an unordered_map.
Overdue(m) ==
  { s \in Sensors :
      /\ m.status[s] = "DEGRADED"
      /\ m.since[s] /= None
      /\ Elapsed(m.since[s], RecoveryTimeout + 1) > RecoveryTimeout }

TimeOut(m, s) == [m EXCEPT !.timedOut[s] = TRUE, !.since[s] = None]

UpdateSummary(m, status) == [m EXCEPT !.worst = status, !.heard = 0]

IsAnyDegraded(m) == \E s \in Sensors : m.status[s] = "DEGRADED"

\* The summary is recent enough to act on.
SummaryFresh(m) ==
  m.heard /= None /\ Elapsed(m.heard, SensorTimeout + 1) <= SensorTimeout
===============================================================================
