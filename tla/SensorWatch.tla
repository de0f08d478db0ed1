------------------------------ MODULE SensorWatch ------------------------------
(***************************************************************************)
(* SensorMonitorNode and SafetySupervisorNode joined by                    *)
(* safety/sensor_health.  The supervisor subscribes best-effort: a message *)
(* may be lost, and a slow supervisor keeps only the last few.             *)
(*                                                                         *)
(* A clock unit is longer than the supervisor's 50 ms timer period.        *)
(***************************************************************************)
EXTENDS SensorMonitor

CONSTANTS
  SensorTimeout, RecoveryTimeout, RampTime, LocTimeout, AutoRecover,
  OdomAges, ZoneReports,
  HealthDepth    \* history depth of sensor_qos

VARIABLES
  node, published,   \* the supervisor
  health,            \* messages in flight to it
  ticked,            \* its timer has fired in this clock unit
  punctual           \* sensors that send in every period, chosen by the environment

\* The supervisor, with what is proved of it.
Supervisor == INSTANCE SupervisorNode_proofs
  WITH Sensors <- Monitored, StatusReports <- {}, SummaryReports <- {}, ClockMayGoBack <- FALSE

\* No sensor has the name of the summary.
ASSUME WatchAssumption ==
  /\ HealthDepth \in Nat \ {0}
  /\ "all" \notin Monitored
  /\ Supervisor!SensorAssumption /\ Supervisor!RampTimeAssumption /\ Supervisor!NodeAssumption

supervisorVars == <<node, published>>
vars == <<trackers, up, node, published, health, ticked, punctual>>

Reports == (Monitored \cup {"all"}) \X Supervisor!Statuses

TypeOK ==
  /\ MonitorTypeOK
  /\ Supervisor!TypeOK
  /\ health \in Seq(Reports) /\ Len(health) <= HealthDepth
  /\ ticked \in BOOLEAN
  /\ punctual \subseteq Monitored

Init ==
  /\ MonitorInit
  /\ Supervisor!Init
  /\ health = << >>
  /\ ticked = FALSE
  /\ punctual \in SUBSET Monitored

-------------------------------------------------------------------------------
SensorSends ==
  /\ \E s \in Monitored : OnMessage(s)
  /\ UNCHANGED <<supervisorVars, health, ticked, punctual>>

\* Seeded bug: the history is not bounded.
Whole(topic) == topic

\* KEEP_LAST: the oldest messages make room.
Last(topic) ==
  IF Len(topic) <= HealthDepth THEN topic
  ELSE SubSeq(topic, Len(topic) - HealthDepth + 1, Len(topic))

MonitorFires ==
  /\ UNCHANGED <<monitorVars, supervisorVars, ticked, punctual>>
  /\ health' = Last(health \o Publications)

Hear(name, status) ==
  /\ health /= << >> /\ Head(health) = <<name, status>>
  /\ IF name = "all" THEN Supervisor!OnSummary(status)
                     ELSE Supervisor!OnSensorHealth(name, status)
  /\ health' = Tail(health)
  /\ UNCHANGED <<monitorVars, ticked, punctual>>

HearSensor  == \E s \in Monitored, status \in Supervisor!Statuses : Hear(s, status)
HearSummary == \E status \in Supervisor!Statuses : Hear("all", status)

Lose ==
  /\ health /= << >>
  /\ health' = Tail(health)
  /\ UNCHANGED <<monitorVars, supervisorVars, ticked, punctual>>

\* Zones, odometry and clear_fault.
SupervisorReceives ==
  /\ Supervisor!Receive
  /\ UNCHANGED <<monitorVars, health, ticked, punctual>>

SupervisorFires ==
  /\ UNCHANGED <<monitorVars, health, punctual>>
  /\ ticked' = TRUE
  /\ Supervisor!TimerTick

\* The next message of s is still in time.
OnTime(s) == trackers[s].last \in 0..(Period[s] - 1)

TimePasses ==
  /\ ticked
  /\ \A s \in punctual : OnTime(s)
  /\ ticked' = FALSE
  /\ MonitorTimePasses
  /\ Supervisor!TimePasses
  /\ UNCHANGED <<health, punctual>>

Next ==
  \/ SensorSends \/ MonitorFires
  \/ HearSensor \/ HearSummary \/ Lose
  \/ SupervisorReceives \/ SupervisorFires
  \/ TimePasses

Spec == Init /\ [][Next]_vars

\* Timers fire, the queue moves on, and not every summary is lost.
FairSpec ==
  /\ Spec
  /\ WF_vars(MonitorFires) /\ WF_vars(SupervisorFires)
  /\ WF_vars(HearSensor) /\ SF_vars(HearSummary)

-------------------------------------------------------------------------------
\* A sensor that delivers one message in every period of its own is never
\* reported as anything but HEALTHY, at whatever moment the timer fires.
NoFalseAlarm ==
  \A i \in DOMAIN health, s \in punctual : health[i][1] = s => health[i][2] = "HEALTHY"

\* End to end: while every sensor is on time nothing the monitor publishes, in
\* whatever order it is lost, delayed and heard, stops or slows the vehicle.
PunctualNeverStops ==
  punctual = Monitored =>
    /\ ~node.latched
    /\ node.mode \notin {"Degraded", "SafeStop"}
    /\ node.speed.current = Supervisor!FullLimit

\* End to end: a sensor that has been heard and falls silent for good latches a
\* fault, again and again if it is cleared, although its messages may be lost.
SilentSensorStops ==
  \A s \in Monitored :
    <>[](trackers[s].last = Oldest(s) /\ GraceOver) => []<>node.latched
===============================================================================
