------------------------------ MODULE SafetyStack ------------------------------
(***************************************************************************)
(* The supervisor node and the drive bridge as two processes, joined by    *)
(* the three topics the supervisor publishes in every tick:                *)
(* safety/recovery_speed_limit, safety/state and safety/safe_stop.  A      *)
(* topic is reliable and keeps the order of its messages, but it keeps     *)
(* only the last QueueDepth of them for a slow subscriber, and nothing     *)
(* orders the messages of different topics.                                *)
(***************************************************************************)
EXTENDS DriveBridge

CONSTANTS
  Sensors, SensorTimeout, RecoveryTimeout, RampTime,
  LocTimeout, AutoRecover, OdomAges, ZoneReports, StatusReports, SummaryReports,
  ClockMayGoBack,
  QueueDepth      \* history depth of state_qos

ASSUME DepthAssumption == QueueDepth \in Nat \ {0}

VARIABLES
  node, published,  \* the supervisor
  limits,           \* messages in flight to the bridge, on each topic
  states,
  stops

\* The supervisor, with what is proved of it.
Supervisor == INSTANCE SupervisorNode_proofs

\* Its constants are as its own module asks.
ASSUME SupervisorAssumption ==
  Supervisor!SensorAssumption /\ Supervisor!RampTimeAssumption /\ Supervisor!NodeAssumption

topics == <<limits, states, stops>>
vars   == <<node, published, bridge, cmdVel, limits, states, stops>>

\* KEEP_LAST: the oldest message makes room.
Publish(topic, message) ==
  LET t == Append(topic, message)
  IN  IF Len(t) > QueueDepth THEN Tail(t) ELSE t

TypeOK ==
  /\ Supervisor!TypeOK
  /\ BridgeTypeOK
  /\ limits \in Seq(Nat) /\ states \in Seq(BOOLEAN) /\ stops \in Seq(BOOLEAN)
  /\ Len(limits) <= QueueDepth /\ Len(states) <= QueueDepth /\ Len(stops) <= QueueDepth

Init ==
  /\ Supervisor!Init
  /\ BridgeInit
  /\ limits = << >> /\ states = << >> /\ stops = << >>

-------------------------------------------------------------------------------
\* The supervisor's callbacks publish nothing, its tick publishes on every topic.
SupervisorReceives == Supervisor!Receive /\ UNCHANGED <<bridgeVars, topics>>

SupervisorTick ==
  /\ Supervisor!TimerTick
  /\ limits' = Publish(limits, published'.limit)
  /\ states' = Publish(states, published'.latched)
  /\ stops' = Publish(stops, published'.stop)
  /\ UNCHANGED bridgeVars

DeliverLimit ==
  /\ limits /= << >>
  /\ bridge' = HearSpeedLimit(bridge, Head(limits))
  /\ limits' = Tail(limits)
  /\ UNCHANGED <<node, published, cmdVel, states, stops>>

DeliverState ==
  /\ states /= << >>
  /\ bridge' = HearState(bridge, Head(states))
  /\ states' = Tail(states)
  /\ UNCHANGED <<node, published, cmdVel, limits, stops>>

DeliverStop ==
  /\ stops /= << >>
  /\ bridge' = HearStop(bridge, Head(stops))
  /\ stops' = Tail(stops)
  /\ UNCHANGED <<node, published, cmdVel, limits, states>>

BridgeReceives ==
  /\ OnCmdVelNav \/ OnZone(ZoneReports) \/ OnBridgeOdom
  /\ UNCHANGED <<node, published, topics>>

BridgeTick == ControlTick /\ UNCHANGED <<node, published, topics>>

\* Both nodes read the same ROS clock.
TimePasses ==
  /\ Supervisor!TimePasses
  /\ bridge' = Aged(bridge)
  /\ UNCHANGED <<cmdVel, topics>>

ClockSetBack ==
  /\ Supervisor!ClockSetBack
  /\ bridge' = Unsettled(bridge)
  /\ UNCHANGED <<cmdVel, topics>>

Next ==
  \/ SupervisorReceives \/ SupervisorTick
  \/ DeliverLimit \/ DeliverState \/ DeliverStop
  \/ BridgeReceives \/ BridgeTick
  \/ TimePasses \/ ClockSetBack

Spec == Init /\ [][Next]_vars

\* Timers keep firing and reliable topics deliver.
FairSpec ==
  /\ Spec
  /\ WF_vars(SupervisorTick) /\ WF_vars(BridgeTick)
  /\ WF_vars(DeliverLimit) /\ WF_vars(DeliverState) /\ WF_vars(DeliverStop)

-------------------------------------------------------------------------------
Heard == limits = << >> /\ states = << >> /\ stops = << >>

\* When nothing is in flight the bridge never holds a stop without its fault:
\* the jerk-limited ramp, which a fault pre-empts, only ever plays while the
\* state message of the same tick is still under way.
SettledStopHasFault == Heard /\ bridge.stop => bridge.fault

\* Once the messages of the last tick are there, whatever order the topics
\* delivered them in, every command obeys them.
CommandsObeyTick ==
  [][BridgeTick /\ Heard =>
       /\ cmdVel' <= published.limit /\ -cmdVel' <= published.limit
       /\ published.latched \/ published.stop => cmdVel' = 0]_vars

\* A fault that stays latched brings the vehicle to rest for good.
FaultBringsToRest == <>[](node.latched) => <>[](cmdVel = 0)

\* So does a Nav2 that has fallen silent, once stop requests no longer come and
\* go: each new one plays a ramp that starts from the measured speed.
NavLossBringsToRest ==
  /\ <>[](bridge.heard \notin 0..Freshness)
  /\ <>[](bridge.stop) \/ <>[](~bridge.stop)
  => <>[](cmdVel = 0)
-------------------------------------------------------------------------------
(* What a document says and the code does not do                           *)

\* "On safe_stop: jerk-limited deceleration profile": with the fault cleared, a
\* vehicle at rest, by its odometry and its last command, is not set in motion
\* by a safe stop that is still active in the bridge.
SafeStopOnlySlows ==
  [][/\ BridgeTick /\ bridge.stop
     /\ published.mode = "Idle" /\ ~published.latched
     /\ bridge.speed = 0 /\ cmdVel = 0
     => cmdVel' = 0]_vars
===============================================================================
