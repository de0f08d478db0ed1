------------------------------- MODULE Corridor -------------------------------
(***************************************************************************)
(* A vehicle that Nav2 drives towards an obstacle at full speed: the       *)
(* envelope node, the supervisor and the drive bridge, closed over the     *)
(* vehicle.  In one unit of time odometry arrives, a scan does or does     *)
(* not, both timers fire, and every message is delivered, in any order;    *)
(* and then the vehicle moves.  A status for the supervisor, which         *)
(* subscribes best-effort, may be lost.  The vehicle is external: it       *)
(* follows cmd_vel as fast as Accel and Decel let it.                      *)
(*                                                                         *)
(* No fault is cleared, no sensor degrades and the clock does not go back  *)
(* here; SafetyStack has them.                                             *)
(***************************************************************************)
EXTENDS SafetyEnvelope, IsSafeCondition, Sequences

CONSTANTS
  Jerk, Capacity, MaxLinear, Freshness, Speeds,
  Sensors, SensorTimeout, RecoveryTimeout, RampTime, LocTimeout, AutoRecover,
  Accel,        \* of the vehicle
  ScanEvery,    \* a scan comes at the latest in every ScanEvery-th unit of time
  Asks,         \* whether Nav2's tree asks IsSafe
  Gaps          \* distances of the obstacle at the start

\* The bridge drives no faster than the envelope plans for.
ASSUME VehicleAssumption ==
  Accel \in Nat /\ ScanEvery \in Nat \ {0} /\ Asks \subseteq BOOLEAN /\ Gaps \subseteq Nat /\ MaxLinear <= MaxSpeed

VARIABLES
  node, published, bridge, cmdVel, limits, states, stops,   \* SafetyStack
  toBridge, toSupervisor,   \* safety/envelope_status, to each subscriber
  done,       \* what has run in this unit of time
  quiet,      \* units of time since the last scan
  gap,        \* the vehicle and its obstacle
  speed,
  odomLost,   \* odometry may fall silent for good
  nav         \* Nav2: whether its tree asks IsSafe, the zone the supervisor
              \* last heard, and the last safety/state message

\* The stack, with what is proved of it.
Stack == INSTANCE SafetyStack_proofs
  WITH QueueDepth <- 1, OdomAges <- {0}, ZoneReports <- {}, StatusReports <- {},
       SummaryReports <- {}, ClockMayGoBack <- FALSE

\* Its constants are as its modules ask.
ASSUME StackAssumption ==
  Stack!StopAssumption /\ Stack!BridgeAssumption /\ Stack!SupervisorAssumption

stackVars == <<node, published, bridge, cmdVel, limits, states, stops>>
inbox     == <<toBridge, toSupervisor>>
world     == <<gap, speed, odomLost>>
vars      == <<envelope, stackVars, inbox, done, quiet, world, nav>>

Tasks == {"odom", "scan", "supervisor", "bridge"}

Status == [zone : Stack!Supervisor!Zones, limit : 0..MaxSpeed]

TypeOK ==
  /\ EnvelopeTypeOK
  /\ Stack!TypeOK
  /\ toBridge \in Seq(Status) /\ toSupervisor \in Seq(Status)
  /\ done \subseteq Tasks /\ quiet \in 0..(ScanEvery - 1)
  /\ nav.asks \in BOOLEAN /\ nav.zone \in Stack!Supervisor!Zones
  /\ gap \in Int /\ speed \in 0..MaxSpeed /\ odomLost \in BOOLEAN

Init ==
  /\ EnvelopeInit
  /\ Stack!Init
  /\ toBridge = << >> /\ toSupervisor = << >>
  /\ done = {} /\ quiet = 0
  /\ \E asks \in Asks : nav = [asks |-> asks, zone |-> "Clear", report |-> NoMessage]
  /\ gap \in Gaps /\ speed = 0 /\ odomLost = FALSE

-------------------------------------------------------------------------------
Once(task) == task \notin done /\ done' = done \cup {task}

\* What has reached IsSafe.
Received == IF Connected THEN nav.report ELSE NoMessage

\* Nav2 drives on at full speed, unless its tree asks IsSafe and is refused.
NavCommands(b) ==
  IF nav.asks /\ ~IsSafe(Received) THEN b ELSE Stack!HearCommand(b, MaxLinear)

\* One odometry message, to every node; Nav2's command comes as often.
Odometry ==
  /\ Once("odom")
  /\ ~odomLost
  /\ HearEnvelopeOdom(speed)
  /\ Stack!Supervisor!OnOdom
  /\ bridge' = NavCommands(Stack!HearOdom(bridge, speed))
  /\ UNCHANGED <<cmdVel, limits, states, stops, inbox, quiet, world, nav>>

\* Silence: only Nav2's command comes.
NoOdometry ==
  /\ Once("odom")
  /\ odomLost
  /\ bridge' = NavCommands(bridge)
  /\ UNCHANGED <<envelope, node, published, cmdVel, limits, states, stops, inbox, quiet,
                 world, nav>>

\* The obstacle, if there is one, and a wall beside the corridor.
Scan ==
  /\ Once("scan")
  /\ LET ahead  == IF gap = NoObstacle THEN {} ELSE {[x |-> gap, beside |-> FALSE]}
         status == ScanStatus(ahead \cup {[x |-> IgnoreRange, beside |-> TRUE]})
     IN  toBridge' = <<status>> /\ toSupervisor' = <<status>>
  /\ quiet' = 0
  /\ UNCHANGED <<envelope, stackVars, world, nav>>

\* The lidar is slower than the timers.
NoScan ==
  /\ Once("scan")
  /\ quiet + 1 < ScanEvery
  /\ quiet' = quiet + 1
  /\ UNCHANGED <<envelope, stackVars, inbox, world, nav>>

BridgeHears ==
  /\ toBridge /= << >>
  /\ bridge' = Stack!HearZone(bridge, Head(toBridge).zone, Head(toBridge).limit)
  /\ toBridge' = << >>
  /\ UNCHANGED <<envelope, node, published, cmdVel, limits, states, stops, toSupervisor, done,
                 quiet, world, nav>>

SupervisorHears ==
  /\ toSupervisor /= << >>
  /\ Stack!Supervisor!OnEnvelope(Head(toSupervisor).zone)
  /\ nav' = [nav EXCEPT !.zone = Head(toSupervisor).zone]
  /\ toSupervisor' = << >>
  /\ UNCHANGED <<envelope, bridge, cmdVel, limits, states, stops, toBridge, done, quiet, world>>

\* The status is lost.
SupervisorMisses ==
  /\ toSupervisor /= << >>
  /\ toSupervisor' = << >>
  /\ UNCHANGED <<envelope, stackVars, toBridge, done, quiet, world, nav>>

SupervisorFires ==
  /\ Once("supervisor")
  /\ Stack!SupervisorTick
  /\ nav' = [nav EXCEPT !.report = [latched |-> published'.latched, stop |-> published'.stop,
                                   mode |-> published'.mode, zone |-> nav.zone]]
  /\ UNCHANGED <<envelope, inbox, quiet, world>>

BridgeFires ==
  /\ Once("bridge")
  /\ Stack!BridgeTick
  /\ UNCHANGED <<envelope, inbox, quiet, world, nav>>

Deliver ==
  /\ Stack!DeliverLimit \/ Stack!DeliverState \/ Stack!DeliverStop
  /\ UNCHANGED <<envelope, inbox, done, quiet, world, nav>>

\* The speed after one unit of time.
Followed ==
  IF cmdVel >= speed THEN Lesser(cmdVel, speed + Accel)
  ELSE IF speed - Decel >= cmdVel THEN speed - Decel ELSE cmdVel

\* Time passes when everybody has run and every message has arrived.
Move ==
  /\ done = Tasks /\ Stack!Heard /\ inbox = <<<< >>, << >>>>
  /\ done' = {}
  /\ speed' = Followed
  /\ gap' = IF gap = NoObstacle THEN gap ELSE gap - (IF speed >= Followed THEN speed ELSE Followed)
  /\ EnvelopeTimePasses
  /\ Stack!TimePasses
  /\ UNCHANGED <<inbox, quiet, odomLost, nav>>

ObstacleLeaves ==
  /\ done = {} /\ gap /= NoObstacle
  /\ gap' = NoObstacle
  /\ UNCHANGED <<envelope, stackVars, inbox, done, quiet, speed, odomLost, nav>>

OdomDies ==
  /\ done = {} /\ ~odomLost
  /\ odomLost' = TRUE
  /\ UNCHANGED <<envelope, stackVars, inbox, done, quiet, gap, speed, nav>>

Runs == Odometry \/ NoOdometry \/ Scan \/ NoScan \/ SupervisorFires \/ BridgeFires
Hears == BridgeHears \/ SupervisorHears \/ SupervisorMisses \/ Deliver

Next == Runs \/ Hears \/ Move \/ ObstacleLeaves \/ OdomDies

Spec == Init /\ [][Next]_vars

\* Timers fire, messages arrive or are lost, and time goes on.
FairSpec == Spec /\ WF_vars(Runs) /\ WF_vars(Hears) /\ WF_vars(Move)

-------------------------------------------------------------------------------
\* The vehicle never touches the obstacle it drives at, whatever order nodes and
\* messages come in, and whatever the supervisor misses, as long as odometry comes.
NoContact == odomLost \/ gap = NoObstacle \/ gap > Overhang

\* "after grace period, assume warning zone for safety": once there is nothing
\* left to see the vehicle comes down to half speed, and stays there.
BlindStaysSlow == gap = NoObstacle ~> [](speed <= MaxSpeed \div 2)

\* Odometry that falls silent after it has been heard brings the vehicle to
\* rest, although the envelope node goes on with the last speed it heard.
OdomLossHalts == odomLost /\ node.odom /= None ~> [](speed = 0)

\* At rest with room to an obstacle in view, even for the clearance that the
\* envelope requires, a vehicle gets going, if its tree does not ask IsSafe.
AtRestWithRoom ==
  /\ speed = 0 /\ ~odomLost /\ ~nav.asks
  /\ gap /= NoObstacle
  /\ EnvelopeStatus(gap, 0).zone = "Clear"

RoomGetsGoing == AtRestWithRoom ~> ~AtRestWithRoom

\* A warning zone is one of "Reduced speed" (README.md:240), not of standstill:
\* at rest with nothing in view, and no fault, a vehicle gets going.  The limit
\* that follows the vehicle's own speed does not keep it.
AtRestBlind == speed = 0 /\ ~odomLost /\ ~nav.asks /\ gap = NoObstacle /\ ~published.latched

BlindGetsGoing == AtRestBlind ~> ~AtRestBlind

\* The condition "succeeds when the safety_core supervisor reports a safe operating
\* state" (is_safe_condition.hpp:13).  A report that does not arrive does not keep it.
SafeReportPasses == IsSafe(nav.report) => IsSafe(Received)

===============================================================================
