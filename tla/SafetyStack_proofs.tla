------------------------- MODULE SafetyStack_proofs -------------------------
(***************************************************************************)
(* Proofs about the supervisor and the bridge joined by their three        *)
(* topics, for any sensors, timeouts, history depth and Nav2.  A topic may *)
(* hold old messages and may have dropped others; what the proofs follow   *)
(* is the message that will arrive last, which is always the last tick's.  *)
(***************************************************************************)
EXTENDS SafetyStack, StopProfile_proofs, SequenceTheorems, TLAPS

\* The assumptions of the supervisor's module, spelled out: what is proved of it
\* may be used here.
LEMMA NodeParameters ==
  /\ Sensors /= {} /\ SensorTimeout \in Nat /\ RecoveryTimeout \in Nat
  /\ RampTime \in Nat \ {0}
  /\ LocTimeout \in Nat \ {0} /\ AutoRecover \in BOOLEAN
  /\ OdomAges \subseteq {Supervisor!Ahead} \cup 0..(2 * LocTimeout)
  /\ ZoneReports \subseteq Supervisor!Zones
  /\ StatusReports \subseteq Supervisor!Statuses /\ SummaryReports \subseteq Supervisor!Statuses
  /\ ClockMayGoBack \in BOOLEAN
BY SupervisorAssumption
DEF Supervisor!SensorAssumption, Supervisor!RampTimeAssumption, Supervisor!NodeAssumption

\* One invariant for the supervisor, in the constants of this module.
SupervisorGood ==
  /\ Supervisor!Inv
  /\ published.limit \in Nat /\ published.latched \in BOOLEAN /\ published.stop \in BOOLEAN
  /\ published.stop => published.latched

LEMMA GoodAtStart == Init => SupervisorGood
<1>1. Init => Supervisor!Inv
  BY NodeParameters, Supervisor!InitInv DEF Init
<1>2. Supervisor!Inv => SupervisorGood
  BY NodeParameters DEF SupervisorGood, Supervisor!Inv, Supervisor!Messages, Supervisor!FullLimit
<1>3. QED
  BY <1>1, <1>2

\* No step of the bridge touches the supervisor, and every other step is one of
\* its own.
LEMMA StackSteps == [Next]_vars => Supervisor!Next \/ UNCHANGED <<node, published>>
BY DEF Next, vars, SupervisorReceives, SupervisorTick, DeliverLimit, DeliverState, DeliverStop,
       BridgeReceives, BridgeTick, TimePasses, ClockSetBack, Supervisor!Next

LEMMA StaysGood == SupervisorGood /\ [Next]_vars => SupervisorGood'
<1> SUFFICES ASSUME SupervisorGood, [Next]_vars PROVE SupervisorGood'
  OBVIOUS
<1>1. [Supervisor!Next]_Supervisor!vars
  BY StackSteps DEF Supervisor!vars
<1>2. Supervisor!Inv'
  BY <1>1, NodeParameters, Supervisor!StepInv DEF SupervisorGood
<1>3. QED
  BY <1>2, NodeParameters
  DEF SupervisorGood, Supervisor!Inv, Supervisor!Messages, Supervisor!FullLimit

\* What the supervisor's steps do to its latch: only clear_fault lowers it.
LEMMA OdomHeard ==
  ASSUME SupervisorGood, Supervisor!OnOdom
  PROVE  SupervisorGood' /\ node'.latched = node.latched /\ published' = published
<1>1. [Supervisor!Next]_Supervisor!vars
  BY DEF Supervisor!Next, Supervisor!Receive
<1>2. Supervisor!Inv'
  BY <1>1, NodeParameters, Supervisor!StepInv DEF SupervisorGood
<1>3. published' = published
  BY DEF Supervisor!OnOdom
<1>4. node'.latched = node.latched
  BY DEF SupervisorGood, Supervisor!Inv, Supervisor!Good, Supervisor!Stopped, Supervisor!Nodes,
         Supervisor!OnOdom
<1>5. QED
  BY <1>2, <1>3, <1>4 DEF SupervisorGood

LEMMA ZoneHeard ==
  ASSUME SupervisorGood, NEW zone \in Supervisor!Zones, Supervisor!OnEnvelope(zone)
  PROVE  /\ SupervisorGood' /\ published' = published
         /\ node.latched \/ zone = "Emergency" => node'.latched
<1>1. Supervisor!Good(node)
  BY DEF SupervisorGood, Supervisor!Inv
<1>2. Supervisor!Good(node')
  BY <1>1, NodeParameters, Supervisor!OnEnvelopeGood
<1>3. published' = published
  BY DEF Supervisor!OnEnvelope
<1>4. SupervisorGood'
  BY <1>2, <1>3 DEF SupervisorGood, Supervisor!Inv
<1>5. node.latched \/ zone = "Emergency" => node'.latched
  BY <1>1
  DEF Supervisor!Good, Supervisor!Stopped, Supervisor!Nodes, Supervisor!OnEnvelope,
      Supervisor!HandleZoneTransition, Supervisor!TransitionTo, Supervisor!ForceStop,
      Supervisor!LatchFault
<1>6. QED
  BY <1>3, <1>4, <1>5

\* A tick publishes the latch it leaves.
LEMMA TickHeard ==
  ASSUME SupervisorGood, SupervisorTick
  PROVE  /\ SupervisorGood' /\ published'.latched = node'.latched
         /\ node.latched => node'.latched
<1>1. Supervisor!Good(node) /\ Supervisor!TimerTick
  BY DEF SupervisorGood, Supervisor!Inv, SupervisorTick
<1>2. /\ Supervisor!Good(node') /\ published' \in Supervisor!Messages
      /\ published'.stop => published'.latched
      /\ published'.latched = node'.latched
      /\ node.mode = "SafeStop" => node'.mode = "SafeStop"
  BY <1>1, NodeParameters, Supervisor!TimerTickGood
<1>3. node.latched => node'.latched
  BY <1>1, <1>2 DEF Supervisor!Good, Supervisor!Stopped
<1>4. SupervisorGood'
  BY <1>2, NodeParameters
  DEF SupervisorGood, Supervisor!Inv, Supervisor!Messages, Supervisor!FullLimit
<1>5. QED
  BY <1>2, <1>3, <1>4

LEMMA TimeHeard ==
  ASSUME SupervisorGood, Supervisor!TimePasses
  PROVE  SupervisorGood' /\ node'.latched = node.latched /\ published' = published
<1>1. Supervisor!Good(node) /\ published' = published
  BY DEF SupervisorGood, Supervisor!Inv, Supervisor!TimePasses
<1>2. Supervisor!Good(node')
  BY <1>1, NodeParameters, Supervisor!ClockGood
<1>3. node'.latched = node.latched
  BY <1>1 DEF Supervisor!Good, Supervisor!Stopped, Supervisor!Nodes, Supervisor!TimePasses
<1>4. QED
  BY <1>1, <1>2, <1>3 DEF SupervisorGood, Supervisor!Inv

-------------------------------------------------------------------------------
(* Topics                                                                  *)

\* What the bridge will hold once everything in flight has arrived.
Arriving(topic, held) == IF topic = << >> THEN held ELSE topic[Len(topic)]

\* A publication is the last to arrive, however short the history.
LEMMA PublishArrives ==
  ASSUME NEW S, NEW topic \in Seq(S), NEW m \in S, NEW held
  PROVE  Publish(topic, m) \in Seq(S) /\ Arriving(Publish(topic, m), held) = m
<1> DEFINE t == Append(topic, m)
<1>1. t \in Seq(S) /\ Len(t) = Len(topic) + 1 /\ t[Len(t)] = m /\ t /= << >>
  OBVIOUS
<1>2. CASE Len(t) > QueueDepth
  <2>1. Publish(topic, m) = Tail(t)
    BY <1>2 DEF Publish
  <2>2. Len(t) >= 2
    BY <1>1, <1>2, DepthAssumption
  <2> HIDE DEF t
  <2>3. Tail(t) \in Seq(S) /\ Len(Tail(t)) = Len(t) - 1 /\ Tail(t)[Len(t) - 1] = t[Len(t)]
    BY <1>1, <2>2
  <2>4. QED
    BY <1>1, <2>1, <2>2, <2>3 DEF Arriving
<1>3. CASE ~(Len(t) > QueueDepth)
  BY <1>1, <1>3 DEF Publish, Arriving
<1>4. QED
  BY <1>2, <1>3

\* A delivery changes nothing about what is to arrive.
LEMMA DeliverArrives ==
  ASSUME NEW S, NEW topic \in Seq(S), topic /= << >>, NEW held
  PROVE  /\ Head(topic) \in S /\ Tail(topic) \in Seq(S)
         /\ Arriving(Tail(topic), Head(topic)) = Arriving(topic, held)
<1>1. /\ Head(topic) \in S /\ Tail(topic) \in Seq(S) /\ Len(Tail(topic)) = Len(topic) - 1
      /\ \A i \in 1..Len(Tail(topic)) : Tail(topic)[i] = topic[i + 1]
  BY HeadTailProperties
<1>2. Len(topic) \in Nat \ {0} /\ Head(topic) = topic[1]
  OBVIOUS
<1> DEFINE rest == Tail(topic)
<1> HIDE DEF rest
<1>3. /\ rest \in Seq(S) /\ Len(rest) = Len(topic) - 1 /\ Len(rest) \in Nat
      /\ \A i \in 1..Len(rest) : rest[i] = topic[i + 1]
  BY <1>1, <1>2 DEF rest
<1>4. Arriving(rest, Head(topic)) = Arriving(topic, held)
  <2>1. CASE rest = << >>
    <3>1. Len(rest) = 0
      BY <2>1, SMTT(30)
    <3>2. QED
      BY <1>2, <1>3, <2>1, <3>1 DEF Arriving
  <2>2. CASE rest /= << >>
    <3>1. Len(rest) \in Nat \ {0}
      BY <1>3, <2>2, EmptySeq
    <3>2. rest[Len(rest)] = topic[Len(topic)]
      BY <1>2, <1>3, <3>1
    <3>3. QED
      BY <2>2, <3>2 DEF Arriving
  <2>3. QED
    BY <2>1, <2>2
<1>5. QED
  BY <1>1, <1>4 DEF rest

-------------------------------------------------------------------------------
(* The bridge will hold what the supervisor last published                 *)

\* The ramp and the age of the command are left open.
Bridges ==
  [stop : BOOLEAN, fault : BOOLEAN, zoneLimit : 0..MaxLinear, speedLimit : Nat,
   speed : Int, cmd : Int, heard : {bridge.heard}, ramp : {bridge.ramp}]

\* Of the limit the bridge only ever uses what is below MaxLinear.
Follows ==
  /\ Arriving(states, bridge.fault) = published.latched
  /\ Arriving(stops, bridge.stop) = published.stop

Limited == Least(MaxLinear, Arriving(limits, bridge.speedLimit)) <= published.limit

StackShape ==
  /\ SupervisorGood
  /\ bridge \in Bridges
  /\ limits \in Seq(Nat) /\ states \in Seq(BOOLEAN) /\ stops \in Seq(BOOLEAN)

StackInv == StackShape /\ Follows

\* The three topics are empty and the bridge assumes what the supervisor starts with.
LEMMA StackInitially == Init => StackInv
<1> SUFFICES ASSUME Init PROVE StackInv
  OBVIOUS
<1>1. bridge \in Bridges
  BY BridgeAssumption DEF Init, BridgeInit, Bridges
<1>2. /\ limits \in Seq(Nat) /\ states \in Seq(BOOLEAN) /\ stops \in Seq(BOOLEAN)
      /\ limits = << >> /\ states = << >> /\ stops = << >>
  BY DEF Init
<1>3. Follows
  BY <1>2 DEF Init, Supervisor!Init, BridgeInit, Follows, Arriving
<1>4. QED
  BY <1>1, <1>2, <1>3, GoodAtStart DEF StackInv, StackShape

\* A tick replaces what is to arrive by what it publishes.
LEMMA TickFollows ==
  ASSUME StackShape, SupervisorGood', SupervisorTick
  PROVE  StackInv' /\ Limited'
<1>1. /\ published'.limit \in Nat /\ published'.latched \in BOOLEAN
      /\ published'.stop \in BOOLEAN /\ bridge' = bridge
      /\ limits' = Publish(limits, published'.limit)
      /\ states' = Publish(states, published'.latched)
      /\ stops' = Publish(stops, published'.stop)
  BY DEF SupervisorGood, SupervisorTick, bridgeVars
<1>2. bridge \in Bridges /\ bridge' \in Bridges'
  BY <1>1 DEF StackShape, Bridges
<1>3. limits' \in Seq(Nat) /\ Arriving(limits', bridge'.speedLimit) = published'.limit
  <2>1. PICK S : S = Nat
    OBVIOUS
  <2>2. limits \in Seq(S) /\ published'.limit \in S
    BY <1>1, <2>1 DEF StackShape
  <2>3. limits' \in Seq(S) /\ Arriving(limits', bridge'.speedLimit) = published'.limit
    BY <1>1, <2>2, PublishArrives
  <2>4. QED
    BY <2>1, <2>3
<1>4. states' \in Seq(BOOLEAN) /\ Arriving(states', bridge'.fault) = published'.latched
  BY <1>1, PublishArrives DEF StackShape
<1>5. stops' \in Seq(BOOLEAN) /\ Arriving(stops', bridge'.stop) = published'.stop
  BY <1>1, PublishArrives DEF StackShape
<1>6. Limited'
  BY <1>1, <1>3, BridgeAssumption DEF Limited, Least
<1>7. QED
  BY <1>2, <1>3, <1>4, <1>5, <1>6 DEF StackInv, StackShape, Follows

\* A delivery moves a message from its topic to the bridge.
LEMMA DeliveryFollows ==
  ASSUME StackInv, SupervisorGood', DeliverLimit \/ DeliverState \/ DeliverStop
  PROVE  StackInv' /\ (Limited => Limited')
<1>0. UNCHANGED published /\ bridge \in Bridges
  BY DEF StackInv, StackShape, DeliverLimit, DeliverState, DeliverStop
<1>1. CASE DeliverLimit
  <2>1. /\ Head(limits) \in Nat /\ limits' \in Seq(Nat)
        /\ Arriving(limits', Head(limits)) = Arriving(limits, bridge.speedLimit)
    BY <1>1, DeliverArrives DEF DeliverLimit, StackInv, StackShape
  <2>2. bridge' = [bridge EXCEPT !.speedLimit = Head(limits)]
    BY <1>1, <2>1 DEF DeliverLimit, HearSpeedLimit, Positive
  <2>3. /\ bridge' \in Bridges' /\ bridge'.speedLimit = Head(limits)
        /\ bridge'.fault = bridge.fault /\ bridge'.stop = bridge.stop
    BY <1>0, <2>1, <2>2 DEF Bridges
  <2>4. QED
    BY <1>0, <1>1, <2>1, <2>3 DEF DeliverLimit, StackInv, StackShape, Follows, Limited
<1>2. CASE DeliverState
  <2>1. /\ Head(states) \in BOOLEAN /\ states' \in Seq(BOOLEAN)
        /\ Arriving(states', Head(states)) = Arriving(states, bridge.fault)
    BY <1>2, DeliverArrives DEF DeliverState, StackInv, StackShape
  <2>2. bridge' = [bridge EXCEPT !.fault = Head(states)]
    BY <1>2 DEF DeliverState, HearState
  <2>3. /\ bridge' \in Bridges' /\ bridge'.fault = Head(states)
        /\ bridge'.speedLimit = bridge.speedLimit /\ bridge'.stop = bridge.stop
    BY <1>0, <2>1, <2>2 DEF Bridges
  <2>4. QED
    BY <1>0, <1>2, <2>1, <2>3 DEF DeliverState, StackInv, StackShape, Follows, Limited
<1>3. CASE DeliverStop
  <2>1. /\ Head(stops) \in BOOLEAN /\ stops' \in Seq(BOOLEAN)
        /\ Arriving(stops', Head(stops)) = Arriving(stops, bridge.stop)
    BY <1>3, DeliverArrives DEF DeliverStop, StackInv, StackShape
  <2>2. PICK ramp : bridge' = [bridge EXCEPT !.stop = Head(stops), !.ramp = ramp]
    BY <1>0, <1>3 DEF DeliverStop, HearStop, Bridges
  <2>3. /\ bridge' \in Bridges' /\ bridge'.stop = Head(stops)
        /\ bridge'.speedLimit = bridge.speedLimit /\ bridge'.fault = bridge.fault
    BY <1>0, <2>1, <2>2 DEF Bridges
  <2>4. QED
    BY <1>0, <1>3, <2>1, <2>3 DEF DeliverStop, StackInv, StackShape, Follows, Limited
<1>4. QED
  BY <1>1, <1>2, <1>3

\* No other step touches the topics, the messages or what the bridge has heard
\* of the supervisor.
LEMMA OthersFollow ==
  ASSUME StackInv, SupervisorGood', UNCHANGED <<published, topics>>,
         bridge' \in Bridges', bridge'.fault = bridge.fault, bridge'.stop = bridge.stop,
         bridge'.speedLimit = bridge.speedLimit
  PROVE  StackInv' /\ (Limited => Limited')
  BY DEF StackInv, StackShape, Follows, Limited, topics

\* The bridge's own steps: Nav2, zones, odometry, its timer and the clock.
LEMMA BridgeKeeps ==
  ASSUME bridge \in Bridges,
         \/ OnCmdVelNav \/ OnZone(ZoneReports) \/ OnBridgeOdom \/ ControlTick
         \/ bridge' = Aged(bridge) \/ bridge' = Unsettled(bridge) \/ UNCHANGED bridge
  PROVE  /\ bridge' \in Bridges' /\ bridge'.fault = bridge.fault /\ bridge'.stop = bridge.stop
         /\ bridge'.speedLimit = bridge.speedLimit
<1>1. CASE OnCmdVelNav
  <2>1. PICK c \in Int : bridge' = [bridge EXCEPT !.cmd = c, !.heard = 0]
    BY <1>1, BridgeAssumption DEF OnCmdVelNav, HearCommand
  <2>2. QED
    BY <2>1 DEF Bridges
<1>2. CASE OnZone(ZoneReports)
  <2>1. PICK zone \in ZoneReports, s \in Speeds : bridge' = HearZone(bridge, zone, s)
    BY <1>2 DEF OnZone
  <2>2. PICK limit \in 0..MaxLinear : bridge' = [bridge EXCEPT !.zoneLimit = limit]
    BY <2>1, BridgeAssumption DEF HearZone, Least, Positive
  <2>3. QED
    BY <2>2 DEF Bridges
<1>3. CASE OnBridgeOdom
  <2>1. PICK s \in Int : bridge' = [bridge EXCEPT !.speed = s]
    BY <1>3, BridgeAssumption DEF OnBridgeOdom, HearOdom
  <2>2. QED
    BY <2>1 DEF Bridges
<1>4. CASE ControlTick
  BY <1>4 DEF ControlTick, Bridges
<1>5. CASE bridge' = Aged(bridge) \/ bridge' = Unsettled(bridge)
  BY <1>5 DEF Aged, Unsettled, Bridges
<1>6. CASE UNCHANGED bridge
  BY <1>6 DEF Bridges
<1>7. QED
  BY <1>1, <1>2, <1>3, <1>4, <1>5, <1>6

\* One step per action of the composition.
LEMMA StackStep ==
  ASSUME StackInv, [Next]_vars
  PROVE  StackInv' /\ (Limited => Limited')
<1>0. SupervisorGood' /\ bridge \in Bridges /\ StackShape
  BY StaysGood DEF StackInv, StackShape
<1>1. CASE SupervisorReceives
  <2>1. UNCHANGED <<published, topics, bridge>>
    BY <1>1 DEF SupervisorReceives, bridgeVars, Supervisor!Receive, Supervisor!OnOdom,
       Supervisor!OnEnvelope, Supervisor!OnSensorHealth, Supervisor!OnSummary,
       Supervisor!OnClearFault
  <2>2. QED
    BY <1>0, <2>1, BridgeKeeps, OthersFollow
<1>2. CASE SupervisorTick
  BY <1>0, <1>2, TickFollows
<1>3. CASE DeliverLimit \/ DeliverState \/ DeliverStop
  BY <1>0, <1>3, DeliveryFollows
<1>4. CASE BridgeReceives \/ BridgeTick
  <2>1. UNCHANGED <<published, topics>>
    BY <1>4 DEF BridgeReceives, BridgeTick
  <2>2. OnCmdVelNav \/ OnZone(ZoneReports) \/ OnBridgeOdom \/ ControlTick
    BY <1>4 DEF BridgeReceives, BridgeTick
  <2>3. QED
    BY <1>0, <2>1, <2>2, BridgeKeeps, OthersFollow
<1>5. CASE TimePasses \/ ClockSetBack
  <2>1. UNCHANGED <<published, topics>>
    BY <1>5 DEF TimePasses, ClockSetBack, Supervisor!TimePasses, Supervisor!ClockSetBack
  <2>2. bridge' = Aged(bridge) \/ bridge' = Unsettled(bridge)
    BY <1>5 DEF TimePasses, ClockSetBack
  <2>3. QED
    BY <1>0, <2>1, <2>2, BridgeKeeps, OthersFollow
<1>6. CASE UNCHANGED vars
  <2>1. UNCHANGED <<published, topics, bridge>>
    BY <1>6 DEF vars, topics
  <2>2. QED
    BY <1>0, <2>1, BridgeKeeps, OthersFollow
<1>7. QED
  BY <1>1, <1>2, <1>3, <1>4, <1>5, <1>6 DEF Next

\* What has been published, is in flight and is held agree in every state.
THEOREM StackInvariance == Spec => []StackInv
<1>1. StackInv /\ [Next]_vars => StackInv'
  BY StackStep
<1>2. QED
  BY StackInitially, <1>1, PTL DEF Spec

-------------------------------------------------------------------------------
(* Types                                                                   *)

\* The age of the last command, and a ramp of speeds from a set T.
Ramping(T) == bridge.heard \in AgeUpTo(Freshness + 1) /\ bridge.ramp \in Seq(T)

Short == Len(limits) <= QueueDepth /\ Len(states) <= QueueDepth /\ Len(stops) <= QueueDepth

\* A new ramp starts from the measured speed and only slows down.
LEMMA StopRamps ==
  ASSUME NEW T, Ramping(T), bridge \in Bridges, NEW stop,
         0..Positive(bridge.speed) \subseteq T, bridge' = HearStop(bridge, stop)
  PROVE  Ramping(T)'
<1> DEFINE v == Positive(bridge.speed)
<1>1. v \in Nat
  BY DEF Bridges, Positive
<1>2. Profile(v) \in Seq(0..v)
  BY <1>1, ProfileStops
<1> HIDE DEF v
<1>3. Profile(v) \in Seq(T) /\ << >> \in Seq(T)
  <2>1. 0..v \subseteq T
    BY DEF v
  <2>2. QED
    BY <1>2, <2>1, SeqMonotonic, EmptySeq
<1>4. bridge'.heard = bridge.heard
      /\ bridge'.ramp \in {<< >>, bridge.ramp, Profile(v)}
  BY DEF HearStop, Bridges, v
<1>5. QED
  BY <1>3, <1>4 DEF Ramping

\* The timer takes a sample from the ramp, or leaves it.
LEMMA ControlRamps ==
  ASSUME NEW T, Ramping(T), bridge \in Bridges, ControlTick
  PROVE  /\ Ramping(T)'
         /\ \/ cmdVel' \in T /\ ~bridge.fault /\ bridge.stop
            \/ cmdVel' = ClampCommand(bridge) /\ ~bridge.fault /\ ~bridge.stop
            \/ cmdVel' = 0
<1>1. bridge.ramp /= << >> => Head(bridge.ramp) \in T /\ Tail(bridge.ramp) \in Seq(T)
  BY HeadTailProperties DEF Ramping
<1> DEFINE rest == Tail(bridge.ramp)
<1>0. \/ bridge.ramp /= << >> /\ bridge' = [bridge EXCEPT !.ramp = rest]
      \/ UNCHANGED bridge
  BY DEF ControlTick
<1> HIDE DEF rest
<1>2. /\ bridge'.heard = bridge.heard
      /\ \/ bridge'.ramp = bridge.ramp
         \/ bridge.ramp /= << >> /\ bridge'.ramp = rest
  BY <1>0 DEF Bridges
<1>3. Ramping(T)'
  BY <1>1, <1>2 DEF Ramping, rest
<1>4. QED
  BY <1>1, <1>3 DEF ControlTick

\* Everything else leaves the ramp and brings the age of the command forward,
\* or begins it.
LEMMA OthersRamp ==
  ASSUME NEW T, Ramping(T), bridge'.ramp = bridge.ramp,
         bridge'.heard \in {bridge.heard, 0, Older(bridge.heard, Freshness + 1),
                            Overtaken(bridge.heard)}
  PROVE  Ramping(T)'
  BY BridgeAssumption DEF Ramping, AgeUpTo, Older, Overtaken, None, Ahead

\* A topic never holds more than its history.
LEMMA PublishShort ==
  ASSUME NEW S, NEW topic \in Seq(S), NEW m \in S, Len(topic) <= QueueDepth
  PROVE  Len(Publish(topic, m)) <= QueueDepth
<1> DEFINE t == Append(topic, m)
<1>1. t \in Seq(S) /\ Len(t) = Len(topic) + 1
  OBVIOUS
<1>2. t /= << >> => Len(Tail(t)) = Len(t) - 1
  BY <1>1
<1>3. Len(topic) \in Nat /\ t /= << >>
  OBVIOUS
<1> HIDE DEF t
<1>4. QED
  BY <1>1, <1>2, <1>3, DepthAssumption DEF Publish, t

LEMMA TopicsStayShort ==
  ASSUME StackShape, SupervisorGood', Short,
         \/ SupervisorTick \/ DeliverLimit \/ DeliverState \/ DeliverStop
         \/ UNCHANGED topics
  PROVE  Short'
<1>1. CASE SupervisorTick
  <2>1. /\ published'.limit \in Nat /\ published'.latched \in BOOLEAN
        /\ published'.stop \in BOOLEAN
        /\ limits' = Publish(limits, published'.limit)
        /\ states' = Publish(states, published'.latched)
        /\ stops' = Publish(stops, published'.stop)
    BY <1>1 DEF SupervisorGood, SupervisorTick
  <2>2. PICK S : S = Nat
    OBVIOUS
  <2>3. limits \in Seq(S) /\ published'.limit \in S
    BY <2>1, <2>2 DEF StackShape
  <2>4. Len(limits') <= QueueDepth
    BY <2>1, <2>3, PublishShort DEF Short
  <2>5. Len(states') <= QueueDepth /\ Len(stops') <= QueueDepth
    BY <2>1, PublishShort DEF Short, StackShape
  <2>6. QED
    BY <2>4, <2>5 DEF Short
<1>2. CASE DeliverLimit \/ DeliverState \/ DeliverStop
  <2>1. PICK S : S = Nat
    OBVIOUS
  <2>2. limits /= << >> => Len(Tail(limits)) = Len(limits) - 1 /\ Len(limits) \in Nat
    BY HeadTailProperties DEF StackShape
  <2>3. states /= << >> => Len(Tail(states)) = Len(states) - 1 /\ Len(states) \in Nat
    BY HeadTailProperties DEF StackShape
  <2>4. stops /= << >> => Len(Tail(stops)) = Len(stops) - 1 /\ Len(stops) \in Nat
    BY HeadTailProperties DEF StackShape
  <2>5. QED
    BY <1>2, <2>2, <2>3, <2>4, DepthAssumption DEF DeliverLimit, DeliverState, DeliverStop, Short
<1>3. CASE UNCHANGED topics
  BY <1>3 DEF topics, Short
<1>4. QED
  BY <1>1, <1>2, <1>3

Typed == StackInv /\ Short /\ Ramping(Nat) /\ cmdVel \in Int

LEMMA TypedStep ==
  ASSUME Typed, [Next]_vars
  PROVE  Typed'
<1>0. StackInv' /\ SupervisorGood' /\ StackShape /\ bridge \in Bridges
  BY StackStep DEF Typed, StackInv, StackShape
<1>1. Short'
  <2>1. \/ SupervisorTick \/ DeliverLimit \/ DeliverState \/ DeliverStop
        \/ UNCHANGED topics
    BY DEF Next, vars, topics, SupervisorReceives, BridgeReceives, BridgeTick, TimePasses,
       ClockSetBack
  <2>2. QED
    BY <1>0, <2>1, TopicsStayShort DEF Typed
<1>2. CASE DeliverStop
  <2>1. 0..Positive(bridge.speed) \subseteq Nat /\ bridge' = HearStop(bridge, Head(stops))
    BY <1>2 DEF DeliverStop
  <2>2. PICK T : T = Nat
    OBVIOUS
  <2>3. Ramping(T) /\ 0..Positive(bridge.speed) \subseteq T
    BY <2>1, <2>2 DEF Typed
  <2>4. Ramping(T)'
    BY <1>0, <2>1, <2>3, StopRamps
  <2>5. QED
    BY <1>0, <1>1, <1>2, <2>2, <2>4 DEF DeliverStop, Typed
<1>3. CASE BridgeTick
  <2>1. PICK T : T = Nat
    OBVIOUS
  <2>2. Ramping(T) /\ ControlTick
    BY <1>3, <2>1 DEF Typed, BridgeTick
  <2>3. /\ Ramping(T)'
        /\ cmdVel' \in T \/ cmdVel' = ClampCommand(bridge) \/ cmdVel' = 0
    BY <1>0, <2>2, ControlRamps
  <2>4. ClampCommand(bridge) \in Int
    BY <1>0, BridgeAssumption DEF Bridges, ClampCommand, Least
  <2>5. QED
    BY <1>0, <1>1, <2>1, <2>3, <2>4 DEF Typed
<1>4. CASE ~DeliverStop /\ ~BridgeTick
  <2>1. /\ bridge'.ramp = bridge.ramp
        /\ bridge'.heard \in {bridge.heard, 0, Older(bridge.heard, Freshness + 1),
                              Overtaken(bridge.heard)}
        /\ cmdVel' = cmdVel
    <3>1. CASE UNCHANGED bridgeVars
      BY <3>1 DEF bridgeVars
    <3>2. CASE DeliverLimit \/ DeliverState
      BY <1>0, <3>2 DEF DeliverLimit, DeliverState, HearSpeedLimit, HearState, Bridges
    <3>3. CASE BridgeReceives
      BY <1>0, <3>3
      DEF BridgeReceives, OnCmdVelNav, OnZone, OnBridgeOdom, HearCommand, HearZone, HearOdom,
          Bridges
    <3>4. CASE TimePasses \/ ClockSetBack
      BY <1>0, <3>4 DEF TimePasses, ClockSetBack, Aged, Unsettled, Bridges
    <3>5. QED
      BY <1>4, <3>1, <3>2, <3>3, <3>4
      DEF Next, vars, bridgeVars, SupervisorReceives, SupervisorTick
  <2>2. PICK T : T = Nat
    OBVIOUS
  <2>3. Ramping(T)
    BY <2>2 DEF Typed
  <2>4. Ramping(T)'
    BY <2>1, <2>3, OthersRamp
  <2>5. QED
    BY <1>0, <1>1, <2>1, <2>2, <2>4 DEF Typed
<1>5. QED
  BY <1>2, <1>3, <1>4

LEMMA TypedIsTyped == Typed => TypeOK
<1> SUFFICES ASSUME Typed PROVE TypeOK
  OBVIOUS
<1>1. Supervisor!TypeOK
  BY DEF Typed, StackInv, StackShape, SupervisorGood, Supervisor!Inv, Supervisor!Good,
     Supervisor!Stopped, Supervisor!TypeOK
<1>2. BridgeTypeOK
  BY DEF Typed, StackInv, StackShape, Bridges, Ramping, BridgeTypeOK
<1>3. QED
  BY <1>1, <1>2 DEF Typed, StackInv, StackShape, Short, TypeOK

\* In every state the bridge holds a ramp of speeds, and no topic holds more
\* messages than its history.
THEOREM StackTypeCorrect == Spec => []TypeOK
<1>1. Init => Typed
  <2> SUFFICES ASSUME Init PROVE Typed
    OBVIOUS
  <2>1. Ramping(Nat) /\ cmdVel = 0
    BY BridgeAssumption DEF Init, BridgeInit, Ramping, AgeUpTo
  <2>2. Short
    BY DepthAssumption DEF Init, Short
  <2>3. QED
    BY <2>1, <2>2, StackInitially DEF Typed
<1>2. QED
  BY <1>1, TypedIsTyped, TypedStep, PTL DEF Spec

-------------------------------------------------------------------------------
(* The properties                                                          *)

\* The composition takes no step the supervisor could not take alone: all that
\* is proved of the supervisor holds of it in the vehicle.
THEOREM SupervisorImplemented == Spec => Supervisor!Spec
<1>1. Init => Supervisor!Init
  BY DEF Init
<1>2. [Next]_vars => [Supervisor!Next]_(Supervisor!vars)
  BY StackSteps DEF Supervisor!vars
<1>3. QED
  BY <1>1, <1>2, PTL DEF Spec, Supervisor!Spec

\* With nothing in flight the bridge has no stop without its fault.
THEOREM SettledStopHasFaultCorrect == Spec => []SettledStopHasFault
<1>1. StackInv => SettledStopHasFault
  BY DEF StackInv, StackShape, SupervisorGood, Follows, Arriving, Heard, SettledStopHasFault
<1>2. QED
  BY StackInvariance, <1>1, PTL

\* With nothing in flight a command obeys the supervisor's last tick, provided
\* the bridge is not set up to drive faster than the supervisor's full speed.
THEOREM CommandsObeyTickCorrect ==
  ASSUME MaxLinear <= Supervisor!FullLimit
  PROVE  Spec => CommandsObeyTick
<1>1. Init => Limited
  <2> SUFFICES ASSUME Init PROVE Limited
    OBVIOUS
  <2>1. limits = << >> /\ bridge.speedLimit = MaxLinear /\ published.limit = Supervisor!FullLimit
    BY DEF Init, BridgeInit, Supervisor!Init
  <2>2. QED
    BY <2>1, BridgeAssumption DEF Limited, Arriving, Least
<1>2. StackInv /\ Limited /\ [Next]_vars => Limited'
  BY StackStep
<1>3. StackInv /\ Limited /\ [Next]_vars =>
        [BridgeTick /\ Heard =>
           /\ cmdVel' <= published.limit /\ -cmdVel' <= published.limit
           /\ published.latched \/ published.stop => cmdVel' = 0]_vars
  <2> SUFFICES ASSUME StackInv, Limited, BridgeTick, Heard
               PROVE  /\ cmdVel' <= published.limit /\ -cmdVel' <= published.limit
                      /\ published.latched \/ published.stop => cmdVel' = 0
    OBVIOUS
  <2>1. /\ published.latched = bridge.fault /\ published.stop = bridge.stop
        /\ bridge.stop => bridge.fault
        /\ Least(MaxLinear, bridge.speedLimit) <= published.limit
        /\ published.limit \in Nat /\ bridge \in Bridges
    BY DEF StackInv, StackShape, SupervisorGood, Follows, Limited, Arriving, Heard
  <2>2. CASE cmdVel' = 0
    BY <2>1, <2>2
  <2>3. CASE cmdVel' /= 0
    <3>1. ~bridge.fault /\ ~bridge.stop /\ cmdVel' = ClampCommand(bridge)
      BY <2>1, <2>3 DEF BridgeTick, ControlTick
    <3>2. DEFINE limit == Least(Least(MaxLinear, bridge.zoneLimit), bridge.speedLimit)
    <3>3. limit \in Nat /\ limit <= published.limit
      BY <2>1, BridgeAssumption DEF Bridges, Least
    <3>4. cmdVel' <= limit /\ -cmdVel' <= limit /\ cmdVel' \in Int
      <4>1. cmdVel' = IF bridge.cmd > limit THEN limit
                      ELSE IF bridge.cmd < -limit THEN -limit ELSE bridge.cmd
        BY <3>1 DEF ClampCommand
      <4>2. bridge.cmd \in Int
        BY <2>1 DEF Bridges
      <4> HIDE DEF limit
      <4>3. QED
        BY <3>3, <4>1, <4>2
    <3> HIDE DEF limit
    <3>5. QED
      BY <2>1, <3>1, <3>3, <3>4
  <2>4. QED
    BY <2>2, <2>3
<1>4. QED
  BY StackInvariance, <1>1, <1>2, <1>3, PTL DEF Spec, CommandsObeyTick
===============================================================================
