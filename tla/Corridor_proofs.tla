---------------------------- MODULE Corridor_proofs ----------------------------
(***************************************************************************)
(* Proofs about the vehicle, its obstacle and the three nodes, for any     *)
(* parameters, any order in which nodes run and messages arrive, and any   *)
(* distance of the obstacle.                                               *)
(***************************************************************************)
EXTENDS Corridor, TLAPS

\* The assumptions of the stack's modules, spelled out: what is proved of the
\* stack may be used here.
LEMMA StackParameters ==
  /\ Decel \in Nat \ {0} /\ Jerk \in Nat \ {0} /\ Capacity \in Nat \ {0}
  /\ MaxLinear \in Nat \ {0} /\ Freshness \in Nat /\ Speeds \subseteq Int
  /\ 1 \in Nat \ {0}
  /\ Sensors /= {} /\ SensorTimeout \in Nat /\ RecoveryTimeout \in Nat
  /\ RampTime \in Nat \ {0}
  /\ LocTimeout \in Nat \ {0} /\ AutoRecover \in BOOLEAN
  /\ {0} \subseteq {Stack!Supervisor!Ahead} \cup 0..(2 * LocTimeout)
BY StackAssumption
DEF Stack!StopAssumption, Stack!BridgeAssumption, Stack!SupervisorAssumption,
    Stack!Supervisor!SensorAssumption, Stack!Supervisor!RampTimeAssumption,
    Stack!Supervisor!NodeAssumption

LEMMA Parameters ==
  /\ MaxSpeed \in Nat \ {0} /\ Decel \in Nat \ {0} /\ Latency \in Nat
  /\ {Buffer, MinBuffer, Factor, Overhang, IgnoreRange, StartGrace, Accel} \subseteq Nat
  /\ Dynamic \in BOOLEAN
  /\ MaxLinear \in Nat \ {0} /\ MaxLinear <= MaxSpeed
  /\ Gaps \subseteq Nat /\ Asks \subseteq BOOLEAN /\ ScanEvery \in Nat \ {0}
BY EnvelopeAssumption, VehicleAssumption, StackParameters DEF ValidEnvelope

-------------------------------------------------------------------------------
(* The envelope node                                                       *)

LEMMA LargestSpeed ==
  ASSUME NEW S, S \subseteq 0..MaxSpeed, S /= {}
  PROVE  Max(S) \in S
<1> DEFINE slack == { k \in Nat : MaxSpeed - k \in S }
<1>1. slack \subseteq Nat /\ slack /= {}
  <2>1. PICK v \in S : TRUE
    OBVIOUS
  <2>2. v \in 0..MaxSpeed
    OBVIOUS
  <2>3. MaxSpeed - v \in Nat /\ MaxSpeed - (MaxSpeed - v) = v
    BY <2>2, Parameters
  <2>4. MaxSpeed - v \in slack
    BY <2>3
  <2>5. QED
    BY <2>4
<1>2. PICK m \in slack : \A k \in slack : m <= k
  <2> HIDE DEF slack
  <2>1. QED
    BY <1>1, StackParameters, Stack!LeastNatural
<1>3. m \in Nat /\ MaxSpeed - m \in S
  BY <1>2
<1>4. ASSUME NEW w \in S PROVE MaxSpeed - m >= w
  <2>1. w \in 0..MaxSpeed
    OBVIOUS
  <2>2. MaxSpeed - w \in Nat /\ MaxSpeed - (MaxSpeed - w) = w
    BY <2>1, Parameters
  <2>3. m <= MaxSpeed - w
    BY <1>2, <2>2
  <2>4. QED
    BY <1>3, <2>1, <2>3, Parameters
<1>5. QED
  BY <1>3, <1>4 DEF Max

\* The recommended speed is one the vehicle can have, and a stop recommends none.
Stops(zone) == zone \in {"Protective", "Emergency"}

LEMMA StatusRange ==
  ASSUME NEW d \in Int, NEW v \in 0..MaxSpeed
  PROVE  /\ EnvelopeStatus(d, v) \in Status
         /\ Stops(EnvelopeStatus(d, v).zone) => EnvelopeStatus(d, v).limit = 0
<1> DEFINE room == d - Overhang
           buffer == DynamicBuffer(v)
<1>1. room \in Int /\ buffer \in Nat
  BY Parameters DEF DynamicBuffer, Lesser
<1>2. Lesser(v, MaxSpeed \div 2) \in 0..MaxSpeed
  BY Parameters DEF Lesser
<1>3. ASSUME buffer <= room PROVE WarningLimit(room - buffer) \in 0..MaxSpeed
  <2> DEFINE S == { w \in 0..MaxSpeed : 5 * w * w <= 7 * Decel * (room - buffer) }
  <2>1. 5 * 0 * 0 <= 7 * Decel * (room - buffer)
    BY <1>1, <1>3, Parameters
  <2>2. S \subseteq 0..MaxSpeed /\ 0 \in S
    BY <2>1, Parameters
  <2>3. WarningLimit(room - buffer) = Max(S)
    BY DEF WarningLimit
  <2> HIDE DEF S
  <2>4. QED
    BY <2>2, <2>3, LargestSpeed
<1>4. /\ Evaluate(room, v, buffer) \in Status
      /\ Stops(Evaluate(room, v, buffer).zone) => Evaluate(room, v, buffer).limit = 0
  <2> HIDE DEF room, buffer
  <2>1. 0 \in 0..MaxSpeed
    BY Parameters
  <2>2. ~(room < buffer) => WarningLimit(room - buffer) \in 0..MaxSpeed
    BY <1>1, <1>3
  <2>3. \/ Evaluate(room, v, buffer) = [zone |-> "Emergency", limit |-> 0]
        \/ Evaluate(room, v, buffer) = [zone |-> "Protective", limit |-> 0]
        \/ /\ Evaluate(room, v, buffer) =
                [zone |-> "Warning", limit |-> WarningLimit(room - buffer)]
           /\ ~(room < buffer)
        \/ Evaluate(room, v, buffer) = [zone |-> "Clear", limit |-> v]
    BY DEF Evaluate
  <2>4. QED
    BY <2>1, <2>2, <2>3 DEF Status, Stack!Supervisor!Zones, Stops
<1>5. Blind(v) \in Status /\ ~Stops(Blind(v).zone)
  BY <1>2, Parameters DEF Blind, Status, Stack!Supervisor!Zones, Stops
<1>6. [zone |-> "Warning", limit |-> Lesser(v, MaxSpeed \div 2)] \in Status
  BY <1>2 DEF Status, Stack!Supervisor!Zones
<1>7. EnvelopeStatus(d, v) \in {Evaluate(room, v, buffer), Blind(v),
                                [zone |-> "Warning", limit |-> Lesser(v, MaxSpeed \div 2)]}
  BY DEF EnvelopeStatus
<1> HIDE DEF room, buffer
<1>8. QED
  BY <1>4, <1>5, <1>6, <1>7 DEF Stops

\* What the envelope node makes of the obstacle and the wall beside it: the
\* obstacle, or nothing, and nothing only when the obstacle is too near.
Scanned(g) ==
  (IF g = NoObstacle THEN {} ELSE {[x |-> g, beside |-> FALSE]})
    \cup {[x |-> IgnoreRange, beside |-> TRUE]}

LEMMA NearestIs ==
  ASSUME NEW g \in Int
  PROVE  /\ NearestObstacle(Scanned(g)) \in {g, NoObstacle}
         /\ g > 0 /\ g >= IgnoreRange => NearestObstacle(Scanned(g)) = g
<1> DEFINE seen == { r.x : r \in { q \in Scanned(g) : ~q.beside /\ q.x > 0 /\ q.x >= IgnoreRange } }
<1>1. NearestObstacle(Scanned(g)) = IF seen = {} THEN NoObstacle ELSE Min(seen)
  BY DEF NearestObstacle
<1>2. seen \subseteq {g}
  BY DEF Scanned
<1>3. g > 0 /\ g >= IgnoreRange => g \in seen
  <2> SUFFICES ASSUME g > 0, g >= IgnoreRange PROVE g \in seen
    OBVIOUS
  <2>1. [x |-> g, beside |-> FALSE] \in Scanned(g)
    BY DEF Scanned, NoObstacle
  <2>2. QED
    BY <2>1
<1>4. Min({g}) = g
  BY DEF Min
<1> HIDE DEF seen
<1>5. seen = {} \/ seen = {g}
  BY <1>2
<1>6. QED
  BY <1>1, <1>3, <1>4, <1>5

-------------------------------------------------------------------------------
(* Types                                                                   *)

Inboxes == {<< >>} \cup { <<s>> : s \in Status }

\* Everything but what keeps the vehicle away from the obstacle.
Shape ==
  /\ Stack!StackInv /\ Stack!Short /\ Stack!Ramping(0..MaxSpeed)
  /\ bridge.speed \in 0..MaxSpeed /\ bridge.cmd \in {0, MaxLinear}
  /\ cmdVel \in 0..MaxSpeed
  /\ envelope \in [speed : 0..MaxSpeed, up : 0..StartGrace]
  /\ toBridge \in Inboxes /\ toSupervisor \in Inboxes
  /\ done \subseteq Tasks /\ quiet \in 0..(ScanEvery - 1)
  /\ nav \in [asks : BOOLEAN, zone : Stack!Supervisor!Zones, report : {nav.report}]
  /\ gap \in Int /\ speed \in 0..MaxSpeed /\ odomLost \in BOOLEAN

LEMMA InitShape == Init => Shape
<1> SUFFICES ASSUME Init PROVE Shape
  OBVIOUS
<1>1. Stack!StackInv
  BY StackParameters, Stack!StackInitially DEF Init
<1>2. Stack!Short /\ Stack!Ramping(0..MaxSpeed)
  BY Parameters, StackParameters
  DEF Init, Stack!Init, Stack!BridgeInit, Stack!Short, Stack!Ramping, Stack!AgeUpTo, Stack!None
<1>3. bridge.speed = 0 /\ bridge.cmd = 0 /\ cmdVel = 0
  BY DEF Init, Stack!Init, Stack!BridgeInit
<1>4. envelope \in [speed : 0..MaxSpeed, up : 0..StartGrace]
  BY Parameters DEF Init, EnvelopeInit
<1>5. nav \in [asks : BOOLEAN, zone : Stack!Supervisor!Zones, report : {nav.report}]
  <2>1. PICK asks \in Asks : nav = [asks |-> asks, zone |-> "Clear", report |-> NoMessage]
    BY DEF Init
  <2>2. asks \in BOOLEAN /\ "Clear" \in Stack!Supervisor!Zones
    BY Parameters DEF Stack!Supervisor!Zones
  <2>3. QED
    BY <2>1, <2>2
<1>6. toBridge \in Inboxes /\ toSupervisor \in Inboxes
  BY DEF Init, Inboxes
<1>7. gap \in Int /\ speed = 0 /\ odomLost = FALSE /\ done = {}
  BY Parameters DEF Init
<1>8. /\ bridge.speed \in 0..MaxSpeed /\ bridge.cmd \in {0, MaxLinear}
      /\ cmdVel \in 0..MaxSpeed /\ speed \in 0..MaxSpeed
  BY <1>3, <1>7, Parameters
<1>9. done \subseteq Tasks /\ odomLost \in BOOLEAN /\ quiet \in 0..(ScanEvery - 1)
  <2>1. quiet = 0
    BY DEF Init
  <2>2. quiet \in 0..(ScanEvery - 1)
    BY <2>1, Parameters
  <2>3. QED
    BY <1>7, <2>2
<1>10. QED
  BY <1>1, <1>2, <1>4, <1>5, <1>6, <1>7, <1>8, <1>9, Zenon DEF Shape

LEMMA ShapeIsTyped == Shape => TypeOK
<1> SUFFICES ASSUME Shape PROVE TypeOK
  OBVIOUS
<1>1. Stack!Typed
  <2>1. Stack!Ramping(Nat)
    <3>1. bridge.ramp \in Seq(0..MaxSpeed)
      BY DEF Shape, Stack!Ramping
    <3>2. bridge.ramp \in Seq(Nat)
      BY <3>1, Parameters
    <3>3. QED
      BY <3>2 DEF Shape, Stack!Ramping
  <2>2. QED
    BY <2>1, Parameters DEF Shape, Stack!Typed
<1>2. Stack!TypeOK
  BY <1>1, StackParameters, Stack!TypedIsTyped
<1>3. ASSUME NEW box \in Inboxes PROVE box \in Seq(Status)
  <2>1. CASE box = << >>
    BY <2>1
  <2>2. CASE box /= << >>
    <3>1. PICK s \in Status : box = <<s>>
      BY <2>2 DEF Inboxes
    <3>2. QED
      BY <3>1
  <2>3. QED
    BY <2>1, <2>2
<1>4. QED
  BY <1>2, <1>3 DEF Shape, TypeOK, EnvelopeTypeOK

\* A command of Nav2, which is the largest, and an odometry message.
LEMMA NavHeard ==
  ASSUME Shape, NEW s \in 0..MaxSpeed, bridge' = NavCommands([bridge EXCEPT !.speed = s])
  PROVE  /\ bridge' \in Stack!Bridges' /\ bridge'.ramp = bridge.ramp
         /\ bridge'.fault = bridge.fault /\ bridge'.stop = bridge.stop
         /\ bridge'.zoneLimit = bridge.zoneLimit /\ bridge'.speedLimit = bridge.speedLimit
         /\ bridge'.heard \in {bridge.heard, 0}
         /\ bridge'.speed = s /\ bridge'.cmd \in {0, MaxLinear}
<1>1. bridge \in Stack!Bridges /\ bridge.cmd \in {0, MaxLinear} /\ s \in Int
  BY DEF Shape, Stack!StackInv, Stack!StackShape
<1>2. \/ bridge' = [bridge EXCEPT !.speed = s]
      \/ bridge' = [bridge EXCEPT !.speed = s, !.cmd = MaxLinear, !.heard = 0]
  BY DEF NavCommands, Stack!HearCommand
<1>3. CASE bridge' = [bridge EXCEPT !.speed = s]
  BY <1>1, <1>3 DEF Stack!Bridges
<1>4. CASE bridge' = [bridge EXCEPT !.speed = s, !.cmd = MaxLinear, !.heard = 0]
  <2>1. PICK top : top = MaxLinear /\ top \in Int
    BY Parameters
  <2>2. bridge' = [bridge EXCEPT !.speed = s, !.cmd = top, !.heard = 0]
    BY <1>4, <2>1
  <2>3. /\ bridge' \in Stack!Bridges' /\ bridge'.ramp = bridge.ramp
        /\ bridge'.fault = bridge.fault /\ bridge'.stop = bridge.stop
        /\ bridge'.zoneLimit = bridge.zoneLimit /\ bridge'.speedLimit = bridge.speedLimit
        /\ bridge'.heard = 0 /\ bridge'.speed = s /\ bridge'.cmd = top
    BY <1>1, <2>1, <2>2 DEF Stack!Bridges
  <2>4. QED
    BY <2>1, <2>3
<1>5. QED
  BY <1>2, <1>3, <1>4

\* What the bridge does with a zone.
LEMMA ZoneLimits ==
  ASSUME Shape, NEW status \in Status,
         bridge' = Stack!HearZone(bridge, status.zone, status.limit)
  PROVE  /\ bridge' \in Stack!Bridges' /\ bridge'.ramp = bridge.ramp
         /\ bridge'.fault = bridge.fault /\ bridge'.stop = bridge.stop
         /\ bridge'.speedLimit = bridge.speedLimit /\ bridge'.heard = bridge.heard
         /\ bridge'.speed = bridge.speed /\ bridge'.cmd = bridge.cmd
         /\ Stops(status.zone) /\ status.limit = 0 => bridge'.zoneLimit = 0
<1> DEFINE limit == IF status.zone = "Clear" THEN MaxLinear
                    ELSE Stack!Least(MaxLinear, Stack!Positive(status.limit))
<1>1. status.limit \in 0..MaxSpeed
  BY DEF Status
<1>2. /\ limit \in 0..MaxLinear
      /\ Stops(status.zone) /\ status.limit = 0 => limit = 0
  BY <1>1, Parameters DEF Stack!Least, Stack!Positive, Stops
<1>3. bridge' = [bridge EXCEPT !.zoneLimit = limit]
  BY DEF Stack!HearZone
<1>4. bridge \in Stack!Bridges
  BY DEF Shape, Stack!StackInv, Stack!StackShape
<1> HIDE DEF limit
<1>5. QED
  BY <1>2, <1>3, <1>4 DEF Stack!Bridges

\* A step that leaves the topics and what the bridge knows of the supervisor alone.
LEMMA StackKept ==
  ASSUME Shape, Stack!SupervisorGood', UNCHANGED <<published, limits, states, stops>>,
         bridge' \in Stack!Bridges', bridge'.ramp = bridge.ramp,
         bridge'.fault = bridge.fault, bridge'.stop = bridge.stop,
         bridge'.speedLimit = bridge.speedLimit,
         bridge'.heard \in {bridge.heard, 0, Stack!Older(bridge.heard, Freshness + 1)}
  PROVE  Stack!StackInv' /\ Stack!Short' /\ Stack!Ramping(0..MaxSpeed)'
<1>0. /\ Stack!StackInv /\ Stack!Short /\ Stack!Ramping(0..MaxSpeed)
      /\ UNCHANGED Stack!topics
  BY DEF Shape, Stack!topics
<1>1. Stack!StackInv'
  BY <1>0, StackParameters, Stack!OthersFollow
<1>2. Stack!Short'
  BY <1>0 DEF Stack!topics, Stack!Short
<1>3. PICK T : T = 0..MaxSpeed
  OBVIOUS
<1>4. Stack!Ramping(T)'
  BY <1>0, <1>3, StackParameters, Stack!OthersRamp
<1>5. QED
  BY <1>1, <1>2, <1>3, <1>4

-------------------------------------------------------------------------------
(* The steps                                                               *)

LEMMA ShapeFacts ==
  ASSUME Shape
  PROVE  /\ Stack!StackInv /\ Stack!StackShape /\ Stack!SupervisorGood
         /\ bridge \in Stack!Bridges
         /\ envelope.speed \in 0..MaxSpeed /\ envelope.up \in 0..StartGrace
  BY DEF Shape, Stack!StackInv, Stack!StackShape

\* The numbers among the variables, for the leaves that only count.
LEMMA Quantities ==
  ASSUME Shape
  PROVE  /\ bridge.speed \in 0..MaxSpeed /\ cmdVel \in 0..MaxSpeed
         /\ gap \in Int /\ speed \in 0..MaxSpeed
BY Zenon DEF Shape

LEMMA OdometryStep ==
  ASSUME Shape, Odometry \/ NoOdometry
  PROVE  /\ Shape' /\ node'.latched = node.latched /\ UNCHANGED published
         /\ bridge'.fault = bridge.fault /\ bridge'.stop = bridge.stop
         /\ bridge'.zoneLimit = bridge.zoneLimit
         /\ Odometry => envelope'.speed = speed /\ envelope'.up = envelope.up
         /\ NoOdometry => UNCHANGED envelope
<1>1. PICK s \in 0..MaxSpeed : bridge' = NavCommands([bridge EXCEPT !.speed = s])
  <2>1. CASE Odometry
    BY <2>1 DEF Odometry, Stack!HearOdom, Shape
  <2>2. CASE NoOdometry
    <3>1. bridge = [bridge EXCEPT !.speed = bridge.speed]
      BY ShapeFacts DEF Stack!Bridges
    <3>2. bridge.speed \in 0..MaxSpeed /\ bridge' = NavCommands(bridge)
      BY <2>2 DEF NoOdometry, Shape
    <3>3. QED
      BY <3>1, <3>2
  <2>3. QED
    BY <2>1, <2>2
<1>2. /\ bridge' \in Stack!Bridges' /\ bridge'.ramp = bridge.ramp
      /\ bridge'.fault = bridge.fault /\ bridge'.stop = bridge.stop
      /\ bridge'.zoneLimit = bridge.zoneLimit /\ bridge'.speedLimit = bridge.speedLimit
      /\ bridge'.heard \in {bridge.heard, 0}
      /\ bridge'.speed = s /\ bridge'.cmd \in {0, MaxLinear}
  BY <1>1, NavHeard
<1>3. /\ Stack!SupervisorGood' /\ node'.latched = node.latched
      /\ UNCHANGED <<published, limits, states, stops>>
  <2>1. CASE Odometry
    BY <2>1, ShapeFacts, StackParameters, Stack!OdomHeard DEF Odometry
  <2>2. CASE NoOdometry
    BY <2>2, ShapeFacts DEF NoOdometry, Stack!SupervisorGood, Stack!Supervisor!Inv
  <2>3. QED
    BY <2>1, <2>2
<1>4. Stack!StackInv' /\ Stack!Short' /\ Stack!Ramping(0..MaxSpeed)'
  BY <1>2, <1>3, StackKept
<1>5. /\ envelope' \in [speed : 0..MaxSpeed, up : 0..StartGrace]
      /\ Odometry => envelope'.speed = speed /\ envelope'.up = envelope.up
      /\ NoOdometry => UNCHANGED envelope
  BY DEF Shape, Odometry, NoOdometry, HearEnvelopeOdom
<1>6. /\ done' \subseteq Tasks
      /\ UNCHANGED <<cmdVel, toBridge, toSupervisor, quiet, gap, speed, odomLost, nav>>
  BY DEF Odometry, NoOdometry, Once, Tasks, Shape, inbox, world
<1>7. Shape'
  BY <1>1, <1>2, <1>4, <1>5, <1>6, Zenon DEF Shape
<1>8. QED
  BY <1>2, <1>3, <1>5, <1>7

LEMMA ScanStep ==
  ASSUME Shape, Scan
  PROVE  /\ Shape'
         /\ \E d \in {gap, NoObstacle} :
              /\ gap > 0 /\ gap >= IgnoreRange => d = gap
              /\ toBridge' = <<EnvelopeStatus(d, envelope.speed)>>
              /\ toSupervisor' = <<EnvelopeStatus(d, envelope.speed)>>
<1> DEFINE d == NearestObstacle(Scanned(gap))
<1>1. /\ gap \in Int /\ envelope.speed \in 0..MaxSpeed
      /\ (IF envelope.speed > 0 THEN envelope.speed ELSE 0) = envelope.speed
  BY ShapeFacts, Quantities, Parameters
<1>2. /\ toBridge' = <<ScanStatus(Scanned(gap))>>
      /\ toSupervisor' = <<ScanStatus(Scanned(gap))>>
  BY DEF Scan, Scanned
<1>3. d \in {gap, NoObstacle} /\ (gap > 0 /\ gap >= IgnoreRange => d = gap)
  BY <1>1, NearestIs
<1>4. ScanStatus(Scanned(gap)) = EnvelopeStatus(d, envelope.speed)
  BY <1>1 DEF ScanStatus
<1> HIDE DEF d
<1>5. EnvelopeStatus(d, envelope.speed) \in Status
  BY <1>1, <1>3, StatusRange DEF NoObstacle
<1>6. toBridge' \in Inboxes /\ toSupervisor' \in Inboxes
  BY <1>2, <1>4, <1>5 DEF Inboxes
<1>7. /\ done' \subseteq Tasks /\ quiet' \in 0..(ScanEvery - 1)
      /\ UNCHANGED <<envelope, node, published, bridge, cmdVel, limits, states, stops,
                     gap, speed, odomLost, nav>>
  <2>1. quiet' = 0 /\ 0 \in 0..(ScanEvery - 1)
    BY Parameters DEF Scan
  <2>2. QED
    BY <2>1, Zenon DEF Scan, Once, Tasks, Shape, stackVars, world
<1>8. Stack!StackInv' /\ Stack!Short' /\ Stack!Ramping(0..MaxSpeed)'
  BY <1>7 DEF Shape, Stack!StackInv, Stack!StackShape, Stack!SupervisorGood,
     Stack!Supervisor!Inv, Stack!Bridges, Stack!Follows, Stack!Short, Stack!Ramping
<1>9. Shape'
  BY <1>6, <1>7, <1>8, Zenon DEF Shape
<1>10. QED
  BY <1>2, <1>3, <1>4, <1>9

LEMMA NoScanStep ==
  ASSUME Shape, NoScan
  PROVE  Shape'
<1>1. /\ done' \subseteq Tasks
      /\ UNCHANGED <<envelope, node, published, bridge, cmdVel, limits, states, stops,
                     toBridge, toSupervisor, gap, speed, odomLost, nav>>
  BY DEF NoScan, Once, Tasks, Shape, stackVars, inbox, world
<1>2. quiet' \in 0..(ScanEvery - 1)
  <2>1. quiet + 1 < ScanEvery /\ quiet' = quiet + 1
    BY DEF NoScan
  <2>2. quiet \in 0..(ScanEvery - 1) /\ ScanEvery \in Nat
    BY Parameters DEF Shape
  <2>3. QED
    BY <2>1, <2>2
<1>3. Stack!StackInv' /\ Stack!Short' /\ Stack!Ramping(0..MaxSpeed)'
  BY <1>1 DEF Shape, Stack!StackInv, Stack!StackShape, Stack!SupervisorGood,
     Stack!Supervisor!Inv, Stack!Bridges, Stack!Follows, Stack!Short, Stack!Ramping
<1>4. QED
  BY <1>1, <1>2, <1>3, Zenon DEF Shape

\* The message in an inbox is a status.
LEMMA InboxHead ==
  ASSUME NEW box \in Inboxes, box /= << >>
  PROVE  Head(box) \in Status
<1>1. PICK s \in Status : box = <<s>>
  BY DEF Inboxes
<1>2. QED
  BY <1>1

LEMMA BridgeHearsStep ==
  ASSUME Shape, BridgeHears
  PROVE  /\ Shape'
         /\ Stops(Head(toBridge).zone) /\ Head(toBridge).limit = 0 => bridge'.zoneLimit = 0
         /\ bridge'.fault = bridge.fault /\ bridge'.stop = bridge.stop
<1>1. Head(toBridge) \in Status
  BY InboxHead DEF BridgeHears, Shape
<1>2. PICK status \in Status : status = Head(toBridge)
  BY <1>1
<1>3. bridge' = Stack!HearZone(bridge, status.zone, status.limit)
  BY <1>2 DEF BridgeHears
<1>4. /\ bridge' \in Stack!Bridges' /\ bridge'.ramp = bridge.ramp
      /\ bridge'.fault = bridge.fault /\ bridge'.stop = bridge.stop
      /\ bridge'.speedLimit = bridge.speedLimit /\ bridge'.heard = bridge.heard
      /\ bridge'.speed = bridge.speed /\ bridge'.cmd = bridge.cmd
      /\ Stops(status.zone) /\ status.limit = 0 => bridge'.zoneLimit = 0
  BY <1>3, ZoneLimits
<1>5. UNCHANGED <<envelope, node, published, cmdVel, limits, states, stops, toSupervisor,
                  done, quiet, gap, speed, odomLost, nav>> /\ toBridge' = << >>
  BY DEF BridgeHears, world
<1>6. Stack!SupervisorGood'
  BY <1>5, ShapeFacts DEF Stack!SupervisorGood, Stack!Supervisor!Inv
<1>7. Stack!StackInv' /\ Stack!Short' /\ Stack!Ramping(0..MaxSpeed)'
  BY <1>4, <1>5, <1>6, StackKept
<1>8. toBridge' \in Inboxes
  BY <1>5 DEF Inboxes
<1>9. Shape'
  BY <1>4, <1>5, <1>7, <1>8, Zenon DEF Shape
<1>10. QED
  BY <1>2, <1>4, <1>9

LEMMA SupervisorHearsStep ==
  ASSUME Shape, SupervisorHears
  PROVE  /\ Shape'
         /\ node.latched \/ Head(toSupervisor).zone = "Emergency" => node'.latched
         /\ UNCHANGED published
<1>1. Head(toSupervisor) \in Status
  BY InboxHead DEF SupervisorHears, Shape
<1>2. PICK zone \in Stack!Supervisor!Zones : zone = Head(toSupervisor).zone
  BY <1>1 DEF Status
<1>3. Stack!Supervisor!OnEnvelope(zone)
  BY <1>2 DEF SupervisorHears
<1>4. /\ Stack!SupervisorGood' /\ published' = published
      /\ node.latched \/ zone = "Emergency" => node'.latched
  BY <1>3, ShapeFacts, StackParameters, Stack!ZoneHeard
<1>5. UNCHANGED <<envelope, bridge, cmdVel, limits, states, stops, toBridge, done,
                  quiet, gap, speed, odomLost>> /\ toSupervisor' = << >>
  BY DEF SupervisorHears, world
<1>6. Stack!StackInv' /\ Stack!Short' /\ Stack!Ramping(0..MaxSpeed)'
  <2>1. bridge' \in Stack!Bridges'
    BY <1>5, ShapeFacts DEF Stack!Bridges
  <2>2. QED
    BY <1>4, <1>5, <2>1, StackKept
<1>7. toSupervisor' \in Inboxes
  BY <1>5 DEF Inboxes
<1>8. nav' \in [asks : BOOLEAN, zone : Stack!Supervisor!Zones, report : {nav'.report}]
  BY <1>2 DEF SupervisorHears, Shape
<1>9. Shape'
  BY <1>5, <1>6, <1>7, <1>8, Zenon DEF Shape
<1>10. QED
  BY <1>2, <1>4, <1>9

LEMMA SupervisorMissesStep ==
  ASSUME Shape, SupervisorMisses
  PROVE  Shape'
<1>1. /\ UNCHANGED <<envelope, node, published, bridge, cmdVel, limits, states, stops,
                     toBridge, done, quiet, gap, speed, odomLost, nav>>
      /\ toSupervisor' \in Inboxes
  BY DEF SupervisorMisses, stackVars, world, Inboxes
<1>2. Stack!StackInv' /\ Stack!Short' /\ Stack!Ramping(0..MaxSpeed)'
  BY <1>1 DEF Shape, Stack!StackInv, Stack!StackShape, Stack!SupervisorGood,
     Stack!Supervisor!Inv, Stack!Bridges, Stack!Follows, Stack!Short, Stack!Ramping
<1>3. QED
  BY <1>1, <1>2, Zenon DEF Shape

LEMMA SupervisorFiresStep ==
  ASSUME Shape, SupervisorFires
  PROVE  /\ Shape' /\ published'.latched = node'.latched /\ (node.latched => node'.latched)
         /\ UNCHANGED bridge
<1>1. Stack!SupervisorTick
  BY DEF SupervisorFires
<1>2. /\ Stack!SupervisorGood' /\ published'.latched = node'.latched
      /\ node.latched => node'.latched
  BY <1>1, ShapeFacts, StackParameters, Stack!TickHeard
<1>3. Stack!StackInv'
  BY <1>1, <1>2, ShapeFacts, StackParameters, Stack!TickFollows
<1>4. Stack!Short'
  BY <1>1, <1>2, ShapeFacts, StackParameters, Stack!TopicsStayShort DEF Shape
<1>5. UNCHANGED <<envelope, bridge, cmdVel, toBridge, toSupervisor, quiet, gap, speed, odomLost>>
      /\ done' \subseteq Tasks
  BY <1>1 DEF SupervisorFires, Stack!SupervisorTick, Stack!bridgeVars, inbox, world, Once,
     Tasks, Shape
<1>6. nav' \in [asks : BOOLEAN, zone : Stack!Supervisor!Zones, report : {nav'.report}]
  <2>1. PICK report : nav' = [nav EXCEPT !.report = report]
    BY DEF SupervisorFires
  <2>2. QED
    BY <2>1 DEF Shape
<1>7. Stack!Ramping(0..MaxSpeed)'
  BY <1>5 DEF Shape, Stack!Ramping
<1>8. Shape'
  BY <1>3, <1>4, <1>5, <1>6, <1>7, Zenon DEF Shape
<1>9. QED
  BY <1>2, <1>5, <1>8

LEMMA BridgeFiresStep ==
  ASSUME Shape, BridgeFires
  PROVE  /\ Shape' /\ UNCHANGED <<node, published>>
         /\ bridge'.fault = bridge.fault /\ bridge'.stop = bridge.stop
         /\ bridge'.zoneLimit = bridge.zoneLimit
         /\ cmdVel' /= 0 => ~bridge.fault /\ (bridge.stop \/ bridge.zoneLimit /= 0)
<1>0. bridge \in Stack!Bridges /\ bridge.cmd \in {0, MaxLinear} /\ Stack!ControlTick
  BY ShapeFacts DEF Shape, BridgeFires, Stack!BridgeTick
<1>1. PICK T : T = 0..MaxSpeed
  OBVIOUS
<1>2. Stack!Ramping(T)
  BY <1>1 DEF Shape
<1>3. /\ Stack!Ramping(T)'
      /\ \/ cmdVel' \in T /\ ~bridge.fault /\ bridge.stop
         \/ cmdVel' = Stack!ClampCommand(bridge) /\ ~bridge.fault /\ ~bridge.stop
         \/ cmdVel' = 0
  BY <1>0, <1>2, StackParameters, Stack!ControlRamps
<1>4. /\ Stack!ClampCommand(bridge) \in 0..MaxSpeed
      /\ Stack!ClampCommand(bridge) /= 0 => bridge.zoneLimit /= 0
  <2>1. /\ bridge.zoneLimit \in 0..MaxLinear /\ bridge.speedLimit \in Nat
        /\ bridge.cmd \in {0, MaxLinear}
    BY <1>0 DEF Stack!Bridges
  <2>2. QED
    BY <2>1, Parameters DEF Stack!ClampCommand, Stack!Least
<1>5. UNCHANGED <<envelope, node, published, limits, states, stops, toBridge, toSupervisor,
                  quiet, gap, speed, odomLost, nav>> /\ done' \subseteq Tasks
  BY DEF BridgeFires, Stack!BridgeTick, Stack!topics, inbox, world, Once, Tasks, Shape
<1>6. /\ bridge' \in Stack!Bridges' /\ bridge'.fault = bridge.fault
      /\ bridge'.stop = bridge.stop /\ bridge'.speedLimit = bridge.speedLimit
  BY <1>0, StackParameters, Stack!BridgeKeeps
<1>7. bridge'.zoneLimit = bridge.zoneLimit /\ bridge'.speed = bridge.speed
      /\ bridge'.cmd = bridge.cmd
  <2>1. PICK rest : bridge' = [bridge EXCEPT !.ramp = rest] \/ UNCHANGED bridge
    BY <1>0 DEF Stack!ControlTick
  <2>2. QED
    BY <1>0, <2>1 DEF Stack!Bridges
<1>8. Stack!SupervisorGood' /\ UNCHANGED Stack!topics
  BY <1>5, ShapeFacts DEF Stack!SupervisorGood, Stack!Supervisor!Inv, Stack!topics
<1>9. Stack!StackInv' /\ Stack!Short'
  <2>1. Stack!StackInv'
    BY <1>5, <1>6, <1>8, ShapeFacts, StackParameters, Stack!OthersFollow
  <2>2. Stack!Short'
    BY <1>5 DEF Shape, Stack!Short
  <2>3. QED
    BY <2>1, <2>2
<1>10. cmdVel' \in 0..MaxSpeed
  BY <1>1, <1>3, <1>4, Parameters
<1>11. bridge'.speed \in 0..MaxSpeed /\ bridge'.cmd \in {0, MaxLinear}
  BY <1>7 DEF Shape
<1>12. Shape'
  BY <1>1, <1>3, <1>5, <1>9, <1>10, <1>11, Zenon DEF Shape
<1>13. QED
  BY <1>3, <1>4, <1>5, <1>6, <1>7, <1>12

\* With a history of one message, what arrives is what was published last.
LEMMA LastArrives ==
  ASSUME NEW topic \in Seq(BOOLEAN), topic /= << >>, Len(topic) <= 1, NEW held
  PROVE  Head(topic) = Stack!Arriving(topic, held)
<1>1. Len(topic) \in Nat /\ Len(topic) /= 0 /\ Head(topic) = topic[1]
  OBVIOUS
<1>2. Len(topic) = 1
  <2>1. PICK n : n = Len(topic)
    OBVIOUS
  <2>2. n \in Nat /\ n /= 0 /\ n <= 1
    BY <1>1, <2>1
  <2>3. QED
    BY <2>1, <2>2
<1>3. QED
  BY <1>1, <1>2 DEF Stack!Arriving

LEMMA DeliverStep ==
  ASSUME Shape, Deliver
  PROVE  /\ Shape' /\ UNCHANGED <<node, published>>
         /\ bridge'.fault \in {bridge.fault, published.latched}
         /\ bridge'.stop \in {bridge.stop, published.stop}
         /\ bridge'.zoneLimit = bridge.zoneLimit
<1>0. /\ Stack!DeliverLimit \/ Stack!DeliverState \/ Stack!DeliverStop
      /\ UNCHANGED <<envelope, toBridge, toSupervisor, done, quiet, gap, speed, odomLost, nav>>
  BY DEF Deliver, inbox, world
<1>1. UNCHANGED <<node, published, cmdVel>>
  BY <1>0 DEF Stack!DeliverLimit, Stack!DeliverState, Stack!DeliverStop
<1>2. Stack!SupervisorGood'
  BY <1>1, ShapeFacts DEF Stack!SupervisorGood, Stack!Supervisor!Inv
<1>3. Stack!StackInv'
  BY <1>0, <1>2, ShapeFacts, StackParameters, Stack!DeliveryFollows
<1>4. Stack!Short'
  BY <1>0, <1>2, ShapeFacts, StackParameters, Stack!TopicsStayShort DEF Shape
<1>5. /\ bridge \in Stack!Bridges
      /\ states \in Seq(BOOLEAN) /\ stops \in Seq(BOOLEAN)
      /\ Len(states) <= 1 /\ Len(stops) <= 1
      /\ Stack!Arriving(states, bridge.fault) = published.latched
      /\ Stack!Arriving(stops, bridge.stop) = published.stop
  BY ShapeFacts DEF Shape, Stack!StackInv, Stack!StackShape, Stack!Short, Stack!Follows
<1>6. PICK T : T = 0..MaxSpeed
  OBVIOUS
<1>7. Stack!Ramping(T)
  BY <1>6 DEF Shape
<1> DEFINE Kept ==
      /\ Stack!Ramping(T)' /\ bridge'.speed = bridge.speed /\ bridge'.cmd = bridge.cmd
      /\ bridge'.zoneLimit = bridge.zoneLimit
      /\ bridge'.fault \in {bridge.fault, published.latched}
      /\ bridge'.stop \in {bridge.stop, published.stop}
<1>8. Kept
  <2>1. CASE Stack!DeliverLimit
    <3>1. PICK limit : bridge' = [bridge EXCEPT !.speedLimit = limit]
      BY <2>1 DEF Stack!DeliverLimit, Stack!HearSpeedLimit
    <3>2. /\ bridge'.speed = bridge.speed /\ bridge'.cmd = bridge.cmd
          /\ bridge'.zoneLimit = bridge.zoneLimit /\ bridge'.ramp = bridge.ramp
          /\ bridge'.heard = bridge.heard
          /\ bridge'.fault = bridge.fault /\ bridge'.stop = bridge.stop
      BY <1>5, <3>1 DEF Stack!Bridges
    <3>3. Stack!Ramping(T)'
      BY <1>7, <3>2 DEF Stack!Ramping
    <3>4. QED
      BY <3>2, <3>3
  <2>2. CASE Stack!DeliverState
    <3>1. bridge' = [bridge EXCEPT !.fault = published.latched]
      BY <1>5, <2>2, LastArrives DEF Stack!DeliverState, Stack!HearState
    <3>2. /\ bridge'.speed = bridge.speed /\ bridge'.cmd = bridge.cmd
          /\ bridge'.zoneLimit = bridge.zoneLimit /\ bridge'.ramp = bridge.ramp
          /\ bridge'.heard = bridge.heard
          /\ bridge'.fault = published.latched /\ bridge'.stop = bridge.stop
      BY <1>5, <3>1 DEF Stack!Bridges
    <3>3. Stack!Ramping(T)'
      BY <1>7, <3>2 DEF Stack!Ramping
    <3>4. QED
      BY <3>2, <3>3
  <2>3. CASE Stack!DeliverStop
    <3>1. PICK stop : stop = Head(stops)
      OBVIOUS
    <3>2. stop = published.stop /\ bridge' = Stack!HearStop(bridge, stop)
      BY <1>5, <2>3, <3>1, LastArrives DEF Stack!DeliverStop
    <3>3. 0..Stack!Positive(bridge.speed) \subseteq T
      <4>1. bridge.speed \in 0..MaxSpeed /\ MaxSpeed \in Nat
        BY Quantities, Parameters
      <4>2. Stack!Positive(bridge.speed) = bridge.speed
        BY <4>1 DEF Stack!Positive
      <4>3. QED
        BY <1>6, <4>1, <4>2
    <3>4. Stack!Ramping(T)'
      BY <1>5, <1>7, <3>2, <3>3, StackParameters, Stack!StopRamps
    <3>5. PICK ramp : bridge' = [bridge EXCEPT !.stop = stop, !.ramp = ramp]
      BY <1>5, <3>2 DEF Stack!HearStop, Stack!Bridges
    <3>6. /\ bridge'.speed = bridge.speed /\ bridge'.cmd = bridge.cmd
          /\ bridge'.zoneLimit = bridge.zoneLimit
          /\ bridge'.fault = bridge.fault /\ bridge'.stop = stop
      BY <1>5, <3>5 DEF Stack!Bridges
    <3>7. QED
      BY <3>2, <3>4, <3>6
  <2>4. QED
    BY <1>0, <2>1, <2>2, <2>3
<1>9. Shape'
  <2>1. bridge'.speed \in 0..MaxSpeed /\ bridge'.cmd \in {0, MaxLinear}
    BY <1>8 DEF Shape
  <2>2. Stack!Ramping(0..MaxSpeed)'
    BY <1>6, <1>8
  <2>3. QED
    BY <1>0, <1>1, <1>3, <1>4, <2>1, <2>2, Zenon DEF Shape
<1>10. QED
  BY <1>1, <1>8, <1>9

\* The vehicle follows the command within its limits; a stop makes it brake.
LEMMA FollowedRange ==
  ASSUME Shape
  PROVE  /\ Followed \in 0..MaxSpeed
         /\ Followed <= speed + Accel
         /\ cmdVel = 0 => Followed <= speed /\ (Followed = 0 \/ Followed = speed - Decel)
<1>1. speed \in 0..MaxSpeed /\ cmdVel \in 0..MaxSpeed
  BY Quantities
<1>2. MaxSpeed \in Nat /\ Accel \in Nat /\ Decel \in Nat
  BY Parameters
<1>3. CASE cmdVel >= speed
  <2>1. Followed = IF cmdVel <= speed + Accel THEN cmdVel ELSE speed + Accel
    BY <1>3 DEF Followed, Lesser
  <2>2. QED
    BY <1>1, <1>2, <1>3, <2>1
<1>4. CASE ~(cmdVel >= speed) /\ speed - Decel >= cmdVel
  <2>1. Followed = speed - Decel
    BY <1>4 DEF Followed
  <2>2. QED
    BY <1>1, <1>2, <1>4, <2>1
<1>5. CASE ~(cmdVel >= speed) /\ ~(speed - Decel >= cmdVel)
  <2>1. Followed = cmdVel
    BY <1>5 DEF Followed
  <2>2. QED
    BY <1>1, <1>2, <1>5, <2>1
<1>6. QED
  BY <1>3, <1>4, <1>5

LEMMA MoveStep ==
  ASSUME Shape, Move
  PROVE  /\ Shape' /\ node'.latched = node.latched /\ UNCHANGED published
         /\ bridge'.fault = bridge.fault /\ bridge'.stop = bridge.stop
         /\ bridge'.zoneLimit = bridge.zoneLimit
         /\ envelope'.speed = envelope.speed
         /\ envelope'.up = Older(envelope.up, StartGrace)
         /\ bridge.fault = published.latched
<1>1. /\ bridge \in Stack!Bridges /\ bridge' = Stack!Aged(bridge)
      /\ UNCHANGED <<cmdVel, limits, states, stops>>
      /\ UNCHANGED <<toBridge, toSupervisor, quiet, odomLost, nav>>
      /\ done' = {} /\ speed' = Followed
  BY ShapeFacts DEF Move, Stack!TimePasses, Stack!topics, inbox
<1>2. Stack!SupervisorGood' /\ node'.latched = node.latched /\ published' = published
  BY ShapeFacts, StackParameters, Stack!TimeHeard DEF Move, Stack!TimePasses
<1>3. /\ bridge' \in Stack!Bridges' /\ bridge'.ramp = bridge.ramp
      /\ bridge'.fault = bridge.fault /\ bridge'.stop = bridge.stop
      /\ bridge'.zoneLimit = bridge.zoneLimit /\ bridge'.speedLimit = bridge.speedLimit
      /\ bridge'.heard = Stack!Older(bridge.heard, Freshness + 1)
      /\ bridge'.speed = bridge.speed /\ bridge'.cmd = bridge.cmd
  BY <1>1 DEF Stack!Aged, Stack!Bridges
<1>4. Stack!StackInv' /\ Stack!Short' /\ Stack!Ramping(0..MaxSpeed)'
  BY <1>1, <1>2, <1>3, StackKept
<1>5. /\ envelope' \in [speed : 0..MaxSpeed, up : 0..StartGrace]
      /\ envelope'.speed = envelope.speed
      /\ envelope'.up = Older(envelope.up, StartGrace)
  <2>1. Older(envelope.up, StartGrace) \in 0..StartGrace
    BY ShapeFacts, Parameters DEF Older, None, Ahead
  <2>2. QED
    BY <2>1 DEF Move, EnvelopeTimePasses, Shape
<1>6. gap' \in Int
  <2>1. gap' = IF gap = NoObstacle THEN gap
               ELSE gap - (IF speed >= Followed THEN speed ELSE Followed)
    BY DEF Move
  <2>2. gap \in Int /\ speed \in Int /\ Followed \in Int
    BY Quantities, FollowedRange
  <2>3. QED
    BY <2>1, <2>2
<1>7. bridge.fault = published.latched
  BY ShapeFacts DEF Move, Stack!Heard, Stack!StackInv, Stack!Follows, Stack!Arriving
<1>8. bridge'.speed \in 0..MaxSpeed /\ bridge'.cmd \in {0, MaxLinear} /\ speed' \in 0..MaxSpeed
      /\ done' \subseteq Tasks
  BY <1>1, <1>3, FollowedRange DEF Shape
<1>9. Shape'
  BY <1>1, <1>4, <1>5, <1>6, <1>8, Zenon DEF Shape
<1>10. QED
  BY <1>2, <1>3, <1>5, <1>7, <1>9

LEMMA WorldStep ==
  ASSUME Shape, ObstacleLeaves \/ OdomDies \/ UNCHANGED vars
  PROVE  Shape'
<1>1. /\ UNCHANGED <<envelope, node, published, bridge, cmdVel, limits, states, stops,
                     toBridge, toSupervisor, done, quiet, speed, nav>>
      /\ gap' \in Int /\ odomLost' \in BOOLEAN
  <2>1. CASE ObstacleLeaves
    <3>1. gap' = NoObstacle /\ odomLost' = odomLost
      BY <2>1 DEF ObstacleLeaves
    <3>2. gap' \in Int
      BY <3>1 DEF NoObstacle
    <3>3. QED
      BY <2>1, <3>1, <3>2, Zenon DEF ObstacleLeaves, stackVars, inbox, Shape
  <2>2. CASE OdomDies
    BY <2>2, Zenon DEF OdomDies, stackVars, inbox, Shape
  <2>3. CASE UNCHANGED vars
    BY <2>3, Zenon DEF vars, stackVars, inbox, world, Shape
  <2>4. QED
    BY <2>1, <2>2, <2>3
<1>2. Stack!StackInv' /\ Stack!Short' /\ Stack!Ramping(0..MaxSpeed)'
  BY <1>1 DEF Shape, Stack!StackInv, Stack!StackShape, Stack!SupervisorGood,
     Stack!Supervisor!Inv, Stack!Bridges, Stack!Follows, Stack!Short, Stack!Ramping
<1>3. QED
  BY <1>1, <1>2, Zenon DEF Shape

LEMMA ShapeStep == Shape /\ [Next]_vars => Shape'
BY OdometryStep, ScanStep, NoScanStep, BridgeHearsStep, SupervisorHearsStep,
   SupervisorMissesStep, SupervisorFiresStep, BridgeFiresStep, DeliverStep, MoveStep, WorldStep
DEF Next, Runs, Hears

\* In every state each node, message and quantity has its type: the recommended
\* speed, of whatever scan, is one the vehicle can have, the ramp the bridge
\* plays stays among those speeds, and so does the vehicle.
THEOREM TypeCorrect == Spec => []TypeOK
<1>1. QED
  BY InitShape, ShapeStep, ShapeIsTyped, PTL DEF Spec

-------------------------------------------------------------------------------
(* Room to stop                                                            *)

\* Distances are multiplied by 2 * Decel, as in Required.  What it takes to stop:
\* each unit of time covers the speed it begins with.
Braking(v) == IF v = 0 THEN 0 ELSE v * v + Decel * v + Decel * Decel

\* What n units of time of the hardest driving take, and then to stop.
Cost(v, n) == 2 * Decel * (n * v) + Decel * Accel * (n * (n + 1)) + Braking(v + n * Accel)

\* The vehicle can drive on for n units of time and then stop before the
\* obstacle is too near to be looked at, or before it is touched.
StaysInView(g, v, n) == 2 * Decel * (g - IgnoreRange) >= Cost(v, n)
StopsShort(g, v, n)  == 2 * Decel * (g - Overhang) > Cost(v, n)

\* The most the vehicle moves in a unit of time while the envelope node starts.
StartSpeed == Lesser(MaxSpeed, Accel * StartGrace)

\* The clearance the envelope node asks for covers the odometry it has not heard
\* yet, the units of time until the next scan and one more to hear of it; and an
\* obstacle that is about to be too near to be looked at is one unit further away
\* than where it is touched.
Careful ==
  \A v \in 0..MaxSpeed :
     /\ Required(v, DynamicBuffer(v)) + 2 * Decel * Overhang
          >= 2 * Decel * IgnoreRange + Cost(v + Accel, ScanEvery + 1)
     /\ 2 * Decel * (IgnoreRange - Overhang) + Braking(v) > Cost(v, 1)

\* The obstacle is not reached in the grace period, when no emergency counts.
FarAtStart ==
  \A g \in Gaps :
     2 * Decel * (g - IgnoreRange - StartGrace * StartSpeed) >= Cost(StartSpeed, ScanEvery + 1)

LEMMA Product ==
  ASSUME NEW a \in Nat, NEW b \in Nat, NEW x \in Nat, NEW y \in Nat, a <= b, x <= y
  PROVE  a * x <= b * y /\ a * x \in Nat /\ b * y \in Nat
<1>1. a * x <= b * x
  OBVIOUS
<1>2. b * x <= b * y
  OBVIOUS
<1>3. a * x \in Nat /\ b * x \in Nat /\ b * y \in Nat
  OBVIOUS
<1>4. QED
  BY <1>1, <1>2, <1>3

LEMMA BrakingGrows ==
  ASSUME NEW w \in Nat, NEW v \in Nat, w <= v
  PROVE  Braking(w) \in Nat /\ Braking(v) \in Nat /\ Braking(w) <= Braking(v)
<1>1. w * w <= v * v /\ w * w \in Nat /\ v * v \in Nat
  BY Product
<1>2. Decel * w <= Decel * v /\ Decel * w \in Nat /\ Decel * v \in Nat /\ Decel * Decel \in Nat
  BY Product, Parameters
<1> DEFINE ww == w * w
           vv == v * v
           dw == Decel * w
           dv == Decel * v
           dd == Decel * Decel
<1>3. /\ ww <= vv /\ dw <= dv /\ {ww, vv, dw, dv, dd} \subseteq Nat
      /\ Braking(w) = IF w = 0 THEN 0 ELSE ww + dw + dd
      /\ Braking(v) = IF v = 0 THEN 0 ELSE vv + dv + dd
  BY <1>1, <1>2 DEF Braking
<1> HIDE DEF ww, vv, dw, dv, dd
<1>4. QED
  BY <1>3

\* More speed, or more time, takes more room.
LEMMA CostGrows ==
  ASSUME NEW w \in Nat, NEW v \in Nat, w <= v, NEW m \in Nat, NEW n \in Nat, m <= n
  PROVE  Cost(w, m) \in Nat /\ Cost(v, n) \in Nat /\ Cost(w, m) <= Cost(v, n)
<1>1. m * w <= n * v /\ m * w \in Nat /\ n * v \in Nat
  BY Product
<1>2. m * (m + 1) <= n * (n + 1) /\ m * (m + 1) \in Nat /\ n * (n + 1) \in Nat
  BY Product
<1>3. m * Accel <= n * Accel /\ m * Accel \in Nat /\ n * Accel \in Nat
  BY Product, Parameters
<1>4. 2 * Decel \in Nat /\ Decel * Accel \in Nat
  BY Parameters
<1>5. /\ 2 * Decel * (m * w) <= 2 * Decel * (n * v)
      /\ 2 * Decel * (m * w) \in Nat /\ 2 * Decel * (n * v) \in Nat
  BY <1>1, <1>4, Product
<1>6. /\ Decel * Accel * (m * (m + 1)) <= Decel * Accel * (n * (n + 1))
      /\ Decel * Accel * (m * (m + 1)) \in Nat /\ Decel * Accel * (n * (n + 1)) \in Nat
  BY <1>2, <1>4, Product
<1>7. /\ Braking(w + m * Accel) <= Braking(v + n * Accel)
      /\ Braking(w + m * Accel) \in Nat /\ Braking(v + n * Accel) \in Nat
  BY <1>3, BrakingGrows
<1> DEFINE a == 2 * Decel * (m * w)
           b == Decel * Accel * (m * (m + 1))
           c == Braking(w + m * Accel)
           x == 2 * Decel * (n * v)
           y == Decel * Accel * (n * (n + 1))
           z == Braking(v + n * Accel)
<1>8. /\ a <= x /\ b <= y /\ c <= z /\ {a, b, c, x, y, z} \subseteq Nat
      /\ Cost(w, m) = a + b + c /\ Cost(v, n) = x + y + z
  BY <1>5, <1>6, <1>7 DEF Cost
<1> HIDE DEF a, b, c, x, y, z
<1>9. QED
  BY <1>8

LEMMA CostOfNone ==
  ASSUME NEW v \in Nat
  PROVE  Cost(v, 0) = Braking(v)
<1>1. 0 * v = 0 /\ 0 * (0 + 1) = 0 /\ 0 * Accel = 0
  BY Parameters
<1>2. 2 * Decel * 0 = 0 /\ Decel * Accel * 0 = 0 /\ v + 0 = v
  BY Parameters
<1>3. Braking(v) \in Nat
  BY BrakingGrows
<1>4. QED
  BY <1>1, <1>2, <1>3 DEF Cost

\* A unit of time of braking takes no more than was planned for.
LEMMA BrakeMove ==
  ASSUME NEW v \in Nat, NEW w \in Nat, w <= v, w = 0 \/ w = v - Decel
  PROVE  2 * Decel * v + Braking(w) <= Braking(v)
<1>0. Decel \in Nat /\ Decel * Decel \in Nat /\ v * v \in Nat /\ Decel * v \in Nat
  BY Product, Parameters
<1> DEFINE vv == v * v
           dv == Decel * v
           dd == Decel * Decel
<1>1. vv \in Nat /\ dv \in Nat /\ dd \in Nat /\ 2 * Decel * v = dv + dv
  <2>1. 2 * Decel * v = Decel * v + Decel * v
    BY <1>0
  <2>2. QED
    BY <1>0, <2>1
<1>2. dv <= vv + dd
  <2>1. CASE v <= Decel
    <3>1. Decel * v <= Decel * Decel
      BY <1>0, <2>1, Product
    <3>2. dv <= dd
      BY <3>1
    <3> HIDE DEF vv, dv, dd
    <3>3. QED
      BY <1>1, <3>2
  <2>2. CASE Decel <= v
    <3>1. Decel * v <= v * v
      BY <1>0, <2>2, Product
    <3>2. dv <= vv
      BY <3>1
    <3> HIDE DEF vv, dv, dd
    <3>3. QED
      BY <1>1, <3>2
  <2>3. QED
    BY <1>0, <2>1, <2>2
<1>3. CASE v = 0
  <2>1. w = 0 /\ 2 * Decel * 0 = 0
    BY <1>0, <1>3
  <2>2. QED
    BY <1>3, <2>1 DEF Braking
<1>4. CASE v /= 0 /\ w = 0
  <2>1. Braking(v) = vv + dv + dd /\ Braking(w) = 0
    BY <1>4 DEF Braking
  <2> HIDE DEF vv, dv, dd
  <2>2. QED
    BY <1>1, <1>2, <2>1
<1>5. CASE w /= 0
  <2>1. w = v - Decel /\ v /= 0
    BY <1>5, <1>0
  <2>2. w * w = v * v - Decel * v - Decel * v + Decel * Decel
    BY <1>0, <2>1
  <2>3. Decel * w = Decel * v - Decel * Decel
    BY <1>0, <2>1
  <2>4. /\ Braking(w) = (vv - dv - dv + dd) + (dv - dd) + dd
        /\ Braking(v) = vv + dv + dd
    BY <1>5, <2>1, <2>2, <2>3 DEF Braking
  <2> HIDE DEF vv, dv, dd
  <2>5. QED
    BY <1>1, <2>4
<1>6. QED
  BY <1>3, <1>4, <1>5

\* A unit of time of anything else takes one of those there was room for.
LEMMA FreeMove ==
  ASSUME NEW v \in Nat, NEW w \in Nat, w <= v + Accel, NEW d \in Nat, d <= v + Accel,
         NEW n \in Nat
  PROVE  2 * Decel * d + Cost(w, n) <= Cost(v, n + 1)
<1>0. Decel \in Nat /\ Accel \in Nat /\ v + Accel \in Nat /\ 2 * Decel \in Nat
  BY Parameters
<1>1. Cost(w, n) <= Cost(v + Accel, n) /\ Cost(w, n) \in Nat /\ Cost(v + Accel, n) \in Nat
  <2>1. n <= n
    OBVIOUS
  <2>2. QED
    BY <1>0, <2>1, CostGrows, Zenon
<1>2. /\ 2 * Decel * d <= 2 * Decel * (v + Accel)
      /\ 2 * Decel * d \in Nat /\ 2 * Decel * (v + Accel) \in Nat
  BY <1>0, Product
<1>3. 2 * Decel * (v + Accel) + Cost(v + Accel, n) = Cost(v, n + 1)
  <2>1. (v + Accel) + n * Accel = v + (n + 1) * Accel
    BY <1>0
  <2>2. (n + 1) * v = n * v + v /\ n * v \in Nat
    BY Product
  <2>3. n * (v + Accel) = n * v + n * Accel /\ n * Accel \in Nat
    BY <1>0, Product
  <2>4. (n + 1) * ((n + 1) + 1) = n * (n + 1) + n + n + 2 /\ n * (n + 1) \in Nat
    BY Product
  <2> DEFINE t == n * v
             u == n * Accel
             s == n * (n + 1)
             k == Decel * Accel
             stop == Braking(v + (n + 1) * Accel)
  <2>5. /\ {t, u, s, k} \subseteq Nat /\ stop \in Nat
    <3>1. v + (n + 1) * Accel \in Nat /\ Decel * Accel \in Nat
      BY <1>0, Product
    <3>2. QED
      BY <2>2, <2>3, <2>4, <3>1, BrakingGrows
  <2>6. /\ Cost(v + Accel, n) = 2 * Decel * (t + u) + k * s + stop
        /\ Cost(v, n + 1) = 2 * Decel * (t + v) + k * (s + n + n + 2) + stop
    BY <2>1, <2>2, <2>3, <2>4 DEF Cost
  <2>7. Decel * u = k * n
    BY <1>0
  <2>8. k * (s + n + n + 2) = k * s + k * n + k * n + k + k
    <3> HIDE DEF s, k
    <3>1. QED
      BY <2>5
  <2>9. /\ 2 * Decel * (t + u) = 2 * (Decel * t) + 2 * (Decel * u)
        /\ 2 * Decel * (t + v) = 2 * (Decel * t) + 2 * (Decel * v)
    <3> HIDE DEF t, u
    <3>1. QED
      BY <1>0, <2>5
  <2>10. 2 * Decel * (v + Accel) = 2 * (Decel * v) + 2 * k
    BY <1>0
  <2>11. Decel * t \in Nat /\ Decel * v \in Nat /\ k * n \in Nat /\ k * s \in Nat
    <3> HIDE DEF t, s, k
    <3>1. QED
      BY <1>0, <2>5, Product
  <2> HIDE DEF t, u, s, k, stop
  <2> DEFINE dt == Decel * t
             dv == Decel * v
             kn == k * n
             ks == k * s
  <2>12. /\ {dt, dv, kn, ks, k, stop} \subseteq Nat
         /\ Cost(v + Accel, n) = (2 * dt + 2 * kn) + ks + stop
         /\ Cost(v, n + 1) = (2 * dt + 2 * dv) + (ks + kn + kn + k + k) + stop
         /\ 2 * Decel * (v + Accel) = 2 * dv + 2 * k
    BY <2>5, <2>6, <2>7, <2>8, <2>9, <2>10, <2>11
  <2> HIDE DEF dt, dv, kn, ks
  <2>13. QED
    BY <2>12
<1> DEFINE far == 2 * Decel * (v + Accel)
           near == 2 * Decel * d
<1>4. far \in Nat /\ near \in Nat /\ near <= far /\ far + Cost(v + Accel, n) = Cost(v, n + 1)
  BY <1>2, <1>3
<1> HIDE DEF far
<1>5. near + Cost(w, n) <= Cost(v, n + 1)
  <2> HIDE DEF near
  <2>1. QED
    BY <1>1, <1>4
<1>6. QED
  BY <1>5

\* Distances that are multiplied compare as they do.
LEMMA Scaled ==
  ASSUME NEW x \in Int, NEW y \in Int
  PROVE  /\ 2 * Decel * (x - y) = 2 * Decel * x - 2 * Decel * y
         /\ 2 * Decel * x \in Int
         /\ x <= y => 2 * Decel * x <= 2 * Decel * y
         /\ 2 * Decel * (x - y) >= 0 => x >= y
<1>1. Decel \in Nat \ {0}
  BY Parameters
<1>2. PICK k \in Nat \ {0} : k = 2 * Decel
  BY <1>1
<1>3. /\ k * (x - y) = k * x - k * y /\ k * x \in Int
      /\ x <= y => k * x <= k * y
  BY <1>2
<1>4. x < y => k * (x - y) < 0
  <2>1. x < y => x - y <= -1 /\ x - y \in Int
    OBVIOUS
  <2>2. \A z \in Int : z <= -1 => k * z < 0
    BY <1>2
  <2>3. QED
    BY <2>1, <2>2
<1>5. QED
  <2>1. k * (x - y) >= 0 => x >= y
    BY <1>3, <1>4
  <2>2. QED
    BY <1>2, <1>3, <2>1

\* Less time needs less room; an obstacle in view has not been reached, and there
\* is still a unit of time before it is.
LEMMA RoomShrinks ==
  ASSUME NEW g \in Int, NEW v \in 0..MaxSpeed
  PROVE  /\ \A n \in Nat : \A m \in 0..n : StaysInView(g, v, n) => StaysInView(g, v, m)
         /\ StaysInView(g, v, 0) => g >= IgnoreRange
         /\ StopsShort(g, v, 1) => StopsShort(g, v, 0)
         /\ StopsShort(g, v, 0) => g > Overhang
         /\ Careful /\ StaysInView(g, v, 0) => StopsShort(g, v, 1)
<1> DEFINE view == 2 * Decel * (g - IgnoreRange)
           room == 2 * Decel * (g - Overhang)
           less == 2 * Decel * (IgnoreRange - Overhang)
<1>0. /\ g \in Int /\ Overhang \in Int /\ IgnoreRange \in Int
      /\ v \in 0..MaxSpeed /\ v \in Nat
  BY Parameters
<1>1. view \in Int /\ room \in Int /\ less \in Int /\ room = view + less
  <2>1. /\ view = 2 * Decel * g - 2 * Decel * IgnoreRange
        /\ room = 2 * Decel * g - 2 * Decel * Overhang
        /\ less = 2 * Decel * IgnoreRange - 2 * Decel * Overhang
    BY <1>0, Scaled, Zenon
  <2>2. /\ 2 * Decel * g \in Int /\ 2 * Decel * IgnoreRange \in Int
        /\ 2 * Decel * Overhang \in Int
    BY <1>0, Scaled, Zenon
  <2> DEFINE a == 2 * Decel * g
             b == 2 * Decel * IgnoreRange
             c == 2 * Decel * Overhang
  <2>3. {a, b, c} \subseteq Int /\ view = a - b /\ room = a - c /\ less = b - c
    BY <2>1, <2>2
  <2> HIDE DEF a, b, c, view, room, less
  <2>4. QED
    BY <2>3
<1>2. \A n \in Nat : \A m \in 0..n : /\ Cost(v, m) <= Cost(v, n)
                                     /\ Cost(v, m) \in Nat /\ Cost(v, n) \in Nat
  BY <1>0, CostGrows
<1>3. /\ \A n \in Nat : StaysInView(g, v, n) <=> view >= Cost(v, n)
      /\ \A n \in Nat : StopsShort(g, v, n) <=> room > Cost(v, n)
  BY DEF StaysInView, StopsShort
<1>4. view >= 0 => g >= IgnoreRange
  BY <1>0, Scaled
<1>5. room > 0 => g > Overhang
  <2>1. g <= Overhang => 2 * Decel * g <= 2 * Decel * Overhang
    BY <1>0, Scaled, Zenon
  <2>2. room = 2 * Decel * g - 2 * Decel * Overhang
    BY <1>0, Scaled, Zenon
  <2>3. 2 * Decel * g \in Int /\ 2 * Decel * Overhang \in Int
    BY <1>0, Scaled, Zenon
  <2>4. QED
    BY <1>0, <2>1, <2>2, <2>3
<1>6. Careful => less + Cost(v, 0) > Cost(v, 1)
  BY <1>0, CostOfNone DEF Careful
<1> HIDE DEF view, room, less
<1>7. \A n \in Nat : \A m \in 0..n : StaysInView(g, v, n) => StaysInView(g, v, m)
  BY <1>1, <1>2, <1>3
<1>8. 0 \in Nat /\ 1 \in Nat /\ 0 \in 0..1 /\ 0 \in 0..0
  OBVIOUS
<1>9. /\ Cost(v, 0) \in Nat /\ Cost(v, 1) \in Nat /\ Cost(v, 0) <= Cost(v, 1)
  BY <1>2, <1>8
<1>10. QED
  BY <1>1, <1>3, <1>4, <1>5, <1>6, <1>7, <1>9

-------------------------------------------------------------------------------
(* Who has heard what                                                      *)

\* A stop that is on its way, or held, has its fault; the envelope node's speed is
\* at most one unit of time old.
Cause ==
  /\ ~odomLost => speed <= envelope.speed + Accel /\ ("odom" \in done => speed = envelope.speed)
  /\ published.latched => node.latched
  /\ toBridge /= << >> /\ Stops(Head(toBridge).zone) => Head(toBridge).limit = 0
  /\ bridge.fault \/ bridge.stop => published.latched

LEMMA InitCause == Init => Cause
BY Parameters
DEF Init, EnvelopeInit, Stack!Init, Stack!BridgeInit, Stack!Supervisor!Init, Cause

\* What happens to done.
LEMMA TaskDone ==
  ASSUME NEW task, Once(task)
  PROVE  \A t : t \in done' <=> t \in done \/ t = task
  BY DEF Once

LEMMA CauseStep ==
  ASSUME Shape, Cause, [Next]_vars
  PROVE  Cause'
<1>1. CASE Odometry
  <2>1. /\ envelope'.speed = speed /\ node'.latched = node.latched /\ UNCHANGED published
        /\ bridge'.fault = bridge.fault /\ bridge'.stop = bridge.stop
    BY <1>1, OdometryStep
  <2>2. UNCHANGED <<speed, odomLost, toBridge>>
    BY <1>1 DEF Odometry, inbox, world
  <2>3. speed \in Int /\ Accel \in Nat
    BY Quantities, Parameters
  <2>4. QED
    BY <2>1, <2>2, <2>3 DEF Cause
<1>2. CASE NoOdometry
  <2>1. /\ node'.latched = node.latched /\ UNCHANGED published
        /\ bridge'.fault = bridge.fault /\ bridge'.stop = bridge.stop
    BY <1>2, OdometryStep
  <2>2. UNCHANGED <<odomLost, toBridge>> /\ odomLost
    BY <1>2 DEF NoOdometry, inbox, world
  <2>3. QED
    BY <2>1, <2>2 DEF Cause
<1>3. CASE Scan
  <2>1. /\ UNCHANGED <<envelope, node, published, bridge, speed, odomLost>>
        /\ "odom" \in done' => "odom" \in done
    BY <1>3 DEF Scan, Once, stackVars, world
  <2>2. PICK d \in {gap, NoObstacle} : toBridge' = <<EnvelopeStatus(d, envelope.speed)>>
    BY <1>3, ScanStep
  <2>3. Stops(Head(toBridge').zone) => Head(toBridge').limit = 0
    <3>1. d \in Int /\ envelope.speed \in 0..MaxSpeed
      BY ShapeFacts DEF Shape, NoObstacle
    <3>2. PICK status : status = EnvelopeStatus(d, envelope.speed)
      OBVIOUS
    <3>3. Stops(status.zone) => status.limit = 0
      BY <3>1, <3>2, StatusRange
    <3>4. Head(toBridge') = status
      BY <2>2, <3>2
    <3>5. QED
      BY <3>3, <3>4
  <2>4. QED
    BY <2>1, <2>3 DEF Cause
<1>4. CASE BridgeHears
  <2>1. bridge'.fault = bridge.fault /\ bridge'.stop = bridge.stop
    BY <1>4, BridgeHearsStep
  <2>2. UNCHANGED <<envelope, node, published, speed, odomLost, done>> /\ toBridge' = << >>
    BY <1>4 DEF BridgeHears, world
  <2>3. QED
    BY <2>1, <2>2 DEF Cause
<1>5. CASE SupervisorHears
  <2>1. (node.latched => node'.latched) /\ UNCHANGED published
    BY <1>5, SupervisorHearsStep
  <2>2. UNCHANGED <<envelope, bridge, speed, odomLost, toBridge, done>>
    BY <1>5 DEF SupervisorHears, world
  <2>3. QED
    BY <2>1, <2>2 DEF Cause
<1>6. CASE SupervisorFires
  <2>1. /\ published'.latched = node'.latched /\ (node.latched => node'.latched)
        /\ UNCHANGED bridge
    BY <1>6, SupervisorFiresStep
  <2>2. /\ UNCHANGED <<envelope, speed, odomLost, toBridge>>
        /\ "odom" \in done' => "odom" \in done
    BY <1>6 DEF SupervisorFires, Stack!SupervisorTick, Once, inbox, world
  <2>3. QED
    BY <2>1, <2>2 DEF Cause
<1>7. CASE BridgeFires
  <2>1. /\ UNCHANGED <<node, published>>
        /\ bridge'.fault = bridge.fault /\ bridge'.stop = bridge.stop
    BY <1>7, BridgeFiresStep
  <2>2. /\ UNCHANGED <<envelope, speed, odomLost, toBridge>>
        /\ "odom" \in done' => "odom" \in done
    BY <1>7 DEF BridgeFires, Once, inbox, world
  <2>3. QED
    BY <2>1, <2>2 DEF Cause
<1>8. CASE Deliver
  <2>1. /\ UNCHANGED <<node, published>>
        /\ bridge'.fault \in {bridge.fault, published.latched}
        /\ bridge'.stop \in {bridge.stop, published.stop}
    BY <1>8, DeliverStep
  <2>2. published.stop => published.latched
    BY ShapeFacts DEF Stack!SupervisorGood
  <2>3. UNCHANGED <<envelope, speed, odomLost, toBridge, done>>
    BY <1>8 DEF Deliver, inbox, world
  <2>4. QED
    BY <2>1, <2>2, <2>3 DEF Cause
<1>9. CASE Move
  <2>1. /\ node'.latched = node.latched /\ UNCHANGED published
        /\ bridge'.fault = bridge.fault /\ bridge'.stop = bridge.stop
        /\ envelope'.speed = envelope.speed
    BY <1>9, MoveStep
  <2>2. /\ done' = {} /\ speed' = Followed /\ UNCHANGED <<toBridge, odomLost>>
        /\ toBridge = << >> /\ "odom" \in done
    BY <1>9 DEF Move, Tasks, inbox
  <2>3. Followed <= speed + Accel
    BY FollowedRange
  <2>4. ~odomLost => speed' <= envelope'.speed + Accel
    BY <2>1, <2>2, <2>3 DEF Cause
  <2>5. QED
    BY <2>1, <2>2, <2>4 DEF Cause
<1>10. CASE ObstacleLeaves
  BY <1>10 DEF ObstacleLeaves, stackVars, inbox, Cause
<1>11. CASE OdomDies
  BY <1>11 DEF OdomDies, stackVars, inbox, Cause
<1>12. CASE UNCHANGED vars
  BY <1>12 DEF vars, stackVars, inbox, world, Cause
<1>13. CASE NoScan
  <2>1. /\ UNCHANGED <<envelope, node, published, bridge, speed, odomLost, toBridge>>
        /\ "odom" \in done' => "odom" \in done
    BY <1>13 DEF NoScan, Once, stackVars, inbox, world
  <2>2. QED
    BY <2>1 DEF Cause
<1>14. CASE SupervisorMisses
  BY <1>14 DEF SupervisorMisses, stackVars, world, Cause
<1>15. QED
  BY <1>1, <1>2, <1>3, <1>4, <1>5, <1>6, <1>7, <1>8, <1>9, <1>10, <1>11, <1>12, <1>13, <1>14
  DEF Next, Runs, Hears

-------------------------------------------------------------------------------
(* The room there is                                                       *)

\* There is an obstacle, and odometry comes.
Alert == ~odomLost /\ gap /= NoObstacle

\* The next move is not a stop.
Pushed == "bridge" \in done /\ cmdVel /= 0

\* The bridge will be told of a fault before its next move but one.
Doomed == published.latched \/ ("supervisor" \notin done /\ node.latched)

\* The bridge stops, once the zone of the last scan has arrived.
Barred == IF toBridge = << >> THEN bridge.zoneLimit = 0 ELSE Stops(Head(toBridge).zone)

MayPush == Pushed \/ ("bridge" \notin done /\ ~bridge.fault)

MayPushFreely == Pushed \/ ("bridge" \notin done /\ bridge.zoneLimit /= 0)

\* The moves until the bridge has heard the zone of another scan.
MovesLeft == (ScanEvery - quiet) + (IF "scan" \in done THEN 1 ELSE 0)

\* The further the nodes are from stopping the vehicle, the more room there is; and
\* as long as no fault is on its way the obstacle stays in view.
Room ==
  Alert =>
    /\ StopsShort(gap, speed, 0)
    /\ MayPush => StopsShort(gap, speed, 1)
    /\ ~Doomed => StaysInView(gap, speed, 0)
    /\ ~Doomed /\ MayPushFreely => StaysInView(gap, speed, 1)
    /\ ~Doomed /\ ~Barred => StaysInView(gap, speed, MovesLeft)
    /\ InGrace => /\ speed <= Accel * envelope.up
                  /\ \E g \in Gaps : gap >= g - envelope.up * StartSpeed

LEMMA MovesLeftRange ==
  ASSUME Shape
  PROVE  MovesLeft \in Nat /\ MovesLeft >= 1
<1>1. quiet \in 0..(ScanEvery - 1) /\ ScanEvery \in Nat
  BY Parameters DEF Shape
<1>2. QED
  BY <1>1 DEF MovesLeft

\* A step of the nodes that brings none of them further from it.
NoFurther ==
  /\ UNCHANGED <<gap, speed, odomLost>> /\ envelope'.up = envelope.up
  /\ Doomed => Doomed'
  /\ MayPush' => MayPush
  /\ ~Doomed' /\ MayPushFreely' => MayPushFreely \/ ~Barred
  /\ MovesLeft' = MovesLeft
  /\ Barred => Barred'

LEMMA RoomKept ==
  ASSUME Shape, Room, NoFurther
  PROVE  Room'
<1> SUFFICES ASSUME Alert' PROVE Room'
  BY DEF Room
<1>1. Alert
  BY DEF Alert, NoFurther
<1>2. gap' = gap /\ speed' = speed /\ gap \in Int /\ speed \in 0..MaxSpeed
  BY Quantities DEF NoFurther
<1>3. InGrace' => InGrace
  BY DEF InGrace, NoFurther
<1>4. StaysInView(gap, speed, MovesLeft) => StaysInView(gap, speed, 1)
  <2>1. MovesLeft \in Nat /\ 1 \in 0..MovesLeft
    BY MovesLeftRange
  <2>2. QED
    BY <1>2, <2>1, RoomShrinks, Zenon
<1>5. QED
  BY <1>1, <1>2, <1>3, <1>4 DEF Room, NoFurther

\* Messages and timers.
LEMMA RoomHeard ==
  ASSUME Shape, Cause, Room,
         \/ Odometry \/ BridgeHears \/ SupervisorHears \/ SupervisorMisses
         \/ SupervisorFires \/ BridgeFires \/ Deliver \/ NoScan
  PROVE  Room'
<1>1. CASE Odometry
  <2>1. /\ envelope'.up = envelope.up /\ node'.latched = node.latched /\ UNCHANGED published
        /\ bridge'.fault = bridge.fault /\ bridge'.zoneLimit = bridge.zoneLimit
    BY <1>1, OdometryStep
  <2>2. /\ UNCHANGED <<quiet, gap, speed, odomLost, cmdVel, toBridge>>
        /\ \A t \in Tasks \ {"odom"} : t \in done' <=> t \in done
    BY <1>1, TaskDone DEF Odometry, inbox, world
  <2>3. /\ Doomed' <=> Doomed
        /\ MayPush' <=> MayPush
        /\ MayPushFreely' <=> MayPushFreely
        /\ Barred' <=> Barred
        /\ MovesLeft' = MovesLeft
    BY <2>1, <2>2 DEF Doomed, MayPush, MayPushFreely, Pushed, Barred, MovesLeft, Tasks
  <2>4. NoFurther
    BY <2>1, <2>2, <2>3 DEF NoFurther
  <2>5. QED
    BY <2>4, RoomKept
<1>2. CASE BridgeHears
  <2>1. /\ Stops(Head(toBridge).zone) /\ Head(toBridge).limit = 0 => bridge'.zoneLimit = 0
        /\ bridge'.fault = bridge.fault
    BY <1>2, BridgeHearsStep
  <2>2. /\ UNCHANGED <<envelope, node, published, cmdVel, done, quiet, gap, speed, odomLost>>
        /\ toBridge /= << >> /\ toBridge' = << >>
    BY <1>2 DEF BridgeHears, world
  <2>3. Barred => Barred'
    BY <2>1, <2>2 DEF Barred, Cause
  <2>4. /\ Doomed' <=> Doomed
        /\ MayPush' <=> MayPush
        /\ MovesLeft' = MovesLeft
    BY <2>1, <2>2 DEF Doomed, MayPush, Pushed, MovesLeft
  <2>5. MayPushFreely' => MayPushFreely \/ ~Barred
    BY <2>2, <2>3 DEF MayPushFreely, Pushed, Barred, Cause
  <2>6. NoFurther
    BY <2>2, <2>3, <2>4, <2>5 DEF NoFurther
  <2>7. QED
    BY <2>6, RoomKept
<1>3. CASE SupervisorHears
  <2>1. /\ node.latched \/ Head(toSupervisor).zone = "Emergency" => node'.latched
        /\ UNCHANGED published
    BY <1>3, SupervisorHearsStep
  <2>2. UNCHANGED <<envelope, bridge, cmdVel, toBridge, done, quiet, gap, speed, odomLost>>
    BY <1>3 DEF SupervisorHears, world
  <2>3. /\ Doomed => Doomed'
        /\ MayPush' <=> MayPush
        /\ MayPushFreely' <=> MayPushFreely
        /\ Barred' <=> Barred
        /\ MovesLeft' = MovesLeft
    BY <2>1, <2>2 DEF Doomed, MayPush, MayPushFreely, Pushed, Barred, MovesLeft
  <2>4. NoFurther
    BY <2>2, <2>3 DEF NoFurther
  <2>5. QED
    BY <2>4, RoomKept
<1>4. CASE SupervisorFires
  <2>1. /\ published'.latched = node'.latched /\ (node.latched => node'.latched)
        /\ UNCHANGED bridge
    BY <1>4, SupervisorFiresStep
  <2>2. /\ UNCHANGED <<envelope, cmdVel, toBridge, quiet, gap, speed, odomLost>>
        /\ \A t \in Tasks \ {"supervisor"} : t \in done' <=> t \in done
    BY <1>4, TaskDone DEF SupervisorFires, Stack!SupervisorTick, Stack!bridgeVars, inbox, world
  <2>3. /\ Doomed => Doomed'
        /\ MayPush' <=> MayPush
        /\ MayPushFreely' <=> MayPushFreely
        /\ Barred' <=> Barred
        /\ MovesLeft' = MovesLeft
    BY <2>1, <2>2 DEF Doomed, MayPush, MayPushFreely, Pushed, Barred, MovesLeft, Tasks, Cause
  <2>4. NoFurther
    BY <2>2, <2>3 DEF NoFurther
  <2>5. QED
    BY <2>4, RoomKept
<1>5. CASE BridgeFires
  <2>1. /\ UNCHANGED <<node, published>>
        /\ bridge'.fault = bridge.fault /\ bridge'.zoneLimit = bridge.zoneLimit
        /\ cmdVel' /= 0 => ~bridge.fault /\ (bridge.stop \/ bridge.zoneLimit /= 0)
    BY <1>5, BridgeFiresStep
  <2>2. /\ UNCHANGED <<envelope, toBridge, quiet, gap, speed, odomLost>>
        /\ "bridge" \notin done /\ "bridge" \in done'
        /\ \A t \in Tasks \ {"bridge"} : t \in done' <=> t \in done
    BY <1>5, TaskDone DEF BridgeFires, Once, inbox, world
  <2>3. /\ Doomed' <=> Doomed
        /\ MayPush' => MayPush
        /\ Barred' <=> Barred
        /\ MovesLeft' = MovesLeft
    BY <2>1, <2>2 DEF Doomed, MayPush, Pushed, Barred, MovesLeft, Tasks
  <2>4. bridge.stop => Doomed
    BY DEF Cause, Doomed
  <2>5. ~Doomed' /\ MayPushFreely' => MayPushFreely
    BY <2>1, <2>2, <2>3, <2>4 DEF MayPushFreely, Pushed
  <2>6. NoFurther
    BY <2>2, <2>3, <2>5 DEF NoFurther
  <2>7. QED
    BY <2>6, RoomKept
<1>6. CASE Deliver
  <2>1. /\ UNCHANGED <<node, published>>
        /\ bridge'.fault \in {bridge.fault, published.latched}
        /\ bridge'.zoneLimit = bridge.zoneLimit
    BY <1>6, DeliverStep
  <2>2. UNCHANGED <<envelope, toBridge, done, quiet, gap, speed, odomLost>>
        /\ UNCHANGED cmdVel
    BY <1>6 DEF Deliver, Stack!DeliverLimit, Stack!DeliverState, Stack!DeliverStop, inbox, world
  <2>3. bridge.fault => bridge'.fault
    BY <2>1 DEF Cause
  <2>4. /\ Doomed' <=> Doomed
        /\ MayPush' => MayPush
        /\ MayPushFreely' <=> MayPushFreely
        /\ Barred' <=> Barred
        /\ MovesLeft' = MovesLeft
    BY <2>1, <2>2, <2>3 DEF Doomed, MayPush, MayPushFreely, Pushed, Barred, MovesLeft
  <2>5. NoFurther
    BY <2>2, <2>4 DEF NoFurther
  <2>6. QED
    BY <2>5, RoomKept
<1>7. CASE SupervisorMisses
  <2>1. UNCHANGED <<envelope, node, published, bridge, cmdVel, toBridge, done, quiet, gap, speed,
                    odomLost>>
    BY <1>7 DEF SupervisorMisses, stackVars, world
  <2>2. NoFurther
    BY <2>1 DEF NoFurther, Doomed, MayPush, MayPushFreely, Pushed, Barred, MovesLeft
  <2>3. QED
    BY <2>2, RoomKept
<1>8. CASE NoScan
  <2>1. /\ UNCHANGED <<envelope, node, published, bridge, cmdVel, toBridge, gap, speed, odomLost>>
        /\ "scan" \notin done /\ "scan" \in done' /\ quiet' = quiet + 1
        /\ \A t \in Tasks \ {"scan"} : t \in done' <=> t \in done
    BY <1>8, TaskDone DEF NoScan, Once, stackVars, inbox, world
  <2>2. MovesLeft' = MovesLeft
    <3>1. quiet \in 0..(ScanEvery - 1) /\ ScanEvery \in Nat
      BY Parameters DEF Shape
    <3>2. QED
      BY <2>1, <3>1 DEF MovesLeft
  <2>3. /\ Doomed' <=> Doomed
        /\ MayPush' <=> MayPush
        /\ MayPushFreely' <=> MayPushFreely
        /\ Barred' <=> Barred
    BY <2>1 DEF Doomed, MayPush, MayPushFreely, Pushed, Barred, Tasks
  <2>4. NoFurther
    BY <2>1, <2>2, <2>3 DEF NoFurther
  <2>5. QED
    BY <2>4, RoomKept
<1>9. QED
  BY <1>1, <1>2, <1>3, <1>4, <1>5, <1>6, <1>7, <1>8

\* What a zone that is no stop says of the room.
LEMMA ZoneHasRoom ==
  ASSUME Careful, Shape, speed <= envelope.speed + Accel,
         NEW eval, eval = Evaluate(gap - Overhang, envelope.speed, DynamicBuffer(envelope.speed)),
         ~Stops(eval.zone)
  PROVE  StaysInView(gap, speed, ScanEvery + 1)
<1> DEFINE e == envelope.speed
           b == DynamicBuffer(e)
           room == 2 * Decel * (gap - Overhang)
           view == 2 * Decel * (gap - IgnoreRange)
           needed == Required(e, b)
           cost == Cost(e + Accel, ScanEvery + 1)
           x == 2 * Decel * gap
           y == 2 * Decel * Overhang
           z == 2 * Decel * IgnoreRange
<1>1. /\ e \in 0..MaxSpeed /\ e \in Nat /\ speed \in Nat /\ e + Accel \in Nat
      /\ gap \in Int /\ Overhang \in Int /\ IgnoreRange \in Int
      /\ ScanEvery + 1 \in Nat /\ ScanEvery + 1 <= ScanEvery + 1
  BY ShapeFacts, Quantities, Parameters
<1>2. b \in Nat /\ needed \in Int
  <2>1. b \in Nat
    BY <1>1, Parameters DEF DynamicBuffer, Lesser
  <2>2. Latency * e \in Int /\ e * e \in Int
    BY <1>1, Parameters
  <2>3. 2 * Decel * (Latency * e + b) \in Int
    BY <2>1, <2>2, Parameters
  <2>4. QED
    BY <2>1, <2>2, <2>3 DEF Required
<1>3. needed + y >= z + cost
  BY <1>1 DEF Careful
<1>4. Cost(speed, ScanEvery + 1) <= cost /\ Cost(speed, ScanEvery + 1) \in Nat /\ cost \in Nat
  BY <1>1, CostGrows, Zenon
<1>5. room >= needed
  <2>1. room \in Int
    BY <1>1, Parameters
  <2>2. QED
    BY <1>2, <2>1 DEF Evaluate, Stops
<1>6. room = x - y /\ view = x - z /\ x \in Int /\ y \in Int /\ z \in Int
  BY <1>1, Scaled, Zenon
<1>7. StaysInView(gap, speed, ScanEvery + 1) <=> view >= Cost(speed, ScanEvery + 1)
  BY DEF StaysInView
<1> HIDE DEF e, b, room, view, needed, cost, x, y, z
<1>8. QED
  BY <1>2, <1>3, <1>4, <1>5, <1>6, <1>7

\* In the grace period the vehicle is still far away.
LEMMA GraceHasRoom ==
  ASSUME FarAtStart, Shape, InGrace, speed <= Accel * envelope.up,
         NEW g \in Gaps, gap >= g - envelope.up * StartSpeed
  PROVE  StaysInView(gap, speed, ScanEvery + 1)
<1> DEFINE up == envelope.up
           v == StartSpeed
<1>1. /\ up \in Nat /\ up <= StartGrace /\ StartGrace \in Nat /\ ScanEvery + 1 \in Nat
      /\ ScanEvery + 1 <= ScanEvery + 1
      /\ speed \in 0..MaxSpeed /\ speed \in Nat /\ gap \in Int /\ g \in Int
      /\ IgnoreRange \in Int
  BY ShapeFacts, Quantities, Parameters
<1>2. Accel * up <= Accel * StartGrace /\ Accel * up \in Nat /\ Accel * StartGrace \in Nat
  BY <1>1, Product, Parameters
<1>3. v \in Nat /\ speed <= v
  <2>1. MaxSpeed \in Nat /\ speed <= Accel * up /\ v = Lesser(MaxSpeed, Accel * StartGrace)
    BY Parameters DEF StartSpeed
  <2> HIDE DEF v, up
  <2>2. QED
    BY <1>1, <1>2, <2>1 DEF Lesser
<1>4. up * v <= StartGrace * v /\ up * v \in Nat /\ StartGrace * v \in Nat
  BY <1>1, <1>3, Product
<1> DEFINE start == g - IgnoreRange - StartGrace * v
           near == gap - IgnoreRange
<1>5. start \in Int /\ near \in Int /\ start <= near
  <2>1. gap >= g - up * v
    OBVIOUS
  <2> HIDE DEF up, v
  <2>2. QED
    BY <1>1, <1>4, <2>1
<1>6. 2 * Decel * start >= Cost(v, ScanEvery + 1)
  BY DEF FarAtStart
<1>7. Cost(speed, ScanEvery + 1) <= Cost(v, ScanEvery + 1)
      /\ Cost(speed, ScanEvery + 1) \in Nat /\ Cost(v, ScanEvery + 1) \in Nat
  <2> HIDE DEF v
  <2>1. QED
    BY <1>1, <1>3, CostGrows, Zenon
<1>8. StaysInView(gap, speed, ScanEvery + 1) <=> 2 * Decel * near >= Cost(speed, ScanEvery + 1)
  BY DEF StaysInView
<1> HIDE DEF start, near, v
<1>9. 2 * Decel * start <= 2 * Decel * near /\ 2 * Decel * start \in Int /\ 2 * Decel * near \in Int
  BY <1>5, Scaled
<1>10. QED
  BY <1>6, <1>7, <1>8, <1>9

\* A scan: whoever is not told to stop has the room for what may follow.
LEMMA RoomSeen ==
  ASSUME Careful, FarAtStart, Shape, Cause, Room, Scan
  PROVE  Room'
<1> SUFFICES ASSUME Alert' PROVE Room'
  BY DEF Room
<1>1. /\ UNCHANGED <<envelope, node, published, bridge, cmdVel, gap, speed, odomLost>>
      /\ "scan" \in done' /\ quiet' = 0 /\ \A t \in Tasks \ {"scan"} : t \in done' <=> t \in done
  BY TaskDone DEF Scan, Once, stackVars, world
<1>2. Alert /\ gap /= NoObstacle /\ speed <= envelope.speed + Accel
  BY <1>1 DEF Alert, Cause
<1>3. /\ Doomed' <=> Doomed
      /\ MayPush' <=> MayPush
      /\ MayPushFreely' <=> MayPushFreely
      /\ InGrace' <=> InGrace
  BY <1>1 DEF Doomed, MayPush, MayPushFreely, Pushed, InGrace, Tasks
<1>4. MovesLeft' = ScanEvery + 1
  BY <1>1, Parameters DEF MovesLeft
<1>5. ~Doomed /\ ~Barred' => StaysInView(gap, speed, ScanEvery + 1)
  <2> SUFFICES ASSUME ~Doomed, ~Barred'
               PROVE  StaysInView(gap, speed, ScanEvery + 1)
    OBVIOUS
  <2>1. StaysInView(gap, speed, 0) /\ StopsShort(gap, speed, 0)
    BY <1>2 DEF Room
  <2>2. gap > 0 /\ gap >= IgnoreRange
    <3>1. gap > Overhang /\ Overhang \in Nat /\ gap \in Int
      BY <2>1, RoomShrinks, Quantities, Parameters
    <3>2. gap >= IgnoreRange
      BY <2>1, Quantities, RoomShrinks
    <3>3. QED
      BY <3>1, <3>2
  <2>3. PICK status : status = EnvelopeStatus(gap, envelope.speed) /\ toBridge' = <<status>>
    BY <2>2, ScanStep
  <2>4. ~Stops(status.zone)
    BY <2>3 DEF Barred
  <2> DEFINE eval == Evaluate(gap - Overhang, envelope.speed, DynamicBuffer(envelope.speed))
  <2>5. CASE InGrace /\ eval.zone = "Emergency"
    <3>1. PICK g \in Gaps : gap >= g - envelope.up * StartSpeed
      BY <1>2, <2>5 DEF Room
    <3>2. speed <= Accel * envelope.up
      BY <1>2, <2>5 DEF Room
    <3>3. QED
      BY <2>5, <3>1, <3>2, GraceHasRoom
  <2>6. CASE ~(InGrace /\ eval.zone = "Emergency")
    <3>1. status = eval
      BY <1>2, <2>3, <2>6 DEF EnvelopeStatus
    <3>2. QED
      BY <1>2, <2>4, <3>1, ZoneHasRoom
  <2>7. QED
    BY <2>5, <2>6
<1>6. QED
  BY <1>1, <1>2, <1>3, <1>4, <1>5 DEF Room

\* The vehicle moves: a stop takes no room that was not planned for, and anything
\* else takes one of the units of time there was room for.
LEMMA RoomUsed ==
  ASSUME Careful, Shape, Cause, Room, Move
  PROVE  Room'
<1> SUFFICES ASSUME Alert' PROVE Room'
  BY DEF Room
<1> DEFINE w == Followed
           d == IF speed >= w THEN speed ELSE w
<1>1. /\ Shape' /\ node'.latched = node.latched /\ UNCHANGED published
      /\ bridge'.fault = bridge.fault /\ bridge'.zoneLimit = bridge.zoneLimit
      /\ envelope'.up = Older(envelope.up, StartGrace)
      /\ bridge.fault = published.latched
  BY MoveStep
<1>2. /\ done = Tasks /\ done' = {} /\ speed' = w /\ UNCHANGED <<toBridge, quiet, odomLost>>
      /\ toBridge = << >>
      /\ gap' = IF gap = NoObstacle THEN gap ELSE gap - d
  BY DEF Move, inbox
<1>3. Alert /\ gap' = gap - d
  BY <1>2 DEF Alert
<1>4. /\ speed \in 0..MaxSpeed /\ speed \in Nat /\ w \in 0..MaxSpeed /\ w \in Nat
      /\ d \in 0..MaxSpeed /\ d \in Nat /\ d <= speed + Accel /\ w <= speed + Accel /\ gap \in Int
  <2>1. speed \in 0..MaxSpeed /\ w \in 0..MaxSpeed /\ gap \in Int
    BY FollowedRange, Quantities
  <2>2. w <= speed + Accel
    BY FollowedRange
  <2> HIDE DEF w
  <2>3. QED
    BY <2>1, <2>2, Parameters
<1>5. cmdVel = 0 => d = speed /\ w <= speed /\ (w = 0 \/ w = speed - Decel)
  <2>1. cmdVel = 0 => w <= speed /\ (w = 0 \/ w = speed - Decel)
    BY FollowedRange
  <2> HIDE DEF w
  <2>2. w <= speed => d = speed
    BY <1>4
  <2>3. QED
    BY <2>1, <2>2
<1> DEFINE view == 2 * Decel * (gap - IgnoreRange)
           room == 2 * Decel * (gap - Overhang)
           used == 2 * Decel * d
<1>6. \A n \in Nat : /\ StaysInView(gap, speed, n) <=> view >= Cost(speed, n)
                     /\ StopsShort(gap, speed, n) <=> room > Cost(speed, n)
                     /\ StaysInView(gap', speed', n) <=> view - used >= Cost(w, n)
                     /\ StopsShort(gap', speed', n) <=> room - used > Cost(w, n)
  <2>1. /\ 2 * Decel * (gap' - IgnoreRange) = view - used
        /\ 2 * Decel * (gap' - Overhang) = room - used
    <3>1. /\ gap - IgnoreRange \in Int /\ gap - Overhang \in Int /\ d \in Int
          /\ gap' - IgnoreRange = (gap - IgnoreRange) - d
          /\ gap' - Overhang = (gap - Overhang) - d
      <4> HIDE DEF d
      <4>1. QED
        BY <1>3, <1>4, Parameters
    <3> HIDE DEF d
    <3>2. QED
      BY <3>1, Scaled, Zenon
  <2>2. \A n \in Nat :
          /\ StaysInView(gap', speed', n) <=> 2 * Decel * (gap' - IgnoreRange) >= Cost(w, n)
          /\ StopsShort(gap', speed', n) <=> 2 * Decel * (gap' - Overhang) > Cost(w, n)
    BY <1>2 DEF StaysInView, StopsShort
  <2> HIDE DEF w, d
  <2>3. QED
    BY <2>1, <2>2 DEF StaysInView, StopsShort
<1>7. /\ view \in Int /\ room \in Int /\ used \in Int
      /\ \A n \in Nat : Cost(speed, n) \in Nat /\ Cost(w, n) \in Nat
  <2> HIDE DEF w, d
  <2>1. gap - IgnoreRange \in Int /\ gap - Overhang \in Int /\ d \in Int
    BY <1>4, Parameters
  <2>2. \A n \in Nat : n <= n
    OBVIOUS
  <2>3. \A x \in Nat : x <= x
    OBVIOUS
  <2>4. \A n \in Nat : Cost(speed, n) \in Nat /\ Cost(w, n) \in Nat
    BY <1>4, <2>2, <2>3, CostGrows, Zenon
  <2>5. QED
    BY <2>1, <2>4, Scaled, Zenon
<1>8. /\ \A n \in Nat : used + Cost(w, n) <= Cost(speed, n + 1)
      /\ cmdVel = 0 => used + Cost(w, 0) <= Cost(speed, 0)
  <2>1. ASSUME cmdVel = 0 PROVE used + Cost(w, 0) <= Cost(speed, 0)
    <3>1. d = speed /\ w <= speed /\ (w = 0 \/ w = speed - Decel)
      BY <1>5, <2>1
    <3> HIDE DEF w, d
    <3>2. used + Braking(w) <= Braking(speed)
      BY <1>4, <3>1, BrakeMove
    <3>3. Cost(w, 0) = Braking(w) /\ Cost(speed, 0) = Braking(speed)
      BY <1>4, CostOfNone
    <3>4. QED
      BY <3>2, <3>3
  <2> HIDE DEF w, d
  <2>2. \A n \in Nat : used + Cost(w, n) <= Cost(speed, n + 1)
    BY <1>4, FreeMove, Zenon
  <2>3. QED
    BY <2>1, <2>2
<1>9. /\ \A n \in Nat : StaysInView(gap, speed, n + 1) => StaysInView(gap', speed', n)
      /\ StopsShort(gap, speed, 1) => StopsShort(gap', speed', 0)
      /\ cmdVel = 0 /\ StaysInView(gap, speed, 0) => StaysInView(gap', speed', 0)
      /\ cmdVel = 0 /\ StopsShort(gap, speed, 0) => StopsShort(gap', speed', 0)
  <2> HIDE DEF w, d, view, room, used
  <2>1. ASSUME NEW n \in Nat, StaysInView(gap, speed, n + 1) PROVE StaysInView(gap', speed', n)
    <3>1. n + 1 \in Nat
      OBVIOUS
    <3>2. view >= Cost(speed, n + 1) /\ Cost(speed, n + 1) \in Nat /\ Cost(w, n) \in Nat
          /\ used + Cost(w, n) <= Cost(speed, n + 1)
      BY <1>6, <1>7, <1>8, <2>1, <3>1
    <3>3. view - used >= Cost(w, n)
      BY <1>7, <3>2
    <3>4. QED
      BY <1>6, <3>3
  <2>2. 0 \in Nat /\ 0 + 1 = 1 /\ 1 \in Nat
    OBVIOUS
  <2>3. used + Cost(w, 0) <= Cost(speed, 1)
    BY <1>8, <2>2
  <2>4. /\ StopsShort(gap, speed, 1) => StopsShort(gap', speed', 0)
        /\ cmdVel = 0 /\ StaysInView(gap, speed, 0) => StaysInView(gap', speed', 0)
        /\ cmdVel = 0 /\ StopsShort(gap, speed, 0) => StopsShort(gap', speed', 0)
    BY <1>6, <1>7, <1>8, <2>3
  <2>5. QED
    BY <2>1, <2>4
<1>10. /\ MayPush <=> cmdVel /= 0
       /\ MayPushFreely <=> cmdVel /= 0
       /\ Doomed <=> published.latched
       /\ Barred <=> bridge.zoneLimit = 0
  BY <1>2 DEF MayPush, MayPushFreely, Pushed, Doomed, Barred, Tasks
<1>11. /\ MayPush' => ~published.latched
       /\ ~Doomed' => ~Doomed
       /\ Barred' <=> Barred
       /\ MayPushFreely' => ~Barred'
  BY <1>1, <1>2, <1>10 DEF MayPush, MayPushFreely, Pushed, Doomed, Barred
<1>12. MovesLeft' \in Nat /\ MovesLeft' >= 1 /\ MovesLeft = MovesLeft' + 1
  <2>1. MovesLeft = ScanEvery - quiet + 1 /\ MovesLeft' = ScanEvery - quiet + 0
    BY <1>2 DEF MovesLeft, Tasks
  <2>2. quiet \in 0..(ScanEvery - 1) /\ ScanEvery \in Nat
    BY Parameters DEF Shape
  <2>3. QED
    BY <2>1, <2>2
<1>13. gap' \in Int /\ speed' \in 0..MaxSpeed
  BY <1>2, <1>3, <1>4
<1>14. ~Doomed => StaysInView(gap', speed', 0)
  <2>1. StaysInView(gap, speed, 0 + 1) => StaysInView(gap', speed', 0)
    BY <1>9
  <2>2. StaysInView(gap, speed, 1) => StaysInView(gap', speed', 0)
    BY <2>1
  <2>3. QED
    BY <1>3, <1>9, <1>10, <2>2 DEF Room
<1>15. MayPush' => StopsShort(gap', speed', 1)
  BY <1>10, <1>11, <1>14, <1>13, RoomShrinks
<1>16. /\ ~Doomed' /\ ~Barred' => StaysInView(gap', speed', MovesLeft')
       /\ ~Doomed' /\ MayPushFreely' => StaysInView(gap', speed', 1)
  <2>1. ~Doomed' /\ ~Barred' => StaysInView(gap', speed', MovesLeft')
    BY <1>3, <1>9, <1>11, <1>12 DEF Room
  <2>2. 1 \in 0..MovesLeft'
    BY <1>12
  <2>3. StaysInView(gap', speed', MovesLeft') => StaysInView(gap', speed', 1)
    BY <1>12, <1>13, <2>2, RoomShrinks, Zenon
  <2>4. QED
    BY <1>11, <2>1, <2>3
<1>17. StopsShort(gap', speed', 0)
  BY <1>3, <1>9, <1>10 DEF Room
<1>18. InGrace' => /\ speed' <= Accel * envelope'.up
                   /\ \E g \in Gaps : gap' >= g - envelope'.up * StartSpeed
  <2> SUFFICES ASSUME InGrace'
               PROVE  /\ speed' <= Accel * envelope'.up
                      /\ \E g \in Gaps : gap' >= g - envelope'.up * StartSpeed
    OBVIOUS
  <2> DEFINE up == envelope.up
  <2>1. /\ up \in Nat /\ envelope'.up = up + 1 /\ up + 1 <= StartGrace /\ InGrace
        /\ StartGrace \in Nat
    BY <1>1, ShapeFacts, Parameters DEF InGrace, Older, None, Ahead
  <2>2. speed <= Accel * up
    BY <1>3, <2>1 DEF Room
  <2>3. PICK g \in Gaps : gap >= g - up * StartSpeed
    BY <1>3, <2>1 DEF Room
  <2>4. /\ Accel * (up + 1) = Accel * up + Accel /\ Accel * (up + 1) <= Accel * StartGrace
        /\ Accel * up \in Nat /\ Accel * StartGrace \in Nat
    <3>1. Accel * (up + 1) <= Accel * StartGrace
      BY <2>1, Product, Parameters
    <3>2. QED
      BY <2>1, <3>1, Parameters
  <2>5. StartSpeed \in Nat /\ StartSpeed = Lesser(MaxSpeed, Accel * StartGrace)
    BY <2>4, Parameters DEF StartSpeed, Lesser
  <2>6. speed + Accel <= Accel * (up + 1) /\ d <= StartSpeed
    <3>1. Accel \in Nat /\ MaxSpeed \in Nat
      BY Parameters
    <3> HIDE DEF up, w, d
    <3>2. speed + Accel <= Accel * (up + 1)
      BY <1>4, <2>2, <2>4, <3>1
    <3>3. QED
      BY <1>4, <2>4, <2>5, <3>1, <3>2 DEF Lesser
  <2>7. speed' <= Accel * envelope'.up
    <3> HIDE DEF up, w, d
    <3>1. QED
      <4>1. speed' \in Int /\ speed' <= speed + Accel
        BY <1>2, <1>4
      <4>2. /\ speed \in Int /\ Accel \in Int
            /\ Accel * (up + 1) \in Int /\ speed + Accel <= Accel * (up + 1)
        BY <1>4, <2>1, <2>4, <2>6, Parameters
      <4>3. speed' <= Accel * (up + 1)
        BY <4>1, <4>2
      <4>4. QED
        BY <2>1, <4>3
  <2>8. gap' >= g - envelope'.up * StartSpeed
    <3>1. (up + 1) * StartSpeed = up * StartSpeed + StartSpeed /\ up * StartSpeed \in Int
      BY <2>1, <2>5
    <3>2. g \in Int
      BY Parameters
    <3> HIDE DEF up, w, d
    <3>3. QED
      BY <1>3, <1>4, <2>1, <2>3, <2>5, <2>6, <3>1, <3>2
  <2>9. QED
    BY <2>7, <2>8
<1>19. QED
  BY <1>11, <1>14, <1>15, <1>16, <1>17, <1>18 DEF Room

\* Silence, and the obstacle that leaves, end the matter.
LEMMA RoomUnneeded ==
  ASSUME Shape, Room, NoOdometry \/ ObstacleLeaves \/ OdomDies \/ UNCHANGED vars
  PROVE  Room'
<1>1. CASE NoOdometry \/ ObstacleLeaves \/ OdomDies
  <2>1. ~Alert'
    BY <1>1 DEF NoOdometry, ObstacleLeaves, OdomDies, world, Alert
  <2>2. QED
    BY <2>1 DEF Room
<1>2. CASE UNCHANGED vars
  <2>1. UNCHANGED <<envelope, node, published, bridge, cmdVel, toBridge, done, quiet,
                    gap, speed, odomLost>>
    BY <1>2 DEF vars, stackVars, inbox, world
  <2>2. NoFurther
    BY <2>1 DEF NoFurther, Doomed, MayPush, MayPushFreely, Pushed, Barred, MovesLeft
  <2>3. QED
    BY <2>2, RoomKept
<1>3. QED
  BY <1>1, <1>2

LEMMA InitRoom ==
  ASSUME Careful, FarAtStart, Init
  PROVE  Room
<1> DEFINE far == StartGrace * StartSpeed
           start == gap - IgnoreRange - far
           near == gap - IgnoreRange
<1>1. /\ gap \in Gaps /\ gap \in Int /\ speed = 0 /\ speed \in 0..MaxSpeed /\ envelope.up = 0
      /\ done = {} /\ quiet = 0 /\ IgnoreRange \in Int /\ ScanEvery \in Nat \ {0}
  BY Parameters DEF Init, EnvelopeInit
<1>2. StartSpeed \in Nat /\ far \in Nat
  <2>1. Accel * StartGrace \in Nat
    BY Parameters, Product
  <2>2. StartSpeed \in Nat
    BY <2>1, Parameters DEF StartSpeed, Lesser
  <2>3. QED
    BY <2>2, Parameters, Product
<1>3. start \in Int /\ near \in Int /\ start <= near
  <2> HIDE DEF far
  <2>1. QED
    BY <1>1, <1>2
<1>4. 2 * Decel * start >= Cost(StartSpeed, ScanEvery + 1)
  BY <1>1 DEF FarAtStart
<1>5. /\ Cost(speed, ScanEvery) <= Cost(StartSpeed, ScanEvery + 1)
      /\ Cost(speed, ScanEvery) \in Nat /\ Cost(StartSpeed, ScanEvery + 1) \in Nat
  <2>1. speed \in Nat /\ speed <= StartSpeed /\ ScanEvery \in Nat /\ ScanEvery + 1 \in Nat
        /\ ScanEvery <= ScanEvery + 1
    BY <1>1, <1>2
  <2>2. QED
    BY <1>2, <2>1, CostGrows, Zenon
<1>6. StaysInView(gap, speed, ScanEvery)
  <2> HIDE DEF start, near
  <2>1. 2 * Decel * start <= 2 * Decel * near /\ 2 * Decel * start \in Int
        /\ 2 * Decel * near \in Int
    BY <1>3, Scaled
  <2>2. 2 * Decel * near >= Cost(speed, ScanEvery)
    BY <1>4, <1>5, <2>1
  <2>3. QED
    BY <2>2 DEF StaysInView, near
<1>7. /\ StaysInView(gap, speed, 0) /\ StaysInView(gap, speed, 1)
      /\ StopsShort(gap, speed, 0) /\ StopsShort(gap, speed, 1)
  <2>1. ScanEvery \in Nat /\ 0 \in 0..ScanEvery /\ 1 \in 0..ScanEvery
    BY <1>1
  <2>2. QED
    BY <1>1, <1>6, <2>1, RoomShrinks
<1>8. MovesLeft = ScanEvery
  BY <1>1 DEF MovesLeft
<1>9. speed <= Accel * envelope.up /\ gap >= gap - envelope.up * StartSpeed
  <2>1. Accel * 0 = 0 /\ 0 * StartSpeed = 0
    BY <1>2, Parameters
  <2>2. QED
    BY <1>1, <2>1
<1>10. QED
  BY <1>1, <1>6, <1>7, <1>8, <1>9 DEF Room

\* As long as odometry comes, whatever order nodes and messages come in and
\* whichever statuses the supervisor misses, the vehicle stops short of the
\* obstacle: stale odometry, the time until the next scan, a status that is on its
\* way and a tick that has not fired together cost no more than Careful keeps room
\* for, without the supervisor; a fault costs at most one unit more.
THEOREM NoContactCorrect ==
  ASSUME Careful, FarAtStart
  PROVE  Spec => []NoContact
<1> DEFINE Inv == Shape /\ Cause /\ Room
<1>1. Init => Inv
  BY InitShape, InitCause, InitRoom
<1>2. Inv /\ [Next]_vars => Inv'
  <2> SUFFICES ASSUME Shape, Cause, Room, [Next]_vars
               PROVE  Shape' /\ Cause' /\ Room'
    OBVIOUS
  <2>1. Shape' /\ Cause'
    BY ShapeStep, CauseStep
  <2>2. CASE Scan
    BY <2>1, <2>2, RoomSeen
  <2>3. CASE Move
    BY <2>1, <2>3, RoomUsed
  <2>4. CASE \/ Odometry \/ BridgeHears \/ SupervisorHears \/ SupervisorMisses
             \/ SupervisorFires \/ BridgeFires \/ Deliver \/ NoScan
    BY <2>1, <2>4, RoomHeard
  <2>5. CASE NoOdometry \/ ObstacleLeaves \/ OdomDies \/ UNCHANGED vars
    BY <2>1, <2>5, RoomUnneeded
  <2>6. QED
    BY <2>1, <2>2, <2>3, <2>4, <2>5 DEF Next, Runs, Hears
<1>3. Inv => NoContact
  BY RoomShrinks, Quantities DEF Room, Alert, NoContact
<1> HIDE DEF Inv
<1>4. QED
  BY <1>1, <1>2, <1>3, PTL DEF Spec

-------------------------------------------------------------------------------
(* The parameters of safety_params.yaml                                    *)

\* The unit of time is 50 ms, the period of both timers, and the unit of distance
\* 0.125 mm: 1.5 m/s, 0.75 m/s^2 and 1.0 m/s^2, and buffers of 0.5 m and 1.0 m.
\* A scan comes in every second unit, at the 10 Hz of lidar_expected_rate.
LEMMA ShippedIsCareful ==
  ASSUME MaxSpeed = 600, Accel = 15, Decel = 20, Dynamic = TRUE, ScanEvery = 2,
         MinBuffer = 4000, Factor = 6, Buffer = 8000, Overhang = 800, IgnoreRange = 4000
  PROVE  Careful
<1> SUFFICES ASSUME NEW v \in 0..MaxSpeed
             PROVE  /\ Required(v, DynamicBuffer(v)) + 2 * Decel * Overhang
                         >= 2 * Decel * IgnoreRange + Cost(v + Accel, ScanEvery + 1)
                    /\ 2 * Decel * (IgnoreRange - Overhang) + Braking(v) > Cost(v, 1)
  BY DEF Careful
<1>0. v \in 0..600
  OBVIOUS
<1>1. DynamicBuffer(v) = 4000 + 6 * v
  <2>1. DynamicBuffer(v) = Lesser(MinBuffer + Factor * v, 2 * Buffer)
    BY DEF DynamicBuffer
  <2>2. MinBuffer + Factor * v = 4000 + 6 * v /\ 2 * Buffer = 16000
    BY <1>0
  <2>3. 4000 + 6 * v <= 16000
    BY <1>0
  <2>4. QED
    BY <2>1, <2>2, <2>3 DEF Lesser
<1>2. PICK late \in Nat : late = Latency * v
  BY <1>0, Parameters, Product
<1>3. Required(v, DynamicBuffer(v)) = 40 * (late + (4000 + 6 * v)) + v * v
  BY <1>0, <1>1, <1>2 DEF Required
<1>4. PICK square \in Nat : square = v * v
  BY <1>0, Product
<1>5. Braking(v + 60) = square + 140 * v + 5200
  <2>1. (v + 60) * (v + 60) = v * v + 120 * v + 3600
    BY <1>0
  <2>2. v + 60 /= 0 /\ 20 * (v + 60) = 20 * v + 1200
    BY <1>0
  <2>3. QED
    BY <1>0, <1>4, <2>1, <2>2 DEF Braking
<1>6. Cost(v + 15, 3) = square + 260 * v + 10600
  <2>1. (v + 15) + 3 * 15 = v + 60 /\ 2 * 20 * (3 * (v + 15)) = 120 * v + 1800
        /\ 20 * 15 * (3 * (3 + 1)) = 3600
    BY <1>0
  <2>2. Cost(v + 15, 3) = 120 * v + 1800 + 3600 + Braking(v + 60)
    BY <2>1 DEF Cost
  <2>3. QED
    BY <1>0, <1>4, <1>5, <2>2
<1>7. Cost(v, 1) <= square + 90 * v + 1525
  <2>1. (v + 15) * (v + 15) = v * v + 30 * v + 225
    BY <1>0
  <2>2. v + 15 /= 0 /\ Braking(v + 15) = square + 50 * v + 925
    BY <1>0, <1>4, <2>1 DEF Braking
  <2>3. v + 1 * 15 = v + 15 /\ 2 * 20 * (1 * v) = 40 * v /\ 20 * 15 * (1 * (1 + 1)) = 600
    BY <1>0
  <2>4. Cost(v, 1) = 40 * v + 600 + Braking(v + 15)
    BY <2>3 DEF Cost
  <2>5. QED
    BY <1>0, <1>4, <2>2, <2>4
<1>8. Braking(v) >= square
  <2>1. CASE v = 0
    <3>1. square = 0 /\ Braking(v) = 0
      BY <1>4, <2>1 DEF Braking
    <3>2. QED
      BY <3>1
  <2>2. CASE v /= 0
    <3>1. PICK rest \in Nat : rest = Decel * v + Decel * Decel
      BY <1>0
    <3>2. Braking(v) = square + rest
      BY <1>0, <1>4, <2>2, <3>1 DEF Braking
    <3>3. QED
      BY <3>1, <3>2
  <2>3. QED
    BY <2>1, <2>2
<1>9. /\ 2 * Decel * Overhang = 32000 /\ 2 * Decel * IgnoreRange = 160000
      /\ 2 * Decel * (IgnoreRange - Overhang) = 128000
      /\ v + Accel = v + 15 /\ ScanEvery + 1 = 3
  <2>1. 2 * Decel * Overhang = 32000
    OBVIOUS
  <2>2. 2 * Decel * IgnoreRange = 160000
    OBVIOUS
  <2>3. 2 * Decel * (IgnoreRange - Overhang) = 128000
    OBVIOUS
  <2>4. v + Accel = v + 15 /\ ScanEvery + 1 = 3
    OBVIOUS
  <2>5. QED
    BY <2>1, <2>2, <2>3, <2>4
<1>10. Braking(v) \in Nat /\ Cost(v, 1) \in Nat
  <2>1. v \in Nat /\ v <= v /\ 1 \in Nat /\ 1 <= 1
    BY <1>0
  <2>2. Braking(v) \in Nat
    BY <2>1, BrakingGrows
  <2>3. Cost(v, 1) \in Nat
    BY <2>1, CostGrows
  <2>4. QED
    BY <2>2, <2>3
<1>11. QED
  BY <1>0, <1>3, <1>4, <1>6, <1>7, <1>8, <1>9, <1>10

\* An obstacle is far away from 5.1 m.
LEMMA ShippedIsFar ==
  ASSUME MaxSpeed = 600, Accel = 15, Decel = 20, StartGrace = 40, ScanEvery = 2,
         IgnoreRange = 4000, \A g \in Gaps : g >= 40800
  PROVE  FarAtStart
<1>1. StartSpeed = 600
  BY DEF StartSpeed, Lesser
<1>2. Cost(600, 3) = 504925
  BY DEF Cost, Braking
<1> SUFFICES ASSUME NEW g \in Gaps
             PROVE  2 * Decel * (g - IgnoreRange - StartGrace * StartSpeed)
                      >= Cost(StartSpeed, ScanEvery + 1)
  BY DEF FarAtStart
<1>3. Cost(StartSpeed, ScanEvery + 1) = 504925
  <2>1. ScanEvery + 1 = 3
    OBVIOUS
  <2>2. QED
    BY <1>1, <1>2, <2>1
<1>4. g \in Int /\ g >= 40800
  BY Parameters
<1>5. 40 * (g - 4000 - 40 * 600) >= 504925
  BY <1>4
<1>6. 2 * Decel * (g - IgnoreRange - StartGrace * StartSpeed) = 40 * (g - 4000 - 40 * 600)
  BY <1>1
<1>7. QED
  BY <1>3, <1>5, <1>6

\* As shipped, with scans at 10 Hz, and whatever its control latency, timeouts,
\* sensors and jerk limit, the vehicle never touches an obstacle that is 5.1 m away
\* or more when it starts.
THEOREM ShippedNoContact ==
  ASSUME MaxSpeed = 600, Accel = 15, Decel = 20, Dynamic = TRUE, ScanEvery = 2,
         MinBuffer = 4000, Factor = 6, Buffer = 8000, Overhang = 800, IgnoreRange = 4000,
         StartGrace = 40, \A g \in Gaps : g >= 40800
  PROVE  Spec => []NoContact
  BY ShippedIsCareful, ShippedIsFar, NoContactCorrect
===============================================================================
