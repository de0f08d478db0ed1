------------------------- MODULE SupervisorNode_proofs -------------------------
(***************************************************************************)
(* Proofs about SupervisorNode for any set of sensors and any timeouts.    *)
(* The callbacks are compositions of operators on the node record, so the  *)
(* invariant is a predicate on records, Good, and there is one lemma per   *)
(* operator; the step of an action then chains them.                       *)
(***************************************************************************)
EXTENDS SupervisorNode, TLAPS

Slow(n) ==
  IsAnyDegraded(n.recovery) =>
    /\ n.speed.current <= HalfLimit /\ n.speed.target <= HalfLimit
    /\ n.speed.ramp = None

\* Everything but the link between Degraded mode and in_degraded_mode_, which
\* the localization check breaks for a moment.
Stopped(n) ==
  /\ n \in Nodes
  /\ n.latched <=> n.mode = "SafeStop"
  /\ n.stop => n.latched
  /\ Slow(n)

Good(n) == Stopped(n) /\ (n.mode = "Degraded" => n.recovery.degraded)

Inv ==
  /\ Good(node)
  /\ published \in Messages
  /\ published.stop => published.latched

-------------------------------------------------------------------------------
(* machine_                                                                *)

\* transition_to changes nothing but the mode, and from SafeStop not even that.
LEMMA TransitionFrame ==
  ASSUME NEW n \in Nodes, NEW target \in Modes
  PROVE  /\ TransitionTo(n, target) \in Nodes
         /\ TransitionTo(n, target) = [n EXCEPT !.mode = TransitionTo(n, target).mode]
         /\ TransitionTo(n, target).mode \in {n.mode, target}
         /\ n.mode = "SafeStop" => TransitionTo(n, target).mode = "SafeStop"
<1>1. n.mode = "SafeStop" /\ Allowed(n.mode, target) => target = "SafeStop"
  BY DEF Allowed, Edges
<1>2. QED
  BY <1>1 DEF TransitionTo, Nodes

\* A transition to a mode that is neither SafeStop nor Degraded keeps the node good.
LEMMA TransitionGood ==
  ASSUME NEW n, Good(n), NEW target \in Modes \ {"SafeStop", "Degraded"}
  PROVE  Good(TransitionTo(n, target))
<1>1. n \in Nodes
  BY DEF Good, Stopped
<1>2. n.mode /= "SafeStop" => TransitionTo(n, target).mode /= "SafeStop"
  BY <1>1, TransitionFrame
<1>3. PICK m \in Modes : /\ TransitionTo(n, target) = [n EXCEPT !.mode = m]
                         /\ m \in {n.mode, target}
                         /\ m = "SafeStop" <=> n.mode = "SafeStop"
  BY <1>1, <1>2, TransitionFrame DEF Nodes
<1>4. QED
  BY <1>3 DEF Good, Stopped, Slow, Nodes

\* latch_fault leaves a good node, even from the transient one.
LEMMA LatchGood ==
  ASSUME NEW n, Stopped(n)
  PROVE  Good(LatchFault(n)) /\ LatchFault(n).recovery = n.recovery
  BY DEF LatchFault, Good, Stopped, Slow, Nodes, Modes

\* So does the stop sequence of the node.
LEMMA ForceStopGood ==
  ASSUME NEW n, Stopped(n)
  PROVE  /\ Good(ForceStop(n)) /\ ForceStop(n).mode = "SafeStop" /\ ForceStop(n).stop
         /\ ForceStop(n).recovery = n.recovery
  BY DEF ForceStop, TransitionTo, Allowed, LatchFault, Good, Stopped, Slow, Nodes, Modes

-------------------------------------------------------------------------------
(* recovery_mgr_ and speed_ctrl_                                           *)

\* A health message of one sensor keeps the manager's types and leaves
\* in_degraded_mode_ alone; without a transition to DEGRADED reported to the
\* node, no sensor becomes DEGRADED.
LEMMA ProcessHealthMsgFrame ==
  ASSUME NEW m \in Managers, NEW s \in Sensors, NEW status \in Statuses
  PROVE  /\ ProcessHealthMsg(m, s, status) \in Managers
         /\ ProcessHealthMsg(m, s, status).degraded = m.degraded
         /\ HealthTransition(m, s, status) /= "kDegraded"
              /\ IsAnyDegraded(ProcessHealthMsg(m, s, status)) => IsAnyDegraded(m)
<1>1. {0, None} \subseteq AgeUpTo(RecoveryTimeout + 1)
  BY SensorAssumption DEF AgeUpTo, None
<1>2. ProcessHealthMsg(m, s, status) \in Managers
  BY <1>1 DEF ProcessHealthMsg, Managers
<1>3. ProcessHealthMsg(m, s, status).degraded = m.degraded
  BY DEF ProcessHealthMsg, Managers
<1>4. ASSUME HealthTransition(m, s, status) /= "kDegraded",
             IsAnyDegraded(ProcessHealthMsg(m, s, status))
      PROVE  IsAnyDegraded(m)
  BY <1>4 DEF HealthTransition, IsAnyDegraded, ProcessHealthMsg, Managers
<1>5. QED
  BY <1>2, <1>3, <1>4

\* A timeout changes no sensor's status.
LEMMA TimeOutFrame ==
  ASSUME NEW m \in Managers, NEW s \in Sensors
  PROVE  [TimeOut(m, s) EXCEPT !.degraded = FALSE] \in Managers
         /\ (IsAnyDegraded([TimeOut(m, s) EXCEPT !.degraded = FALSE]) <=> IsAnyDegraded(m))
<1>1. None \in AgeUpTo(RecoveryTimeout + 1)
  BY DEF AgeUpTo
<1>2. QED
  BY <1>1 DEF TimeOut, Managers, IsAnyDegraded

\* The division of the ramp is exact.
LEMMA ExactDivision ==
  ASSUME NEW k \in Nat \ {0}, NEW e \in Int
  PROVE  (k * e) \div k = e
<1>1. (k * e) \in Int /\ k > 0
  OBVIOUS
<1>2. k * e = k * ((k * e) \div k) + ((k * e) % k) /\ (k * e) % k \in 0..(k - 1)
  BY <1>1
<1>3. k * (e - (k * e) \div k) = (k * e) % k
  BY <1>1, <1>2
<1>4. DEFINE d == e - (k * e) \div k
<1>5. d \in Int /\ k * d \in 0..(k - 1)
  BY <1>1, <1>2, <1>3
<1>6. d = 0
  <2> HIDE DEF d
  <2>1. CASE d >= 1
    BY <2>1, <1>5, <1>1
  <2>2. CASE d <= -1
    BY <2>2, <1>5, <1>1
  <2>3. QED
    BY <2>1, <2>2, <1>5
<1>7. QED
  BY <1>1, <1>6

\* The constants of the speed controller.
LEMMA SpeedBounds ==
  /\ {0, None} \subseteq AgeUpTo(RampTime)
  /\ {0, HalfLimit, FullLimit} \subseteq 0..FullLimit
  /\ HalfLimit <= HalfLimit
  BY RampTimeAssumption DEF HalfLimit, FullLimit, AgeUpTo

\* The controller keeps its types, its limit is zero under a safe stop, and
\* once at or below half speed without a ramp it stays there.
LEMMA UpdateLimitFrame ==
  ASSUME NEW c \in SpeedControllers, NEW safeStop \in BOOLEAN
  PROVE  /\ UpdateLimit(c, safeStop) \in SpeedControllers
         /\ safeStop => UpdateLimit(c, safeStop).current = 0
         /\ c.current <= HalfLimit /\ c.target <= HalfLimit /\ c.ramp = None
              => /\ UpdateLimit(c, safeStop).current <= HalfLimit
                 /\ UpdateLimit(c, safeStop).target <= HalfLimit
                 /\ UpdateLimit(c, safeStop).ramp = None
<1> DEFINE e == Elapsed(c.ramp, RampTime)
           u == UpdateLimit(c, safeStop)
<1>0. e \in Int
  BY RampTimeAssumption DEF SpeedControllers, AgeUpTo, None, Ahead, Elapsed
<1>1. CASE safeStop
  BY <1>1, RampTimeAssumption DEF UpdateLimit, SpeedControllers, AgeUpTo, None, HalfLimit, FullLimit
<1>2. CASE ~safeStop /\ (c.ramp = None \/ e >= RampTime)
  <2>1. u = [c EXCEPT !.current = c.target, !.ramp = None]
    BY <1>2 DEF UpdateLimit
  <2> HIDE DEF e, u
  <2>2. u \in SpeedControllers
    BY <2>1, SpeedBounds DEF SpeedControllers
  <2>3. u.current = c.target /\ u.target = c.target /\ u.ramp = None
    BY <2>1 DEF SpeedControllers
  <2>4. QED
    BY <1>2, <2>2, <2>3 DEF u
<1>3. CASE ~safeStop /\ c.ramp /= None /\ e < RampTime
  <2>1. e \in 0..(RampTime - 1)
    BY <1>3, RampTimeAssumption DEF SpeedControllers, AgeUpTo, None, Ahead, Elapsed
  <2>2. \E d \in {-RampTime, 0, RampTime} : c.target - HalfLimit = d
    BY RampTimeAssumption DEF SpeedControllers, HalfLimit, FullLimit
  <2>3. ((c.target - HalfLimit) * e) \div RampTime \in {-e, 0, e}
    <3>1. (RampTime * e) \div RampTime = e
      BY <2>1, RampTimeAssumption, ExactDivision
    <3>2. (RampTime * (-e)) \div RampTime = -e
      BY <2>1, RampTimeAssumption, ExactDivision
    <3>3. (RampTime * 0) \div RampTime = 0
      BY RampTimeAssumption, ExactDivision
    <3>4. (-RampTime) * e = RampTime * (-e) /\ 0 * e = RampTime * 0
      BY <2>1, RampTimeAssumption
    <3> HIDE DEF e
    <3>5. QED
      BY <2>2, <3>1, <3>2, <3>3, <3>4
  <2>4. HalfLimit + ((c.target - HalfLimit) * e) \div RampTime \in 0..FullLimit
    <3> HIDE DEF e
    <3> QED
      BY <2>1, <2>3, RampTimeAssumption DEF HalfLimit, FullLimit
  <2>5. u = [c EXCEPT !.current = HalfLimit + ((c.target - HalfLimit) * e) \div RampTime]
    BY <1>0, <1>3, RampTimeAssumption DEF UpdateLimit
  <2> HIDE DEF e, u
  <2>6. u \in SpeedControllers
    BY <2>4, <2>5 DEF SpeedControllers
  <2>7. QED
    BY <1>3, <2>6 DEF u
<1>4. QED
  BY <1>0, <1>1, <1>2, <1>3, RampTimeAssumption

-------------------------------------------------------------------------------
(* The callbacks                                                           *)

\* A degraded sensor: whatever the limit was, it is slow afterwards.
LEMMA HandleSensorDegradedGood ==
  ASSUME NEW n \in Nodes, n.latched <=> n.mode = "SafeStop", n.stop => n.latched
  PROVE  Good(HandleSensorDegraded(n))
<1> DEFINE d == IF n.mode = "Moving" THEN TransitionTo(n, "Degraded") ELSE n
<1>1. PICK m \in Modes : d = [n EXCEPT !.mode = m] /\ (m = "SafeStop" <=> n.mode = "SafeStop")
  BY TransitionFrame DEF Nodes, Modes
<1>2. HandleSensorDegraded(n)
        = [d EXCEPT !.recovery.degraded = TRUE, !.speed = LimitOnDegraded(@)]
  BY DEF HandleSensorDegraded
<1> HIDE DEF d
<1>3. \A c : /\ LimitOnDegraded(c) \in SpeedControllers
             /\ LimitOnDegraded(c).current = HalfLimit
             /\ LimitOnDegraded(c).target = HalfLimit
             /\ LimitOnDegraded(c).ramp = None
  BY SpeedBounds DEF LimitOnDegraded, SpeedControllers
<1>4. PICK c \in SpeedControllers :
        /\ HandleSensorDegraded(n)
             = [n EXCEPT !.mode = m, !.recovery.degraded = TRUE, !.speed = c]
        /\ c.current = HalfLimit /\ c.target = HalfLimit /\ c.ramp = None
  <2>1. HandleSensorDegraded(n)
          = [n EXCEPT !.mode = m, !.recovery.degraded = TRUE,
                      !.speed = LimitOnDegraded(n.speed)]
    BY <1>1, <1>2 DEF Nodes
  <2>2. QED
    BY <1>3, <2>1
<1>5. HandleSensorDegraded(n) \in Nodes
  <2> DEFINE r == [n.recovery EXCEPT !.degraded = TRUE]
  <2>1. r \in Managers
    BY DEF Nodes, Managers
  <2>2. HandleSensorDegraded(n) = [n EXCEPT !.mode = m, !.recovery = r, !.speed = c]
    BY <1>4 DEF Nodes
  <2> HIDE DEF r
  <2>3. QED
    BY <2>1, <2>2 DEF Nodes
<1>6. QED
  BY <1>1, <1>4, <1>5, SpeedBounds DEF Good, Stopped, Slow, Nodes, Managers

\* A recovered sensor: the ramp only starts when no other sensor is degraded.
LEMMA HandleSensorRecoveredGood ==
  ASSUME NEW n, Good(n)
  PROVE  Good(HandleSensorRecovered(n))
<1> DEFINE d == IF n.mode = "Degraded" THEN TransitionTo(n, "Moving") ELSE n
<1>0. n \in Nodes
  BY DEF Good, Stopped
<1>1. CASE IsAnyDegraded(n.recovery)
  BY <1>1 DEF HandleSensorRecovered
<1>2. CASE ~IsAnyDegraded(n.recovery)
  <2>1. PICK m \in Modes \ {"Degraded"} :
          d = [n EXCEPT !.mode = m] /\ (m = "SafeStop" <=> n.mode = "SafeStop")
    BY <1>0 DEF TransitionTo, Allowed, Edges, Nodes, Modes, Good, Stopped
  <2>2. HandleSensorRecovered(n)
          = [d EXCEPT !.recovery.degraded = FALSE, !.speed = LimitOnRecovered(@)]
    BY <1>2 DEF HandleSensorRecovered
  <2> HIDE DEF d
  <2>3. \A c \in SpeedControllers : LimitOnRecovered(c) \in SpeedControllers
    BY SpeedBounds DEF LimitOnRecovered, SpeedControllers
  <2>4. ~IsAnyDegraded(HandleSensorRecovered(n).recovery)
    BY <1>0, <1>2, <2>1, <2>2 DEF IsAnyDegraded, Nodes, Managers
  <2>5. PICK c \in SpeedControllers :
          HandleSensorRecovered(n)
            = [n EXCEPT !.mode = m, !.recovery.degraded = FALSE, !.speed = c]
    BY <1>0, <2>1, <2>2, <2>3 DEF Nodes
  <2>6. HandleSensorRecovered(n) \in Nodes
    <3> DEFINE r == [n.recovery EXCEPT !.degraded = FALSE]
    <3>1. r \in Managers
      BY <1>0 DEF Nodes, Managers
    <3>2. HandleSensorRecovered(n) = [n EXCEPT !.mode = m, !.recovery = r, !.speed = c]
      BY <1>0, <2>5 DEF Nodes
    <3> HIDE DEF r
    <3>3. QED
      BY <1>0, <2>1, <3>1, <3>2 DEF Nodes
  <2>7. QED
    BY <1>0, <2>1, <2>4, <2>5, <2>6 DEF Good, Stopped, Slow, Nodes, Managers
<1>3. QED
  BY <1>1, <1>2

\* A sensor's report: the update of the manager, then the handler it asks for.
LEMMA OnSensorHealthGood ==
  ASSUME Good(node), NEW s \in Sensors, NEW status \in Statuses, OnSensorHealth(s, status)
  PROVE  Good(node')
<1> DEFINE n == [node EXCEPT !.recovery = ProcessHealthMsg(@, s, status)]
           t == HealthTransition(node.recovery, s, status)
<1>1. node \in Nodes /\ node.recovery \in Managers
  BY DEF Good, Stopped, Nodes
<1>2. /\ n \in Nodes
      /\ n.latched <=> n.mode = "SafeStop"
      /\ n.stop => n.latched
      /\ n.mode = "Degraded" => n.recovery.degraded
  BY <1>1, ProcessHealthMsgFrame DEF Good, Stopped, Nodes
<1>3. t /= "kDegraded" => Good(n)
  BY <1>1, <1>2, ProcessHealthMsgFrame DEF Good, Stopped, Slow, Nodes
<1>4. node' = IF t = "kDegraded" THEN HandleSensorDegraded(n)
              ELSE IF t = "kRecovered" THEN HandleSensorRecovered(n)
              ELSE n
  BY DEF OnSensorHealth
<1> HIDE DEF n, t
<1>5. QED
  BY <1>2, <1>3, <1>4, HandleSensorDegradedGood, HandleSensorRecoveredGood

\* A summary changes nothing a good node is about.
LEMMA OnSummaryGood ==
  ASSUME Good(node), NEW status \in Statuses, OnSummary(status)
  PROVE  Good(node')
<1>1. 0 \in AgeUpTo(SensorTimeout + 1)
  BY SensorAssumption DEF AgeUpTo
<1>2. node' = [node EXCEPT !.recovery = UpdateSummary(@, status)]
  BY DEF OnSummary
<1>3. QED
  BY <1>1, <1>2 DEF UpdateSummary, IsAnyDegraded, Good, Stopped, Slow, Nodes, Managers

\* A zone report, the start from Idle included.
LEMMA OnEnvelopeGood ==
  ASSUME Good(node), NEW zone \in Zones, OnEnvelope(zone)
  PROVE  Good(node')
<1>1. \A m, target : Good(m) /\ target \in {"Moving", "AvoidingObstacle"}
        => Good(TransitionTo(m, target))
  BY TransitionGood DEF Modes
<1>2. \A m : Good(m) /\ m.mode \in {"Idle", "AvoidingObstacle"}
        => Good([TransitionTo(m, "Moving") EXCEPT !.stop = FALSE])
  <2> SUFFICES ASSUME NEW m, Good(m), m.mode \in {"Idle", "AvoidingObstacle"}
               PROVE  Good([TransitionTo(m, "Moving") EXCEPT !.stop = FALSE])
    OBVIOUS
  <2> DEFINE f == TransitionTo(m, "Moving")
             r == [f EXCEPT !.stop = FALSE]
  <2>1. Good(f) /\ f \in Nodes
    BY <1>1 DEF Good, Stopped
  <2> HIDE DEF f
  <2>2. /\ r \in Nodes /\ ~r.stop /\ r.mode = f.mode /\ r.latched = f.latched
        /\ r.recovery = f.recovery /\ r.speed = f.speed
    BY <2>1 DEF Nodes
  <2> HIDE DEF r
  <2>3. Good(r)
    BY <2>1, <2>2 DEF Good, Stopped, Slow
  <2>4. QED
    BY <2>3 DEF r, f
<1>3. \A m : Good(m) => Good(HandleZoneTransition(m, zone))
  BY <1>1, <1>2, ForceStopGood DEF HandleZoneTransition, Good
<1>4. PICK n : Good(n) /\ node' = HandleZoneTransition(n, zone)
  BY <1>2 DEF OnEnvelope
<1>5. QED
  BY <1>3, <1>4

-------------------------------------------------------------------------------
(* timer_tick                                                              *)

\* observe_localization_age may pass through Degraded without
\* in_degraded_mode_; the node moves on to LocalizationLost at once.
LEMMA CheckLocalizationStalenessGood ==
  ASSUME NEW n, Good(n)
  PROVE  /\ Good(CheckLocalizationStaleness(n))
         /\ CheckLocalizationStaleness(n).recovery = n.recovery
         /\ n.mode = "SafeStop" => CheckLocalizationStaleness(n).mode = "SafeStop"
<1> DEFINE age == Elapsed(n.odom, 2 * LocTimeout)
           o   == ObserveLocalizationAge(n, age)
<1>0. n \in Nodes
  BY DEF Good, Stopped
<1>1. CASE n.odom = None
  BY <1>1 DEF CheckLocalizationStaleness
<1>2. CASE n.odom /= None /\ ~(age > LocTimeout)
  <2>1. age <= LocTimeout
    BY <1>0, <1>2, NodeAssumption DEF Nodes, AgeUpTo, Elapsed, None, Ahead
  <2>2. CheckLocalizationStaleness(n) = n
    BY <1>2, <2>1 DEF CheckLocalizationStaleness, ObserveLocalizationAge
  <2>3. QED
    BY <2>2
<1>3. CASE n.odom /= None /\ age > LocTimeout
  <2>1. ~(age <= LocTimeout)
    BY <1>0, <1>3, NodeAssumption DEF Nodes, AgeUpTo, Elapsed, None, Ahead
  <2>2. CheckLocalizationStaleness(n)
          = IF o.mode \notin {"LocalizationLost", "SafeStop"}
              THEN TransitionTo(o, "LocalizationLost")
              ELSE o
    BY <1>3 DEF CheckLocalizationStaleness
  <2>3. o = LatchFault(n) \/ o = TransitionTo(n, "Degraded")
    BY <2>1 DEF ObserveLocalizationAge, ProcessMonitorEvent, EscalateCritical, EscalateDegraded
  <2> HIDE DEF o, age
  <2>4. CASE o = LatchFault(n)
    <3>1. CheckLocalizationStaleness(n) = LatchFault(n)
      BY <1>0, <2>2, <2>4 DEF LatchFault, Nodes
    <3>2. LatchFault(n).mode = "SafeStop"
      BY <1>0 DEF LatchFault, Nodes
    <3>3. Stopped(n)
      BY DEF Good
    <3>4. QED
      BY <3>1, <3>2, <3>3, LatchGood
  <2>5. CASE o = TransitionTo(n, "Degraded")
    <3>1. PICK m \in Modes : /\ CheckLocalizationStaleness(n) = [n EXCEPT !.mode = m]
                             /\ m = "SafeStop" <=> n.mode = "SafeStop"
                             /\ m = "Degraded" => n.mode = "Degraded"
      <4>1. PICK k \in Modes : /\ o = [n EXCEPT !.mode = k]
                               /\ k \in {n.mode, "Degraded"}
                               /\ n.mode = "SafeStop" => k = "SafeStop"
        <5>1. n.mode \in Modes /\ "Degraded" \in Modes
          BY <1>0 DEF Nodes, Modes
        <5>2. QED
          BY <1>0, <2>5, <5>1, TransitionFrame
      <4>2. o \in Nodes /\ o.mode = k /\ o.latched = n.latched
        BY <1>0, <4>1 DEF Nodes
      <4>3. CASE n.mode = "SafeStop" \/ k = "LocalizationLost"
        <5>1. CheckLocalizationStaleness(n) = o
          BY <2>2, <4>1, <4>2, <4>3
        <5>2. QED
          BY <4>1, <4>3, <5>1
      <4>4. CASE n.mode /= "SafeStop" /\ k /= "LocalizationLost"
        <5>1. k /= "SafeStop"
          BY <4>1, <4>4
        <5>2. CheckLocalizationStaleness(n) = TransitionTo(o, "LocalizationLost")
          BY <2>2, <4>2, <4>4, <5>1
        <5>3. PICK m \in {k, "LocalizationLost"} :
                CheckLocalizationStaleness(n) = [o EXCEPT !.mode = m]
          BY <4>2, <5>2, TransitionFrame DEF Modes
        <5>4. CheckLocalizationStaleness(n) = [n EXCEPT !.mode = m]
          BY <1>0, <4>1, <5>3 DEF Nodes
        <5>5. k = "Degraded" =>
                CheckLocalizationStaleness(n) = [o EXCEPT !.mode = "LocalizationLost"]
          <6>1. ~o.latched
            BY <4>2, <4>4 DEF Good, Stopped
          <6>2. Allowed("Degraded", "LocalizationLost")
            BY DEF Allowed, Edges
          <6>3. QED
            BY <4>2, <5>2, <6>1, <6>2 DEF TransitionTo
        <5>6. CASE k = "Degraded"
          <6>1. CheckLocalizationStaleness(n) = [n EXCEPT !.mode = "LocalizationLost"]
            BY <1>0, <4>1, <5>5, <5>6 DEF Nodes
          <6>2. QED
            BY <4>4, <6>1 DEF Modes
        <5>7. CASE k /= "Degraded"
          BY <4>1, <4>4, <5>1, <5>4, <5>7 DEF Modes
        <5>8. QED
          BY <5>6, <5>7
      <4>5. QED
        BY <4>3, <4>4
    <3>2. QED
      BY <1>0, <3>1 DEF Good, Stopped, Slow, Nodes
  <2>6. QED
    BY <2>3, <2>4, <2>5
<1>4. QED
  BY <1>1, <1>2, <1>3

\* The "all" summary: stop, enter Degraded with its flag, or leave it.
LEMMA CheckSensorHealthGood ==
  ASSUME NEW n, Good(n)
  PROVE  /\ Good(CheckSensorHealth(n))
         /\ n.mode = "SafeStop" => CheckSensorHealth(n) = n
<1> DEFINE r == CheckSensorHealth(n)
<1>0. n \in Nodes
  BY DEF Good, Stopped
<1>1. CASE r = n
  BY <1>1
<1>2. CASE n.mode /= "SafeStop" /\ r = [ForceStop(n) EXCEPT !.recovery.degraded = FALSE]
  <2>1. Good(ForceStop(n)) /\ ForceStop(n).mode = "SafeStop"
    BY ForceStopGood DEF Good
  <2> DEFINE f == ForceStop(n)
             q == [f.recovery EXCEPT !.degraded = FALSE]
  <2>2. f \in Nodes /\ f.recovery \in Managers
    BY <2>1 DEF Good, Stopped, Nodes
  <2>3. r = [f EXCEPT !.recovery = q]
    BY <1>2, <2>2 DEF Nodes
  <2>4. q \in Managers /\ q.status = f.recovery.status
    BY <2>2 DEF Managers
  <2>5. IsAnyDegraded(q) <=> IsAnyDegraded(f.recovery)
    BY <2>4 DEF IsAnyDegraded
  <2> HIDE DEF q, f, r
  <2>6. /\ r \in Nodes /\ r.recovery = q /\ r.mode = f.mode
        /\ r.latched = f.latched /\ r.stop = f.stop /\ r.speed = f.speed
    BY <2>2, <2>3, <2>4 DEF Nodes
  <2>7. Good(f) /\ f.mode = "SafeStop"
    BY <2>1 DEF f
  <2>8. Good(r)
    BY <2>5, <2>6, <2>7 DEF Good, Stopped, Slow
  <2>9. QED
    BY <1>2, <2>8 DEF r
<1>3. CASE /\ n.mode /= "SafeStop"
           /\ \/ r = [TransitionTo(n, "Degraded") EXCEPT !.recovery.degraded = TRUE]
              \/ n.mode = "Degraded"
                 /\ r = [TransitionTo(n, "Moving") EXCEPT !.recovery.degraded = FALSE]
  <2>1. ~n.latched
    BY <1>3 DEF Good, Stopped
  <2>2. PICK m \in Modes \ {"SafeStop"}, flag \in BOOLEAN :
          /\ r = [n EXCEPT !.mode = m, !.recovery.degraded = flag]
          /\ m = "Degraded" => flag
    <3>1. ASSUME NEW target \in {"Degraded", "Moving"}
          PROVE  TransitionTo(n, target).mode \in Modes \ {"SafeStop"}
                 /\ TransitionTo(n, target) = [n EXCEPT !.mode = TransitionTo(n, target).mode]
      BY <1>0, <1>3 DEF TransitionTo, Nodes, Modes
    <3>2. n.mode = "Degraded" => TransitionTo(n, "Moving").mode = "Moving"
      BY <1>0, <2>1 DEF TransitionTo, Allowed, Edges, Nodes
    <3> HIDE DEF r
    <3>3. CASE r = [TransitionTo(n, "Degraded") EXCEPT !.recovery.degraded = TRUE]
      <4>1. r = [n EXCEPT !.mode = TransitionTo(n, "Degraded").mode, !.recovery.degraded = TRUE]
        BY <1>0, <3>1, <3>3 DEF Nodes
      <4>2. QED
        BY <3>1, <4>1
    <3>4. CASE n.mode = "Degraded"
               /\ r = [TransitionTo(n, "Moving") EXCEPT !.recovery.degraded = FALSE]
      <4>1. r = [n EXCEPT !.mode = TransitionTo(n, "Moving").mode, !.recovery.degraded = FALSE]
        BY <1>0, <3>1, <3>4 DEF Nodes
      <4>2. QED
        BY <3>1, <3>2, <3>4, <4>1
    <3>5. QED
      BY <1>3, <3>3, <3>4
  <2> HIDE DEF r
  <2>3. IsAnyDegraded(r.recovery) <=> IsAnyDegraded(n.recovery)
    BY <1>0, <2>2 DEF IsAnyDegraded, Nodes, Managers
  <2>4. r \in Nodes
    BY <1>0, <2>2 DEF Nodes, Managers
  <2>5. Good(r)
    BY <1>0, <1>3, <2>1, <2>2, <2>3, <2>4 DEF Good, Stopped, Slow, Nodes, Managers
  <2>6. QED
    BY <1>3, <2>5 DEF r
<1>4. QED
  BY <1>1, <1>2, <1>3
  DEF CheckSensorHealth, StopOnFault, EnterDegraded, LeaveDegraded

\* A sensor that has been degraded for too long.
LEMMA CheckSensorRecoveryTimeoutsGood ==
  ASSUME NEW n, Good(n), NEW s \in Sensors
  PROVE  /\ Good(CheckSensorRecoveryTimeouts(n, s))
         /\ n.mode = "SafeStop" => CheckSensorRecoveryTimeouts(n, s) = n
<1> DEFINE r == CheckSensorRecoveryTimeouts(n, s)
<1>1. CASE r = n
  BY <1>1
<1>2. CASE n.mode /= "SafeStop"
           /\ r = [ForceStop(n) EXCEPT !.recovery = [TimeOut(@, s) EXCEPT !.degraded = FALSE]]
  <2>1. Good(ForceStop(n)) /\ ForceStop(n).mode = "SafeStop" /\ ForceStop(n) \in Nodes
    BY ForceStopGood DEF Good, Stopped
  <2>2. r = [ForceStop(n) EXCEPT
               !.recovery = [TimeOut(ForceStop(n).recovery, s) EXCEPT !.degraded = FALSE]]
    BY <1>2
  <2>3. r.recovery \in Managers
        /\ (IsAnyDegraded(r.recovery) <=> IsAnyDegraded(ForceStop(n).recovery))
    BY <2>1, <2>2, TimeOutFrame DEF Nodes
  <2> HIDE DEF r
  <2>4. Good(r)
    BY <2>1, <2>2, <2>3 DEF Good, Stopped, Slow, Nodes
  <2>5. QED
    BY <1>2, <2>4 DEF r
<1>3. QED
  BY <1>1, <1>2 DEF CheckSensorRecoveryTimeouts

\* The speed limit of the tick: zero in SafeStop.
LEMMA UpdateSpeedLimitGood ==
  ASSUME NEW n, Good(n)
  PROVE  /\ Good(UpdateSpeedLimit(n))
         /\ UpdateSpeedLimit(n) = [n EXCEPT !.speed = UpdateSpeedLimit(n).speed]
         /\ UpdateSpeedLimit(n).speed.current \in 0..FullLimit
         /\ n.mode = "SafeStop" => UpdateSpeedLimit(n).speed.current = 0
<1> DEFINE u == UpdateLimit(n.speed, n.mode = "SafeStop")
<1>0. n \in Nodes /\ n.speed \in SpeedControllers
  BY DEF Good, Stopped, Nodes
<1>1. /\ u \in SpeedControllers
      /\ n.mode = "SafeStop" => u.current = 0
      /\ n.speed.current <= HalfLimit /\ n.speed.target <= HalfLimit /\ n.speed.ramp = None
           => u.current <= HalfLimit /\ u.target <= HalfLimit /\ u.ramp = None
  BY <1>0, UpdateLimitFrame
<1>2. UpdateSpeedLimit(n) = [n EXCEPT !.speed = u]
  BY DEF UpdateSpeedLimit
<1> HIDE DEF u
<1>3. u.current \in 0..FullLimit
  BY <1>1 DEF SpeedControllers
<1>4. QED
  BY <1>0, <1>1, <1>2, <1>3 DEF Good, Stopped, Slow, Nodes

\* The clock check may latch, and never unlatches.
LEMMA ObserveClockSampleGood ==
  ASSUME NEW n, Good(n)
  PROVE  Good(ObserveClockSample(n)) /\ (n.latched => ObserveClockSample(n).latched)
         /\ ObserveClockSample(n).stop = n.stop
<1>1. 0 \in AgeUpTo(0)
  BY DEF AgeUpTo
<1>2. PICK m : m \in {n, LatchFault(n)} /\ ObserveClockSample(n) = [m EXCEPT !.lastSample = 0]
  BY DEF ObserveClockSample, ProcessMonitorEvent, EscalateCritical
<1>3. Good(m) /\ m.stop = n.stop /\ (n.latched => m.latched)
  <2>1. CASE m = n
    BY <2>1
  <2>2. CASE m = LatchFault(n)
    BY <2>2, LatchGood DEF Good, LatchFault, Stopped, Nodes
  <2>3. QED
    BY <1>2, <2>1, <2>2
<1>4. QED
  BY <1>1, <1>2, <1>3 DEF Good, Stopped, Slow, Nodes

\* What one tick does: it keeps the node good, and publishes a state that is
\* consistent with the node it leaves.
LEMMA TimerTickGood ==
  ASSUME Good(node), TimerTick
  PROVE  /\ Good(node') /\ published' \in Messages
         /\ published'.stop => published'.latched
         /\ published'.latched = node'.latched
         /\ node.mode = "SafeStop" =>
              /\ published'.latched /\ published'.stop /\ published'.limit = 0
              /\ node'.mode = "SafeStop"
<1>1. PICK s \in Sensors :
        LET checked == CheckSensorHealth(CheckLocalizationStaleness(node))
            limited == UpdateSpeedLimit(CheckSensorRecoveryTimeouts(checked, s))
            final   == ObserveClockSample(limited)
        IN  /\ node' = final
            /\ published' = StateMessages(node, final, limited.speed)
  BY DEF TimerTick
<1> DEFINE located == CheckLocalizationStaleness(node)
           checked == CheckSensorHealth(located)
           timed   == CheckSensorRecoveryTimeouts(checked, s)
           limited == UpdateSpeedLimit(timed)
           final   == ObserveClockSample(limited)
<1>2. Good(located) /\ (node.mode = "SafeStop" => located.mode = "SafeStop")
  BY CheckLocalizationStalenessGood
<1> HIDE DEF located
<1>3. Good(checked) /\ (node.mode = "SafeStop" => checked.mode = "SafeStop")
  BY <1>2, CheckSensorHealthGood
<1> HIDE DEF checked
<1>4. Good(timed) /\ (node.mode = "SafeStop" => timed.mode = "SafeStop")
  BY <1>3, CheckSensorRecoveryTimeoutsGood
<1> HIDE DEF timed
<1>5. /\ Good(limited) /\ limited.speed.current \in 0..FullLimit
      /\ node.mode = "SafeStop" => limited.mode = "SafeStop" /\ limited.speed.current = 0
  BY <1>4, UpdateSpeedLimitGood DEF Good, Stopped, Nodes
<1> HIDE DEF limited
<1>6. /\ Good(final) /\ final.stop = limited.stop
      /\ limited.latched => final.latched
  BY <1>5, ObserveClockSampleGood
<1> HIDE DEF final
<1>7. /\ node' = final
      /\ published' = [mode    |-> node.mode,
                       latched |-> final.latched,
                       stop    |-> final.stop \/ node.mode = "SafeStop",
                       limit   |-> limited.speed.current]
  BY <1>1 DEF StateMessages, final, limited, timed, checked, located
<1>8. node.mode = "SafeStop" => final.latched /\ final.mode = "SafeStop"
  BY <1>5, <1>6 DEF Good, Stopped
<1>9. final.stop \in BOOLEAN /\ final.latched \in BOOLEAN /\ node.mode \in Modes
      /\ (final.stop => final.latched)
  BY <1>6 DEF Good, Stopped, Nodes
<1>10. QED
  BY <1>5, <1>6, <1>7, <1>8, <1>9 DEF Messages

-------------------------------------------------------------------------------
(* The clock                                                               *)

\* Ages stay within their cap.
LEMMA AgesStay ==
  \A cap \in Nat : \A a \in AgeUpTo(cap) :
     /\ Older(a, cap) \in AgeUpTo(cap) /\ (a = None => Older(a, cap) = None)
     /\ Overtaken(a) \in AgeUpTo(cap) /\ (a = None => Overtaken(a) = None)
  BY DEF AgeUpTo, Older, Overtaken, None, Ahead

\* Neither the passing of time nor a clock set back changes what Good is about.
LEMMA ClockGood ==
  ASSUME Good(node), TimePasses \/ ClockSetBack
  PROVE  Good(node')
<1>0. node \in Nodes
  BY DEF Good, Stopped
<1>1. /\ 2 * LocTimeout \in Nat /\ SensorTimeout + 1 \in Nat /\ RecoveryTimeout + 1 \in Nat
      /\ RampTime \in Nat /\ 0 \in Nat
  BY NodeAssumption, SensorAssumption, RampTimeAssumption, SMTT(30)
<1>2. PICK odom \in AgeUpTo(2 * LocTimeout), sample \in AgeUpTo(0),
           heard \in AgeUpTo(SensorTimeout + 1),
           since \in [Sensors -> AgeUpTo(RecoveryTimeout + 1)],
           ramp \in AgeUpTo(RampTime) :
        /\ node.speed.ramp = None => ramp = None
        /\ node' = [node EXCEPT !.odom = odom, !.lastSample = sample,
                                !.recovery.heard = heard, !.recovery.since = since,
                                !.speed.ramp = ramp]
  <2>1. CASE TimePasses
    <3>1. node' = [node EXCEPT
            !.odom           = Older(node.odom, 2 * LocTimeout),
            !.lastSample     = node.lastSample,
            !.recovery.heard = Older(node.recovery.heard, SensorTimeout + 1),
            !.recovery.since = [s \in Sensors |->
                                  Older(node.recovery.since[s], RecoveryTimeout + 1)],
            !.speed.ramp     = Older(node.speed.ramp, RampTime)]
      BY <1>0, <2>1, ZenonT(30) DEF TimePasses, Nodes, Managers, SpeedControllers
    <3>2. /\ Older(node.odom, 2 * LocTimeout) \in AgeUpTo(2 * LocTimeout)
          /\ node.lastSample \in AgeUpTo(0)
          /\ Older(node.recovery.heard, SensorTimeout + 1) \in AgeUpTo(SensorTimeout + 1)
          /\ [s \in Sensors |-> Older(node.recovery.since[s], RecoveryTimeout + 1)]
               \in [Sensors -> AgeUpTo(RecoveryTimeout + 1)]
          /\ Older(node.speed.ramp, RampTime) \in AgeUpTo(RampTime)
          /\ node.speed.ramp = None => Older(node.speed.ramp, RampTime) = None
      BY <1>0, <1>1, AgesStay DEF Nodes, Managers, SpeedControllers
    <3>3. QED
      BY <3>1, <3>2
  <2>2. CASE ClockSetBack
    <3>1. node' = [node EXCEPT
            !.odom           = Overtaken(node.odom),
            !.lastSample     = Overtaken(node.lastSample),
            !.recovery.heard = Overtaken(node.recovery.heard),
            !.recovery.since = [s \in Sensors |-> Overtaken(node.recovery.since[s])],
            !.speed.ramp     = Overtaken(node.speed.ramp)]
      BY <1>0, <2>2, ZenonT(30) DEF ClockSetBack, Nodes, Managers, SpeedControllers
    <3>2. /\ Overtaken(node.odom) \in AgeUpTo(2 * LocTimeout)
          /\ Overtaken(node.lastSample) \in AgeUpTo(0)
          /\ Overtaken(node.recovery.heard) \in AgeUpTo(SensorTimeout + 1)
          /\ [s \in Sensors |-> Overtaken(node.recovery.since[s])]
               \in [Sensors -> AgeUpTo(RecoveryTimeout + 1)]
          /\ Overtaken(node.speed.ramp) \in AgeUpTo(RampTime)
          /\ node.speed.ramp = None => Overtaken(node.speed.ramp) = None
      BY <1>0, <1>1, AgesStay DEF Nodes, Managers, SpeedControllers
    <3>3. QED
      BY <3>1, <3>2
  <2>3. QED
    BY <2>1, <2>2, ZenonT(60)
<1>3. node' \in Nodes
  BY <1>0, <1>2 DEF Nodes, Managers, SpeedControllers
<1>4. /\ node'.mode = node.mode /\ node'.latched = node.latched /\ node'.stop = node.stop
      /\ node'.recovery.status = node.recovery.status
      /\ node'.recovery.degraded = node.recovery.degraded
      /\ node'.speed.current = node.speed.current /\ node'.speed.target = node.speed.target
      /\ node'.speed.ramp = ramp
  BY <1>0, <1>2 DEF Nodes, Managers, SpeedControllers
<1>5. IsAnyDegraded(node'.recovery) <=> IsAnyDegraded(node.recovery)
  BY <1>4 DEF IsAnyDegraded
<1>6. QED
  BY <1>2, <1>3, <1>4, <1>5 DEF Good, Stopped, Slow

-------------------------------------------------------------------------------
(* The specification                                                       *)

\* The constructor establishes the invariant.
LEMMA InitInv == Init => Inv
<1> SUFFICES ASSUME Init PROVE Inv
  OBVIOUS
<1>1. NewManager \in Managers /\ ~IsAnyDegraded(NewManager)
  BY DEF NewManager, Managers, IsAnyDegraded, Statuses, AgeUpTo
<1>2. NewSpeedController \in SpeedControllers /\ FullLimit \in 0..FullLimit
  BY SpeedBounds DEF NewSpeedController, SpeedControllers
<1>3. QED
  BY <1>1, <1>2
  DEF Init, Inv, Good, Stopped, Slow, Nodes, Messages, Modes, AgeUpTo

\* One step per callback; only the tick publishes.
LEMMA StepInv == Inv /\ [Next]_vars => Inv'
<1> SUFFICES ASSUME Inv, [Next]_vars
             PROVE  Inv'
  OBVIOUS
<1>1. Good(node) /\ node \in Nodes
  BY DEF Inv, Good, Stopped
<1>2. CASE OnOdom
  <2>1. PICK age \in AgeUpTo(2 * LocTimeout) : node' = [node EXCEPT !.odom = age]
    BY <1>2, NodeAssumption DEF OnOdom, AgeUpTo
  <2>2. Good(node')
    BY <1>1, <2>1 DEF Good, Stopped, Slow, Nodes
  <2>3. QED
    BY <1>2, <2>2 DEF OnOdom, Inv
<1>3. ASSUME NEW zone \in ZoneReports, OnEnvelope(zone)
      PROVE  Inv'
  BY <1>1, <1>3, OnEnvelopeGood, NodeAssumption DEF OnEnvelope, Inv
<1>4. ASSUME NEW s \in Sensors, NEW status \in StatusReports, OnSensorHealth(s, status)
      PROVE  Inv'
  BY <1>1, <1>4, OnSensorHealthGood, NodeAssumption DEF OnSensorHealth, Inv
<1>5. ASSUME NEW status \in SummaryReports, OnSummary(status)
      PROVE  Inv'
  BY <1>1, <1>5, OnSummaryGood, NodeAssumption DEF OnSummary, Inv
<1>6. CASE OnClearFault
  <2>1. Good(node')
    BY <1>1, <1>6 DEF OnClearFault, Good, Stopped, Slow, Nodes, Modes
  <2>2. QED
    BY <1>6, <2>1 DEF OnClearFault, Inv
<1>7. CASE TimerTick
  BY <1>1, <1>7, TimerTickGood DEF Inv
<1>8. CASE TimePasses \/ ClockSetBack
  BY <1>1, <1>8, ClockGood DEF TimePasses, ClockSetBack, Inv
<1>9. CASE UNCHANGED vars
  BY <1>9 DEF vars, Inv, Good, Stopped, Slow
<1>10. QED
  BY <1>2, <1>3, <1>4, <1>5, <1>6, <1>7, <1>8, <1>9 DEF Next, Receive

\* Every state the node can be in is good.
THEOREM Invariance == Spec => []Inv
<1>1. QED
  BY InitInv, StepInv, PTL DEF Spec

\* The members and messages of the node keep their types.
THEOREM TypeCorrect == Spec => []TypeOK
<1>1. Inv => TypeOK
  BY DEF Inv, Good, Stopped, TypeOK
<1>2. QED
  BY Invariance, <1>1, PTL

\* The fault latch and SafeStop never come apart, in any callback order.
THEOREM LatchedIffStoppedCorrect == Spec => []LatchedIffStopped
<1>1. Inv => LatchedIffStopped
  BY DEF Inv, Good, Stopped, LatchedIffStopped
<1>2. QED
  BY Invariance, <1>1, PTL

\* safe_stop_requested_ never outlives its fault.
THEOREM StopNeedsFaultCorrect == Spec => []StopNeedsFault
<1>1. Inv => StopNeedsFault
  BY DEF Inv, Good, Stopped, StopNeedsFault
<1>2. QED
  BY Invariance, <1>1, PTL

\* With any number of sensors, a DEGRADED one keeps the limit at half speed.
THEOREM DegradedIsSlowCorrect == Spec => []DegradedIsSlow
<1>1. Inv => DegradedIsSlow
  BY DEF Inv, Good, Stopped, Slow, DegradedIsSlow
<1>2. QED
  BY Invariance, <1>1, PTL

\* Degraded mode always carries the flag that lets the node leave it.
THEOREM DegradedCanRecoverCorrect == Spec => []DegradedCanRecover
<1>1. Inv => DegradedCanRecover
  BY DEF Inv, Good, DegradedCanRecover
<1>2. QED
  BY Invariance, <1>1, PTL

\* A stop is never published without its fault.
THEOREM StopMessageHasFaultCorrect == Spec => []StopMessageHasFault
<1>1. Inv => StopMessageHasFault
  BY DEF Inv, StopMessageHasFault
<1>2. QED
  BY Invariance, <1>1, PTL

\* The tick after a fault announces fault, stop and a zero limit.
THEOREM StopAnnouncedCorrect == Spec => StopAnnounced
<1>1. Inv /\ [Next]_vars =>
        [TimerTick /\ node.latched =>
           published'.latched /\ published'.stop /\ published'.limit = 0]_vars
  <2> SUFFICES ASSUME Inv, TimerTick, node.latched
               PROVE  published'.latched /\ published'.stop /\ published'.limit = 0
    OBVIOUS
  <2>1. Good(node) /\ node.mode = "SafeStop"
    BY DEF Inv, Good, Stopped
  <2>2. QED
    BY <2>1, TimerTickGood
<1>2. QED
  BY Invariance, <1>1, PTL DEF Spec, StopAnnounced

\* A step that leaves SafeStop is a granted clear_fault, and drops everything.
THEOREM OnlyClearResumesCorrect == Spec => OnlyClearResumes
<1>1. ASSUME Inv, [Next]_vars, node.mode = "SafeStop", node'.mode /= "SafeStop"
      PROVE  node.latched /\ node'.mode = "Idle" /\ ~node'.latched /\ ~node'.stop
  <2>1. Good(node) /\ node \in Nodes
    BY <1>1 DEF Inv, Good, Stopped
  <2>2. ~OnOdom
    BY <1>1, <2>1 DEF OnOdom, Nodes
  <2>3. ASSUME NEW zone \in ZoneReports, OnEnvelope(zone)
        PROVE  FALSE
    <3>1. node' = HandleZoneTransition(node, zone)
      BY <1>1, <2>3 DEF OnEnvelope
    <3>2. node' = ForceStop(node) \/ node' = node
      BY <1>1, <3>1 DEF HandleZoneTransition
    <3>3. QED
      BY <1>1, <2>1, <3>2, ForceStopGood DEF Good
  <2>4. ASSUME NEW s \in Sensors, NEW status \in StatusReports, OnSensorHealth(s, status)
        PROVE  FALSE
    <3>1. PICK n \in Nodes :
            /\ n.mode = "SafeStop"
            /\ node' \in {HandleSensorDegraded(n), HandleSensorRecovered(n), n}
      <4>1. [node EXCEPT !.recovery = ProcessHealthMsg(@, s, status)] \in Nodes
        BY <2>1, ProcessHealthMsgFrame, NodeAssumption DEF Nodes
      <4>2. QED
        BY <1>1, <2>1, <2>4, <4>1 DEF OnSensorHealth, Nodes
    <3>2. HandleSensorDegraded(n).mode = "SafeStop" /\ HandleSensorRecovered(n).mode = "SafeStop"
      BY <3>1 DEF HandleSensorDegraded, HandleSensorRecovered, Nodes
    <3>3. QED
      BY <1>1, <3>1, <3>2
  <2>5. ASSUME NEW status \in SummaryReports, OnSummary(status)
        PROVE  FALSE
    BY <1>1, <2>1, <2>5 DEF OnSummary, Nodes
  <2>6. CASE OnClearFault
    BY <2>1, <2>6 DEF OnClearFault, Nodes
  <2>7. ~TimerTick
    BY <1>1, <2>1, TimerTickGood
  <2>8. ~TimePasses /\ ~ClockSetBack
    BY <1>1, <2>1 DEF TimePasses, ClockSetBack, Nodes
  <2>9. QED
    BY <1>1, <2>2, <2>3, <2>4, <2>5, <2>6, <2>7, <2>8 DEF Next, Receive, vars
<1>2. Inv /\ [Next]_vars =>
        [node.mode = "SafeStop" /\ node'.mode /= "SafeStop" =>
           node.latched /\ node'.mode = "Idle" /\ ~node'.latched /\ ~node'.stop]_vars
  BY <1>1
<1>3. QED
  BY Invariance, <1>2, PTL DEF Spec, OnlyClearResumes
===============================================================================
