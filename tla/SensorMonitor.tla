----------------------------- MODULE SensorMonitor -----------------------------
(***************************************************************************)
(* SensorMonitorNode: for each sensor the arrival times of the last        *)
(* publish period, and a timer that turns rate and age into a status.      *)
(* Stamps are the node's own clock readings, kept as ages; the clock does  *)
(* not go back here.                                                       *)
(*                                                                         *)
(* A sensor sends at most one message per clock unit.  The metrics of      *)
(* publish_metrics, which nothing in the system reads, are left out.       *)
(***************************************************************************)
EXTENDS Ages, Sequences, FiniteSets

CONSTANTS
  Order,             \* the sensors, in the order they are reported
  Period,            \* of each sensor: 1 / expected_rate_hz
  PublishPeriod,     \* publish_period_s
  Grace,             \* kStartupGracePeriodS
  HealthyPercent,    \* healthy_threshold and degraded_threshold, times 100
  DegradedPercent

Monitored == { Order[i] : i \in DOMAIN Order }

\* What the constructor lets pass: it throws without a publish period, clamps
\* each threshold and only warns when they are the wrong way round.
ValidParams == PublishPeriod > 0 /\ HealthyPercent \in 0..100 /\ DegradedPercent \in 0..100

ASSUME MonitorAssumption ==
  /\ Order \in Seq(Monitored) /\ Order /= << >>
  /\ Period \in [Monitored -> Nat \ {0}]
  /\ {PublishPeriod, Grace} \subseteq Nat
  /\ ValidParams

VARIABLES
  trackers,   \* a SensorTracker for each sensor
  up          \* age of startup_time_

monitorVars == <<trackers, up>>

Oldest(s) == 5 * Period[s]

\* msg_times, as ages, and the age of last_msg_time_ns.  A stamp is dropped as
\* soon as prune_window would drop it: statuses are only computed after pruning.
Trackers(s) == [last : AgeUpTo(Oldest(s)), stamps : SUBSET (0..PublishPeriod)]

MonitorTypeOK ==
  /\ \A s \in Monitored : trackers[s] \in Trackers(s)
  /\ up \in 0..Grace

MonitorInit ==
  /\ trackers = [s \in Monitored |-> [last |-> None, stamps |-> {}]]
  /\ up = 0

-------------------------------------------------------------------------------
\* on_scan, on_imu, on_gps and on_odom: record_message.
OnMessage(s) ==
  /\ trackers[s].last /= 0
  /\ trackers' = [trackers EXCEPT ![s].last = 0, ![s].stamps = @ \cup {0}]
  /\ UNCHANGED up

\* Seeded bug: a message exactly as old as its window is not counted.
CountInside(t) == Cardinality(t.stamps \ {PublishPeriod})

Count(t) == Cardinality(t.stamps)

RateAtLeast(s, t, percent) == 100 * Count(t) * Period[s] >= percent * PublishPeriod

\* Seeded bug: the status follows the rate of the last window alone.
StatusByRate(s, t) ==
  IF t.last = None THEN "UNKNOWN"
  ELSE IF RateAtLeast(s, t, HealthyPercent) \/ RateAtLeast(s, t, DegradedPercent) THEN "HEALTHY"
  ELSE "DEGRADED"

\* build_sensor_msg
Status(s, t) ==
  IF t.last = None THEN "UNKNOWN"
  ELSE IF RateAtLeast(s, t, HealthyPercent) /\ t.last < 2 * Period[s] THEN "HEALTHY"
  ELSE IF RateAtLeast(s, t, DegradedPercent) /\ t.last < 5 * Period[s] THEN "DEGRADED"
  ELSE "FAULT"

\* The order of the message's constants.
Severity == [UNKNOWN |-> 0, HEALTHY |-> 1, DEGRADED |-> 2, FAULT |-> 3]

Worst(statuses) == CHOOSE st \in statuses : \A other \in statuses : Severity[other] <= Severity[st]

\* What a tick publishes: a message for each sensor, then the one named "all".
Burst(t) ==
  LET status == [s \in Monitored |-> Status(s, t[s])]
  IN  Append([i \in DOMAIN Order |-> <<Order[i], status[Order[i]]>>],
             <<"all", Worst({ status[s] : s \in Monitored })>>)

\* Seeded bug: reports start at once.
NoGrace == TRUE

GraceOver == up = Grace

\* What timer_tick publishes.
Publications == IF GraceOver THEN Burst(trackers) ELSE << >>

-------------------------------------------------------------------------------
MonitorTimePasses ==
  /\ trackers' = [s \in Monitored |->
       [last   |-> Older(trackers[s].last, Oldest(s)),
        stamps |-> { a + 1 : a \in trackers[s].stamps } \ {PublishPeriod + 1}]]
  /\ up' = Older(up, Grace)
===============================================================================
