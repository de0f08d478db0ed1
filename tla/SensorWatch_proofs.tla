-------------------------- MODULE SensorWatch_proofs --------------------------
(***************************************************************************)
(* Proofs about the monitor and the supervisor joined by the health topic, *)
(* for any sensors, periods, thresholds and history depth.                 *)
(***************************************************************************)
EXTENDS SensorWatch, FiniteSetTheorems, SequenceTheorems, TLAPS

\* The assumptions of the supervisor's module, spelled out: what is proved of it
\* may be used here.
LEMMA NodeParameters ==
  /\ Monitored /= {} /\ SensorTimeout \in Nat /\ RecoveryTimeout \in Nat
  /\ RampTime \in Nat \ {0}
  /\ LocTimeout \in Nat \ {0} /\ AutoRecover \in BOOLEAN
  /\ OdomAges \subseteq {Supervisor!Ahead} \cup 0..(2 * LocTimeout)
  /\ ZoneReports \subseteq Supervisor!Zones
  /\ {} \subseteq Supervisor!Statuses /\ FALSE \in BOOLEAN
BY WatchAssumption
DEF Supervisor!SensorAssumption, Supervisor!RampTimeAssumption, Supervisor!NodeAssumption

-------------------------------------------------------------------------------
(* What the monitor publishes                                              *)

\* The summary is one of the statuses it summarises.
LEMMA WorstIsOne ==
  ASSUME NEW S \in SUBSET Supervisor!Statuses, S /= {}
  PROVE  Worst(S) \in S
<1>1. \E st \in S : \A other \in S : Severity[other] <= Severity[st]
  <2>1. CASE "FAULT" \in S
    BY <2>1 DEF Severity, Supervisor!Statuses
  <2>2. CASE "FAULT" \notin S /\ "DEGRADED" \in S
    BY <2>2 DEF Severity, Supervisor!Statuses
  <2>3. CASE S \subseteq {"UNKNOWN", "HEALTHY"} /\ "HEALTHY" \in S
    BY <2>3 DEF Severity
  <2>4. CASE S = {"UNKNOWN"}
    BY <2>4 DEF Severity
  <2>5. QED
    BY <2>1, <2>2, <2>3, <2>4 DEF Supervisor!Statuses
<1>2. QED
  BY <1>1 DEF Worst

\* Every sensor's message precedes the summary, and says its status.
LEMMA BurstMessages ==
  /\ Burst(trackers) \in Seq(Reports)
  /\ \A i \in DOMAIN Burst(trackers) :
       \/ \E s \in Monitored : Burst(trackers)[i] = <<s, Status(s, trackers[s])>>
       \/ Burst(trackers)[i] = <<"all", Worst({ Status(s, trackers[s]) : s \in Monitored })>>
<1> DEFINE status == [s \in Monitored |-> Status(s, trackers[s])]
           each == [i \in DOMAIN Order |-> <<Order[i], status[Order[i]]>>]
           all == <<"all", Worst({ status[s] : s \in Monitored })>>
<1>1. \A s \in Monitored : status[s] \in Supervisor!Statuses
  BY DEF Status, Supervisor!Statuses
<1>2. Monitored /= {}
  BY NodeParameters
<1>3. { status[s] : s \in Monitored } \in SUBSET Supervisor!Statuses
      /\ { status[s] : s \in Monitored } /= {}
  BY <1>1, <1>2
<1>4. all \in Reports
  BY <1>3, WorstIsOne DEF Reports
<1>5. DOMAIN Order = 1..Len(Order) /\ Len(Order) \in Nat
      /\ \A i \in DOMAIN Order : Order[i] \in Monitored
  BY MonitorAssumption DEF Monitored
<1>6. each \in Seq(Reports) /\ Len(each) = Len(Order)
  <2>1. \A i \in 1..Len(Order) : each[i] \in Reports
    BY <1>1, <1>5 DEF Reports
  <2>2. each = [i \in 1..Len(Order) |-> each[i]]
    BY <1>5
  <2> HIDE DEF each
  <2>3. QED
    BY <1>5, <2>1, <2>2
<1>7. \A i \in 1..Len(each) : \E s \in Monitored : each[i] = <<s, Status(s, trackers[s])>>
  BY <1>5, <1>6
<1>8. { status[s] : s \in Monitored } = { Status(s, trackers[s]) : s \in Monitored }
  OBVIOUS
<1>9. Burst(trackers) = Append(each, all)
  BY DEF Burst
<1>10. all = <<"all", Worst({ Status(s, trackers[s]) : s \in Monitored })>>
  BY <1>8
<1> HIDE DEF each, all
<1>11. /\ Append(each, all) \in Seq(Reports) /\ Len(Append(each, all)) = Len(each) + 1
       /\ \A i \in 1..Len(each) : Append(each, all)[i] = each[i]
       /\ Append(each, all)[Len(each) + 1] = all
  BY <1>4, <1>6, AppendProperties
<1>12. DOMAIN Append(each, all) = 1..(Len(each) + 1) /\ Len(each) \in Nat
  BY <1>5, <1>6, <1>11, LenProperties
<1>13. \A i \in 1..(Len(each) + 1) : i \in 1..Len(each) \/ i = Len(each) + 1
  BY <1>12
<1>14. QED
  BY <1>7, <1>9, <1>10, <1>11, <1>12, <1>13

\* What the history keeps of a topic was in the topic.
LEMMA LastKeeps ==
  ASSUME NEW S, NEW topic \in Seq(S)
  PROVE  /\ Last(topic) \in Seq(S) /\ Len(Last(topic)) <= HealthDepth
         /\ \A j \in DOMAIN Last(topic) : \E i \in DOMAIN topic : Last(topic)[j] = topic[i]
<1> DEFINE n == Len(topic)
           m == n - HealthDepth + 1
<1>1. n \in Nat /\ DOMAIN topic = 1..n /\ \A i \in 1..n : topic[i] \in S
  BY LenProperties
<1>2. HealthDepth \in Nat \ {0}
  BY WatchAssumption
<1>3. CASE n <= HealthDepth
  <2>1. Last(topic) = topic
    BY <1>3 DEF Last
  <2>2. QED
    BY <1>3, <2>1
<1>4. CASE ~(n <= HealthDepth)
  <2>1. m \in 1..n
    BY <1>1, <1>2, <1>4
  <2>2. Last(topic) = SubSeq(topic, m, n)
    BY <1>4 DEF Last
  <2> HIDE DEF n, m
  <2>3. /\ SubSeq(topic, m, n) \in Seq(S) /\ Len(SubSeq(topic, m, n)) = n - m + 1
        /\ \A j \in 1..(n - m + 1) : SubSeq(topic, m, n)[j] = topic[m + j - 1]
    <3>1. m \in Int /\ n \in Int /\ m <= n /\ \A i \in m..n : topic[i] \in S
      BY <1>1, <2>1
    <3>2. QED
      BY <3>1, SubSeqProperties
  <2>4. n - m + 1 = HealthDepth
    BY <1>1, <1>2 DEF n, m
  <2>5. DOMAIN SubSeq(topic, m, n) = 1..(n - m + 1)
    BY <2>3, LenProperties
  <2>6. ASSUME NEW j \in 1..(n - m + 1)
        PROVE  m + j - 1 \in DOMAIN topic /\ SubSeq(topic, m, n)[j] = topic[m + j - 1]
    BY <1>1, <2>1, <2>3
  <2>7. \A j \in DOMAIN Last(topic) : \E i \in DOMAIN topic : Last(topic)[j] = topic[i]
    BY <2>2, <2>5, <2>6
  <2>8. QED
    BY <1>2, <2>2, <2>3, <2>4, <2>7
<1>5. QED
  BY <1>3, <1>4

\* A timer of the monitor adds to the topic nothing but its burst.
LEMMA MonitorFiresKeeps ==
  ASSUME health \in Seq(Reports), MonitorFires
  PROVE  /\ health' \in Seq(Reports) /\ Len(health') <= HealthDepth
         /\ \A j \in DOMAIN health' :
              \/ \E i \in DOMAIN health : health'[j] = health[i]
              \/ GraceOver /\ \E i \in DOMAIN Burst(trackers) : health'[j] = Burst(trackers)[i]
<1> DEFINE topic == health \o Publications
<1>1. Publications \in Seq(Reports)
      /\ \/ Publications = Burst(trackers) /\ GraceOver
         \/ Publications = << >>
  BY BurstMessages DEF Publications
<1>2. /\ topic \in Seq(Reports)
      /\ \A i \in 1..(Len(health) + Len(Publications)) :
           topic[i] = IF i <= Len(health) THEN health[i] ELSE Publications[i - Len(health)]
      /\ Len(topic) = Len(health) + Len(Publications)
  BY <1>1, ConcatProperties
<1>3. DOMAIN topic = 1..(Len(health) + Len(Publications))
  BY <1>2, LenProperties
<1>4. /\ Len(health) \in Nat /\ DOMAIN health = 1..Len(health)
      /\ Len(Publications) \in Nat /\ DOMAIN Publications = 1..Len(Publications)
  BY <1>1, LenProperties
<1>5. \A i \in DOMAIN topic : \/ \E k \in DOMAIN health : topic[i] = health[k]
                              \/ \E k \in DOMAIN Publications : topic[i] = Publications[k]
  <2> SUFFICES ASSUME NEW i \in DOMAIN topic
               PROVE  \/ \E k \in DOMAIN health : topic[i] = health[k]
                      \/ \E k \in DOMAIN Publications : topic[i] = Publications[k]
    OBVIOUS
  <2> HIDE DEF topic
  <2>1. CASE i <= Len(health)
    BY <1>2, <1>3, <1>4, <2>1
  <2>2. CASE ~(i <= Len(health))
    <3>1. i - Len(health) \in DOMAIN Publications
      BY <1>3, <1>4, <2>2
    <3>2. QED
      BY <1>2, <1>3, <2>2, <3>1
  <2>3. QED
    BY <2>1, <2>2
<1> HIDE DEF topic
<1>6. DOMAIN Publications /= {} => Publications = Burst(trackers) /\ GraceOver
  BY <1>1
<1>7. health' = Last(topic)
  BY DEF MonitorFires, topic
<1>8. /\ Last(topic) \in Seq(Reports) /\ Len(Last(topic)) <= HealthDepth
      /\ \A j \in DOMAIN Last(topic) : \E i \in DOMAIN topic : Last(topic)[j] = topic[i]
  BY <1>2, LastKeeps
<1>9. QED
  BY <1>5, <1>6, <1>7, <1>8

\* Hearing or losing a message takes it from the topic.
LEMMA TailKeeps ==
  ASSUME health \in Seq(Reports), Len(health) <= HealthDepth,
         health /= << >>, health' = Tail(health)
  PROVE  /\ health' \in Seq(Reports) /\ Len(health') <= HealthDepth
         /\ \A j \in DOMAIN health' : \E i \in DOMAIN health : health'[j] = health[i]
<1>1. /\ health' \in Seq(Reports) /\ Len(health') = Len(health) - 1
      /\ \A i \in 1..Len(health') : health'[i] = health[i + 1]
  BY HeadTailProperties
<1>2. /\ Len(health) \in Nat /\ DOMAIN health = 1..Len(health)
      /\ Len(health') \in Nat /\ DOMAIN health' = 1..Len(health')
  BY <1>1, LenProperties
<1>3. HealthDepth \in Nat
  BY WatchAssumption
<1>4. QED
  BY <1>1, <1>2, <1>3

-------------------------------------------------------------------------------
(* Types                                                                   *)

WatchInv ==
  /\ trackers = [s \in Monitored |-> trackers[s]] /\ MonitorTypeOK
  /\ Supervisor!Inv
  /\ health \in Seq(Reports) /\ Len(health) <= HealthDepth
  /\ ticked \in BOOLEAN
  /\ punctual \subseteq Monitored

\* The periods are positive.
LEMMA MonitorParameters ==
  /\ PublishPeriod \in Nat \ {0} /\ Grace \in Nat
  /\ HealthyPercent \in Nat /\ DegradedPercent \in Nat
  /\ \A s \in Monitored : Period[s] \in Nat \ {0} /\ Oldest(s) \in Nat /\ Oldest(s) > Period[s]
  BY MonitorAssumption DEF ValidParams, Oldest

\* A message resets the age of its sensor and adds a stamp.
LEMMA OnMessageSets ==
  ASSUME WatchInv, NEW s \in Monitored, OnMessage(s)
  PROVE  /\ trackers' = [r \in Monitored |-> trackers'[r]] /\ up' = up
         /\ trackers'[s] = [trackers[s] EXCEPT !.last = 0, !.stamps = @ \cup {0}]
         /\ trackers'[s].last = 0 /\ trackers'[s].stamps = trackers[s].stamps \cup {0}
         /\ \A r \in Monitored \ {s} : trackers'[r] = trackers[r]
<1>1. trackers[s] \in Trackers(s) /\ trackers = [r \in Monitored |-> trackers[r]]
  BY DEF WatchInv, MonitorTypeOK
<1>2. up' = up /\ trackers' = [trackers EXCEPT ![s].last = 0, ![s].stamps = @ \cup {0}]
  BY DEF OnMessage
<1>3. /\ trackers' = [r \in Monitored |-> trackers'[r]]
      /\ trackers'[s] = [trackers[s] EXCEPT !.last = 0, !.stamps = @ \cup {0}]
      /\ \A r \in Monitored \ {s} : trackers'[r] = trackers[r]
  BY <1>1, <1>2
<1>4. trackers'[s].last = 0 /\ trackers'[s].stamps = trackers[s].stamps \cup {0}
  BY <1>1, <1>3 DEF Trackers
<1>5. QED
  BY <1>2, <1>3, <1>4

\* Time adds one to every age up to its cap, and drops what has left the window.
LEMMA MonitorTimeSets ==
  ASSUME WatchInv, MonitorTimePasses
  PROVE  /\ trackers' = [r \in Monitored |-> trackers'[r]]
         /\ \A s \in Monitored :
              /\ trackers'[s].last = Older(trackers[s].last, Oldest(s))
              /\ trackers'[s].stamps =
                   { a + 1 : a \in trackers[s].stamps } \ {PublishPeriod + 1}
         /\ up' = Older(up, Grace)
  BY DEF MonitorTimePasses

\* The monitor's own state keeps its types.
LEMMA MonitorKeepsTypes ==
  ASSUME WatchInv, (\E s \in Monitored : OnMessage(s)) \/ MonitorTimePasses \/ UNCHANGED monitorVars
  PROVE  trackers' = [s \in Monitored |-> trackers'[s]] /\ MonitorTypeOK'
<1>0. /\ trackers = [s \in Monitored |-> trackers[s]] /\ up \in 0..Grace
      /\ \A s \in Monitored : trackers[s] \in Trackers(s)
  BY DEF WatchInv, MonitorTypeOK
<1>1. ASSUME NEW s \in Monitored, OnMessage(s)
      PROVE  trackers' = [r \in Monitored |-> trackers'[r]] /\ MonitorTypeOK'
  <2>1. trackers[s].stamps \cup {0} \in SUBSET (0..PublishPeriod) /\ 0 \in AgeUpTo(Oldest(s))
    BY <1>0, MonitorParameters DEF Trackers, AgeUpTo
  <2>2. trackers'[s] \in Trackers(s)
    <3>1. trackers'[s] = [trackers[s] EXCEPT !.last = 0, !.stamps = @ \cup {0}]
      BY <1>1, OnMessageSets
    <3>2. QED
      BY <1>0, <2>1, <3>1 DEF Trackers
  <2>3. QED
    BY <1>0, <1>1, <2>2, OnMessageSets DEF MonitorTypeOK, Trackers
<1>2. CASE MonitorTimePasses
  <2>1. up' \in 0..Grace
    BY <1>0, <1>2, MonitorParameters, MonitorTimeSets DEF Older, None, Ahead
  <2>2. ASSUME NEW s \in Monitored PROVE trackers'[s] \in Trackers(s)
    <3>1. Older(trackers[s].last, Oldest(s)) \in AgeUpTo(Oldest(s))
      BY <1>0, MonitorParameters, SMTT(30) DEF Trackers, AgeUpTo, Older, None, Ahead
    <3>2. { a + 1 : a \in trackers[s].stamps } \ {PublishPeriod + 1} \in SUBSET (0..PublishPeriod)
      BY <1>0, MonitorParameters DEF Trackers
    <3>3. trackers'[s] = [last   |-> Older(trackers[s].last, Oldest(s)),
                          stamps |-> { a + 1 : a \in trackers[s].stamps } \ {PublishPeriod + 1}]
      BY <1>2 DEF MonitorTimePasses
    <3>4. QED
      BY <3>1, <3>2, <3>3 DEF Trackers
  <2>3. QED
    BY <1>2, <2>1, <2>2, MonitorTimeSets DEF MonitorTypeOK, Trackers
<1>3. CASE UNCHANGED monitorVars
  BY <1>0, <1>3 DEF monitorVars, MonitorTypeOK, Trackers
<1>4. QED
  BY <1>1, <1>2, <1>3

\* Whatever the supervisor hears, and whatever it does by itself, it stays as
\* good as it is alone.
LEMMA SupervisorStays ==
  ASSUME Supervisor!Inv,
         \/ [Supervisor!Next]_(Supervisor!vars)
         \/ \E s \in Monitored, status \in Supervisor!Statuses : Supervisor!OnSensorHealth(s, status)
         \/ \E status \in Supervisor!Statuses : Supervisor!OnSummary(status)
  PROVE  Supervisor!Inv'
<1>1. Supervisor!Good(node)
  BY DEF Supervisor!Inv
<1>2. CASE [Supervisor!Next]_(Supervisor!vars)
  BY <1>2, NodeParameters, Supervisor!StepInv
<1>3. ASSUME NEW s \in Monitored, NEW status \in Supervisor!Statuses,
             Supervisor!OnSensorHealth(s, status)
      PROVE  Supervisor!Inv'
  <2>1. Supervisor!Good(node')
    BY <1>1, <1>3, NodeParameters, Supervisor!OnSensorHealthGood
  <2>2. UNCHANGED published
    BY <1>3 DEF Supervisor!OnSensorHealth
  <2>3. QED
    BY <2>1, <2>2 DEF Supervisor!Inv
<1>4. ASSUME NEW status \in Supervisor!Statuses, Supervisor!OnSummary(status)
      PROVE  Supervisor!Inv'
  <2>1. Supervisor!Good(node')
    BY <1>1, <1>4, NodeParameters, Supervisor!OnSummaryGood
  <2>2. UNCHANGED published
    BY <1>4 DEF Supervisor!OnSummary
  <2>3. QED
    BY <2>1, <2>2 DEF Supervisor!Inv
<1>5. QED
  BY <1>2, <1>3, <1>4

\* Neither node has started.
LEMMA WatchInitially == Init => WatchInv
<1> SUFFICES ASSUME Init PROVE WatchInv
  OBVIOUS
<1>1. Supervisor!Inv
  BY NodeParameters, Supervisor!InitInv DEF Init
<1>2. trackers = [s \in Monitored |-> trackers[s]] /\ MonitorTypeOK
  <2>1. /\ trackers = [s \in Monitored |-> [last |-> None, stamps |-> {}]] /\ up = 0
    BY DEF Init, MonitorInit
  <2>2. \A s \in Monitored : trackers[s] \in Trackers(s)
    BY <2>1 DEF Trackers, AgeUpTo
  <2>3. up \in 0..Grace
    BY <2>1, MonitorParameters
  <2>4. trackers = [s \in Monitored |-> trackers[s]]
    BY <2>1
  <2>5. QED
    BY <2>2, <2>3, <2>4 DEF MonitorTypeOK
<1>3. health \in Seq(Reports) /\ Len(health) <= HealthDepth
  BY WatchAssumption DEF Init
<1>4. QED
  BY <1>1, <1>2, <1>3 DEF WatchInv, Init

\* One step per action of the composition.
LEMMA WatchStep == WatchInv /\ [Next]_vars => WatchInv'
<1> SUFFICES ASSUME WatchInv, [Next]_vars PROVE WatchInv'
  OBVIOUS
<1>0. Supervisor!Inv /\ health \in Seq(Reports) /\ Len(health) <= HealthDepth
  BY DEF WatchInv
<1>1. trackers' = [s \in Monitored |-> trackers'[s]] /\ MonitorTypeOK'
  <2>1. (\E s \in Monitored : OnMessage(s)) \/ MonitorTimePasses \/ UNCHANGED monitorVars
    BY DEF Next, vars, monitorVars, SensorSends, MonitorFires, HearSensor, HearSummary, Hear, Lose,
           SupervisorReceives, SupervisorFires, TimePasses
  <2>2. QED
    BY <2>1, MonitorKeepsTypes
<1>2. Supervisor!Inv'
  <2>1. CASE HearSensor
    <3>1. PICK s \in Monitored, status \in Supervisor!Statuses : Hear(s, status)
      BY <2>1 DEF HearSensor
    <3>2. Supervisor!OnSensorHealth(s, status)
      BY <3>1, WatchAssumption DEF Hear
    <3>3. QED
      BY <1>0, <3>2, SupervisorStays
  <2>2. CASE HearSummary
    <3>1. PICK status \in Supervisor!Statuses : Hear("all", status)
      BY <2>2 DEF HearSummary
    <3>2. Supervisor!OnSummary(status)
      BY <3>1 DEF Hear
    <3>3. QED
      BY <1>0, <3>2, SupervisorStays
  <2>3. CASE SupervisorReceives \/ SupervisorFires \/ TimePasses
    <3>1. Supervisor!Next
      BY <2>3 DEF SupervisorReceives, SupervisorFires, TimePasses, Supervisor!Next
    <3>2. QED
      BY <1>0, <3>1, SupervisorStays
  <2>4. CASE UNCHANGED <<node, published>>
    BY <1>0, <2>4, SupervisorStays DEF Supervisor!vars
  <2>5. QED
    BY <2>1, <2>2, <2>3, <2>4
    DEF Next, vars, supervisorVars, SensorSends, MonitorFires, Lose
<1>3. health' \in Seq(Reports) /\ Len(health') <= HealthDepth
  <2>1. CASE MonitorFires
    BY <1>0, <2>1, MonitorFiresKeeps
  <2>2. CASE health /= << >> /\ health' = Tail(health)
    BY <1>0, <2>2, TailKeeps
  <2>3. CASE UNCHANGED health
    BY <1>0, <2>3
  <2>4. QED
    BY <2>1, <2>2, <2>3
    DEF Next, vars, SensorSends, HearSensor, HearSummary, Hear, Lose, SupervisorReceives,
        SupervisorFires, TimePasses
<1>4. ticked' \in BOOLEAN /\ punctual' \subseteq Monitored
  BY DEF WatchInv, Next, vars, SensorSends, MonitorFires, HearSensor, HearSummary, Hear, Lose,
         SupervisorReceives, SupervisorFires, TimePasses
<1>5. QED
  BY <1>1, <1>2, <1>3, <1>4 DEF WatchInv

\* The invariant of the composition.
THEOREM WatchInvariance == Spec => []WatchInv
<1>1. QED
  BY WatchInitially, WatchStep, PTL DEF Spec

\* Monitor, supervisor and topic keep their types.
THEOREM WatchTypeCorrect == Spec => []TypeOK
<1>1. WatchInv => TypeOK
  BY DEF WatchInv, TypeOK, Supervisor!Inv, Supervisor!Good, Supervisor!Stopped, Supervisor!TypeOK
<1>2. QED
  BY WatchInvariance, <1>1, PTL

-------------------------------------------------------------------------------
(* A punctual sensor is HEALTHY                                            *)

\* What the parameters must be for a sensor that is never late to have enough
\* messages in every window, wherever the window begins: reports start when a
\* whole window has passed, and the periods that fit into a window are enough.
EnoughInWindow ==
  /\ Grace >= PublishPeriod
  /\ \A s \in Monitored :
       100 * (PublishPeriod \div Period[s]) * Period[s] >= HealthyPercent * PublishPeriod

\* Of a punctual sensor no message is older than its period, and a message lies
\* in every stretch of one period since the start, as far back as the window
\* goes.  The newest stretch is the exception: time waits for its message.
Regular(s) ==
  /\ trackers[s].last \in 0..Period[s] \/ (up = 0 /\ trackers[s].last = None)
  /\ trackers[s].last \in 0..PublishPeriod => trackers[s].last \in trackers[s].stamps
  /\ \A a \in Nat \ {0} :
       LET b == a + Period[s] - 1
       IN  b <= up /\ b <= PublishPeriod => \E t \in trackers[s].stamps : a <= t /\ t <= b

\* Nothing has been sent and no time has passed.
LEMMA RegularInitially ==
  ASSUME Init, NEW s \in Monitored
  PROVE  Regular(s)
<1>1. trackers[s].last = None /\ up = 0 /\ Period[s] \in Nat \ {0}
  BY MonitorParameters DEF Init, MonitorInit
<1>2. QED
  BY <1>1, MonitorParameters DEF Regular, None

\* A message is a new stamp and drops none.
LEMMA MessageRegular ==
  ASSUME WatchInv, NEW s \in Monitored, Regular(s), NEW r \in Monitored, OnMessage(r)
  PROVE  Regular(s)'
<1>0. up' = up /\ Period[s] \in Nat \ {0}
  BY OnMessageSets, MonitorParameters
<1>1. CASE r = s
  <2>1. trackers'[s].last = 0 /\ trackers'[s].stamps = trackers[s].stamps \cup {0}
    BY <1>1, OnMessageSets
  <2>2. QED
    BY <1>0, <2>1 DEF Regular
<1>2. CASE r /= s
  <2>1. trackers'[s] = trackers[s]
    BY <1>2, OnMessageSets
  <2>2. QED
    BY <1>0, <2>1 DEF Regular
<1>3. QED
  BY <1>1, <1>2

\* Time passes only when the sensor is on time, so that the stretch which
\* becomes the newest complete one has the last message in it.
LEMMA TimeRegular ==
  ASSUME WatchInv, NEW s \in Monitored, Regular(s), OnTime(s), MonitorTimePasses
  PROVE  Regular(s)'
<1> DEFINE P == Period[s]
           W == PublishPeriod
           stamps == trackers[s].stamps
           last == trackers[s].last
<1>0. /\ P \in Nat \ {0} /\ W \in Nat \ {0} /\ Oldest(s) \in Nat /\ Oldest(s) > P
      /\ Grace \in Nat /\ up \in 0..Grace /\ stamps \in SUBSET (0..W)
  BY MonitorParameters DEF WatchInv, MonitorTypeOK, Trackers
<1>1. last \in 0..(P - 1)
  BY DEF OnTime
<1>2. /\ trackers'[s].last = last + 1
      /\ trackers'[s].stamps = { a + 1 : a \in stamps } \ {W + 1}
      /\ up' <= up + 1 /\ up' \in Nat
  <2>1. Older(last, Oldest(s)) = last + 1
    BY <1>0, <1>1 DEF Older, None, Ahead
  <2>2. Older(up, Grace) \in Nat /\ Older(up, Grace) <= up + 1
    BY <1>0 DEF Older, None, Ahead
  <2>3. QED
    BY <2>1, <2>2, MonitorTimeSets
<1>3. last \in 0..W => last \in stamps
  BY DEF Regular
<1>4. \A a \in Nat \ {0} : a + P - 1 <= up /\ a + P - 1 <= W =>
        \E t \in stamps : a <= t /\ t <= a + P - 1
  BY DEF Regular
<1> HIDE DEF P, W, stamps, last
<1>5. last + 1 \in 0..P
  BY <1>0, <1>1
<1>6. last + 1 \in 0..W => last + 1 \in { a + 1 : a \in stamps } \ {W + 1}
  BY <1>0, <1>1, <1>3
<1>7. ASSUME NEW a \in Nat \ {0}, a + P - 1 <= up', a + P - 1 <= W
      PROVE  \E t \in { k + 1 : k \in stamps } \ {W + 1} : a <= t /\ t <= a + P - 1
  <2>1. CASE a = 1
    <3>1. last \in stamps /\ last + 1 /= W + 1 /\ last + 1 <= P
      BY <1>0, <1>1, <1>3, <1>7, <2>1
    <3>2. last + 1 \in { k + 1 : k \in stamps } \ {W + 1}
      BY <3>1
    <3>3. QED
      BY <1>0, <1>1, <2>1, <3>1, <3>2
  <2>2. CASE a /= 1
    <3>1. a - 1 \in Nat \ {0} /\ (a - 1) + P - 1 <= up /\ (a - 1) + P - 1 <= W
      BY <1>0, <1>2, <1>7, <2>2
    <3>2. PICK t \in stamps : a - 1 <= t /\ t <= (a - 1) + P - 1
      BY <1>4, <3>1
    <3>3. t \in Nat /\ t + 1 /= W + 1 /\ a <= t + 1 /\ t + 1 <= a + P - 1
      BY <1>0, <1>7, <3>2
    <3>4. t + 1 \in { k + 1 : k \in stamps } \ {W + 1}
      BY <3>2, <3>3
    <3>5. QED
      BY <3>3, <3>4
  <2>3. QED
    BY <2>1, <2>2
<1>8. QED
  BY <1>2, <1>5, <1>6, <1>7 DEF Regular, P, W

\* Products of natural numbers grow with their factors.
LEMMA TimesMonotone ==
  ASSUME NEW a \in Nat, NEW b \in Nat, NEW p \in Nat, a <= b
  PROVE  a * p <= b * p
<1>1. b - a \in Nat
  OBVIOUS
<1>2. (b - a) * p \in Nat /\ b * p = a * p + (b - a) * p
  BY <1>1
<1>3. a * p \in Nat /\ b * p \in Nat
  OBVIOUS
<1>4. QED
  BY <1>2, <1>3

\* One message in every period gives as many messages as periods fit.
LEMMA MessagePerPeriod ==
  ASSUME NEW W \in Nat, NEW P \in Nat \ {0}, NEW stamps \in SUBSET (0..W),
         \A a \in Nat \ {0} :
           a + P - 1 <= W => \E t \in stamps : a <= t /\ t <= a + P - 1
  PROVE  Cardinality(stamps) \in Nat /\ Cardinality(stamps) >= W \div P
<1> DEFINE K == W \div P
           f == [k \in 1..K |-> CHOOSE t \in stamps : (k - 1) * P + 1 <= t /\ t <= k * P]
<1>1. K \in Nat /\ K * P <= W
  <2>1. W = P * (W \div P) + (W % P) /\ W % P \in 0..(P - 1) /\ W \div P \in Nat
    OBVIOUS
  <2>2. P * (W \div P) = (W \div P) * P /\ P * (W \div P) \in Nat
    BY <2>1
  <2>3. QED
    BY <2>1, <2>2
<1> HIDE DEF K
<1>2. ASSUME NEW k \in 1..K
      PROVE  f[k] \in stamps /\ (k - 1) * P + 1 <= f[k] /\ f[k] <= k * P
  <2>1. /\ k \in Nat /\ k - 1 \in Nat /\ (k - 1) * P \in Nat /\ k * P \in Nat
        /\ k * P = (k - 1) * P + P
    BY <1>1
  <2>2. k * P <= K * P
    BY <1>1, <2>1, TimesMonotone
  <2>3. K * P \in Nat
    BY <1>1
  <2>4. /\ (k - 1) * P + 1 \in Nat \ {0}
        /\ ((k - 1) * P + 1) + P - 1 = k * P /\ ((k - 1) * P + 1) + P - 1 <= W
    <3> DEFINE x == (k - 1) * P
               y == k * P
               z == K * P
    <3>1. x \in Nat /\ y = x + P /\ y <= z /\ z <= W /\ z \in Nat /\ y \in Nat
      BY <1>1, <2>1, <2>2, <2>3
    <3> HIDE DEF x, y, z
    <3>2. x + 1 \in Nat \ {0} /\ (x + 1) + P - 1 = y /\ (x + 1) + P - 1 <= W
      BY <3>1
    <3>3. QED
      BY <3>2 DEF x, y
  <2>5. \E t \in stamps : (k - 1) * P + 1 <= t /\ t <= k * P
    BY <2>4
  <2>6. QED
    BY <2>5
<1>3. f \in [1..K -> stamps]
  BY <1>2
<1>4. ASSUME NEW k \in 1..K, NEW l \in 1..K, k < l
      PROVE  f[k] /= f[l]
  <2>1. k \in Nat /\ l - 1 \in Nat /\ k <= l - 1
    BY <1>1, <1>4
  <2>2. k * P <= (l - 1) * P /\ k * P \in Nat /\ (l - 1) * P \in Nat
    BY <2>1, TimesMonotone
  <2>3. f[k] \in Nat /\ f[l] \in Nat /\ f[k] <= k * P /\ (l - 1) * P + 1 <= f[l]
    <3>1. f[k] \in stamps /\ f[k] <= k * P
      BY <1>2
    <3>2. f[l] \in stamps /\ (l - 1) * P + 1 <= f[l]
      BY <1>2
    <3> HIDE DEF f
    <3>3. stamps \subseteq Nat
      OBVIOUS
    <3>4. QED
      BY <3>1, <3>2, <3>3
  <2> DEFINE x == k * P
             y == (l - 1) * P
  <2>4. x <= y /\ x \in Nat /\ y \in Nat /\ f[k] <= x /\ y + 1 <= f[l]
    BY <2>2, <2>3
  <2> HIDE DEF x, y, f
  <2>5. QED
    BY <2>3, <2>4
<1>5. f \in Injection(1..K, stamps)
  <2>1. \A k, l \in 1..K : f[k] = f[l] => k = l
    <3> HIDE DEF f
    <3>1. SUFFICES ASSUME NEW k \in 1..K, NEW l \in 1..K, f[k] = f[l], k /= l PROVE FALSE
      OBVIOUS
    <3>2. k < l \/ l < k
      BY <1>1, <3>1
    <3>3. QED
      BY <1>4, <3>1, <3>2
  <2> HIDE DEF f
  <2>2. QED
    BY <1>3, <2>1 DEF Injection, IsInjective
<1> HIDE DEF f
<1>6. IsFiniteSet(stamps)
  <2>1. IsFiniteSet(0..W)
    BY FS_Interval
  <2>2. QED
    BY <2>1, FS_Subset
<1>7. Cardinality(1..K) <= Cardinality(stamps)
  BY <1>5, <1>6, FS_Injection
<1>8. Cardinality(1..K) = K
  BY <1>1, FS_Interval
<1>9. Cardinality(stamps) \in Nat
  BY <1>6, FS_CardinalityType
<1>10. QED
  BY <1>7, <1>8, <1>9 DEF K

\* Once reports start, a regular sensor is reported HEALTHY.
LEMMA RegularIsHealthy ==
  ASSUME EnoughInWindow, WatchInv, NEW s \in Monitored, Regular(s), GraceOver
  PROVE  Status(s, trackers[s]) = "HEALTHY"
<1> DEFINE P == Period[s]
           W == PublishPeriod
           stamps == trackers[s].stamps
           n == Cardinality(stamps)
           k == W \div P
<1>1. /\ P \in Nat \ {0} /\ W \in Nat \ {0} /\ stamps \in SUBSET (0..W)
      /\ up >= W /\ up \in Nat /\ HealthyPercent \in Nat
  BY MonitorParameters DEF WatchInv, MonitorTypeOK, Trackers, EnoughInWindow, GraceOver
<1>2. trackers[s].last \in 0..P
  BY <1>1 DEF Regular
<1>3. \A a \in Nat \ {0} : a + P - 1 <= W => \E t \in stamps : a <= t /\ t <= a + P - 1
  BY <1>1 DEF Regular
<1> HIDE DEF P, W, stamps, k
<1>4. n \in Nat /\ n >= W \div P
  BY <1>1, <1>3, MessagePerPeriod
<1>5. k \in Nat /\ n >= k
  BY <1>1, <1>4 DEF k
<1>6. 100 * k * P >= HealthyPercent * W
  BY DEF EnoughInWindow, k, P, W
<1> HIDE DEF n
<1>7. 100 * n * P >= 100 * k * P
  <2>1. 100 * k \in Nat /\ 100 * n \in Nat /\ 100 * k <= 100 * n /\ P \in Nat
    BY <1>1, <1>4, <1>5
  <2>2. (100 * k) * P <= (100 * n) * P
    BY <2>1, TimesMonotone
  <2>3. (100 * k) * P \in Nat /\ (100 * n) * P \in Nat
    BY <2>1
  <2>4. QED
    BY <2>2, <2>3
<1>8. 100 * n * P >= HealthyPercent * W
  <2>1. 100 * n * P \in Nat /\ 100 * k * P \in Nat /\ HealthyPercent * W \in Nat
    BY <1>1, <1>4, <1>5
  <2>2. QED
    BY <1>6, <1>7, <2>1
<1>9. RateAtLeast(s, trackers[s], HealthyPercent)
  BY <1>8 DEF RateAtLeast, Count, n, P, W, stamps
<1>10. trackers[s].last /= None /\ trackers[s].last < 2 * Period[s]
  BY <1>1, <1>2 DEF None, P
<1>11. QED
  BY <1>9, <1>10 DEF Status

\* What is in flight about a punctual sensor says HEALTHY, and every punctual
\* sensor is regular.
PunctualInv == WatchInv /\ NoFalseAlarm /\ \A s \in punctual : Regular(s)

\* Nothing is in flight at the start.
LEMMA PunctualInitially == Init => PunctualInv
<1> SUFFICES ASSUME Init PROVE PunctualInv
  OBVIOUS
<1>1. WatchInv
  BY WatchInitially
<1>2. NoFalseAlarm
  BY DEF Init, NoFalseAlarm
<1>3. \A s \in punctual : Regular(s)
  BY <1>1, RegularInitially DEF WatchInv
<1>4. QED
  BY <1>1, <1>2, <1>3 DEF PunctualInv

\* Messages and time keep punctual sensors regular.
LEMMA StaysRegular ==
  ASSUME WatchInv, [Next]_vars, NEW s \in punctual, Regular(s)
  PROVE  Regular(s)'
<1>0. s \in Monitored
  BY DEF WatchInv
<1>1. CASE SensorSends
  BY <1>0, <1>1, MessageRegular DEF SensorSends
<1>2. CASE TimePasses
  BY <1>0, <1>2, TimeRegular DEF TimePasses
<1>3. CASE UNCHANGED <<trackers, up>>
  BY <1>3 DEF Regular
<1>4. QED
  BY <1>1, <1>2, <1>3
  DEF Next, vars, monitorVars, MonitorFires, HearSensor, HearSummary, Hear, Lose,
      SupervisorReceives, SupervisorFires

\* A step that publishes nothing leaves in flight what was there, or less.
LEMMA InFlightStep ==
  ASSUME WatchInv, [Next]_vars
  PROVE  /\ punctual' = punctual
         /\ \A j \in DOMAIN health' :
              \/ \E i \in DOMAIN health : health'[j] = health[i]
              \/ GraceOver /\ \E i \in DOMAIN Burst(trackers) : health'[j] = Burst(trackers)[i]
<1>0. health \in Seq(Reports) /\ Len(health) <= HealthDepth
  BY DEF WatchInv
<1>1. punctual' = punctual
  BY DEF Next, vars, SensorSends, MonitorFires, HearSensor, HearSummary, Hear, Lose,
         SupervisorReceives, SupervisorFires, TimePasses
<1>2. CASE MonitorFires
  BY <1>0, <1>1, <1>2, MonitorFiresKeeps
<1>3. CASE health /= << >> /\ health' = Tail(health)
  BY <1>0, <1>1, <1>3, TailKeeps
<1>4. CASE UNCHANGED health
  BY <1>1, <1>4
<1>5. QED
  BY <1>2, <1>3, <1>4
  DEF Next, vars, SensorSends, HearSensor, HearSummary, Hear, Lose, SupervisorReceives,
      SupervisorFires, TimePasses

\* A burst reports every punctual sensor HEALTHY.
LEMMA PunctualStep ==
  ASSUME EnoughInWindow
  PROVE  PunctualInv /\ [Next]_vars => PunctualInv'
<1> SUFFICES ASSUME PunctualInv, [Next]_vars PROVE PunctualInv'
  OBVIOUS
<1>0. WatchInv /\ NoFalseAlarm /\ punctual \subseteq Monitored /\ \A s \in punctual : Regular(s)
  BY DEF PunctualInv, WatchInv
<1>1. WatchInv'
  BY <1>0, WatchStep
<1>2. punctual' = punctual
  BY <1>0, InFlightStep
<1>3. \A s \in punctual' : Regular(s)'
  BY <1>0, <1>2, StaysRegular
<1>4. ASSUME NEW j \in DOMAIN health', NEW s \in punctual, health'[j][1] = s
      PROVE  health'[j][2] = "HEALTHY"
  <2>1. CASE \E i \in DOMAIN health : health'[j] = health[i]
    BY <1>0, <1>4, <2>1 DEF NoFalseAlarm
  <2>2. ASSUME GraceOver, NEW i \in DOMAIN Burst(trackers), health'[j] = Burst(trackers)[i]
        PROVE  health'[j][2] = "HEALTHY"
    <3>1. s /= "all"
      BY <1>0, WatchAssumption
    <3>2. PICK r \in Monitored : Burst(trackers)[i] = <<r, Status(r, trackers[r])>>
      <4>1. Burst(trackers)[i][1] = s
        BY <1>4, <2>2
      <4>2. ASSUME NEW w, Burst(trackers)[i] = <<"all", w>> PROVE FALSE
        BY <3>1, <4>1, <4>2
      <4>3. QED
        BY <4>2, BurstMessages
    <3>3. r = s
      BY <1>4, <2>2, <3>2
    <3>4. QED
      BY <1>0, <2>2, <3>2, <3>3, RegularIsHealthy
  <2>3. QED
    BY <1>0, <2>1, <2>2, InFlightStep
<1>5. NoFalseAlarm'
  BY <1>2, <1>4 DEF NoFalseAlarm
<1>6. QED
  BY <1>1, <1>3, <1>5 DEF PunctualInv

\* A sensor that delivers one message in every period of its own is never
\* reported as anything but HEALTHY.
THEOREM NoFalseAlarmCorrect ==
  ASSUME EnoughInWindow
  PROVE  Spec => []NoFalseAlarm
<1>1. PunctualInv => NoFalseAlarm
  BY DEF PunctualInv
<1>2. QED
  BY PunctualInitially, PunctualStep, <1>1, PTL DEF Spec

-------------------------------------------------------------------------------
(* Punctual sensors never stop the vehicle                                 *)

\* What is left when nothing but the sensors can stop or slow the vehicle: no
\* odometry to lose, and no emergency.
SensorsAlone == OdomAges = {} /\ "Emergency" \notin ZoneReports

\* A supervisor that has heard of no trouble: no fault, no limit, no ramp and no
\* flag of a degradation.
Calm(n) ==
  /\ n \in Supervisor!Nodes
  /\ ~n.latched /\ n.mode \in {"Idle", "Moving", "AvoidingObstacle"}
  /\ n.odom = Supervisor!None /\ n.lastSample /= Supervisor!Ahead
  /\ n.speed.current = Supervisor!FullLimit /\ n.speed.target = Supervisor!FullLimit
  /\ n.speed.ramp = Supervisor!None
  /\ n.recovery.worst \in {"UNKNOWN", "HEALTHY"} /\ ~n.recovery.degraded
  /\ \A s \in Monitored : n.recovery.status[s] \in {"UNKNOWN", "HEALTHY"}

\* The node is constructed calm.
LEMMA CalmInitially == Init => Calm(node)
<1> SUFFICES ASSUME Init PROVE Calm(node)
  OBVIOUS
<1>1. node \in Supervisor!Nodes
  BY NodeParameters, Supervisor!InitInv
  DEF Init, Supervisor!Inv, Supervisor!Good, Supervisor!Stopped
<1>2. QED
  BY <1>1 DEF Init, Supervisor!Init, Supervisor!NewManager, Supervisor!NewSpeedController,
     Supervisor!None, Supervisor!Ahead, Calm

\* A sensor that is HEALTHY brings no transition, and leaves no other trace.
LEMMA HearHealthyCalm ==
  ASSUME Calm(node), NEW s \in Monitored, Supervisor!OnSensorHealth(s, "HEALTHY")
  PROVE  Calm(node')
<1> DEFINE m == Supervisor!ProcessHealthMsg(node.recovery, s, "HEALTHY")
<1>1. node.recovery \in Supervisor!Managers /\ node.recovery.status[s] \in {"UNKNOWN", "HEALTHY"}
  BY DEF Calm, Supervisor!Nodes
<1>2. Supervisor!HealthTransition(node.recovery, s, "HEALTHY") = "kNone"
  BY <1>1 DEF Supervisor!HealthTransition
<1>3. node' = [node EXCEPT !.recovery = m]
  BY <1>2 DEF Supervisor!OnSensorHealth
<1>4. m \in Supervisor!Managers /\ m.degraded = node.recovery.degraded
  BY <1>1, NodeParameters, Supervisor!ProcessHealthMsgFrame DEF Supervisor!Statuses
<1>5. /\ m.worst = node.recovery.worst
      /\ \A r \in Monitored : m.status[r] \in {node.recovery.status[r], "HEALTHY"}
  BY <1>1 DEF Supervisor!ProcessHealthMsg, Supervisor!Managers
<1> HIDE DEF m
<1>6. QED
  BY <1>3, <1>4, <1>5 DEF Calm, Supervisor!Nodes

\* So does a summary that is HEALTHY.
LEMMA HearSummaryCalm ==
  ASSUME Calm(node), Supervisor!OnSummary("HEALTHY")
  PROVE  Calm(node')
<1>1. 0 \in Supervisor!AgeUpTo(SensorTimeout + 1)
  BY NodeParameters DEF Supervisor!AgeUpTo
<1>2. node' = [node EXCEPT !.recovery = Supervisor!UpdateSummary(node.recovery, "HEALTHY")]
  BY DEF Supervisor!OnSummary
<1>3. QED
  BY <1>1, <1>2
  DEF Calm, Supervisor!Nodes, Supervisor!Managers, Supervisor!UpdateSummary, Supervisor!Statuses

\* Zones short of an emergency only move a calm node between driving and waiting.
LEMMA ReceiveCalm ==
  ASSUME SensorsAlone, Calm(node), Supervisor!Receive
  PROVE  Calm(node')
<1>1. ~Supervisor!OnOdom /\ ~Supervisor!OnClearFault
  BY DEF SensorsAlone, Calm, Supervisor!OnOdom, Supervisor!OnClearFault
<1>2. PICK zone \in ZoneReports : Supervisor!OnEnvelope(zone)
  BY <1>1 DEF Supervisor!Receive
<1>3. ASSUME NEW n, Calm(n), NEW target \in {"Moving", "AvoidingObstacle"}
      PROVE  /\ Calm(Supervisor!TransitionTo(n, target))
             /\ Calm([Supervisor!TransitionTo(n, target) EXCEPT !.stop = FALSE])
  BY <1>3 DEF Calm, Supervisor!TransitionTo, Supervisor!Nodes, Supervisor!Modes
<1>4. zone /= "Emergency"
  BY DEF SensorsAlone
<1>5. ASSUME NEW n, Calm(n) PROVE Calm(Supervisor!HandleZoneTransition(n, zone))
  BY <1>3, <1>4, <1>5 DEF Supervisor!HandleZoneTransition
<1>6. QED
  BY <1>2, <1>3, <1>5 DEF Supervisor!OnEnvelope

\* No check of a tick finds anything.
LEMMA TickCalm ==
  ASSUME Calm(node), Supervisor!TimerTick
  PROVE  Calm(node')
<1> DEFINE u == Supervisor!UpdateLimit(node.speed, FALSE)
<1>1. Supervisor!CheckLocalizationStaleness(node) = node
  BY DEF Calm, Supervisor!CheckLocalizationStaleness
<1>2. Supervisor!CheckSensorHealth(node) = node
  BY DEF Calm, Supervisor!CheckSensorHealth
<1>3. \A s \in Monitored : Supervisor!CheckSensorRecoveryTimeouts(node, s) = node
  BY DEF Calm, Supervisor!CheckSensorRecoveryTimeouts, Supervisor!Overdue
<1>4. Supervisor!UpdateSpeedLimit(node) = [node EXCEPT !.speed = u]
  BY DEF Calm, Supervisor!UpdateSpeedLimit
<1>5. node.speed \in Supervisor!SpeedControllers
  BY DEF Calm, Supervisor!Nodes
<1>6. u \in Supervisor!SpeedControllers
  BY <1>5, NodeParameters, Supervisor!UpdateLimitFrame
<1>7. /\ u.current = Supervisor!FullLimit /\ u.target = Supervisor!FullLimit
      /\ u.ramp = Supervisor!None
  BY <1>5 DEF Calm, Supervisor!UpdateLimit, Supervisor!SpeedControllers
<1> HIDE DEF u
<1>8. Calm([node EXCEPT !.speed = u])
  BY <1>6, <1>7 DEF Calm, Supervisor!Nodes
<1>9. ASSUME NEW n, Calm(n) PROVE Calm(Supervisor!ObserveClockSample(n))
  <2>1. Supervisor!ObserveClockSample(n) = [n EXCEPT !.lastSample = 0]
    BY <1>9 DEF Calm, Supervisor!ObserveClockSample
  <2>2. 0 \in Supervisor!AgeUpTo(0) /\ 0 /= Supervisor!Ahead
    BY DEF Supervisor!AgeUpTo, Supervisor!Ahead
  <2>3. QED
    BY <1>9, <2>1, <2>2 DEF Calm, Supervisor!Nodes
<1>10. node' = Supervisor!ObserveClockSample([node EXCEPT !.speed = u])
  BY <1>1, <1>2, <1>3, <1>4 DEF Supervisor!TimerTick
<1>11. QED
  BY <1>8, <1>9, <1>10

\* Time ages nothing that matters to a calm node.
LEMMA TimeCalm ==
  ASSUME Calm(node), Supervisor!Inv', Supervisor!TimePasses
  PROVE  Calm(node')
<1>1. node' \in Supervisor!Nodes
  BY DEF Supervisor!Inv, Supervisor!Good, Supervisor!Stopped
<1>2. Supervisor!Older(Supervisor!None, 2 * LocTimeout) = Supervisor!None
      /\ Supervisor!Older(Supervisor!None, RampTime) = Supervisor!None
  BY DEF Supervisor!Older
<1>3. node \in Supervisor!Nodes
  BY DEF Calm
<1>4. /\ node'.odom = Supervisor!Older(node.odom, 2 * LocTimeout)
      /\ node'.speed.ramp = Supervisor!Older(node.speed.ramp, RampTime)
      /\ node'.speed.current = node.speed.current /\ node'.speed.target = node.speed.target
      /\ node'.latched = node.latched /\ node'.mode = node.mode
      /\ node'.lastSample = node.lastSample
      /\ node'.recovery.worst = node.recovery.worst
      /\ node'.recovery.degraded = node.recovery.degraded
      /\ node'.recovery.status = node.recovery.status
  BY <1>3 DEF Supervisor!TimePasses, Supervisor!Nodes, Supervisor!Managers,
     Supervisor!SpeedControllers
<1>5. QED
  BY <1>1, <1>2, <1>4 DEF Calm

\* While all sensors are punctual, all that is in flight says HEALTHY.
AllHealthy == \A i \in DOMAIN health : health[i][2] = "HEALTHY"

CalmInv == PunctualInv /\ (punctual = Monitored => Calm(node) /\ AllHealthy)

\* The summary of sensors that are all HEALTHY says so.
LEMMA BurstHealthy ==
  ASSUME EnoughInWindow, PunctualInv, punctual = Monitored, GraceOver,
         NEW i \in DOMAIN Burst(trackers)
  PROVE  Burst(trackers)[i][2] = "HEALTHY"
<1>1. \A s \in Monitored : Status(s, trackers[s]) = "HEALTHY"
  BY RegularIsHealthy DEF PunctualInv
<1>2. { Status(s, trackers[s]) : s \in Monitored } = {"HEALTHY"}
  BY <1>1, NodeParameters
<1>3. Worst({"HEALTHY"}) = "HEALTHY"
  BY WorstIsOne DEF Supervisor!Statuses
<1>4. CASE \E s \in Monitored : Burst(trackers)[i] = <<s, Status(s, trackers[s])>>
  BY <1>1, <1>4
<1>5. CASE Burst(trackers)[i] = <<"all", Worst({"HEALTHY"})>>
  BY <1>3, <1>5
<1>6. QED
  BY <1>2, <1>4, <1>5, BurstMessages

\* A calm node that hears only HEALTHY stays calm.
LEMMA CalmStep ==
  ASSUME EnoughInWindow, SensorsAlone
  PROVE  CalmInv /\ [Next]_vars => CalmInv'
<1> SUFFICES ASSUME CalmInv, [Next]_vars PROVE CalmInv'
  OBVIOUS
<1>0. PunctualInv /\ WatchInv /\ PunctualInv' /\ WatchInv'
  BY PunctualStep DEF CalmInv, PunctualInv
<1>1. punctual' = punctual
  BY <1>0, InFlightStep
<1>2. SUFFICES ASSUME punctual = Monitored PROVE Calm(node') /\ AllHealthy'
  BY <1>0, <1>1 DEF CalmInv
<1>3. Calm(node) /\ AllHealthy
  BY <1>2 DEF CalmInv
<1>4. AllHealthy'
  BY <1>0, <1>2, <1>3, BurstHealthy, InFlightStep DEF AllHealthy
<1>5. health /= << >> => Head(health)[2] = "HEALTHY"
  <2>1. SUFFICES ASSUME health /= << >> PROVE Head(health)[2] = "HEALTHY"
    OBVIOUS
  <2>2. health \in Seq(Reports)
    BY <1>0 DEF WatchInv
  <2>3. Head(health) = health[1] /\ 1 \in DOMAIN health
    BY <2>1, <2>2, EmptySeq, LenProperties
  <2>4. QED
    BY <1>3, <2>3 DEF AllHealthy
<1>6. CASE HearSensor
  <2>1. PICK s \in Monitored, status \in Supervisor!Statuses : Hear(s, status)
    BY <1>6 DEF HearSensor
  <2>2. health /= << >> /\ Head(health) = <<s, status>> /\ Supervisor!OnSensorHealth(s, status)
    BY <2>1, WatchAssumption DEF Hear
  <2>3. status = "HEALTHY"
    BY <1>5, <2>2
  <2>4. QED
    BY <1>3, <1>4, <2>2, <2>3, HearHealthyCalm
<1>7. CASE HearSummary
  <2>1. PICK status \in Supervisor!Statuses : Hear("all", status)
    BY <1>7 DEF HearSummary
  <2>2. health /= << >> /\ Head(health) = <<"all", status>> /\ Supervisor!OnSummary(status)
    BY <2>1 DEF Hear
  <2>3. status = "HEALTHY"
    BY <1>5, <2>2
  <2>4. QED
    BY <1>3, <1>4, <2>2, <2>3, HearSummaryCalm
<1>8. CASE SupervisorReceives
  BY <1>3, <1>4, <1>8, ReceiveCalm DEF SupervisorReceives
<1>9. CASE SupervisorFires
  BY <1>3, <1>4, <1>9, TickCalm DEF SupervisorFires
<1>10. CASE TimePasses
  BY <1>0, <1>3, <1>4, <1>10, TimeCalm DEF TimePasses, WatchInv
<1>11. CASE UNCHANGED node
  BY <1>3, <1>4, <1>11 DEF Calm
<1>12. QED
  BY <1>6, <1>7, <1>8, <1>9, <1>10, <1>11
  DEF Next, vars, supervisorVars, SensorSends, MonitorFires, Lose

\* End to end: while every sensor is on time nothing the monitor publishes, in
\* whatever order it is lost, delayed and heard, stops or slows the vehicle.
THEOREM PunctualNeverStopsCorrect ==
  ASSUME EnoughInWindow, SensorsAlone
  PROVE  Spec => []PunctualNeverStops
<1>1. Init => CalmInv
  BY PunctualInitially, CalmInitially DEF CalmInv, AllHealthy, Init
<1>2. CalmInv => PunctualNeverStops
  BY DEF CalmInv, Calm, PunctualNeverStops
<1>3. QED
  BY <1>1, CalmStep, <1>2, PTL DEF Spec
===============================================================================
