----------------------------- MODULE Library_proofs -----------------------------
(***************************************************************************)
(* Proofs about three classes of the library, each on its own: the task    *)
(* executor, for any number of slots, any periods, policies and watchdogs, *)
(* and a clock that runs as long as it likes; the PID controller's clamps, *)
(* for any configurations and any control law; and the sensor buffer, with *)
(* any number of writers and readers.                                      *)
(***************************************************************************)
EXTENDS TaskExecutor, SensorBuffer, TLAPS

CONSTANTS Configs, RawOutputs, FeedForwards, NaN, StampAges, MaxAge

VARIABLES pid, output, marked

Pid == INSTANCE SafetyPid

-------------------------------------------------------------------------------
(* The task executor                                                       *)

\* Slots are filled from the first: a used slot has used slots before it.
Filled == \A j \in Slots : Used(j) => \A i \in 1..(j - 1) : Used(i)

\* What is known in the middle of run_due: no callback has overrun its deadline
\* so far, the running callback's slot is used and due, and the slots behind
\* have had their runs.
Midway ==
  pc /= "idle" =>
    /\ ~late
    /\ \A i \in Slots : i < slot /\ Due(i) => ran[i] = limit
    /\ pc = "task" => Used(slot) /\ ran[slot] < limit /\ ~Overflows(slot)

\* No slot has had more runs than the policy allows.
BoundedCatchUp == pc /= "idle" => \A i \in Slots : ran[i] <= limit

\* The inductive invariant.
IInv == TypeOK /\ Filled /\ Midway /\ BoundedCatchUp

\* Each field of a slot after an update of one.
LEMMA Released ==
  ASSUME TypeOK, slot \in Slots,
         tasks' = [tasks EXCEPT ![slot].next = @ + tasks[slot].period]
  PROVE  /\ tasks' \in [Slots -> [period : Nat, next : Nat]]
         /\ tasks'[slot].next = tasks[slot].next + tasks[slot].period
         /\ \A i \in Slots : tasks'[i].period = tasks[i].period
         /\ \A i \in Slots \ {slot} : tasks'[i] = tasks[i]
<1>1. tasks \in [Slots -> [period : Nat, next : Nat]]
  BY DEF TypeOK
<1>2. tasks' = [tasks EXCEPT ![slot] = [tasks[slot] EXCEPT !.next = tasks[slot].next + tasks[slot].period]]
  BY <1>1
<1>3. [tasks[slot] EXCEPT !.next = tasks[slot].next + tasks[slot].period]
        = [period |-> tasks[slot].period, next |-> tasks[slot].next + tasks[slot].period]
  BY <1>1
<1>4. QED
  BY <1>1, <1>2, <1>3

\* The invariant holds at the start.
LEMMA Initially == Init => IInv
<1>1. Init => TypeOK
  <2>1. SUFFICES ASSUME Init PROVE TypeOK
    OBVIOUS
  <2>2. tasks \in [Slots -> [period : Nat, next : Nat]]
    BY <2>1 DEF Init
  <2>3. added \in [Slots -> Nat] /\ ran \in [Slots -> Nat]
    BY <2>1 DEF Init
  <2>4. slot \in 1..(MaxTasks + 1) /\ watchdog \in Nat /\ limit \in Nat \ {0}
    BY <2>1, ExecutorAssumption DEF Init
  <2>5. now \in Nat /\ tick \in Nat /\ late \in BOOLEAN /\ result \in Results
    BY <2>1 DEF Init, Results
  <2>6. pc \in {"idle", "slot", "task"} /\ (pc = "task" => slot \in Slots)
    BY <2>1 DEF Init
  <2>7. QED
    BY <2>2, <2>3, <2>4, <2>5, <2>6 DEF TypeOK
<1>2. Init => Filled /\ Midway /\ BoundedCatchUp
  BY DEF Init, Filled, Midway, BoundedCatchUp, Used
<1>3. QED
  BY <1>1, <1>2 DEF IInv

\* Advance in a callback's slot, whatever follows it.
LEMMA AfterAdvance ==
  ASSUME IInv, pc = "task", Advance, UNCHANGED <<now, added, config, tick, slot>>,
         pc' \in {"idle", "slot"}, result' \in Results,
         pc' = "slot" => ~Overran(slot)
  PROVE  IInv'
<1>1. slot \in Slots /\ TypeOK
  BY DEF IInv, TypeOK
<1>2. /\ tasks' \in [Slots -> [period : Nat, next : Nat]]
      /\ \A i \in Slots : tasks'[i].period = tasks[i].period
      /\ \A i \in Slots \ {slot} : tasks'[i] = tasks[i]
  BY <1>1, Released DEF Advance
<1>3. /\ ran' \in [Slots -> Nat] /\ ran'[slot] = ran[slot] + 1
      /\ \A i \in Slots \ {slot} : ran'[i] = ran[i]
  BY <1>1 DEF Advance, TypeOK
<1>4. TypeOK'
  BY <1>1, <1>2, <1>3 DEF TypeOK, Advance, config
<1>5. Filled'
  <2>1. \A j \in Slots : \A i \in 1..(j - 1) : i \in Slots
    BY ExecutorAssumption DEF Slots
  <2>2. \A i \in Slots : Used(i)' <=> Used(i)
    BY <1>2 DEF Used
  <2>3. QED
    BY <2>1, <2>2 DEF IInv, Filled
<1>6. Midway'
  <2>1. SUFFICES ASSUME pc' = "slot" PROVE Midway'
    BY DEF Midway
  <2>2. ~late'
    BY <2>1 DEF IInv, Midway, Advance, Overran
  <2>3. ASSUME NEW i \in Slots, i < slot', Due(i)' PROVE ran'[i] = limit'
    <3>1. i \in Slots \ {slot} /\ i < slot
      BY <1>1, <2>3 DEF Slots
    <3>2. Due(i)
      BY <1>2, <2>3, <3>1 DEF Due, Used
    <3>3. QED
      BY <1>3, <3>1, <3>2 DEF IInv, Midway, config
  <2>4. QED
    BY <2>1, <2>2, <2>3 DEF Midway
<1>7. BoundedCatchUp'
  <2>1. \A i \in Slots : ran[i] <= limit /\ ran[i] \in Nat
    BY DEF IInv, BoundedCatchUp, TypeOK
  <2>2. ran[slot] < limit /\ limit \in Nat
    BY DEF IInv, Midway, TypeOK
  <2>3. \A i \in Slots : ran'[i] <= limit
    BY <1>1, <1>3, <2>1, <2>2
  <2>4. QED
    BY <2>3 DEF BoundedCatchUp, config
<1>8. QED
  BY <1>4, <1>5, <1>6, <1>7 DEF IInv

\* A task is added behind every used slot: at a callback, behind its slot.
LEMMA AfterAdd ==
  ASSUME IInv, NEW p \in Periods, AddTask(p)
  PROVE  IInv'
<1>1. PICK i \in Slots :
        /\ ~Used(i) /\ \A j \in 1..(i - 1) : Used(j)
        /\ tasks' = [tasks EXCEPT ![i] = [period |-> p, next |-> now + p]]
        /\ added' = [added EXCEPT ![i] = now]
  BY DEF AddTask
<1>2. p \in Nat \ {0} /\ now \in Nat /\ TypeOK
  BY ExecutorAssumption DEF IInv, TypeOK
<1>3. /\ tasks' \in [Slots -> [period : Nat, next : Nat]]
      /\ tasks'[i].period = p
      /\ \A j \in Slots \ {i} : tasks'[j] = tasks[j]
  BY <1>1, <1>2 DEF TypeOK
<1>4. TypeOK'
  BY <1>1, <1>2, <1>3 DEF TypeOK, AddTask, config
<1>5. \A j \in Slots : Used(j)' <=> j = i \/ Used(j)
  BY <1>2, <1>3 DEF Used
<1>6. \A j \in Slots : Used(j) => j < i
  <2>1. SUFFICES ASSUME NEW j \in Slots, Used(j), ~(j < i) PROVE FALSE
    OBVIOUS
  <2>2. i \in 1..(j - 1)
    BY <1>1, <2>1, ExecutorAssumption DEF Slots
  <2>3. QED
    BY <1>1, <2>1, <2>2 DEF IInv, Filled
<1>7. Filled'
  <2>1. SUFFICES ASSUME NEW j \in Slots, Used(j)', NEW k \in 1..(j - 1) PROVE Used(k)'
    BY DEF Filled
  <2>2. k \in Slots
    BY <2>1, ExecutorAssumption DEF Slots
  <2>3. CASE j = i
    BY <1>1, <1>5, <2>1, <2>2, <2>3
  <2>4. CASE j /= i
    <3>1. Used(j)
      BY <1>5, <2>1, <2>4
    <3>2. Used(k)
      BY <3>1, <2>1 DEF IInv, Filled
    <3>3. QED
      BY <1>5, <2>2, <3>2
  <2>5. QED
    BY <2>3, <2>4
<1>8. Midway'
  <2>1. CASE pc = "idle"
    BY <2>1 DEF AddTask, Midway
  <2>2. CASE pc = "task"
    <3>1. slot \in Slots /\ Used(slot)
      BY <2>2 DEF IInv, TypeOK, Midway
    <3>2. slot < i
      BY <1>6, <3>1
    <3>3. \A j \in Slots : j < slot => tasks'[j] = tasks[j]
      BY <1>3, <3>2, <3>1 DEF Slots
    <3>4. tasks'[slot] = tasks[slot]
      BY <1>3, <3>1, <3>2 DEF Slots
    <3>5. UNCHANGED <<pc, tick, slot, ran, late, limit>>
      BY DEF AddTask, config
    <3>6. \A j \in Slots : j < slot /\ Due(j)' => ran[j] = limit
      BY <2>2, <3>3, <3>5 DEF IInv, Midway, Due, Used
    <3>7. QED
      BY <2>2, <3>1, <3>4, <3>5, <3>6 DEF IInv, Midway, Used, Overflows
  <2>3. QED
    BY <2>1, <2>2 DEF AddTask
<1>9. BoundedCatchUp'
  BY DEF IInv, BoundedCatchUp, AddTask, config
<1>10. QED
  BY <1>4, <1>7, <1>8, <1>9 DEF IInv

\* The loop of run_due passes to the next slot with nothing left in this one.
LEMMA AfterSlot ==
  ASSUME IInv, NextSlot
  PROVE  IInv'
<1>1. TypeOK /\ slot \in Slots /\ slot' = slot + 1
  BY DEF IInv, NextSlot
<1>2. slot' \in 1..(MaxTasks + 1)
  BY <1>1, ExecutorAssumption DEF Slots
<1>3. TypeOK'
  BY <1>1, <1>2 DEF TypeOK, NextSlot, config
<1>4. Filled' /\ BoundedCatchUp'
  BY DEF IInv, Filled, BoundedCatchUp, NextSlot, Used, config
<1>5. ASSUME NEW i \in Slots, i < slot', Due(i) PROVE ran[i] = limit
  <2>1. CASE i = slot
    <3>1. ran[i] >= limit /\ ran[i] <= limit /\ ran[i] \in Nat /\ limit \in Nat
      BY <1>1, <1>5, <2>1 DEF IInv, NextSlot, BoundedCatchUp, TypeOK
    <3>2. QED
      BY <3>1
  <2>2. CASE i /= slot
    <3>1. i < slot
      BY <1>1, <1>5, <2>2 DEF Slots
    <3>2. QED
      BY <1>5, <3>1 DEF IInv, Midway, NextSlot
  <2>3. QED
    BY <2>1, <2>2
<1>6. Midway'
  BY <1>5 DEF IInv, Midway, NextSlot, Due, Used, config
<1>7. QED
  BY <1>3, <1>4, <1>6 DEF IInv

\* Every step keeps the invariant.
LEMMA Preserved == IInv /\ [Next]_vars => IInv'
<1> SUFFICES ASSUME IInv, [Next]_vars PROVE IInv'
  OBVIOUS
<1>1. CASE UNCHANGED vars
  BY <1>1 DEF IInv, TypeOK, Filled, Midway, BoundedCatchUp, vars, Used, Due, Overflows
<1>2. ASSUME NEW w \in Watchdogs, ApplyConfig(w) PROVE IInv'
  <2>1. w \in Nat
    BY ExecutorAssumption
  <2>2. TypeOK'
    BY <1>2, <2>1 DEF IInv, TypeOK, ApplyConfig
  <2>3. QED
    BY <1>2, <2>2 DEF IInv, ApplyConfig, Filled, Midway, BoundedCatchUp, Used
<1>3. ASSUME NEW n \in Limits, SetCatchUpPolicy(n) PROVE IInv'
  <2>1. (IF n = 0 THEN 1 ELSE n) \in Nat \ {0}
    BY ExecutorAssumption
  <2>2. TypeOK'
    BY <1>3, <2>1 DEF IInv, TypeOK, SetCatchUpPolicy
  <2>3. QED
    BY <1>3, <2>2 DEF IInv, SetCatchUpPolicy, Filled, Midway, BoundedCatchUp, Used
<1>4. ASSUME NEW p \in Periods, AddTask(p) PROVE IInv'
  BY <1>4, AfterAdd
<1>5. CASE RunDue
  <2>1. PICK skew \in Skews : tick' = now + skew
    BY <1>5 DEF RunDue
  <2>2. tick' \in Nat /\ slot' \in 1..(MaxTasks + 1)
    BY <1>5, <2>1, ExecutorAssumption DEF IInv, TypeOK, RunDue
  <2>3. TypeOK'
    BY <1>5, <2>2 DEF IInv, TypeOK, RunDue, config
  <2>4. Midway'
    BY <1>5 DEF Midway, RunDue, Slots
  <2>5. Filled' /\ BoundedCatchUp'
    BY <1>5 DEF IInv, Filled, BoundedCatchUp, RunDue, Used, config, TypeOK
  <2>6. QED
    BY <2>3, <2>4, <2>5 DEF IInv
<1>6. CASE NextSlot
  BY <1>6, AfterSlot
<1>7. CASE AllDone \/ RefuseOverflow \/ RefuseLag
  <2>1. /\ pc' = "idle" /\ result' \in Results
        /\ UNCHANGED <<now, tasks, added, watchdog, limit, tick, slot, ran, late>>
    BY <1>7 DEF AllDone, RefuseOverflow, RefuseLag, Return, Results, config
  <2>2. TypeOK'
    BY <2>1 DEF IInv, TypeOK
  <2>3. QED
    BY <2>1, <2>2 DEF IInv, Filled, Midway, BoundedCatchUp, Used
<1>8. CASE StartTask
  <2>1. slot \in Slots /\ Due(slot) /\ ran[slot] < limit /\ pc = "slot" /\ ~Overflows(slot)
    BY <1>8 DEF StartTask, Releasing
  <2>2. /\ pc' = "task"
        /\ UNCHANGED <<now, tasks, added, watchdog, limit, tick, slot, ran, late, result>>
    BY <1>8 DEF StartTask, config
  <2>3. TypeOK'
    BY <2>1, <2>2 DEF IInv, TypeOK
  <2>4. Midway'
    BY <2>1, <2>2 DEF IInv, Midway, Due, Used, Overflows
  <2>5. QED
    BY <2>1, <2>2, <2>3, <2>4 DEF IInv, Filled, BoundedCatchUp, Used
<1>9. CASE TaskFails
  BY <1>9, AfterAdvance DEF TaskFails, Return, Results
<1>10. CASE TaskEnds
  BY <1>10, AfterAdvance DEF TaskEnds, Return, Results, IInv, TypeOK
<1>11. CASE TimePasses
  <2>1. now' \in Nat
    BY <1>11 DEF IInv, TypeOK, TimePasses
  <2>2. TypeOK'
    BY <1>11, <2>1 DEF IInv, TypeOK, TimePasses, config
  <2>3. QED
    BY <1>11, <2>2 DEF IInv, TimePasses, Filled, Midway, BoundedCatchUp, Used, Due, Overflows, config
<1>12. QED
  BY <1>1, <1>2, <1>3, <1>4, <1>5, <1>6, <1>7, <1>8, <1>9, <1>10, <1>11 DEF Next, Run

\* The invariant holds throughout.
LEMMA Invariance == Spec => []IInv
  BY Initially, Preserved, PTL DEF Spec

\* Every variable of the executor keeps its type.
THEOREM TypeCorrect == Spec => []TypeOK
<1>1. IInv => TypeOK
  BY DEF IInv
<1>2. QED
  BY <1>1, Invariance, PTL

\* A call that returned Ok went through all slots.
LEMMA OkIsAllDone == IInv /\ [Next]_vars /\ ReturnsOk => AllDone
<1> SUFFICES ASSUME IInv, [Next]_vars, ReturnsOk PROVE AllDone
  OBVIOUS
<1>1. pc /= "idle" /\ pc' = "idle" /\ result' = "Ok"
  BY DEF ReturnsOk
<1>2. CASE UNCHANGED vars \/ TimePasses \/ \E p \in Periods : AddTask(p)
  BY <1>1, <1>2 DEF vars, TimePasses, AddTask
<1>3. CASE (\E w \in Watchdogs : ApplyConfig(w)) \/ (\E n \in Limits : SetCatchUpPolicy(n))
  BY <1>1, <1>3 DEF ApplyConfig, SetCatchUpPolicy
<1>4. CASE Run
  BY <1>1, <1>4 DEF Run, RunDue, NextSlot, RefuseOverflow, RefuseLag, StartTask, TaskFails, TaskEnds, Return
<1>5. QED
  BY <1>2, <1>3, <1>4 DEF Next

\* A call in which a callback overran its deadline never returns Ok.
THEOREM NoHiddenMissCorrect == Spec => NoHiddenMiss
<1>1. IInv /\ [Next]_vars => [ReturnsOk => ~late']_vars
  <2>1. IInv /\ AllDone => ~late'
    BY DEF IInv, Midway, AllDone
  <2>2. QED
    BY <2>1, OkIsAllDone
<1>2. QED
  BY <1>1, Invariance, PTL DEF Spec, NoHiddenMiss

\* A call that returns Ok leaves no due release behind that the policy allowed
\* it to run, also of the tasks its callbacks added.
THEOREM OkLeavesNothingCorrect == Spec => OkLeavesNothing
<1>1. IInv /\ [Next]_vars => [ReturnsOk => \A i \in Slots : Due(i) => ran[i] = limit]_vars
  <2>1. IInv /\ AllDone => \A i \in Slots : Due(i) => ran[i] = limit
    <3>1. SUFFICES ASSUME IInv, AllDone, NEW i \in Slots PROVE i < slot
      BY DEF IInv, Midway, AllDone
    <3>2. slot \notin Slots /\ slot \in 1..(MaxTasks + 1)
      BY <3>1 DEF AllDone, IInv, TypeOK
    <3>3. QED
      BY <3>2, ExecutorAssumption DEF Slots
  <2>2. QED
    BY <2>1, OkIsAllDone
<1>2. QED
  BY <1>1, Invariance, PTL DEF Spec, OkLeavesNothing

\* One period more is a whole number of periods more, and no fewer ticks.
LEMMA OnePeriodMore ==
  ASSUME NEW k \in Nat, NEW p \in Nat \ {0}
  PROVE  (k + 1) * p = k * p + p /\ k * p >= k
  OBVIOUS

\* Releases never drift, whatever runs late, early or fails.
THEOREM NoDriftCorrect == Spec => []NoDrift
<1>1. Init => NoDrift
  BY DEF Init, NoDrift, Used
<1>2. NoDrift /\ IInv /\ [Next]_vars => NoDrift'
  <2> SUFFICES ASSUME NoDrift, IInv, [Next]_vars PROVE NoDrift'
    OBVIOUS
  <2>1. CASE UNCHANGED <<tasks, added>>
    BY <2>1 DEF NoDrift, Used
  <2>2. ASSUME NEW p \in Periods, AddTask(p) PROVE NoDrift'
    <3>1. PICK i \in Slots :
            /\ tasks' = [tasks EXCEPT ![i] = [period |-> p, next |-> now + p]]
            /\ added' = [added EXCEPT ![i] = now]
      BY <2>2 DEF AddTask
    <3>2. p \in Nat \ {0} /\ now \in Nat /\ now <= TimeMax - p
      BY <2>2, ExecutorAssumption DEF AddTask, IInv, TypeOK
    <3>3. /\ tasks'[i].period = p /\ tasks'[i].next = now + p /\ added'[i] = now
          /\ \A j \in Slots \ {i} : tasks'[j] = tasks[j] /\ added'[j] = added[j]
      BY <3>1, <3>2 DEF IInv, TypeOK
    <3>4. 1 \in 1..TimeMax /\ now + p = now + 1 * p
      BY <3>2, ExecutorAssumption
    <3>5. QED
      BY <3>3, <3>4 DEF NoDrift, Used
  <2>3. ASSUME Advance, pc = "task", UNCHANGED added PROVE NoDrift'
    <3>1. slot \in Slots /\ Used(slot) /\ ~Overflows(slot) /\ TypeOK
      BY <2>3 DEF IInv, TypeOK, Midway
    <3>2. /\ tasks'[slot].next = tasks[slot].next + tasks[slot].period
          /\ \A i \in Slots : tasks'[i].period = tasks[i].period
          /\ \A i \in Slots \ {slot} : tasks'[i] = tasks[i]
      BY <2>3, <3>1, Released DEF Advance
    <3>3. PICK k \in 1..TimeMax : tasks[slot].next = added[slot] + k * tasks[slot].period
      BY <3>1 DEF NoDrift
    <3>4. DEFINE p == tasks[slot].period
                 a == added[slot]
                 n == tasks[slot].next
    <3>5. p \in Nat \ {0} /\ a \in Nat /\ n \in Nat /\ n <= TimeMax - p /\ n = a + k * p
      <4>1. tasks[slot] \in [period : Nat, next : Nat] /\ a \in Nat
        BY <3>1 DEF TypeOK
      <4>2. p # 0 /\ ~(n > TimeMax - p)
        BY <3>1 DEF Used, Overflows
      <4>3. n <= TimeMax - p
        <5>1. p \in Nat /\ n \in Nat
          BY <4>1
        <5> HIDE DEF p, n
        <5>2. QED
          BY <4>2, <5>1, ExecutorAssumption
      <4>4. QED
        BY <3>3, <4>1, <4>2, <4>3
    <3>6. (k + 1) * p = k * p + p /\ k * p >= k /\ k * p \in Nat
      <4> HIDE DEF p
      <4>1. k \in Nat
        BY ExecutorAssumption
      <4>2. QED
        BY <3>5, <4>1, OnePeriodMore
    <3>7. k + 1 \in 1..TimeMax /\ n + p = a + (k + 1) * p
      <4> DEFINE kp == k * p
      <4> HIDE DEF p, a, n, kp
      <4>1. kp \in Nat /\ kp >= k /\ n = a + kp
        BY <3>5, <3>6 DEF kp
      <4>2. k + 1 <= TimeMax
        BY <3>5, <4>1, ExecutorAssumption
      <4>3. n + p = a + (kp + p)
        BY <3>5, <4>1
      <4>4. QED
        BY <3>6, <4>2, <4>3, ExecutorAssumption DEF kp
    <3>8. tasks'[slot].next = added'[slot] + (k + 1) * tasks'[slot].period
      BY <2>3, <3>1, <3>2, <3>7
    <3>9. QED
      BY <2>3, <3>2, <3>7, <3>8 DEF NoDrift, Used
  <2>4. QED
    BY <2>1, <2>2, <2>3
    DEF Next, Run, vars, ApplyConfig, SetCatchUpPolicy, RunDue, NextSlot, AllDone, RefuseOverflow,
        RefuseLag, StartTask, TaskFails, TaskEnds, TimePasses, Return
<1>3. QED
  BY <1>1, <1>2, Invariance, PTL DEF Spec

-------------------------------------------------------------------------------
(* The PID controller                                                      *)

\* A clamped number is within the limit, and one that was is not changed.
LEMMA ClampBounds ==
  ASSUME NaN \notin Int, NEW bound \in Nat, NEW number \in Int
  PROVE  /\ Pid!Clamp(bound, number) \in Int
         /\ -bound <= Pid!Clamp(bound, number) /\ Pid!Clamp(bound, number) <= bound
         /\ -bound <= number /\ number <= bound => Pid!Clamp(bound, number) = number
  BY DEF Pid!Clamp

\* What TypeOK says of the configuration in force.
LEMMA ConfigType ==
  ASSUME Pid!PidAssumption, Pid!TypeOK
  PROVE  /\ pid.config.speed \in Int /\ pid.config.accel \in Int
         /\ pid.config.timeout \in Nat /\ pid.config.period \in Int
<1>1. CASE pid.config = Pid!NoConfig
  BY <1>1 DEF Pid!NoConfig
<1>2. CASE pid.config \in Configs
  <2>1. pid.config \in [speed : Int, accel : Int, timeout : Nat, period : Int]
    BY <1>2 DEF Pid!PidAssumption
  <2>2. QED
    BY <2>1
<1>3. QED
  BY <1>1, <1>2 DEF Pid!TypeOK, Pid!Controllers

\* A result is within the speed limit in force, if it is a number.
Within(number) ==
  pid.config.speed > 0 /\ number /= NaN => -pid.config.speed <= number /\ number <= pid.config.speed

\* NaN passes the clamp, and nothing else becomes NaN in it.
LEMMA ClampSpeedNaN == ASSUME Pid!PidAssumption PROVE Pid!ClampSpeed(NaN) = NaN /\ Within(NaN)
  BY DEF Pid!ClampSpeed, Pid!Clamp, Within

LEMMA ClampSpeedBounds ==
  ASSUME Pid!PidAssumption, Pid!TypeOK, NEW number \in Int
  PROVE  Pid!ClampSpeed(number) \in Int /\ Within(Pid!ClampSpeed(number))
<1>0. NaN \notin Int
  BY DEF Pid!PidAssumption
<1>1. pid.config.speed \in Int
  BY ConfigType
<1>2. CASE pid.config.speed <= 0
  BY <1>1, <1>2 DEF Pid!ClampSpeed, Within
<1>3. CASE pid.config.speed > 0
  <2>1. pid.config.speed \in Nat
    BY <1>1, <1>3
  <2>2. Pid!ClampSpeed(number) = Pid!Clamp(pid.config.speed, number)
    BY <1>1, <1>3 DEF Pid!ClampSpeed
  <2>3. QED
    BY <1>0, <2>1, <2>2, ClampBounds DEF Within
<1>4. QED
  BY <1>1, <1>2, <1>3

\* The speed clamp of any result.
LEMMA ClampSpeedResult ==
  ASSUME Pid!PidAssumption, Pid!TypeOK, NEW result_ \in Pid!Results
  PROVE  Pid!ClampSpeed(result_) \in Pid!Results /\ Within(Pid!ClampSpeed(result_))
  BY ClampSpeedNaN, ClampSpeedBounds DEF Pid!Results

\* The time between two commands is positive.
LEMMA TimeStepType == ASSUME Pid!PidAssumption, Pid!TypeOK PROVE Pid!TimeStep \in Nat \ {0}
<1>1. pid.config.period \in Int
  BY ConfigType
<1>2. QED
  BY <1>1 DEF Pid!TypeOK, Pid!Controllers, Pid!TimeStep, Pid!ControlPeriod

\* The acceleration clamp keeps a desired speed within the limit.
LEMMA ClampAccelBounds ==
  ASSUME Pid!PidAssumption, Pid!TypeOK, NEW desired \in Pid!Results, Within(desired), NEW dt \in Nat \ {0}
  PROVE  Pid!ClampAccel(desired, dt) \in Pid!Results /\ Within(Pid!ClampAccel(desired, dt))
<1>1. pid.config.accel \in Int /\ pid.last \in Pid!Results /\ NaN \notin Int
  BY ConfigType DEF Pid!TypeOK, Pid!Controllers, Pid!PidAssumption
<1>2. CASE pid.config.accel <= 0
  BY <1>1, <1>2 DEF Pid!ClampAccel
<1>3. CASE pid.config.accel > 0 /\ NaN \in {desired, pid.last}
  <2>1. Pid!ClampAccel(desired, dt) = Pid!ClampSpeed(desired)
    BY <1>1, <1>3 DEF Pid!ClampAccel
  <2>2. QED
    BY <2>1, ClampSpeedResult
<1>4. CASE pid.config.accel > 0 /\ NaN \notin {desired, pid.last}
  <2>0. desired \in Int /\ pid.last \in Int
    BY <1>1, <1>4 DEF Pid!Results
  <2>1. PICK most \in Nat : most = pid.config.accel * dt
    BY <1>1, <1>4
  <2>2. Pid!Clamp(most, desired - pid.last) \in Int
    BY <1>1, <2>0, ClampBounds
  <2>3. PICK sum \in Int : sum = pid.last + Pid!Clamp(most, desired - pid.last)
    BY <2>0, <2>2
  <2>4. Pid!ClampAccel(desired, dt) = Pid!ClampSpeed(sum)
    BY <1>1, <1>4, <2>1, <2>3 DEF Pid!ClampAccel
  <2>5. QED
    BY <2>4, ClampSpeedBounds DEF Pid!Results
<1>5. QED
  BY <1>1, <1>2, <1>3, <1>4

\* A controller, field by field.
Fields(c, f, l, u, z) == [config |-> c, first |-> f, last |-> l, updated |-> u, localized |-> z]

\* A command without feed-forward keeps the configuration and is within the
\* limit.
LEMMA ComputedBounds ==
  ASSUME Pid!PidAssumption, Pid!TypeOK, NEW raw \in Pid!Results
  PROVE  /\ Pid!Computed(raw) \in Pid!Controllers
         /\ Pid!Computed(raw).config = pid.config
         /\ Within(Pid!Computed(raw).last)
<1>1. CASE Pid!LocalizationValid
  <2>1. PICK commanded : commanded = Pid!ClampAccel(Pid!ClampSpeed(raw), Pid!TimeStep)
    OBVIOUS
  <2>2. commanded \in Pid!Results /\ Within(commanded)
    BY <2>1, ClampSpeedResult, TimeStepType, ClampAccelBounds
  <2>3. Pid!Computed(raw) = [pid EXCEPT !.first = FALSE, !.updated = 0, !.last = commanded]
    BY <1>1, <2>1 DEF Pid!Computed
  <2>4. Pid!Computed(raw) = Fields(pid.config, FALSE, commanded, 0, pid.localized)
    BY <2>3 DEF Pid!TypeOK, Pid!Controllers, Fields
  <2>5. pid.config \in Configs \cup {Pid!NoConfig} /\ pid.localized \in Int
    BY DEF Pid!TypeOK, Pid!Controllers
  <2>6. QED
    BY <2>2, <2>4, <2>5 DEF Fields, Pid!Controllers
<1>2. CASE ~Pid!LocalizationValid
  <2>1. Pid!Computed(raw) = Fields(pid.config, TRUE, 0, 0, 0)
    BY <1>2 DEF Pid!Computed, Pid!ResetOf, Pid!TypeOK, Pid!Controllers, Fields
  <2>2. Within(0) /\ 0 \in Pid!Results
    BY ConfigType DEF Within, Pid!Results
  <2>3. pid.config \in Configs \cup {Pid!NoConfig}
    BY DEF Pid!TypeOK, Pid!Controllers
  <2>4. QED
    BY <2>1, <2>2, <2>3 DEF Fields, Pid!Controllers
<1>3. QED
  BY <1>1, <1>2

-------------------------------------------------------------------------------
PidInv == Pid!TypeOK /\ Pid!LastWithinLimit

LEMMA PidInitInv == Pid!PidAssumption /\ Pid!Init => PidInv
  BY DEF Pid!PidAssumption, Pid!Init, Pid!NoConfig, PidInv, Pid!TypeOK, Pid!Controllers, Pid!Results, Pid!LastWithinLimit

\* Every operation preserves the types and the limit.
LEMMA PidStepInv == Pid!PidAssumption /\ PidInv /\ [Pid!Next]_(Pid!vars) => PidInv'
<1> SUFFICES ASSUME Pid!PidAssumption, PidInv, [Pid!Next]_(Pid!vars) PROVE PidInv'
  OBVIOUS
<1>0. Pid!TypeOK /\ Pid!LastWithinLimit /\ pid \in Pid!Controllers
  BY DEF PidInv, Pid!TypeOK
<1>1. CASE Pid!MarkLocalization
  BY <1>0, <1>1 DEF Pid!MarkLocalization, Pid!PidAssumption, PidInv, Pid!TypeOK, Pid!Controllers, Pid!LastWithinLimit
<1>2. CASE Pid!Compute
  <2>1. PICK raw \in Pid!Results : pid' = Pid!Computed(raw)
    BY <1>2 DEF Pid!Compute, Pid!PidAssumption, Pid!Results
  <2>2. pid' \in Pid!Controllers /\ pid'.config = pid.config /\ Within(pid'.last)
    BY <1>0, <2>1, ComputedBounds
  <2>3. output' = pid'.last /\ marked' = marked
    BY <1>2 DEF Pid!Compute
  <2>4. QED
    BY <1>0, <2>2, <2>3 DEF PidInv, Pid!TypeOK, Pid!Controllers, Pid!LastWithinLimit, Within
<1>3. CASE Pid!ComputeWithFeedForward
  <2> DEFINE Fed(last, ff) == IF last = NaN THEN NaN ELSE last + ff
  <2>1. PICK raw \in Pid!Results, ff \in Int :
          /\ pid' = [Pid!Computed(raw) EXCEPT !.last = Pid!ClampSpeed(Fed(Pid!Computed(raw).last, ff))]
          /\ output' = Pid!ClampSpeed(Fed(Pid!Computed(raw).last, ff))
    BY <1>3 DEF Pid!ComputeWithFeedForward, Pid!PidAssumption, Pid!Results
  <2>2. Pid!Computed(raw) \in Pid!Controllers /\ Pid!Computed(raw).config = pid.config
    BY <1>0, ComputedBounds
  <2>3. PICK sum \in Pid!Results : sum = Fed(Pid!Computed(raw).last, ff)
    <3>1. Pid!Computed(raw).last \in Pid!Results
      BY <2>2 DEF Pid!Controllers
    <3>2. \A last \in Pid!Results : Fed(last, ff) \in Pid!Results
      BY DEF Pid!Results
    <3>3. QED
      BY <3>1, <3>2
  <2>4. PICK sent \in Pid!Results : sent = Pid!ClampSpeed(sum) /\ Within(sent)
    BY <1>0, ClampSpeedResult
  <2>5. pid' = [Pid!Computed(raw) EXCEPT !.last = sent] /\ output' = sent
    BY <2>1, <2>3, <2>4
  <2>6. pid' \in Pid!Controllers /\ pid'.config = pid.config /\ pid'.last = sent
    BY <2>2, <2>5 DEF Pid!Controllers
  <2>7. marked' = marked
    BY <1>3 DEF Pid!ComputeWithFeedForward
  <2>8. QED
    BY <1>0, <2>4, <2>5, <2>6, <2>7 DEF PidInv, Pid!TypeOK, Pid!LastWithinLimit, Within
<1>4. CASE Pid!Reset
  <2>1. pid' = Fields(pid.config, TRUE, 0, 0, pid.localized)
    BY <1>0, <1>4 DEF Pid!Reset, Pid!ResetOf, Pid!Controllers, Fields
  <2>2. pid' \in Pid!Controllers /\ pid'.last = 0 /\ pid'.config = pid.config
    <3>1. pid.config \in Configs \cup {Pid!NoConfig} /\ pid.localized \in Int
      BY <1>0 DEF Pid!Controllers
    <3>2. QED
      BY <2>1, <3>1 DEF Fields, Pid!Controllers, Pid!Results
  <2>3. output' = output /\ marked' = marked /\ pid.config.speed \in Int
    BY <1>0, <1>4, ConfigType DEF Pid!Reset
  <2>4. QED
    BY <1>0, <2>2, <2>3 DEF PidInv, Pid!TypeOK, Pid!LastWithinLimit
<1>5. CASE Pid!ApplyConfig
  <2>1. PICK cfg \in Configs : pid' = Fields(cfg, TRUE, 0, 0, pid.localized)
    BY <1>0, <1>5 DEF Pid!ApplyConfig, Pid!ResetOf, Pid!Controllers, Fields
  <2>2. pid' \in Pid!Controllers /\ pid'.last = 0 /\ pid'.config = cfg /\ cfg.speed \in Int
    <3>1. cfg \in Configs \cup {Pid!NoConfig} /\ pid.localized \in Int
      BY <1>0 DEF Pid!Controllers
    <3>2. cfg.speed \in Int
      BY DEF Pid!PidAssumption
    <3>3. QED
      BY <2>1, <3>1, <3>2 DEF Fields, Pid!Controllers, Pid!Results
  <2>3. output' = output /\ marked' = marked
    BY <1>5 DEF Pid!ApplyConfig
  <2>4. QED
    BY <1>0, <2>2, <2>3 DEF PidInv, Pid!TypeOK, Pid!LastWithinLimit
<1>6. CASE Pid!TimePasses
  <2>1. pid' = Fields(pid.config, pid.first, pid.last, pid.updated + 1, pid.localized + 1)
    BY <1>0, <1>6 DEF Pid!TimePasses, Pid!Controllers, Fields
  <2>2. pid' \in Pid!Controllers /\ pid'.last = pid.last /\ pid'.config = pid.config
    <3>1. /\ pid.config \in Configs \cup {Pid!NoConfig} /\ pid.first \in BOOLEAN
          /\ pid.last \in Pid!Results /\ pid.updated + 1 \in Nat /\ pid.localized + 1 \in Int
      BY <1>0 DEF Pid!Controllers
    <3>2. QED
      BY <2>1, <3>1 DEF Fields, Pid!Controllers
  <2>3. output' = output /\ marked' = marked + 1
    BY <1>6 DEF Pid!TimePasses
  <2>4. QED
    BY <1>0, <2>2, <2>3 DEF PidInv, Pid!TypeOK, Pid!LastWithinLimit
<1>7. CASE UNCHANGED Pid!vars
  BY <1>0, <1>7 DEF Pid!vars, PidInv, Pid!TypeOK, Pid!LastWithinLimit
<1>8. QED
  BY <1>1, <1>2, <1>3, <1>4, <1>5, <1>6, <1>7 DEF Pid!Next

\* Every state of the controller satisfies the invariant.
THEOREM PidInvariance == Pid!PidAssumption => (Pid!Spec => []PidInv)
<1> SUFFICES ASSUME Pid!PidAssumption PROVE Pid!Spec => []PidInv
  OBVIOUS
<1>1. Pid!Init => PidInv
  BY PidInitInv
<1>2. PidInv /\ [Pid!Next]_(Pid!vars) => PidInv'
  BY PidStepInv
<1>3. QED
  BY <1>1, <1>2, PTL DEF Pid!Spec

\* The controller's members keep their types.
THEOREM PidTypeCorrect == Pid!PidAssumption => (Pid!Spec => []Pid!TypeOK)
<1> SUFFICES ASSUME Pid!PidAssumption PROVE Pid!Spec => []Pid!TypeOK
  OBVIOUS
<1>1. PidInv => Pid!TypeOK
  BY DEF PidInv
<1>2. Pid!Spec => []PidInv
  BY PidInvariance
<1>3. QED
  BY <1>1, <1>2, PTL

\* For any configurations, applied in any order, and any control law, the last
\* output is within the speed limit in force or no number.
THEOREM LastWithinLimitCorrect == Pid!PidAssumption => (Pid!Spec => []Pid!LastWithinLimit)
<1> SUFFICES ASSUME Pid!PidAssumption PROVE Pid!Spec => []Pid!LastWithinLimit
  OBVIOUS
<1>1. PidInv => Pid!LastWithinLimit
  BY DEF PidInv
<1>2. Pid!Spec => []PidInv
  BY PidInvariance
<1>3. QED
  BY <1>1, <1>2, PTL

\* A change clamped to most, from a value within the limit to one within it,
\* stays a change of at most most when it is clamped to the limit once more.
LEMMA ClampedTwice ==
  ASSUME NaN \notin Int, NEW bound \in Nat, NEW most \in Nat, NEW from \in Int, NEW desired \in Int,
         -bound <= from, from <= bound, -bound <= desired, desired <= bound
  PROVE  LET sent == Pid!Clamp(bound, from + Pid!Clamp(most, desired - from))
         IN  sent - from <= most /\ from - sent <= most
  BY DEF Pid!Clamp

\* For any law and gains, a command without feed-forward differs from the last
\* output by at most the acceleration limit times the time since then, if both
\* are numbers.
THEOREM NoSurgeCorrect == Pid!PidAssumption => (Pid!Spec => Pid!NoSurge)
<1> SUFFICES ASSUME Pid!PidAssumption PROVE Pid!Spec => Pid!NoSurge
  OBVIOUS
<1> DEFINE Small == Pid!Compute /\ Pid!LocalizationValid /\ pid.config.speed > 0 /\ pid.config.accel > 0
                       /\ NaN \notin {pid.last, output'} =>
       LET most == pid.config.accel * Pid!TimeStep
       IN  output' - pid.last <= most /\ pid.last - output' <= most
<1>1. PidInv /\ [Pid!Next]_(Pid!vars) => [Small]_(Pid!vars)
  <2> SUFFICES ASSUME PidInv, Pid!Compute, Pid!LocalizationValid, pid.config.speed > 0, pid.config.accel > 0,
                      pid.last /= NaN, output' /= NaN,
                      NEW most, most = pid.config.accel * Pid!TimeStep
               PROVE  output' - pid.last <= most /\ pid.last - output' <= most
    OBVIOUS
  <2>1. Pid!TypeOK /\ Pid!LastWithinLimit /\ pid \in Pid!Controllers /\ NaN \notin Int
    BY DEF PidInv, Pid!TypeOK, Pid!PidAssumption
  <2>2. PICK raw \in Pid!Results : pid' = Pid!Computed(raw)
    BY DEF Pid!Compute, Pid!PidAssumption, Pid!Results
  <2>3. output' = Pid!ClampAccel(Pid!ClampSpeed(raw), Pid!TimeStep)
    BY <2>1, <2>2 DEF Pid!Compute, Pid!Computed, Pid!Controllers
  <2>4. Pid!TimeStep \in Nat \ {0}
    BY <2>1, TimeStepType
  <2>5. pid.config.speed \in Nat /\ pid.config.accel \in Nat
    BY <2>1, ConfigType
  <2>6. most \in Nat
    BY <2>4, <2>5
  <2>7. PICK desired \in Pid!Results : desired = Pid!ClampSpeed(raw) /\ Within(desired)
    BY <2>1, ClampSpeedResult
  <2>8. desired \in Int
    <3>1. SUFFICES ASSUME desired = NaN PROVE FALSE
      BY <2>7 DEF Pid!Results
    <3>2. output' = Pid!ClampSpeed(NaN)
      BY <2>3, <2>4, <2>5, <2>7, <3>1 DEF Pid!ClampAccel
    <3>3. QED
      BY <3>2, ClampSpeedNaN
  <2>9. pid.last \in Int
    BY <2>1 DEF Pid!Controllers, Pid!Results
  <2>10. output' = Pid!ClampSpeed(pid.last + Pid!Clamp(most, desired - pid.last))
    BY <2>1, <2>3, <2>4, <2>5, <2>7, <2>8, <2>9 DEF Pid!ClampAccel
  <2>11. output' = Pid!Clamp(pid.config.speed, pid.last + Pid!Clamp(most, desired - pid.last))
    BY <2>5, <2>10 DEF Pid!ClampSpeed
  <2>12. -pid.config.speed <= pid.last /\ pid.last <= pid.config.speed
    BY <2>1 DEF Pid!LastWithinLimit
  <2>13. -pid.config.speed <= desired /\ desired <= pid.config.speed
    BY <2>1, <2>7, <2>8 DEF Within
  <2>14. QED
    BY <2>1, <2>5, <2>6, <2>8, <2>9, <2>11, <2>12, <2>13, ClampedTwice
<1>2. Pid!Spec => []PidInv
  BY PidInvariance
<1>3. QED
  BY <1>1, <1>2, PTL DEF Pid!Spec, Pid!NoSurge

-------------------------------------------------------------------------------
(* The sensor buffer                                                       *)

LEMMA BufferFacts ==
  ASSUME BufferAssumption
  PROVE  /\ SeqSize \in Nat /\ SeqSize > 0
         /\ Writers \subseteq Threads /\ Readers \subseteq Threads
BY DEF BufferAssumption, Threads

\* The counter stays a count, around its size.
LEMMA IncrementType ==
  ASSUME BufferAssumption, BufferTypeOK, Increment
  PROVE  seq' \in Counts /\ since' \in [Readers -> 0..SeqSize]
<1>1. seq \in 0..(SeqSize - 1) /\ since \in [Readers -> 0..SeqSize]
  BY DEF BufferTypeOK, Counts
<1>2. seq' = IF seq = SeqSize - 1 THEN 0 ELSE seq + 1
  BY DEF Increment
<1>3. since' = [r \in Readers |-> IF since[r] < SeqSize THEN since[r] + 1 ELSE since[r]]
  BY DEF Increment
<1>4. \A r \in Readers : since[r] \in 0..SeqSize
  BY <1>1
<1>5. since' \in [Readers -> 0..SeqSize]
  BY <1>3, <1>4, BufferFacts
<1>6. QED
  BY <1>1, <1>2, <1>5, BufferFacts DEF Counts

LEMMA BufferInitType == BufferAssumption /\ BufferInit => BufferTypeOK
<1> SUFFICES ASSUME BufferAssumption, BufferInit PROVE BufferTypeOK
  OBVIOUS
<1>1. PICK v \in Samples : /\ buffer = [w \in Words |-> v]
                           /\ value = [t \in Writers |-> v]
                           /\ copy = [t \in Readers |-> [w \in Words |-> v]]
  BY DEF BufferInit
<1>2. QED
  BY <1>1, BufferFacts DEF BufferInit, BufferTypeOK, Counts, Buffers, WriterPcs, ReaderPcs

\* The steps of write().
LEMMA WriterKeepsType ==
  ASSUME BufferAssumption, BufferTypeOK, NEW t \in Writers, Write(t) \/ WriterStep(t)
  PROVE  BufferTypeOK'
<1>0. t \in Threads
  BY BufferFacts
<1>1. CASE Write(t)
  <2>1. PICK v \in Samples : value' = [value EXCEPT ![t] = v]
    BY <1>1 DEF Write
  <2>2. QED
    BY <1>0, <1>1, <2>1 DEF Write, Go, readerVars, BufferTypeOK, WriterPcs
<1>2. CASE Open(t)
  BY <1>0, <1>2, IncrementType DEF Open, Go, writerVars, readerVars, BufferTypeOK, WriterPcs
<1>3. ASSUME NEW w \in Words, Store(t, w) PROVE BufferTypeOK'
  BY <1>0, <1>3 DEF Store, writerVars, readerVars, BufferTypeOK, Buffers
<1>4. CASE Close(t)
  BY <1>0, <1>4, IncrementType DEF Close, Go, writerVars, readerVars, BufferTypeOK, WriterPcs
<1>5. QED
  BY <1>1, <1>2, <1>3, <1>4 DEF WriterStep

\* The steps of read().
LEMMA ReaderKeepsType ==
  ASSUME BufferAssumption, BufferTypeOK, NEW r \in Readers, Read(r) \/ ReaderStep(r)
  PROVE  BufferTypeOK'
<1>0. r \in Threads /\ 0 \in 0..SeqSize
  BY BufferFacts
<1>1. CASE Begin(r)
  BY <1>0, <1>1 DEF Begin, Go, writerVars, BufferTypeOK, ReaderPcs
<1>2. ASSUME NEW w \in Words, Copy(r, w) PROVE BufferTypeOK'
  <2>1. copy[r] \in [Words -> Samples] /\ buffer \in [Words -> Samples]
    BY DEF BufferTypeOK, Buffers
  <2>2. [copy[r] EXCEPT ![w] = buffer[w]] \in Buffers
    BY <2>1 DEF Buffers
  <2>3. copy' = [copy EXCEPT ![r] = [copy[r] EXCEPT ![w] = buffer[w]]]
    BY <1>2 DEF Copy
  <2>4. copy' \in [Readers -> Buffers]
    BY <2>2, <2>3 DEF BufferTypeOK
  <2>5. QED
    BY <1>0, <1>2, <2>4 DEF Copy, writerVars, BufferTypeOK
<1>3. CASE LoadAgain(r)
  BY <1>0, <1>3 DEF LoadAgain, Go, writerVars, BufferTypeOK, ReaderPcs
<1>4. CASE ReturnSample(r)
  BY <1>0, <1>4 DEF ReturnSample, Go, writerVars, readerVars, BufferTypeOK, ReaderPcs
<1>5. QED
  BY <1>1, <1>2, <1>3, <1>4 DEF ReaderStep, Read, Retry

\* read() and write() keep to their states, in whatever order the build makes
\* the plain accesses, for any number of writers and readers.
THEOREM BufferTypeCorrect == ASSUME BufferAssumption PROVE BufferSpec => []BufferTypeOK
<1>1. BufferInit => BufferTypeOK
  BY BufferInitType
<1>2. BufferTypeOK /\ [BufferNext]_bufferVars => BufferTypeOK'
  <2>1. BufferTypeOK /\ BufferNext => BufferTypeOK'
    BY WriterKeepsType, ReaderKeepsType DEF BufferNext
  <2>2. BufferTypeOK /\ UNCHANGED bufferVars => BufferTypeOK'
    BY DEF bufferVars, writerVars, readerVars, BufferTypeOK
  <2>3. QED
    BY <2>1, <2>2
<1>3. QED
  BY <1>1, <1>2, PTL DEF BufferSpec
===============================================================================
