# Verification of safety-autonomy-core

TLA+ models of the control core of this repository, TLC runs that check them on
small instances, and TLAPS proofs for every value of the constants. Paths below
are relative to the repository; `PROJECT.json` maps each definition to the lines
it models and lists the hazards the properties are for.

## The system

A C++ library (`include/safety_core`, `src`) for automated guided vehicles and
the ROS 2 nodes that use it (`ros2/src`).

| Component | State | Operations | Interacts with | Hard part | Right when |
|---|---|---|---|---|---|
| `ModeStateMachine` | `mode_`, `latched_fault_` (atomics), `fault_code_` (plain) | `transition_to`, `latch_fault`, `clear_fault`, `request_obstacle_hold`, `report_localization_lost`, `recover_localization` | health monitor; called from any thread | lock-free check-then-exchange | a latched fault holds SafeStop; calls return; an operation is one transition |
| `SafetySupervisor` (library) | last clock sample, counters | monitors for localization age, clock regression, dropped messages | escalates into the mode machine | ages computed from unsigned stamps | a Critical observation latches a fault |
| `SafetySupervisorNode` | the objects above, `safe_stop_requested_`, age of odometry | `on_odom`, `on_envelope`, `on_sensor_health`, `clear_fault` service, 50 ms `timer_tick` | publishes `safety/state`, `safety/safe_stop`, `safety/recovery_speed_limit` | three fields that must agree, set in many handlers; time that may go back | latch, mode, stop request and messages agree; lost inputs end in a stop; only `clear_fault` resumes |
| `SensorRecoveryManager` | per sensor: status, degraded since, timed out; `in_degraded_mode_`; last summary | `process_health_msg`, `check_timeouts`, `update_summary` | owned by the node | several sensors, one flag | degraded sensors hold the limit, or stop the vehicle in time |
| `SpeedLimitController` | current and target limit, start of the ramp | `update`, `on_degraded`, `on_recovered` | owned by the node | ramp against stop | half speed while degraded, zero in SafeStop |
| Stop profiles (`motion/trajectory.cpp`) | loop variables | two generators | the drive bridge | boundaries of the jerk phases; fixed buffer | limits on deceleration and jerk hold; the profile fits |
| `SafetyDriveBridgeNode` | last messages of five topics, stop ramp | subscriptions, `control_tick` | Nav2 in, supervisor in, `cmd_vel` out | topics reorder against each other | commands obey the supervisor; silence and faults bring the vehicle to rest |
| `SensorMonitorNode` | per sensor: arrival times of a window, last message | callbacks, `timer_tick` | publishes a burst of sensor health, the summary "all" last | best-effort topic; edges of the window; grace period | a punctual sensor raises no alarm, a silent one stops the vehicle |
| `evaluate_stop_distance`, `SafetyEnvelopeNode` | last speed, start time | `on_odom`, `on_scan` | publishes zone and limit to supervisor and bridge | thresholds, a buffer that follows the speed, returns it must not see | the vehicle stops before the obstacle, and only then |
| `TrajectoryValidator` | limits | `validate` | whoever plans a trajectory | order of checks, rounding at the limits | accepts what the stop generator makes |
| `TaskExecutor` | task slots, releases, policy | `apply_config`, `add_task`, `run_due` | user callbacks, clock | lag, catch-up, watchdog | releases do not drift or get lost; Ok hides no miss |
| `SafetyPidController` | integral, last output, stamp of the last localization | `compute`, `mark_localization_update`, `reset`, `apply_config` | clock | gate on stale localization, clamps in sequence | within its limits, no output on stale data |
| Sensor buffers (`platform/sensors`) | sample, sequence counter | `read`, `write` | one bridge writes, any thread reads | a seqlock over plain memory | a read is whole, and returns |
| `IsSafeCondition` (Nav2) | last state message | `on_safety_state`, `tick` | `safety/state` | a loop with the stack it asks | refuses until it hears the supervisor, and does not lock the vehicle up |
| Configuration (`config`, `context_factory`) | `ContextWithConfig` | `load_from_env`, `migrate_to_current`, `validate`, `build_context` | environment; PID, executor, envelope node | conversions of text | what is built is usable; nothing is truncated |
| Filters, diagnostics, ROS bridges, slip detector, scripts, launch files | see `PROJECT.json` | | | arithmetic or output only | |

`rclcpp::spin` runs one node's callbacks one at a time; nodes are processes that
share nothing but topics. Inside the library any thread may call the mode
machine.

## Modules

Modelled in this order, the most important behaviour first.

| Module | Models | State and actions |
|---|---|---|
| `ModeRules` | `Mode`, `allowed()` | operators only |
| `ModeProtocol` | what the mode machine promises | `mode`, `latched`; each operation is one step |
| `ModeStateMachine` | the mode machine, one atomic access per step | `mode`, `latched`, `faultCode`, what the monitor was `told`, and per thread `pc`, `target`, `expected`; each load, store and compare-exchange is an action |
| `Ages` | `TimeUtils` | a stored stamp is modelled by its age, `None` for no stamp and `Ahead` for one later than the clock, whose unsigned age wraps |
| `SensorRecovery`, `SpeedLimit` | the two header-only classes | operators on records |
| `SupervisorNode` | the node with all it owns | `node` (members) and `published` (last messages); one action per callback, the timer tick, and the clock |
| `StopProfile` | one sample of the jerk-limited stop; the whole profile as a recursive function | operators |
| `StopProfileLoop` | the generator's loop | one action per iteration |
| `DriveBridge` | the bridge node | `bridge`, `cmdVel`; operators per subscription, `ControlTick` |
| `SafetyStack` | supervisor and bridge joined by three topics | extends `DriveBridge`, instantiates the supervisor (through `SupervisorNode_proofs`, with what is proved of it); a queue per topic |
| `TaskExecutor` | the executor; `run_due` one slot and one callback at a time | `tasks`, `watchdog`, `limit`, the clock `now`, and within a call `pc`, `tick`, `slot`, `ran`; an action per call, refusal, callback start and end |
| `SensorMonitor` | the monitor node | `trackers`: arrival times of the last window, as ages; `Status`, `Publications` |
| `SensorWatch` | monitor and supervisor joined by the health topic | a queue of `HealthDepth` that loses messages; extends `SensorMonitor`, instantiates the supervisor in the same way |
| `StopDistance` | `evaluate_stop_distance` | operators; fractions multiplied out |
| `SafetyEnvelope` | the envelope node | `envelope`: speed and age of the start; operators for buffer, grace and zones |
| `IsSafeCondition` | the Nav2 condition | operators on the last state message, and whether its subscription matches the publisher |
| `Corridor` | envelope node, supervisor, bridge and condition, closed over a vehicle and an obstacle | extends `SafetyEnvelope`, instantiates `SafetyStack` (through `SafetyStack_proofs`); an action per callback, delivery and loss, a scan of the lidar or none (`quiet` counts the units without), `Move` for the vehicle |
| `TrajectoryValidator` | `validate` of a trajectory | operators on sequences of points |
| `SafetyPid` | the PID controller around an arbitrary control law | `pid`, `output`, and the true age of the last stamp, `marked` |
| `SensorBuffer` | the two buffered sensors | `seq`, `buffer`, and per thread where it is (`at`), the words still `pending`, copies; an action per access |
| `Configuration` | environment, migration, validation, `build_context` | operators on a function from fields to values |
| `MC*` | instances for TLC | constants; `MCStopProfile` also hands the profile to the validator |
| `*_proofs` | theorems and proofs of the module named; `Library_proofs` has those of `TaskExecutor`, `SafetyPid` and `SensorBuffer`, and `MCStopProfile_proofs` those of the generator's loop, the stopping distance and the configuration, since its last theorems join them | |

Abstractions that matter:

- **Numbers.** The speed limit is counted in steps of the ramp, so that half and
  full speed and every intermediate value are whole. The stop profile is
  computed in doubles by the code; the model uses the grid its parameters form
  (with the bridge's defaults 5 mm/s) and computes on it exactly. Doubles do so
  only nearly: ten steps of 0.1 fall just short of 1. Rounding is not modelled.
- **Time.** Only differences between the clock and stored stamps are kept, each
  up to the largest value the code compares it with. `TimePasses` ages all;
  `ClockSetBack` puts the clock behind every stamp.
- **Memory order.** `ModeStateMachine` interleaves sequentially consistent
  accesses. The code's acquire/release operations permit no reordering of the
  accesses of one variable, but weaker orders between `latched_fault_` and
  `mode_` than the model shows are possible in principle. The plain
  `fault_code_` is written and never read. `SensorBuffer` goes further: within a
  call its plain accesses may leave the order of the program as far as the memory
  orders named in the code allow. A load of the sample may sink below the second
  (acquiring) load of the counter, and a store may rise above the first (releasing)
  increment; both make torn reads possible (`NoTornRead` does not hold). Fences around the
  copy, or atomic words, would rule that out.
- **Vehicle.** In `Corridor` the vehicle is external: it follows `cmd_vel` within
  an acceleration and the envelope's deceleration, and moves once per unit of
  time, by the larger of the speeds at its ends. Odometry comes in every unit
  while it comes at all; a scan at the latest in every `ScanEvery`-th. The bridge
  subscribes to the envelope reliably; the supervisor does so best-effort, and may
  miss any status (`SupervisorMisses`).
- **DDS** is external: a subscription hears a publisher that offers at least the
  durability it asks for. `Connected` says so of `IsSafe`, which asks for
  `transient_local`, and the supervisor's `safety/state`, which is volatile.
- **Control law.** `SafetyPid` takes the sum of the PID terms as any number, so
  gains, integral and anti-windup are left out; gate, clamps, time step and
  state around it are the code's. `compute` does not ask whether setpoint and
  measurement are finite. An infinite sum acts like a large number. NaN is one more
  value of the model: it fails every comparison, so it passes both clamps, is
  returned, and stays in `last_output_` (in the code in the integral too) until a
  reset. The properties of the PID except it by name.
- **Configuration.** A text is the number it parses to, or `NoNumber`; the 64-bit
  conversions are modelled by what they do, with `HalfWord` for 2^63.
- **Calls refused at their first load** change nothing and are left out of
  `ModeStateMachine`.
- **Which sensor times out first** in `check_timeouts` depends on a hash map's
  order and is left open (`\E s` in `TimerTick`).
- **Environment.** Which zones, reports, odometry and commands arrive, and when,
  is unrestricted within the small sets a run names, so lost sensor messages are
  included. State topics are reliable but keep a bounded history
  (`Publish` drops the oldest), and nothing orders one against another.

## Runs

| Run | Question | Bounds |
|---|---|---|
| `MCModeSolo` | Do the accesses of each operation add up to one indivisible step of `ModeProtocol` (refinement), and does the monitor follow? | one thread, all modes |
| `MCModeStops` | With a second thread that may request SafeStop between any two accesses: latched means SafeStop, and calls keep returning (lock-freedom, spurious failures included) | two threads, one code |
| `MCModeLatchRace` (violation) | The same with a second thread that may request any mode | two threads |
| `MCSupervisorSafety` | Do latch, mode, stop request, messages and speed limit agree under every zone, status, summary, silent or skewed odometry and a clock that goes back, and can Degraded mode be left? | two sensors, timeouts of 0 and 1 units |
| `MCStopProfile` | Every initial speed: buffer, distance, agreement with `Profile`; does the validator accept the stop, at the least room the envelope leaves plus that of the ramp? | speeds to 2.4 m/s, buffer of 48 samples, a latency that rounds down to no sample |
| `MCSafetyStack` | Do commands obey the last delivered tick in every order of delivery, and do a fault and a silent Nav2 bring the vehicle to rest? | one sensor, history of one message |
| `MCStackAfterClear` (violation) | May a safe stop set a vehicle at rest in motion? | as above |
| `MCTaskExecutor` | Do releases stay on their grid, does Ok hide nothing, and are backlogs worked off when callbacks overrun, fail or add tasks? | two slots, periods of 1 and 2 ticks, a clock that stops after 4 |
| `MCSensorBuffer` | Do reads return when writes pause? | one writer, one reader, two words, a counter of two bits |
| `MCSensorWatch` | From arrival to stop: does a punctual sensor keep the vehicle going, whatever the timer's phase and the losses, and does a silent one end in a fault? | one sensor, two messages to a window, history of two |
| `MCCorridor` | Does the vehicle stop before the obstacle, come down to half speed when there is nothing to see, stop when odometry is lost, and get going again when there is room to an obstacle in view? | speeds to 2, obstacle at 18, a scan in every second unit of time or more often, trees that ask `IsSafe` and trees that do not |
| `MCPidStale` (violation) | Does a command ever come from a localization older than the timeout? | one timeout, ages to 3 |

Why the bounds are enough: timeouts enter only through "not yet", "just" and
"over", which one or two units tell apart; a sensor's operations read the other
sensors only through "is any degraded", which two sensors exercise; the
mode machine's accesses are symmetric in the threads that are not supervisors,
and what needs more of them is proved for any number. A history of one message
makes the oldest message of a topic as stale against the others as the bridge
can see it, since the bridge keeps one message per topic. The stop profile has 48
samples of buffer so that both outcomes occur. Constants such as `Capacity`,
`QueueDepth`, `MaxSpeed`, and the caps of the ages are the only bounds; no
run has a state constraint.

The executor's clock ends one tick before `TimeMax`, so that the overflow
refusals occur; the two slots have a task before and a task behind each other,
which is all that one slot can see of the rest. A counter of two bits
wraps around during a read, so the properties of `SensorBuffer` speak of
reads in which it does not come full circle (`since`): 2^31 writes in the code.
`MCSensorWatch` has the burst and the history at the same length, as in the code
(four sensors and the summary, depth 5). `MCCorridor` keeps the
proportions of `safety_params.yaml` (ignored range below minimum buffer plus
overhang); with the range above that sum, as in the envelope node's own defaults
with the dynamic buffer off, the obstacle leaves the scan before the vehicle is in
the Emergency zone and `NoContact` does not hold. Its minimum buffer is larger
still: a status for the supervisor that is lost may be the only one of an
Emergency, and if the obstacle is too near to be looked at by the next scan,
that scan says that nothing is in view. With a buffer that does not cover what the
vehicle drives in between, TLC finds the contact.
The shipped latency of 40 ms is less than a sample of `MCStopProfile` and rounds
down to none there, which is the harder case: a longer latency only asks for more
room.

`MCStopProfile` disables deadlock checking: the function returns.

## Fairness

- `ModeStateMachine!FairSpec`: a thread inside a call keeps running (weak
  fairness of its next access), and a compare-exchange retried for ever on a
  matching value succeeds in the end (strong fairness): the C++ standard allows
  `compare_exchange_weak` to fail spuriously, hardware does not do so for ever.
- `TaskExecutor!FairSpec`: `run_due` is called again and again and callbacks
  return. Time is not assumed to pass; `CatchesUp` speaks of the bounded clock.
- `SafetyStack!FairSpec`: both timers keep firing and the reliable topics
  deliver what they hold. Nothing is assumed of Nav2, odometry or sensors.
- `SensorBuffer!BufferFairSpec`: a call that has begun keeps running. Nobody has to call,
  and `ReadsReturn` asks that writes pause.
- `SensorWatch!FairSpec`: both timers fire and queued messages are heard or lost;
  the summary is heard in the end if it arrives over and over (strong fairness),
  since a best-effort topic that loses every one of them carries nothing.
  Sensors never have to send.
- `Corridor!FairSpec`: every node runs, reliable messages arrive and time goes on.
  The obstacle may leave and odometry may die, or not.

## Proofs

All statements hold for any value of the constants that satisfies the named
assumptions of their modules.

- **`ModeStateMachine_proofs`**: type correctness; `StopHolds`
  under `SingleSupervisor` (one thread issues every call but
  requests to stop: how the nodes use the object), for any number of stopping
  threads; refinement of `ModeProtocol` and `MonitorSeesMode` under
  `SingleThread`. The invariants need strengthening because a transition holds
  the result of a latch test that may be stale: the inductive invariant says at
  which accesses the supervisor's own latch can no longer change beneath it, and
  that every other thread's target is SafeStop. Without the assumption it
  is false: `MCModeLatchRace`. `MonitorSeesMode` speaks of the moments
  between calls; `ToldRegisters` says for every access inside a call what the
  monitor has been told by then, the mode or the one before it.
- **`SupervisorNode_proofs`**: for any number of sensors and any timeouts, type
  correctness and the run's safety and action properties. The inductive
  invariant joins `LatchedIffStopped` and `StopNeedsFault` (latch, mode and
  request move together), the flag carried by Degraded mode, and
  `DegradedIsSlow`, whose proof needs the bound on target and ramp with the bound
  on the current limit. Lemmas state what each handler's operator preserves;
  `TimerTick` composes them in the order of the code.
- **`StopProfile_proofs`**: `StopSamples`, the recursive function behind the ramp
  the bridge's model plays, satisfies its recursion from every motion
  (`StopSamplesUnfold`), so that `Profile` is a stop (`ProfileStops`). A sample of a
  stop may keep the speed, so `Steps` ranks a motion by twice its speed, plus one
  while it decelerates: a function that obeys the recursion where fewer than n
  samples are to come can be made to obey it at n (`OneStepMore`). The library's
  induction theorems take an operator and cannot be used here; `Inductive` is stated of sets
  instead, and `LeastNatural` gives it from the fact that < on the naturals is well
  founded.
- **`MCStopProfile_proofs`**, the loop: `LoopIsProfile`, which says that the
  generator's loop writes exactly the samples of `Profile`, and gives up exactly when
  they do not fit: what is written so far, followed by the profile of the
  state the loop is in, is the profile of the start. Further, type correctness, `StopsNoSooner`,
  `FitsWhenLargeEnough` and `NoShorterThanStandard` for any limits,
  buffer and speed. The progress argument strengthens the invariant (`Progress`):
  a sample that ramps the deceleration down to zero keeps the speed and the next
  one cannot, so the samples written are at most twice the speed lost, plus one
  after such a sample. For the distance the invariant `Farther` compares every
  prefix of the profile with braking at the limit from the first sample on; it has
  to split where the emergency stop takes its last, partial sample.
- **`MCStopProfile_proofs`**, distance and room: the stopping zones recommend zero;
  more room or less speed never leads into them; a vehicle outside them that
  brakes from now on stays outside them (`BrakingStaysSafe`), at any interval of the
  scans and any latency. What the interval exceeds the latency by (`Beyond`), times
  the speed, is paid out of the buffer: with the shipped 40 ms and scans every
  100 ms, 0.09 m of it at 1.5 m/s. And `StopValidates`, for every
  envelope that `validate` accepts and every stop within its limits (`Admitted`).
  `Slack` is what is left of the room after each sample. The ramp up spends just
  its allowance (`RampCost`). Afterwards a sample at the limit gains at least
  twice the square of the limit, from the latency, which is what the eased sample that may follow
  it spends at most; so the invariant `Roomy` demands that reserve exactly when the
  deceleration is at its limit. A latency of less than one sample does not gain it:
  then the theorem adds the room of the missing latency, and has to (TLC
  finds stops that do not validate without, with `Latency = 0` and limits close to the
  jerk, `Decel = 8` and `Jerk = 2` for one). For the shipped limits the run
  shows that nothing need be added. A ramp of whole samples is needed too
  (`Decel = 7`, `Jerk = 2`); the shipped bridge has 10.
- **`MCStopProfile_proofs`**, configuration: what is loaded fits its fields; loading
  twice, as the application does, is loading once; a context never holds a
  configuration its consumers cannot use; periods beyond 63 bits are refused.
- **`Library_proofs`**, the executor: type correctness, `NoDrift`,
  `OkLeavesNothing` and `NoHiddenMiss` for any number of slots and an unbounded
  clock. The inductive invariant says that used slots form a prefix (`Filled`),
  so that a callback can add a task only behind the slot that runs, and that in
  the middle of a call the slots behind have had their runs (`Midway`).
- **`Library_proofs`**, the sensor buffers: type correctness, for any number of
  writers and readers and any sizes, whatever the order of the plain accesses.
- **`Library_proofs`**, the PID controller: type correctness, `LastWithinLimit` (the last command is
  within the speed limit in force, also after a reconfiguration, or NaN) and `NoSurge`
  (without feed-forward a command respects the acceleration limit, if it and the one
  before are numbers), for any configurations and any control law, one that
  yields NaN included. The invariant ties the last output to
  the limit; a reset drops both.
- **`SafetyStack_proofs`**: supervisor and bridge joined, for any depth of history,
  any messages dropped and any order of delivery between topics.
  `SupervisorImplemented` shows that the joined system implements the supervisor's
  specification, so its theorems hold in the stack. The invariant follows not the
  messages in flight, which may be old or missing, but the one that arrives last
  (`Arriving`): on each topic it is what the supervisor published last
  (`Follows`, `Limited`), since `Publish` drops from the front and a delivery
  changes nothing of what is to arrive. `SettledStopHasFault` and `CommandsObeyTick`
  are that with nothing in flight, and the supervisor's `StopMessageHasFault`.
  `CommandsObeyTick` assumes `MaxLinear <= FullLimit`: the bridge starts from its
  own limit, before it has heard one. Both are 1.5 m/s in `safety_params.yaml`.
  `StackTypeCorrect` has the types, among them that the ramp the bridge plays is a
  sequence of speeds, from `ProfileStops`.
- **`SensorWatch_proofs`**: monitor, best-effort queue and supervisor, for any
  sensors, windows, rates and depth of queue: type correctness, `NoFalseAlarm` and
  `PunctualNeverStops`. The invariant says that no message of a punctual sensor is
  older than its period, and that a message lies in every stretch of one period
  since the start, as far back as the window goes (time waits for the message of
  the newest stretch). Whatever the phase of the timer, one message for every
  whole period of the window is therefore in it; the messages in flight are then
  HEALTHY for punctual sensors, and if every sensor is punctual so is the summary,
  so that the supervisor only ever hears HEALTHY, whatever is lost.
  `EnoughInWindow` says that the whole periods of a window amount to the healthy
  share of it, and that the grace period is no shorter than a window: a window of
  one period and a half, say, may hold one message of the expected one and a half
  and fall below 80 %. A window of one second with sensors of 10, 50 or 100 Hz and
  2 s of grace (`kStartupGracePeriodS`), as in the code,
  satisfies it. `PunctualNeverStops` further assumes `SensorsAlone`: neither odometry
  nor an Emergency zone, which stop the vehicle in their own right.

- **`Corridor_proofs`**: the whole loop of envelope node, supervisor, bridge,
  vehicle and obstacle; type correctness, and `NoContact` for any
  parameters that are `Careful` and any obstacle that is `FarAtStart`, whatever
  statuses the supervisor misses. The formula of
  `BrakingStaysSafe` is not enough here, because nodes hear of a scan in any order
  and odometry may be one unit old. `Cost(v, n)` is the room for n units of the
  hardest driving from speed v and then a stop. What the bridge still has to hear
  gives it a number of units in which the vehicle may drive on, and the invariant
  `Room` says that there is room for as many: to stop with the obstacle in view
  (`StaysInView`) after the moves until the bridge has heard another scan
  (`MovesLeft`), after one if only the next move may be no stop (`MayPushFreely`), or at
  once if the zone of the last scan stops it (`Barred`); and, once a latched fault is
  on its way (`Doomed`), to stop short of the obstacle, seen or unseen. The bridge alone
  brings the vehicle to rest, so the supervisor may miss any status; a fault it
  does hear of only stops the vehicle sooner. Hence the two halves of `Careful`:
  the required clearance covers a unit of stale odometry, the time to the next scan
  and a unit to hear of it; and the range below which returns are ignored is one
  unit of driving further than the obstacle. `FarAtStart` does for the
  grace period, in which no emergency counts, what `Careful` does later. `Cause` says who
  has heard what, and `Shape` has the types and the invariant of `SafetyStack_proofs`.
  `ShippedNoContact` is the instance of `safety_params.yaml`: with 1.5 m/s,
  0.75 m/s^2, 1.0 m/s^2, the dynamic buffer of 0.5 m and 0.3 s, scans at 10 Hz
  (`lidar_expected_rate`), timers of 50 ms, and an obstacle at
  5.1 m or more at the start there is no contact, whatever the control latency
  (0 included), the timeouts and the jerk limit. `MCCorridor` has
  tighter parameters, which are not `Careful`: there TLC shows
  `NoContact` in all its states, and liveness.

Left to TLC: liveness and lock-freedom, since this prover has no rule for fairness
or ENABLED, and the three properties of the violation runs. Every invariant and
action property that a passing run checks is also proved (`StopValidates` for a
latency of one sample or more).

## What the code does and documents do not say

Each is a violation run or a hazard of `PROJECT.json`. Four properties that a document
suggests and the code does not keep are in the modules and in no run; each is refuted
when it is added to the configuration named:

- A second thread that drives can take a latched machine out of SafeStop
  (`MCModeLatchRace`): the latch is tested before, not with, the exchange. The
  nodes run one thread and are not affected.
- `timed_out` is never reset, although the comment at
  `sensor_recovery_manager.hpp:133` says "until sensor recovers": a sensor that
  timed out once is not heard when it degrades again.
- After `clear_fault` the published limit stays 0 although the vehicle is Moving:
  nothing sets the target back (`speed_limit_controller.hpp:38`) until a sensor
  degrades and recovers.
- A localization found stale counts as updated (`MCPidStale`), so the controller
  puts out zero once per timeout and commands in between. Its reset to zero, and
  feed-forward, which is added after the gate and the acceleration clamp, are the
  two steps `NoSurge` has to except.
- With nothing in view after the grace period the recommended limit is the
  smaller of the current speed and half speed: a vehicle at rest stays at rest
  for ever, without a fault (`BlindGetsGoing`, with `MCCorridor.cfg`; README.md:240 says
  "Reduced speed" of a warning zone). `RoomGetsGoing` therefore speaks of an obstacle in
  view.
- `IsSafe` never hears a state (`SafeReportPasses`, with `MCCorridor.cfg`): it subscribes `transient_local`
  (`is_safe_condition.cpp:20`) and the supervisor publishes volatile
  (`qos_config.hpp:39-55`), a pair that DDS does not connect. A tree that asks it
  never drives, and `RoomGetsGoing` excepts it. No tree of the repository asks.
- A sensor read may be torn (`NoTornRead`, with `MCSensorBuffer.cfg`): the memory orders of `imu_sensor.hpp`
  and `odometry_sensor.hpp` let the copy sink below the second load of the counter
  and the store rise above the first increment. An x86 processor keeps both in
  order; the compiler, or an ARM, need not.
- The PID controller passes a NaN of its setpoint or measurement through both
  clamps to its output, and keeps it until `reset` (`safety_pid.cpp:168`).
- An obstacle inside the ignored range is not seen at all; inside the grace period
  it reads as Clear at full speed. The bridge has no limit before the first
  envelope status.
- The shipped `envelope.control_latency_s` of 0.04 s (`safety_params.yaml:11`) is
  shorter than the 0.1 s between scans (10 Hz, `safety_params.yaml:31`): between two
  scans the vehicle goes further than the latency term allows for, and the safety
  buffer makes up the difference (`BrakingStaysSafe`, `ShippedNoContact`).
- The supervisor subscribes to the envelope best-effort (`safety_supervisor_node.cpp:86`):
  the Emergency that would latch a fault may be lost. The vehicle then stops by the
  bridge's limit alone, and drives on once the zone is left, without `clear_fault`.
- Odometry that was never received is not stale: the envelope node then works with
  speed 0 (`OdomLossHalts` asks that it has been heard).
- `IsSafe` refuses Degraded mode, so a tree that asks it never drives at the half
  speed that mode is for.
- The validator admits a full stop only with a deceleration limit of at least the
  bridge's 1.0 m/s^2; the default `max_accel` of 0.75 rejects it. It trusts
  the jerk that the generator reports, which is 0 where it clamps.
- A duration text below -2^63 wraps to a positive period (`env_loader.cpp:78`).
- `validate` admits up to 100 tasks whatever the executor's capacity; `apply_config`
  then refuses, after it has stored the configuration.
- The jerk-limited ramp hardly ever plays: every stop comes with its fault
  (`StopNeedsFault`, `SettledStopHasFault`), which the bridge answers with an
  immediate zero. The ramp it prepared stays behind and may play after
  `clear_fault` (`MCStackAfterClear`).
- Nothing calls `recover_localization`: LocalizationLost ends only in SafeStop.
- The last step of a stop profile exceeds the jerk limit (`JerkLimited`, with
  `MCStopProfile.cfg`), and its ramp-down phase alternates with the ramp-up (`trajectory.cpp:150`).
- The bridge has no staleness check on the supervisor's topics.
- A task that lags more than the watchdog window is refused for ever, and every
  task in a later slot with it: the refusal does not move its release
  (`task_executor.hpp:158`). `CatchesUp` therefore asks for the watchdog to be
  off. A task that fails, or overruns, whenever it is run also ends the call:
  the tasks behind it are reached only in calls in which it is not due, and
  never if there is a release of it for every call. The clock of `CatchesUp`
  stops, so there such calls come.

## Not modelled

- Filters, slip detector, GPS adapter: floating-point estimation with no control
  state; their outputs reach no modelled node.
- Message conversion in the ROS bridges, teleop, parameter loading, diagnostics
  formatting and transport, launch files, scripts: output, start-up or terminal
  input without a protocol.
- The monitor's metrics messages and status history, the envelope's markers: read
  by displays only.
- `observe_transport_drop_count`, `is_fresh`, `is_command_fresh`: no caller.
- The demonstration programs: scripted walks through the library on one thread.

## Plan

1. An abstract specification of the stack ("stopped until cleared") with
   `SafetyStack` as its refinement.
2. Memory orders of the mode machine in the manner of `SensorBuffer`.
3. Odometry at a rate of its own in `Corridor`, and losses of it.
