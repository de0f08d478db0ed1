----------------------------- MODULE TaskExecutor -----------------------------
(***************************************************************************)
(* TaskExecutor: periodic callbacks in a fixed array of slots, run by      *)
(* run_due.  A call goes through the slots one at a time, and the clock    *)
(* and the callbacks, which may take long, fail, or add tasks, go on in    *)
(* between.  Times are whole ticks of a coarse clock.                      *)
(*                                                                         *)
(* The two catch-up policies are one number, the runs a slot may have in a *)
(* call: 1 for SingleStep.  max_tasks_ and default_period_ only choose an  *)
(* error's text and an omitted argument and are left out, and so are calls *)
(* that are refused and change nothing.  A callback may add tasks, but not *)
(* reconfigure the executor or call run_due again.                         *)
(***************************************************************************)
EXTENDS Integers

CONSTANTS
  MaxTasks,
  Periods,      \* periods of the tasks added
  Watchdogs,    \* configured watchdog periods; 0 switches the watchdog off
  Limits,       \* max_runs_per_tick of the policies set, 1 for SingleStep
  Skews,        \* how far ahead of the clock run_due's now_tp is
  TimeMax,      \* TimePoint::max()
  Horizon       \* the clock stops here

ASSUME ExecutorAssumption ==
  /\ MaxTasks \in Nat \ {0}
  /\ Periods \subseteq Nat \ {0} /\ Watchdogs \subseteq Nat
  /\ Limits \subseteq Nat /\ Skews \subseteq Nat
  /\ TimeMax \in Nat /\ Horizon \in 0..TimeMax

Slots == 1..MaxTasks

VARIABLES
  now,        \* clock_->now()
  tasks,      \* tasks_: period, 0 when not used, and next_release
  added,      \* the time each task was added
  watchdog,   \* watchdog_period_
  limit,      \* catch_up_limit_
  pc,         \* where run_due is: "idle", "slot" or, in a callback, "task"
  tick,       \* its argument now_tp
  slot,       \* its loop variable
  ran,        \* the runs of each slot in this call: run_count
  late,       \* a callback of this call returned after its deadline
  result      \* what the last call returned

config == <<watchdog, limit>>
vars   == <<now, tasks, added, watchdog, limit, pc, tick, slot, ran, late, result>>

Results == {"Ok", "Fault", "DeadlineMiss", "TaskError"}

TypeOK ==
  /\ now \in Nat
  /\ tasks \in [Slots -> [period : Nat, next : Nat]]
  /\ added \in [Slots -> Nat]
  /\ watchdog \in Nat /\ limit \in Nat \ {0}
  /\ pc \in {"idle", "slot", "task"}
  /\ tick \in Nat /\ slot \in 1..(MaxTasks + 1)
  /\ pc = "task" => slot \in Slots
  /\ ran \in [Slots -> Nat] /\ late \in BOOLEAN
  /\ result \in Results

Init ==
  /\ now = 0
  /\ tasks = [i \in Slots |-> [period |-> 0, next |-> 0]]
  /\ added = [i \in Slots |-> 0]
  /\ watchdog = 0 /\ limit = 1
  /\ pc = "idle" /\ tick = 0 /\ slot = 1
  /\ ran = [i \in Slots |-> 0] /\ late = FALSE
  /\ result = "Ok"

Used(i) == tasks[i].period /= 0

Due(i) == Used(i) /\ tasks[i].next <= tick

-------------------------------------------------------------------------------
ApplyConfig(w) ==
  /\ pc = "idle"
  /\ watchdog' = w
  /\ UNCHANGED <<now, tasks, added, limit, pc, tick, slot, ran, late, result>>

\* Seeded bug: a policy of no runs is taken as it is.
TakeZero(n) ==
  /\ pc = "idle"
  /\ limit' = n
  /\ UNCHANGED <<now, tasks, added, watchdog, pc, tick, slot, ran, late, result>>

SetCatchUpPolicy(n) ==
  /\ pc = "idle"
  /\ limit' = IF n = 0 THEN 1 ELSE n
  /\ UNCHANGED <<now, tasks, added, watchdog, pc, tick, slot, ran, late, result>>

\* The first free slot; also from a callback.
AddTask(p) ==
  /\ pc \in {"idle", "task"}
  /\ now <= TimeMax - p
  /\ \E i \in Slots :
       /\ ~Used(i) /\ \A j \in 1..(i - 1) : Used(j)
       /\ tasks' = [tasks EXCEPT ![i] = [period |-> p, next |-> now + p]]
       /\ added' = [added EXCEPT ![i] = now]
  /\ UNCHANGED <<now, config, pc, tick, slot, ran, late, result>>

-------------------------------------------------------------------------------
(* run_due                                                                 *)

RunDue ==
  /\ pc = "idle"
  /\ \E skew \in Skews : tick' = now + skew
  /\ pc' = "slot" /\ slot' = 1
  /\ ran' = [i \in Slots |-> 0] /\ late' = FALSE
  /\ UNCHANGED <<now, tasks, added, config, result>>

Return(code) == pc' = "idle" /\ result' = code /\ UNCHANGED <<now, added, config, tick, slot>>

\* Seeded bug: a slot is left after its first run, whatever the policy.
LeaveSlot ==
  /\ pc = "slot" /\ slot \in Slots
  /\ Due(slot) => ran[slot] >= 1
  /\ slot' = slot + 1
  /\ UNCHANGED <<now, tasks, added, config, pc, tick, ran, late, result>>

\* The slot has nothing due any more, or has had its runs.
NextSlot ==
  /\ pc = "slot" /\ slot \in Slots
  /\ Due(slot) => ran[slot] >= limit
  /\ slot' = slot + 1
  /\ UNCHANGED <<now, tasks, added, config, pc, tick, ran, late, result>>

AllDone ==
  /\ pc = "slot" /\ slot \notin Slots
  /\ Return("Ok")
  /\ UNCHANGED <<tasks, ran, late>>

\* A release of the current slot is to be handled.
Releasing == pc = "slot" /\ slot \in Slots /\ Due(slot) /\ ran[slot] < limit

Overflows(i) == tasks[i].next > TimeMax - tasks[i].period

LagsBehind(i) == watchdog > 0 /\ tick - tasks[i].next > watchdog

\* deadline_overflow: the release is left as it is.
RefuseOverflow ==
  /\ Releasing /\ Overflows(slot)
  /\ Return("Fault")
  /\ UNCHANGED <<tasks, ran, late>>

\* watchdog_exceeded: so is the release of a task too far behind.
RefuseLag ==
  /\ Releasing /\ ~Overflows(slot) /\ LagsBehind(slot)
  /\ Return("DeadlineMiss")
  /\ UNCHANGED <<tasks, ran, late>>

StartTask ==
  /\ Releasing /\ ~Overflows(slot) /\ ~LagsBehind(slot)
  /\ pc' = "task"
  /\ UNCHANGED <<now, tasks, added, config, tick, slot, ran, late, result>>

\* Seeded bug: the deadline is compared with the time of the call.
OverranTick(i) == tick > tasks[i].next + tasks[i].period

\* now_after > deadline
Overran(i) == now > tasks[i].next + tasks[i].period

\* Seeded bug: the next release is one period after the run.
DriftTask ==
  /\ tasks' = [tasks EXCEPT ![slot].next = tick + tasks[slot].period]
  /\ ran' = [ran EXCEPT ![slot] = @ + 1]
  /\ late' = (late \/ now > tasks[slot].next + tasks[slot].period)

\* The release moves on by one period, whatever the callback returned.
Advance ==
  /\ tasks' = [tasks EXCEPT ![slot].next = @ + tasks[slot].period]
  /\ ran' = [ran EXCEPT ![slot] = @ + 1]
  /\ late' = (late \/ now > tasks[slot].next + tasks[slot].period)

\* Seeded bug: a release whose callback failed is kept.
KeepFailed ==
  /\ pc = "task"
  /\ Return("TaskError")
  /\ UNCHANGED <<tasks, ran, late>>

TaskFails ==
  /\ pc = "task"
  /\ Advance
  /\ Return("TaskError")

TaskEnds ==
  /\ pc = "task"
  /\ Advance
  /\ IF Overran(slot)
       THEN Return("DeadlineMiss")
       ELSE pc' = "slot" /\ UNCHANGED <<now, added, config, tick, slot, result>>

Run ==
  \/ RunDue \/ NextSlot \/ AllDone \/ RefuseOverflow \/ RefuseLag
  \/ StartTask \/ TaskFails \/ TaskEnds

\* Time passes at any moment, callbacks included.
TimePasses ==
  /\ now < Horizon
  /\ now' = now + 1
  /\ UNCHANGED <<tasks, added, config, pc, tick, slot, ran, late, result>>

Next ==
  \/ Run \/ TimePasses
  \/ \E w \in Watchdogs : ApplyConfig(w)
  \/ \E n \in Limits : SetCatchUpPolicy(n)
  \/ \E p \in Periods : AddTask(p)

Spec == Init /\ [][Next]_vars

\* run_due is called again and again, and callbacks return.
FairSpec == Spec /\ WF_vars(Run)

-------------------------------------------------------------------------------
\* run_due ends a call with Ok.
ReturnsOk == pc /= "idle" /\ pc' = "idle" /\ result' = "Ok"

\* Releases never drift: each is a whole number of periods after the task was
\* added, however late, early or failing the runs before it were.
NoDrift ==
  \A i \in Slots : Used(i) =>
    \E k \in 1..TimeMax : tasks[i].next = added[i] + k * tasks[i].period

\* A call that returns Ok has left no release behind that was due at its time
\* and that the policy allowed it to run.
OkLeavesNothing ==
  [][ReturnsOk => \A i \in Slots : Due(i) => ran[i] = limit]_vars

\* "Task scheduler overload hides missed deadlines" (HZ-002): a call in which a
\* callback overran its deadline never returns Ok.
NoHiddenMiss == [][ReturnsOk => ~late']_vars

\* Without a watchdog every task catches up in the end, whatever the callbacks
\* return: the clock stops at Horizon, and no due release is left.  (With one,
\* a release beyond the watchdog window is refused for ever.)
CatchesUp ==
  /\ <>[](watchdog = 0)
  /\ <>[](\A i \in Slots : ~Overflows(i))
  => <>[](\A i \in Slots : Used(i) => tasks[i].next > now)
===============================================================================
