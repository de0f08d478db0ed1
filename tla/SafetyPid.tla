------------------------------- MODULE SafetyPid -------------------------------
(***************************************************************************)
(* SafetyPidController: the gate on the age of the localization, and the   *)
(* clamps on speed and acceleration, around a control law of which only    *)
(* the result matters: kp e + ki I + kd D is any number of RawOutputs, and *)
(* so are the gains, the anti-windup and the diagnostics.  Speeds and      *)
(* times are whole numbers of units that fit together; an infinite result  *)
(* acts like a large one.  NaN is not a number: no comparison with it      *)
(* holds, so it passes the clamps, and it stays in last_output_.  compute  *)
(* asks of no argument but the feed-forward whether it is finite.  A       *)
(* controller is a record                                                  *)
(*   config      what config_ points to, NoConfig when it is null          *)
(*   first       first_update_                                             *)
(*   last        last_output_                                              *)
(*   updated     the age of last_update_                                   *)
(*   localized   the age of last_localization_update_, negative when the   *)
(*               caller's stamp is ahead of the clock                      *)
(***************************************************************************)
EXTENDS Integers

CONSTANTS
  Configs,        \* records of speed, accel, timeout and period
  RawOutputs,     \* what the law yields: numbers and, from an input that is not finite, NaN
  FeedForwards,   \* finite
  NaN,
  StampAges,      \* ages of the stamps callers pass to mark_localization_update
  MaxAge          \* the bound on ages of a finite instance

NoConfig == [speed |-> 0, accel |-> 0, timeout |-> 0, period |-> 0]

\* What a theorem asks of the constants.
PidAssumption ==
  /\ Configs \subseteq [speed : Int, accel : Int, timeout : Nat, period : Int]
  /\ NaN \notin Int /\ RawOutputs \subseteq Int \cup {NaN}
  /\ FeedForwards \subseteq Int /\ StampAges \subseteq Int
  /\ MaxAge \in Nat

VARIABLES
  pid,
  output,     \* what the last compute returned
  marked      \* the true age of the last stamp a caller passed

vars == <<pid, output, marked>>

Results == Int \cup {NaN}

Controllers ==
  [config : Configs \cup {NoConfig}, first : BOOLEAN, last : Results, updated : Nat, localized : Int]

TypeOK == pid \in Controllers /\ output \in Results /\ marked \in Int

Init ==
  /\ pid = [config |-> NoConfig, first |-> TRUE, last |-> 0, updated |-> 0, localized |-> 0]
  /\ output = 0
  /\ marked = 0

-------------------------------------------------------------------------------
\* clamp_speed and clamp_accel, which a missing or non-positive limit disables.
Clamp(limit, value) ==
  IF value = NaN THEN NaN ELSE
  IF value > limit THEN limit ELSE IF value < -limit THEN -limit ELSE value

ClampSpeed(value) == IF pid.config.speed <= 0 THEN value ELSE Clamp(pid.config.speed, value)

\* A change that is not a number is beyond neither bound.
ClampAccel(desired, dt) ==
  IF pid.config.accel <= 0 \/ dt <= 0 THEN desired ELSE
  IF NaN \in {desired, pid.last} THEN ClampSpeed(desired)
  ELSE ClampSpeed(pid.last + Clamp(pid.config.accel * dt, desired - pid.last))

LocalizationValid == pid.config.timeout = 0 \/ pid.localized <= pid.config.timeout

\* The time a command covers: since the last one, or the period at first.
ControlPeriod == IF pid.config.period > 0 THEN pid.config.period ELSE 1

TimeStep == IF ~pid.first /\ pid.updated > 0 THEN pid.updated ELSE ControlPeriod

ResetOf(p) == [p EXCEPT !.first = TRUE, !.last = 0, !.updated = 0]

\* Compute without feed-forward: the controller afterwards.  A stale
\* localization resets it, and counts as just updated.
Computed(raw) ==
  IF LocalizationValid
    THEN [pid EXCEPT !.first = FALSE, !.updated = 0,
                     !.last = ClampAccel(ClampSpeed(raw), TimeStep)]
    ELSE [ResetOf(pid) EXCEPT !.localized = 0]

-------------------------------------------------------------------------------
MarkLocalization ==
  /\ \E age \in StampAges :
       /\ pid' = [pid EXCEPT !.localized = age]
       /\ marked' = age
  /\ UNCHANGED output

Compute ==
  /\ \E raw \in RawOutputs : pid' = Computed(raw)
  /\ output' = pid'.last
  /\ UNCHANGED marked

\* ff is ff_velocity + ff_acceleration * dt.
ComputeWithFeedForward ==
  /\ \E raw \in RawOutputs, ff \in FeedForwards :
       LET last == Computed(raw).last
           sum  == ClampSpeed(IF last = NaN THEN NaN ELSE last + ff)
       IN  /\ pid' = [Computed(raw) EXCEPT !.last = sum]
           /\ output' = sum
  /\ UNCHANGED marked

Reset == pid' = ResetOf(pid) /\ UNCHANGED <<output, marked>>

\* The configuration is kept, valid or not; an invalid one is only reported.
ApplyConfig ==
  /\ \E cfg \in Configs : pid' = [ResetOf(pid) EXCEPT !.config = cfg]
  /\ UNCHANGED <<output, marked>>

TimePasses ==
  /\ pid.updated < MaxAge /\ pid.localized < MaxAge /\ marked < MaxAge
  /\ pid' = [pid EXCEPT !.updated = @ + 1, !.localized = @ + 1]
  /\ marked' = marked + 1
  /\ UNCHANGED output

Next == MarkLocalization \/ Compute \/ ComputeWithFeedForward \/ Reset \/ ApplyConfig \/ TimePasses

Spec == Init /\ [][Next]_vars

-------------------------------------------------------------------------------
\* What the controller builds the next command on is within the limit in force,
\* whichever configuration it was computed under, unless it is no number at all.
LastWithinLimit ==
  pid.config.speed > 0 /\ pid.last /= NaN => -pid.config.speed <= pid.last /\ pid.last <= pid.config.speed

\* A command changes the previous one by no more than the acceleration limit
\* allows for the time since then; stale localization and feed-forward are the
\* exceptions, and so is a NaN before or after.
NoSurge ==
  [][Compute /\ LocalizationValid /\ pid.config.speed > 0 /\ pid.config.accel > 0 /\ NaN \notin {pid.last, output'} =>
       LET most == pid.config.accel * TimeStep
       IN  output' - pid.last <= most /\ pid.last - output' <= most]_vars

\* What test "Output should be zero when localization is stale" says of one
\* call: no command comes from a localization that is older than the timeout.
NothingFromStale ==
  [][Compute /\ pid.config.timeout /= 0 /\ marked > pid.config.timeout => output' = 0]_vars
===============================================================================
