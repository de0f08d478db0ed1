----------------------------- MODULE Configuration -----------------------------
(***************************************************************************)
(* The system configuration at start-up: load_from_env, migrate_to_current *)
(* and validate, joined by build_context.  A configuration is a record of  *)
(*   version, tasks                          config_version, max_tasks     *)
(*   period, watchdog, timeout               its timing, in nanoseconds    *)
(*   speed, accel, decel, latency, buffer    its motion envelope           *)
(* A double is a whole number of some unit, or NotFinite.  The caps that   *)
(* validate has as literals are constants, to fit those units.             *)
(***************************************************************************)
EXTENDS Integers

CONSTANTS
  HalfWord,         \* 2^63
  NotFinite,        \* infinities and NaN
  NoNumber,         \* a variable that is unset, or does not parse
  MaxTasksCap, MinControlPeriod, SpeedCap, AccelCap, LatencyCap, BufferCap

ASSUME ConfigurationAssumption ==
  /\ HalfWord \in Nat \ {0}
  /\ {NotFinite, NoNumber} \cap Int = {}
  /\ {MaxTasksCap, MinControlPeriod} \subseteq Nat \ {0}
  /\ {SpeedCap, AccelCap, LatencyCap, BufferCap} \subseteq Nat

LegacyVersion  == 1
CurrentVersion == 2

Uint16 == { n \in Nat : n < 65536 }
Uint8  == { n \in Nat : n < 256 }

Doubles   == Int \cup {NotFinite}
Durations == (-HalfWord)..(HalfWord - 1)

Times  == {"period", "watchdog", "timeout"}
Limits == {"speed", "accel", "decel", "latency", "buffer"}
Fields == {"version", "tasks"} \cup Times \cup Limits

\* The range of a field's type.
Kind(f) ==
  IF f = "version" THEN Uint16 ELSE IF f = "tasks" THEN Uint8
  ELSE IF f \in Times THEN Durations ELSE Doubles

SystemConfigs == { c \in [Fields -> Int \cup {NotFinite}] : \A f \in Fields : c[f] \in Kind(f) }

-------------------------------------------------------------------------------
(* load_from_env.  An environment gives every field's variable a number,   *)
(* of any size, or NoNumber.                                               *)

\* A number converted to 64 bits without a sign.
Word(n) == IF n >= 0 THEN n ELSE n + 2 * HalfWord

\* read_uint64: strtoull takes a sign, and refuses what 64 bits cannot hold.
ReadUnsigned(text, fallback) ==
  IF text \in Int /\ -(2 * HalfWord) < text /\ text < 2 * HalfWord THEN Word(text) ELSE fallback

\* Beyond the field's own type a number counts as missing.
ReadBounded(text, fallback, f) ==
  IF ReadUnsigned(text, fallback) \in Kind(f) THEN ReadUnsigned(text, fallback) ELSE fallback

\* A count of nanoseconds is read without a sign and kept with one.
ReadDuration(text, fallback) ==
  LET word == ReadUnsigned(text, Word(fallback))
  IN  IF word < HalfWord THEN word ELSE word - 2 * HalfWord

ReadDouble(text, fallback) == IF text \in Int THEN text ELSE fallback

Texts == Int \cup {NoNumber, NotFinite}

Read(f, text, fallback) ==
  IF f \in Limits THEN ReadDouble(text, fallback)
  ELSE IF f \in Times THEN ReadDuration(text, fallback)
  ELSE ReadBounded(text, fallback, f)

Load(env, defaults) == [f \in Fields |-> Read(f, env[f], defaults[f])]

-------------------------------------------------------------------------------
(* migrate_to_current and validate                                         *)

Migratable(c) == c.version \in {0, LegacyVersion, CurrentVersion}

\* An older configuration keeps its values under the current version.
Migrated(c) == [f \in Fields |-> IF f = "version" THEN CurrentVersion ELSE c[f]]

ValidTiming(c) ==
  /\ c.period > 0 /\ c.period >= MinControlPeriod
  /\ c.watchdog >= c.period
  /\ c.timeout > 0

\* The envelope alone, all but the empty buffer.
ValidEnvelope(c) ==
  /\ \A f \in Limits : c[f] /= NotFinite
  /\ c.speed \in 1..SpeedCap /\ c.accel \in 1..AccelCap /\ c.decel > 0
  /\ c.latency \in 0..LatencyCap /\ c.buffer \in 0..BufferCap

\* validate returns ok; without a buffer that is a warning the policy may allow.
Valid(c, strict) ==
  /\ c.version = CurrentVersion
  /\ c.tasks \in 1..MaxTasksCap
  /\ ValidTiming(c) /\ ValidEnvelope(c)
  /\ strict => c.buffer /= 0

-------------------------------------------------------------------------------
(* build_context, and what its result is given to                          *)

\* The configuration for an environment, defaults and a policy, if it is built.
Candidate(env, defaults) == Migrated(Load(env, defaults))

Builds(env, defaults, strict) ==
  Migratable(Load(env, defaults)) /\ Valid(Candidate(env, defaults), strict)

\* What out.config holds afterwards: a build that fails leaves it alone.
BuildContext(held, env, defaults, strict) ==
  IF Builds(env, defaults, strict) THEN Candidate(env, defaults) ELSE held

\* SafetyPidController::apply_config returns Ok.
PidAccepts(c) == c.speed > 0 /\ c.accel > 0

\* TaskExecutor::apply_config returns Ok; capacity is its number of slots.
ExecutorAccepts(c, capacity) == c.tasks <= capacity
===============================================================================
