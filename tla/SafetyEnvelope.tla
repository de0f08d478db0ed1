---------------------------- MODULE SafetyEnvelope ----------------------------
(***************************************************************************)
(* SafetyEnvelopeNode, which evaluates the stopping distance for every     *)
(* laser scan.                                                             *)
(*                                                                         *)
(* A scan is the set of its valid returns: a return is a record of its     *)
(* distance ahead, x, and of whether it lies beside the corridor.  The     *)
(* markers drawn for a display are left out.                               *)
(***************************************************************************)
EXTENDS Ages, StopDistance

CONSTANTS
  Buffer,         \* envelope.safety_buffer_m
  Dynamic,        \* envelope.dynamic_buffer_enabled
  MinBuffer,      \* envelope.min_buffer_m
  Factor,         \* envelope.velocity_factor
  Overhang,       \* footprint.front_overhang_m
  IgnoreRange,    \* scan_ignore_min_range_m
  StartGrace      \* startup_grace_period_s

\* What validate asks of the envelope, strictly; the constructor throws otherwise.
ValidEnvelope == MaxSpeed > 0 /\ Decel > 0 /\ Latency >= 0 /\ Buffer > 0

ASSUME EnvelopeAssumption ==
  /\ {MaxSpeed, Decel, Latency, Buffer, MinBuffer, Factor, Overhang, IgnoreRange, StartGrace}
       \subseteq Nat
  /\ Dynamic \in BOOLEAN
  /\ ValidEnvelope

VARIABLE
  envelope    \* latest_speed_mps_, and the age of startup_time_

EnvelopeTypeOK == envelope.speed \in Int /\ envelope.up \in 0..StartGrace

EnvelopeInit == envelope = [speed |-> 0, up |-> 0]

NoObstacle == -1

Lesser(a, b) == IF a <= b THEN a ELSE b

-------------------------------------------------------------------------------
(* The node                                                                *)

InGrace == envelope.up < StartGrace

\* Seeded bug: the buffer has no minimum.
BufferBySpeed(v) == IF Dynamic THEN Lesser(Factor * v, 2 * Buffer) ELSE Buffer

DynamicBuffer(v) == IF Dynamic THEN Lesser(MinBuffer + Factor * v, 2 * Buffer) ELSE Buffer

\* The nearest return in the corridor that is not too near to be looked at.
NearestObstacle(scan) ==
  LET seen == { r.x : r \in { q \in scan : ~q.beside /\ q.x > 0 /\ q.x >= IgnoreRange } }
  IN  IF seen = {} THEN NoObstacle ELSE Min(seen)

\* Seeded bug: the larger of the two speeds is recommended.
FasterWhenBlind(v) ==
  IF InGrace THEN [zone |-> "Clear", limit |-> MaxSpeed]
             ELSE [zone |-> "Warning", limit |-> Max({v, MaxSpeed \div 2})]

\* The status when no return counts.
Blind(v) ==
  IF InGrace THEN [zone |-> "Clear", limit |-> MaxSpeed]
             ELSE [zone |-> "Warning", limit |-> Lesser(v, MaxSpeed \div 2)]

\* publish_envelope: zone and recommended limit of the EnvelopeStatus.
EnvelopeStatus(d, v) ==
  LET eval == Evaluate(d - Overhang, v, DynamicBuffer(v))
  IN  IF d = NoObstacle THEN Blind(v)
      ELSE IF InGrace /\ eval.zone = "Emergency"
        THEN [zone |-> "Warning", limit |-> Lesser(v, MaxSpeed \div 2)]
      ELSE eval

HearEnvelopeOdom(v) == envelope' = [envelope EXCEPT !.speed = v]

\* on_scan: what is published for a scan.
ScanStatus(scan) ==
  EnvelopeStatus(NearestObstacle(scan), IF envelope.speed > 0 THEN envelope.speed ELSE 0)

\* Seeded bug: the age of the start is not bounded.
RunningOn == envelope' = [envelope EXCEPT !.up = @ + 1]

EnvelopeTimePasses == envelope' = [envelope EXCEPT !.up = Older(@, StartGrace)]
===============================================================================
