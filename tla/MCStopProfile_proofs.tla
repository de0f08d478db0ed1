-------------------------- MODULE MCStopProfile_proofs --------------------------
(***************************************************************************)
(* Proofs about a stop: the profile it follows, the room that takes, and   *)
(* the configuration both come from, for any limits, buffer, initial speed *)
(* and environment.                                                        *)
(***************************************************************************)
EXTENDS MCStopProfile, StopProfile_proofs, TLAPS

\* A sample takes at most Decel off the speed, and something unless it coasts.
LEMMA NextSpeedBounds ==
  ASSUME NEW s \in Nat, NEW b \in (-Decel)..0
  PROVE  /\ NextSpeed(s, b) \in 0..s
         /\ NextSpeed(s, b) + Decel >= s
         /\ b < 0 /\ s > 0 => NextSpeed(s, b) < s
         /\ b = 0 => NextSpeed(s, b) = s
  BY StopAssumption DEF NextSpeed

\* The doubled distance grows by two speeds.
LEMMA FartherOn == \A d, s, next \in Nat : d + s + next \in Nat /\ d <= d + s + next
  OBVIOUS

\* The jerk of a sample is an integer, and every point is a TrajectoryPoint.
LEMMA PointType ==
  ASSUME NEW s \in Nat, NEW b \in Int, NEW j \in Int, x \in Nat, Len(out) \in Nat
  PROVE  Point(s, b, j) \in Points
  BY DEF Point, Points

LEMMA NextJerkType == \A s, b : NextJerk(s, b) \in Int
  BY StopAssumption DEF NextJerk

\* One more sample takes one more Decel.
LEMMA OneMore ==
  ASSUME NEW s \in Int, NEW next \in Int, NEW lost \in Int, NEW start \in Int, NEW k \in Int,
         s + lost >= start, next + k >= s
  PROVE  next + (lost + k) >= start
  OBVIOUS

\* Every second sample at the latest the speed falls: a sample that ramps the
\* deceleration down to zero keeps the speed, and the next one does not.
Progress ==
  result = "none" =>
    /\ a /= 0 \/ Len(out) = 0 => Len(out) <= 2 * (initial - v)
    /\ a = 0 /\ Len(out) > 0 => v > 0 /\ Len(out) <= 2 * (initial - v) + 1

Inv == TypeOK /\ StopsNoSooner /\ Progress /\ FitsWhenLargeEnough

\* The loop starts in it.
LEMMA InitInv == Init => Inv
<1> SUFFICES ASSUME Init PROVE Inv
  OBVIOUS
<1>1. Len(out) = 0 /\ out \in Seq(Points) /\ initial \in Nat
  BY SpeedAssumption DEF Init
<1>2. QED
  BY <1>1, StopAssumption, SpeedAssumption
  DEF Init, Inv, TypeOK, StopsNoSooner, Progress, FitsWhenLargeEnough

\* An iteration and the end of the loop preserve it.
LEMMA StepInv == Inv /\ [Next]_vars => Inv'
<1> SUFFICES ASSUME Inv, [Next]_vars PROVE Inv'
  OBVIOUS
<1>0. /\ initial \in Nat /\ v \in Nat /\ v <= initial /\ a \in (-Decel)..0
      /\ x \in Nat /\ out \in Seq(Points) /\ Len(out) \in Nat
  BY SpeedAssumption DEF Inv, TypeOK
<1>1. CASE Iterate
  <2>2. a' \in (-Decel)..0 /\ (a = 0 => a' < 0)
    BY <1>0, <1>1, NextAccelBounds DEF Iterate
  <2>1. Len(out') = Len(out) + 1 /\ out' \in Seq(Points) /\ out' /= << >>
    <3>1. PICK p : p = Point(v, a', NextJerk(v, a))
      OBVIOUS
    <3>2. a' \in Int
      BY <2>2, StopAssumption
    <3>3. p \in Points
      BY <1>0, <3>1, <3>2, NextJerkType, PointType
    <3>4. out' = Append(out, p)
      BY <1>1, <3>1 DEF Iterate
    <3>5. QED
      BY <1>0, <3>3, <3>4
  <2>3. v' \in 0..v /\ v' + Decel >= v /\ (a' < 0 => v' < v) /\ (a' = 0 => v' = v)
    BY <1>0, <1>1, <2>2, NextSpeedBounds DEF Iterate
  <2>4. TypeOK'
    <3>1. initial' = initial /\ result' = result /\ Len(out) < Capacity
      BY <1>1 DEF Iterate
    <3>2. initial' \in 0..MaxSpeed /\ result' \in {"none", "true", "false"}
      BY <3>1 DEF Inv, TypeOK
    <3>3. v' \in 0..initial'
      BY <1>0, <2>3, <3>1
    <3>4. x' \in Nat
      <4>1. x' = x + v + v'
        BY <1>1 DEF Iterate
      <4>2. x \in Nat /\ v \in Nat
        BY <1>0
      <4>3. v' \in Nat
        BY <2>3, <4>2
      <4>4. QED
        BY <4>1, <4>2, <4>3, FartherOn
    <3>5. Len(out') <= Capacity
      BY <1>0, <2>1, <3>1, StopAssumption
    <3>6. QED
      BY <2>1, <2>2, <3>2, <3>3, <3>4, <3>5 DEF TypeOK
  <2>5. StopsNoSooner'
    <3>1. (Len(out) + 1) * Decel = Len(out) * Decel + Decel /\ Len(out) * Decel \in Int
      BY <1>0, StopAssumption
    <3>2. v + Len(out) * Decel >= initial
      BY DEF Inv, StopsNoSooner
    <3>3. PICK d \in Int : d = Len(out) * Decel
      BY <3>1
    <3>4. v + d >= initial
      BY <3>2, <3>3
    <3>5. v' + (d + Decel) >= initial
      <4>1. v' \in Int /\ v' + Decel >= v
        BY <1>0, <2>3
      <4>2. Decel \in Int /\ d \in Int /\ v \in Int /\ initial \in Int
        BY <1>0, <3>3, StopAssumption
      <4>3. QED
        BY <3>4, <4>1, <4>2, OneMore
    <3>6. QED
      BY <1>1, <2>1, <3>1, <3>3, <3>5 DEF Iterate, StopsNoSooner
  <2>6. Progress'
    <3>1. /\ Len(out') = Len(out) + 1 /\ initial' = initial /\ v > 0
          /\ a /= 0 \/ Len(out) = 0 => Len(out) <= 2 * (initial - v)
          /\ a = 0 /\ Len(out) > 0 => Len(out) <= 2 * (initial - v) + 1
      BY <1>1, <2>1 DEF Iterate, Inv, Progress
    <3>2. CASE a' = 0
      BY <1>0, <2>2, <2>3, <3>1, <3>2 DEF Progress
    <3>3. CASE a' < 0
      BY <1>0, <2>3, <3>1, <3>3 DEF Progress
    <3>4. QED
      BY <2>2, <3>2, <3>3, StopAssumption
  <2>7. QED
    BY <1>1, <2>4, <2>5, <2>6 DEF Iterate, Inv, FitsWhenLargeEnough
<1>2. CASE Finish
  <2>1. Len(out') = Len(out) + 1 /\ out' \in Seq(Points)
    <3>1. PICK p : p = Point(0, 0, 0)
      OBVIOUS
    <3>2. p \in Points
      BY <1>0, <3>1 DEF Point, Points
    <3>3. out' = Append(out, p)
      BY <1>2, <3>1 DEF Finish
    <3>4. QED
      BY <1>0, <3>2, <3>3
  <2>2. (Len(out) + 1) * Decel = Len(out) * Decel + Decel /\ Len(out) * Decel \in Int
    BY <1>0, StopAssumption
  <2>3. StopsNoSooner'
    <3> DEFINE d == Len(out) * Decel
    <3>1. d \in Int /\ v + d >= initial /\ (Len(out) + 1) * Decel = d + Decel
      BY <2>2 DEF Inv, StopsNoSooner
    <3>2. v + ((Len(out) + 1) * Decel) >= initial
      <4> HIDE DEF d
      <4>1. QED
        BY <1>0, <3>1, StopAssumption
    <3>3. QED
      BY <1>2, <2>1, <3>2 DEF Finish, StopsNoSooner
  <2>4. TypeOK'
    BY <1>0, <1>2, <2>1, StopAssumption DEF Finish, Inv, TypeOK
  <2>5. QED
    BY <1>2, <2>3, <2>4 DEF Finish, Inv, Progress, FitsWhenLargeEnough
<1>3. CASE Overflow
  <2>1. Capacity <= 2 * initial
    <3>1. Len(out) >= Capacity
          /\ (\/ Len(out) <= 2 * (initial - v)
              \/ v > 0 /\ Len(out) <= 2 * (initial - v) + 1)
      BY <1>0, <1>3 DEF Overflow, Inv, Progress
    <3>2. QED
      BY <1>0, <3>1, StopAssumption
  <2>2. QED
    BY <1>3, <2>1 DEF Overflow, Inv, TypeOK, StopsNoSooner, Progress, FitsWhenLargeEnough
<1>4. CASE UNCHANGED vars
  BY <1>4 DEF vars, Inv, TypeOK, StopsNoSooner, Progress, FitsWhenLargeEnough
<1>5. QED
  BY <1>1, <1>2, <1>3, <1>4 DEF Next

\* Every state of the loop satisfies the invariant.
THEOREM Invariance == Spec => []Inv
<1>1. QED
  BY InitInv, StepInv, PTL DEF Spec

\* The loop variables stay in their ranges: the acceleration between the
\* largest deceleration and zero, the speed between zero and the initial one.
THEOREM TypeCorrect == Spec => []TypeOK
<1>1. Inv => TypeOK
  BY DEF Inv
<1>2. QED
  BY Invariance, <1>1, PTL

\* For any limits, a stop profile never brakes harder than max_decel_mps2 in
\* total: n samples take at most n * Decel off the speed.
THEOREM StopsNoSoonerCorrect == Spec => []StopsNoSooner
<1>1. Inv => StopsNoSooner
  BY DEF Inv
<1>2. QED
  BY Invariance, <1>1, PTL

\* For any limits, generation only fails when the buffer is no larger than
\* twice the initial speed: the loop cannot run for ever.
THEOREM FitsWhenLargeEnoughCorrect == Spec => []FitsWhenLargeEnough
<1>1. Inv => FitsWhenLargeEnough
  BY DEF Inv
<1>2. QED
  BY Invariance, <1>1, PTL
-------------------------------------------------------------------------------
(* The loop and the recursive definition                                   *)

\* The samples of the whole stop, and those from where the loop is.
Whole == StopSamples(initial)[<<initial, 0>>]
Rest  == StopSamples(initial)[<<v, a>>]

\* What is out is how the whole stop starts, and the rest is how it goes on.
OnTrack ==
  /\ result = "none" =>
       /\ Len(Whole) = Len(out) + Len(Rest)
       /\ \A i \in 1..Len(out) : out[i].speed = Whole[i]
       /\ \A i \in 1..Len(Rest) : Whole[Len(out) + i] = Rest[i]
  /\ LoopIsProfile

\* What the library of samples says of the two.
LEMMA WholeAndRest ==
  ASSUME Inv
  PROVE  /\ Stopping(Whole, initial) /\ Stopping(Rest, v)
         /\ Profile(initial) = IF Len(Whole) <= Capacity THEN Whole ELSE << >>
         /\ Rest = IF v = 0 THEN <<0>>
                   ELSE <<v>> \o StopSamples(initial)[<<NextSpeed(v, NextAccel(v, a)), NextAccel(v, a)>>]
<1>0. initial \in Nat /\ v \in 0..initial /\ a \in (-Decel)..0
  BY SpeedAssumption DEF Inv, TypeOK
<1>1. <<initial, 0>> \in Motions(initial) /\ <<v, a>> \in Motions(initial)
  BY <1>0, StopAssumption DEF Motions
<1>2. Stopping(Whole, initial) /\ Stopping(Rest, v)
  BY <1>0, <1>1, StopSamplesStop DEF Whole, Rest
<1>3. Rest = Body(StopSamples(initial), <<v, a>>)
  BY <1>0, <1>1, StopSamplesUnfold DEF Rest
<1>4. QED
  BY <1>2, <1>3 DEF Profile, Whole, Body, NextMotion

LEMMA OnTrackInitially == Init => OnTrack
<1> SUFFICES ASSUME Init PROVE OnTrack
  OBVIOUS
<1>1. Inv /\ out = << >> /\ v = initial /\ a = 0 /\ result = "none"
  BY InitInv DEF Init
<1>2. Whole = Rest /\ Stopping(Whole, initial)
  BY <1>1, WholeAndRest DEF Whole, Rest
<1>3. Len(out) = 0 /\ Len(Whole) \in Nat
  BY <1>1, <1>2 DEF Stopping
<1>4. QED
  BY <1>1, <1>2, <1>3 DEF OnTrack, LoopIsProfile

\* The sample an iteration writes is the first of the rest.
LEMMA IterateOnTrack ==
  ASSUME Inv, Inv', OnTrack, Iterate
  PROVE  OnTrack'
<1>0. /\ out \in Seq(Points) /\ Len(out) \in Nat /\ v \in Nat /\ v > 0
      /\ initial' = initial /\ result' = "none" /\ result = "none"
      /\ a' = NextAccel(v, a) /\ v' = NextSpeed(v, a')
  BY SpeedAssumption DEF Inv, TypeOK, Iterate
<1>1. PICK p : p.speed = v /\ out' = Append(out, p)
  BY DEF Iterate, Point
<1> DEFINE next == NextAccel(v, a)
           rest == StopSamples(initial)[<<NextSpeed(v, next), next>>]
<1>2. Rest = <<v>> \o rest /\ Rest' = rest /\ Whole' = Whole
  <2>0. v /= 0
    BY <1>0
  <2>1. Rest = <<v>> \o rest
    <3>1. Rest = IF v = 0 THEN <<0>>
                 ELSE <<v>> \o StopSamples(initial)[<<NextSpeed(v, NextAccel(v, a)), NextAccel(v, a)>>]
      BY WholeAndRest
    <3>2. QED
      BY <2>0, <3>1
  <2>2. Rest' = StopSamples(initial')[<<v', a'>>] /\ Whole' = StopSamples(initial')[<<initial', 0>>]
    BY DEF Rest, Whole
  <2>3. initial' = initial /\ v' = NextSpeed(v, next) /\ a' = next
    BY <1>0
  <2>4. QED
    BY <2>1, <2>2, <2>3 DEF Whole
<1>3. Stopping(rest, NextSpeed(v, next)) /\ NextSpeed(v, next) \in 0..v
  <2>1. initial \in Nat /\ v \in 0..initial /\ a \in (-Decel)..0
    BY SpeedAssumption DEF Inv, TypeOK
  <2>2. next \in (-Decel)..0
    BY <1>0, <2>1, NextAccelBounds
  <2> HIDE DEF next
  <2>3. NextSpeed(v, next) \in 0..v
    BY <1>0, <2>2, StopAssumption DEF NextSpeed
  <2>4. <<NextSpeed(v, next), next>> \in Motions(initial)
    BY <2>1, <2>2, <2>3 DEF Motions
  <2>5. QED
    BY <2>1, <2>3, <2>4, StopSamplesStop
<1>4. rest \in Seq(0..v) /\ v \in 0..v
  BY <1>0, <1>3 DEF Stopping
<1> HIDE DEF rest
<1>5. /\ Len(<<v>> \o rest) = 1 + Len(rest) /\ (<<v>> \o rest)[1] = v
      /\ \A i \in 1..Len(rest) : (<<v>> \o rest)[1 + i] = rest[i]
      /\ Len(rest) \in Nat
  BY <1>4, Prepend
<1>6. /\ Len(out') = Len(out) + 1 /\ out'[Len(out) + 1] = p
      /\ \A i \in 1..Len(out) : out'[i] = out[i]
  BY <1>0, <1>1
<1>7. /\ Len(Whole) = Len(out) + (1 + Len(rest))
      /\ \A i \in 1..Len(out) : out[i].speed = Whole[i]
      /\ \A i \in 1..(1 + Len(rest)) : Whole[Len(out) + i] = Rest[i]
  BY <1>0, <1>2, <1>5 DEF OnTrack
<1>8. Rest[1] = v /\ \A i \in 1..Len(rest) : Rest[1 + i] = rest[i]
  BY <1>2, <1>5
<1>9. Whole[Len(out) + 1] = v
  BY <1>5, <1>7, <1>8
<1>10. \A i \in 1..Len(out') : out'[i].speed = Whole[i]
  BY <1>0, <1>1, <1>6, <1>7, <1>9
<1>11. \A i \in 1..Len(rest) : Whole[Len(out') + i] = rest[i]
  <2> SUFFICES ASSUME NEW i \in 1..Len(rest) PROVE Whole[Len(out') + i] = rest[i]
    OBVIOUS
  <2>1. 1 + i \in 1..(1 + Len(rest)) /\ Len(out) + (1 + i) = Len(out') + i
    BY <1>0, <1>5, <1>6
  <2>2. Whole[Len(out) + (1 + i)] = Rest[1 + i]
    BY <1>7, <2>1
  <2>3. QED
    BY <1>8, <2>1, <2>2
<1>12. Len(Whole) = Len(out') + Len(rest)
  BY <1>0, <1>5, <1>6, <1>7
<1>13. LoopIsProfile'
  BY <1>0 DEF LoopIsProfile
<1>14. QED
  BY <1>2, <1>10, <1>11, <1>12, <1>13 DEF OnTrack

\* At rest there is one sample left, 0, which the end of the loop writes.
LEMMA FinishOnTrack ==
  ASSUME Inv, Inv', OnTrack, Finish
  PROVE  OnTrack'
<1>0. /\ out \in Seq(Points) /\ Len(out) \in Nat /\ v = 0
      /\ initial' = initial /\ result' = "true" /\ result = "none"
      /\ Len(out) < Capacity
  BY DEF Inv, TypeOK, Finish
<1>1. PICK p : p.speed = 0 /\ out' = Append(out, p)
  BY DEF Finish, Point
<1>2. Rest = <<0>> /\ Stopping(Whole, initial)
      /\ Profile(initial) = IF Len(Whole) <= Capacity THEN Whole ELSE << >>
  BY <1>0, WholeAndRest
<1>3. /\ Len(Whole) = Len(out) + 1 /\ Whole[Len(out) + 1] = 0
      /\ \A i \in 1..Len(out) : out[i].speed = Whole[i]
  BY <1>0, <1>2 DEF OnTrack
<1>4. /\ Len(out') = Len(out) + 1 /\ out'[Len(out) + 1] = p /\ DOMAIN out' = 1..Len(out')
      /\ \A i \in 1..Len(out) : out'[i] = out[i]
  BY <1>0, <1>1
<1>5. \A i \in DOMAIN out' : out'[i].speed = Whole[i]
  BY <1>0, <1>1, <1>3, <1>4
<1>6. Whole = [i \in DOMAIN out' |-> Whole[i]]
  BY <1>2, <1>3, <1>4 DEF Stopping
<1>7. [i \in DOMAIN out' |-> out'[i].speed] = Whole
  BY <1>5, <1>6
<1>8. Len(Whole) <= Capacity
  BY <1>0, <1>3, StopAssumption
<1>9. QED
  BY <1>0, <1>2, <1>7, <1>8 DEF OnTrack, LoopIsProfile

\* A full buffer has no room for the rest, of which there is always some.
LEMMA OverflowOnTrack ==
  ASSUME Inv, Inv', OnTrack, Overflow
  PROVE  OnTrack'
<1>0. /\ Len(out) \in Nat /\ initial' = initial /\ result' = "false" /\ result = "none"
      /\ Len(out) >= Capacity
  BY DEF Inv, TypeOK, Overflow
<1>1. /\ Stopping(Rest, v)
      /\ Profile(initial) = IF Len(Whole) <= Capacity THEN Whole ELSE << >>
  BY WholeAndRest
<1>2. Len(Rest) \in Nat /\ Len(Rest) > 0
  BY <1>1 DEF Stopping
<1>3. ~(Len(Whole) <= Capacity)
  BY <1>0, <1>2, StopAssumption DEF OnTrack
<1>4. QED
  BY <1>0, <1>1, <1>3 DEF OnTrack, LoopIsProfile

\* The loop writes exactly the samples of the recursive definition the drive
\* bridge's model plays, and gives up exactly when they do not fit.
THEOREM LoopIsProfileCorrect == Spec => []LoopIsProfile
<1>1. Inv /\ Inv' /\ OnTrack /\ [Next]_vars => OnTrack'
  <2> SUFFICES ASSUME Inv, Inv', OnTrack, [Next]_vars PROVE OnTrack'
    OBVIOUS
  <2>1. CASE UNCHANGED vars
    BY <2>1 DEF vars, OnTrack, LoopIsProfile, Whole, Rest
  <2>2. QED
    BY <2>1, IterateOnTrack, FinishOnTrack, OverflowOnTrack DEF Next
<1>2. OnTrack => LoopIsProfile
  BY DEF OnTrack
<1>3. QED
  BY Invariance, OnTrackInitially, <1>1, <1>2, PTL DEF Spec

-------------------------------------------------------------------------------
(* The distance of a stop                                                  *)

\* Braking at its limit from the first sample on, a stop would after n samples,
\* and while it still moves, have come this far (doubled).
BrakedDistance(n) == 2 * (n * initial) - (n * n) * Decel

\* The profile is never behind that, and once past the last whole sample of
\* such a stop it is past all of it.
Farther ==
  /\ result = "none" =>
       LET k == initial \div Decel
       IN  /\ Len(out) <= k => x >= BrakedDistance(Len(out))
           /\ Len(out) > k => x >= StandardDistance
  /\ NoShorterThanStandard

\* How the products of the distances grow with one more sample.
LEMMA NextSample ==
  ASSUME NEW n \in Nat, NEW d \in Nat, NEW s \in Nat
  PROVE  /\ (n + 1) * s = n * s + s
         /\ ((n + 1) * (n + 1)) * d = (n * n) * d + 2 * (n * d) + d
         /\ d * n * (n + 1) = (n * n) * d + n * d
         /\ (2 * n + 1) * s = 2 * (n * s) + s
         /\ n * s \in Int /\ n * d \in Int /\ (n * n) * d \in Int
  OBVIOUS

\* The distance of braking from the first sample, in the terms of BrakedDistance.
LEMMA StandardIsBraked ==
  ASSUME initial \in Nat
  PROVE  LET k == initial \div Decel
         IN  /\ k \in Nat /\ k * Decel <= initial /\ k * Decel \in Nat
             /\ StandardDistance = BrakedDistance(k) + (initial - k * Decel)
             /\ BrakedDistance(k) \in Int
<1> DEFINE k == initial \div Decel
<1>1. k \in Nat /\ k * Decel <= initial
  <2>1. /\ initial = Decel * (initial \div Decel) + (initial % Decel)
        /\ initial % Decel \in 0..(Decel - 1) /\ initial \div Decel \in Nat
    BY StopAssumption
  <2>2. Decel * k = k * Decel /\ Decel * k \in Nat
    BY <2>1, StopAssumption
  <2>3. QED
    BY <2>1, <2>2
<1>2. StandardDistance = (2 * k + 1) * initial - Decel * k * (k + 1)
  BY DEF StandardDistance
<1> HIDE DEF k
<1>3. /\ Decel * k * (k + 1) = (k * k) * Decel + k * Decel
      /\ (2 * k + 1) * initial = 2 * (k * initial) + initial
      /\ k * initial \in Int /\ k * Decel \in Int /\ (k * k) * Decel \in Int
  BY <1>1, NextSample, StopAssumption
<1>4. BrakedDistance(k) = 2 * (k * initial) - (k * k) * Decel
  BY DEF BrakedDistance
<1>5. k * Decel \in Nat
  BY <1>1, StopAssumption
<1> DEFINE p == k * initial
           q == (k * k) * Decel
           r == k * Decel
<1>6. /\ StandardDistance = (2 * p + initial) - (q + r) /\ BrakedDistance(k) = 2 * p - q
      /\ p \in Int /\ q \in Int /\ r \in Nat
  BY <1>2, <1>3, <1>4, <1>5
<1> HIDE DEF p, q, r
<1>7. StandardDistance = BrakedDistance(k) + (initial - r) /\ BrakedDistance(k) \in Int
  BY <1>6
<1>8. QED
  BY <1>1, <1>5, <1>7 DEF k, r

\* The sums: two speeds no lower than those of braking at its limit, and the
\* distance they add.
LEMMA TwoSpeeds ==
  ASSUME NEW far \in Int, NEW s \in Int, NEW next \in Int, NEW start \in Int,
         NEW p \in Int, NEW q \in Int, NEW lost \in Int, NEW d \in Int,
         far >= 2 * p - q, s + lost >= start, next + (lost + d) >= start
  PROVE  far + s + next >= 2 * (p + start) - (q + 2 * lost + d)
  OBVIOUS

\* Distances only grow.
LEMMA StillFarther ==
  ASSUME NEW far \in Nat, NEW s \in Nat, NEW next \in Nat, NEW bound \in Int,
         \/ far >= bound
         \/ \E near, last \in Int : far >= near /\ s >= last /\ bound = near + last
  PROVE  far + s + next >= bound
  OBVIOUS

\* One sample more: at least the two speeds of braking at its limit.
LEMMA FartherIterate ==
  ASSUME Inv, Inv', Farther, Iterate
  PROVE  Farther'
<1> DEFINE n == Len(out)
           k == initial \div Decel
<1>0. /\ initial \in Nat /\ v \in Nat /\ v' \in Nat /\ x \in Nat /\ n \in Nat
      /\ initial' = initial /\ x' = x + v + v' /\ result' = "none"
      /\ Decel \in Nat
  BY SpeedAssumption, StopAssumption DEF Inv, TypeOK, Iterate
<1>1. Len(out') = n + 1
  BY <1>0 DEF Iterate, Inv, TypeOK
<1>2. v + n * Decel >= initial /\ v' + (n + 1) * Decel >= initial
  BY <1>0, <1>1 DEF Inv, StopsNoSooner
<1>3. /\ k \in Nat /\ k * Decel <= initial /\ k * Decel \in Nat
      /\ StandardDistance = BrakedDistance(k) + (initial - k * Decel)
      /\ BrakedDistance(k) \in Int
  BY <1>0, StandardIsBraked
<1>4. /\ n <= k => x >= BrakedDistance(n)
      /\ n > k => x >= StandardDistance
  BY DEF Farther, Iterate
<1> HIDE DEF n, k
<1>5. n + 1 <= k => x + v + v' >= BrakedDistance(n + 1)
  <2> DEFINE p == n * initial
             q == (n * n) * Decel
             r == n * Decel
  <2>1. /\ BrakedDistance(n) = 2 * p - q /\ p \in Int /\ q \in Int /\ r \in Int
        /\ BrakedDistance(n + 1) = 2 * (p + initial) - (q + 2 * r + Decel)
        /\ (n + 1) * Decel = r + Decel
    BY <1>0, NextSample DEF BrakedDistance
  <2>2. v + r >= initial /\ v' + (r + Decel) >= initial
    BY <1>2, <2>1
  <2> HIDE DEF p, q, r
  <2>3. n + 1 <= k => x >= 2 * p - q
    BY <1>0, <1>3, <1>4, <2>1
  <2>4. n + 1 <= k => x + v + v' >= 2 * (p + initial) - (q + 2 * r + Decel)
    <3> SUFFICES ASSUME n + 1 <= k PROVE x + v + v' >= 2 * (p + initial) - (q + 2 * r + Decel)
      OBVIOUS
    <3>1. x \in Int /\ v \in Int /\ v' \in Int /\ initial \in Int /\ Decel \in Int
      BY <1>0
    <3>2. p \in Int /\ q \in Int /\ r \in Int
      BY <2>1
    <3>3. x >= 2 * p - q
      BY <2>3
    <3>4. QED
      BY <2>2, <3>1, <3>2, <3>3, TwoSpeeds
  <2>5. QED
    BY <2>1, <2>4
<1>6. n + 1 > k => x + v + v' >= StandardDistance
  <2>1. CASE n = k
    <3>1. x >= BrakedDistance(k) /\ v >= initial - k * Decel
      BY <1>0, <1>2, <1>3, <1>4, <2>1
    <3>2. PICK near, last \in Int : near = BrakedDistance(k) /\ last = initial - k * Decel
      BY <1>0, <1>3
    <3>3. x >= near /\ v >= last /\ StandardDistance = near + last
      BY <1>3, <3>1, <3>2
    <3>4. StandardDistance \in Int
      BY <3>2, <3>3
    <3>5. QED
      BY <1>0, <3>2, <3>3, <3>4, StillFarther
  <2>2. CASE n > k
    <3>1. x >= StandardDistance
      BY <1>4, <2>2
    <3>2. StandardDistance \in Int
      BY <1>0, <1>3
    <3>3. QED
      BY <1>0, <3>1, <3>2, StillFarther
  <2>3. QED
    BY <1>0, <1>3, <2>1, <2>2
<1>7. StandardDistance' = StandardDistance /\ BrakedDistance(n + 1)' = BrakedDistance(n + 1)'
  BY <1>0 DEF StandardDistance
<1>8. /\ Len(out') <= k => x' >= 2 * (Len(out') * initial) - (Len(out') * Len(out')) * Decel
      /\ Len(out') > k => x' >= StandardDistance'
  BY <1>0, <1>1, <1>5, <1>6, <1>7 DEF BrakedDistance
<1>9. QED
  BY <1>0, <1>8 DEF Farther, NoShorterThanStandard, BrakedDistance, k

\* The last point: a profile that ends no later than braking at its limit has
\* braked like it all the way.
LEMMA FartherFinish ==
  ASSUME Inv, Farther, Finish
  PROVE  Farther'
<1> DEFINE n == Len(out)
           k == initial \div Decel
           r == k * Decel
<1>0. /\ initial \in Nat /\ v = 0 /\ x \in Nat /\ n \in Nat /\ Decel \in Nat \ {0}
      /\ initial' = initial /\ x' = x /\ result' = "true"
  BY SpeedAssumption, StopAssumption DEF Inv, TypeOK, Finish
<1>1. n * Decel >= initial
  <2>1. v + n * Decel >= initial
    BY DEF Inv, StopsNoSooner
  <2>2. n * Decel \in Int
    BY <1>0
  <2>3. QED
    BY <1>0, <2>1, <2>2
<1>2. /\ k \in Nat /\ r <= initial /\ r \in Nat
      /\ StandardDistance = BrakedDistance(k) + (initial - r)
      /\ BrakedDistance(k) \in Int
  BY <1>0, StandardIsBraked
<1>3. /\ n <= k => x >= BrakedDistance(n)
      /\ n > k => x >= StandardDistance
  BY DEF Farther, Finish
<1>4. x >= StandardDistance
  <2>1. CASE n <= k
    <3>1. n * Decel <= r
      <4>1. k - n \in Nat /\ (k - n) * Decel \in Nat /\ k * Decel = n * Decel + (k - n) * Decel
        BY <1>0, <1>2, <2>1
      <4>2. n * Decel \in Int /\ k * Decel \in Int
        BY <1>0, <1>2
      <4>3. QED
        BY <4>1, <4>2
    <3>2. r = initial /\ n * Decel = r
      <4>1. n * Decel \in Int
        BY <1>0
      <4> HIDE DEF r
      <4>2. QED
        BY <1>0, <1>1, <1>2, <3>1, <4>1
    <3>3. n = k
      <4>1. (k - n) * Decel = 0
        BY <1>0, <1>2, <3>2
      <4>2. QED
        <5>1. k - n \in Nat
          BY <1>0, <1>2, <2>1
        <5>2. PICK m \in Nat : m = k - n
          BY <5>1
        <5>3. m * Decel = 0
          BY <4>1, <5>2
        <5>4. m = 0
          BY <1>0, <5>3
        <5>5. QED
          BY <1>0, <1>2, <5>2, <5>4
    <3> HIDE DEF n, k, r
    <3>4. QED
      BY <1>0, <1>2, <1>3, <2>1, <3>2, <3>3
  <2>2. CASE n > k
    BY <1>3, <2>2
  <2>3. QED
    BY <1>0, <1>2, <2>1, <2>2
<1>5. StandardDistance' = StandardDistance
  BY <1>0 DEF StandardDistance
<1>6. QED
  BY <1>0, <1>4, <1>5 DEF Farther, NoShorterThanStandard

\* A jerk-limited stop, with any limits and from any speed, is no shorter than
\* generate_emergency_stop_profile's: ramping the braking up costs distance.
THEOREM NoShorterThanStandardCorrect == Spec => []NoShorterThanStandard
<1>1. Init => Farther
  <2> SUFFICES ASSUME Init PROVE Farther
    OBVIOUS
  <2>1. initial \in Nat /\ x = 0 /\ result = "none" /\ Len(out) = 0 /\ Decel \in Nat
    BY SpeedAssumption, StopAssumption DEF Init
  <2>2. initial \div Decel \in Nat
    BY <2>1, StandardIsBraked
  <2>3. 0 * initial = 0 /\ (0 * 0) * Decel = 0
    BY <2>1
  <2>4. QED
    BY <2>1, <2>2, <2>3 DEF Farther, BrakedDistance, NoShorterThanStandard
<1>2. Inv /\ Inv' /\ Farther /\ [Next]_vars => Farther'
  <2> SUFFICES ASSUME Inv, Inv', Farther, [Next]_vars PROVE Farther'
    OBVIOUS
  <2>1. CASE Overflow
    BY <2>1 DEF Overflow, Farther, NoShorterThanStandard
  <2>2. CASE UNCHANGED vars
    BY <2>2 DEF vars, Farther, NoShorterThanStandard, StandardDistance, BrakedDistance
  <2>3. QED
    BY <2>1, <2>2, FartherIterate, FartherFinish DEF Next
<1>3. Farther => NoShorterThanStandard
  BY DEF Farther
<1>4. QED
  BY Invariance, <1>1, <1>2, <1>3, PTL DEF Spec
-------------------------------------------------------------------------------
(* evaluate_stop_distance                                                  *)

StopZones == {"Emergency", "Protective"}

\* A vehicle with these limits is at distance d and speed v.
Moving(d, s, buffer) ==
  /\ {d, s, buffer, Latency} \subseteq Nat
  /\ ComfortDecel \in Nat \ {0}

\* Out of both stopping zones there is room for the latency and for braking.
LEMMA HasRoom ==
  ASSUME NEW d, NEW s, NEW buffer, Moving(d, s, buffer)
  PROVE  Envelope!Evaluate(d, s, buffer).zone \notin StopZones
           <=> d >= buffer /\ 2 * ComfortDecel * d >= Envelope!Required(s, buffer)
<1>1. \A l : /\ [zone |-> "Emergency", limit |-> l].zone = "Emergency"
             /\ [zone |-> "Protective", limit |-> l].zone = "Protective"
             /\ [zone |-> "Warning", limit |-> l].zone = "Warning"
             /\ [zone |-> "Clear", limit |-> l].zone = "Clear"
  OBVIOUS
<1>2. PICK room, wide : /\ room = 2 * ComfortDecel * d
                        /\ wide = (4 * ComfortDecel * d < 3 * Envelope!Required(s, buffer))
  OBVIOUS
<1>3. PICK need : need = Envelope!Required(s, buffer)
  OBVIOUS
<1>4. room \in Int /\ need \in Int /\ d \in Int /\ buffer \in Int
  BY <1>2, <1>3 DEF Envelope!Required, Moving
<1>5. CASE d < buffer
  BY <1>1, <1>4, <1>5 DEF Envelope!Evaluate, StopZones
<1>6. CASE d >= buffer /\ room < need
  BY <1>1, <1>2, <1>3, <1>4, <1>6 DEF Envelope!Evaluate, StopZones
<1>7. CASE d >= buffer /\ room >= need
  BY <1>1, <1>2, <1>3, <1>4, <1>7 DEF Envelope!Evaluate, StopZones
<1>8. QED
  BY <1>4, <1>5, <1>6, <1>7

\* Both stopping zones ask for a stop, whatever the buffer and the limits.
THEOREM StopZonesStop ==
  ASSUME NEW d, NEW s, NEW buffer, Envelope!Evaluate(d, s, buffer).zone \in StopZones
  PROVE  Envelope!Evaluate(d, s, buffer).limit = 0
<1>1. CASE d < buffer
  BY <1>1 DEF Envelope!Evaluate
<1>2. CASE ~(d < buffer) /\ 2 * ComfortDecel * d < Envelope!Required(s, buffer)
  BY <1>2 DEF Envelope!Evaluate
<1>3. CASE ~(d < buffer) /\ ~(2 * ComfortDecel * d < Envelope!Required(s, buffer))
  <2>1. Envelope!Evaluate(d, s, buffer).zone \in {"Warning", "Clear"}
    BY <1>3 DEF Envelope!Evaluate
  <2>2. QED
    BY <2>1 DEF StopZones
<1>4. QED
  BY <1>1, <1>2, <1>3

\* More speed never takes less room.
LEMMA RequiredGrows ==
  ASSUME NEW s \in Nat, NEW w \in Nat, NEW buffer \in Nat,
         Latency \in Nat, ComfortDecel \in Nat, s <= w
  PROVE  Envelope!Required(s, buffer) <= Envelope!Required(w, buffer)
<1>1. PICK k \in Nat : w = s + k
  <2>1. w - s \in Nat /\ w = s + (w - s)
    OBVIOUS
  <2>2. QED
    BY <2>1
<1>2. w * w = s * s + (2 * (s * k) + k * k) /\ Latency * w = Latency * s + Latency * k
  BY <1>1
<1>3. s * k \in Nat /\ k * k \in Nat /\ ComfortDecel * (Latency * k) \in Nat
  <2>1. \A m, n \in Nat : m * n \in Nat
    OBVIOUS
  <2>2. QED
    BY <1>1, <2>1
<1>4. Envelope!Required(w, buffer)
        = Envelope!Required(s, buffer) + 2 * (ComfortDecel * (Latency * k)) + 2 * (s * k) + k * k
  BY <1>1, <1>2 DEF Envelope!Required
<1>5. Envelope!Required(s, buffer) \in Int
  BY DEF Envelope!Required
<1>6. QED
  BY <1>3, <1>4, <1>5

\* A vehicle that is out of the stopping zones stays out of them when it is
\* farther from the obstacle, or slower.
THEOREM RoomOnlyHelps ==
  ASSUME NEW d \in Nat, NEW e \in Nat, NEW s \in Nat, NEW w \in Nat, NEW buffer \in Nat,
         Latency \in Nat, ComfortDecel \in Nat \ {0},
         d <= e, w <= s, Envelope!Evaluate(d, s, buffer).zone \notin StopZones
  PROVE  Envelope!Evaluate(e, w, buffer).zone \notin StopZones
<1>1. d >= buffer /\ 2 * ComfortDecel * d >= Envelope!Required(s, buffer)
  BY HasRoom DEF Moving
<1>2. 2 * ComfortDecel * e >= 2 * ComfortDecel * d
  <2>1. PICK k \in Nat : e = d + k
    <3>1. e - d \in Nat /\ e = d + (e - d)
      OBVIOUS
    <3>2. QED
      BY <3>1
  <2>2. ComfortDecel * k \in Nat /\ ComfortDecel * d \in Nat
    BY <2>1
  <2>3. /\ 2 * ComfortDecel * e = 2 * (ComfortDecel * d) + 2 * (ComfortDecel * k)
        /\ 2 * ComfortDecel * d = 2 * (ComfortDecel * d)
    BY <2>1
  <2>4. QED
    BY <2>2, <2>3
<1>3. Envelope!Required(w, buffer) <= Envelope!Required(s, buffer)
  BY RequiredGrows
<1>4. /\ 2 * ComfortDecel * e \in Int /\ 2 * ComfortDecel * d \in Int
      /\ Envelope!Required(w, buffer) \in Int /\ Envelope!Required(s, buffer) \in Int
  BY DEF Envelope!Required
<1>5. e >= buffer /\ 2 * ComfortDecel * e >= Envelope!Required(w, buffer)
  BY <1>1, <1>2, <1>3, <1>4
<1>6. QED
  BY <1>5, HasRoom DEF Moving

\* The speed that braking for a time leaves.
Braked(s, t) == IF s > ComfortDecel * t THEN s - ComfortDecel * t ELSE 0

\* The part of an interval that the envelope's latency does not cover.
Beyond(t) == IF Latency < t THEN t - Latency ELSE 0

\* There is room for a whole interval at speed s, for braking, and for the buffer.
Covered(d, s, buffer, t) ==
  2 * ComfortDecel * d >= Envelope!Required(s, buffer + Beyond(t) * s)

\* It is that of the longer of the latency and the interval.
LEMMA CoveredRoom ==
  ASSUME NEW t \in Nat, Latency \in Nat, ComfortDecel \in Nat
  PROVE  \E l \in Nat : \A w, b \in Nat :
           Envelope!Required(w, b + Beyond(t) * w)
             = 2 * (ComfortDecel * (l * w)) + 2 * (ComfortDecel * (t * w)) + 2 * (ComfortDecel * b) + w * w
<1>1. PICK k \in Nat, l \in Nat : k = Beyond(t) /\ Latency + k = l + t
  <2>1. CASE Latency < t
    <3>1. Beyond(t) = t - Latency /\ t - Latency \in Nat /\ Latency + (t - Latency) = 0 + t
      BY <2>1 DEF Beyond
    <3>2. QED
      BY <3>1
  <2>2. CASE ~(Latency < t)
    <3>1. Beyond(t) = 0 /\ Latency - t \in Nat /\ Latency + 0 = (Latency - t) + t
      BY <2>2 DEF Beyond
    <3>2. QED
      BY <3>1
  <2>3. QED
    BY <2>1, <2>2
<1>2. ASSUME NEW w \in Nat, NEW b \in Nat
      PROVE  Envelope!Required(w, b + k * w)
               = 2 * (ComfortDecel * (l * w)) + 2 * (ComfortDecel * (t * w)) + 2 * (ComfortDecel * b) + w * w
  <2>1. Latency * w + k * w = l * w + t * w
    <3>1. Latency * w + k * w = (Latency + k) * w /\ l * w + t * w = (l + t) * w
      OBVIOUS
    <3>2. QED
      BY <1>1, <3>1
  <2>2. PICK far \in Int, on \in Int, lag \in Int, rest \in Int :
          far = Latency * w /\ on = k * w /\ lag = l * w /\ rest = t * w
    OBVIOUS
  <2>3. far + (b + on) = lag + rest + b
    BY <2>1, <2>2
  <2>4. 2 * ComfortDecel * (lag + rest + b)
          = 2 * (ComfortDecel * lag) + 2 * (ComfortDecel * rest) + 2 * (ComfortDecel * b)
    OBVIOUS
  <2>5. QED
    BY <2>2, <2>3, <2>4 DEF Envelope!Required
<1>3. QED
  BY <1>1, <1>2

\* A vehicle out of the stopping zones can always stop, at any interval of the
\* scans and any latency: what the interval exceeds the latency by is paid for
\* out of the buffer, and with the buffer that is left, braking from now on by
\* the comfortable deceleration keeps it out of both zones at every later scan.
THEOREM BrakingStaysSafe ==
  ASSUME NEW d \in Nat, NEW s \in Nat, NEW buffer \in Nat, NEW less \in Nat, NEW t \in Nat,
         Latency \in Nat, ComfortDecel \in Nat \ {0}, less + Beyond(t) * s <= buffer
  PROVE  /\ Envelope!Evaluate(d, s, buffer).zone \notin StopZones => Covered(d, s, less, t)
         /\ Covered(d, s, less, t) =>
              /\ d - s * t \in Nat
              /\ Covered(d - s * t, Braked(s, t), less, t)
              /\ Envelope!Evaluate(d - s * t, Braked(s, t), less).zone \notin StopZones
<1>1. \A m, n \in Nat : m * n \in Nat
  OBVIOUS
<1>2. PICK l \in Nat : \A w, b \in Nat :
        Envelope!Required(w, b + Beyond(t) * w)
          = 2 * (ComfortDecel * (l * w)) + 2 * (ComfortDecel * (t * w)) + 2 * (ComfortDecel * b) + w * w
  BY CoveredRoom
<1>3. Beyond(t) \in Nat
  BY DEF Beyond
<1>4. ASSUME Envelope!Evaluate(d, s, buffer).zone \notin StopZones PROVE Covered(d, s, less, t)
  <2>1. 2 * ComfortDecel * d >= Envelope!Required(s, buffer)
    BY <1>4, HasRoom DEF Moving
  <2>2. PICK b \in Nat : b = less + Beyond(t) * s /\ b <= buffer
    <3>1. Beyond(t) * s \in Nat
      BY <1>1, <1>3
    <3>2. QED
      BY <3>1
  <2>3. PICK more \in Nat : buffer = b + more
    <3>1. buffer - b \in Nat /\ buffer = b + (buffer - b)
      BY <2>2
    <3>2. QED
      BY <3>1
  <2>4. PICK lag \in Int, square \in Int : lag = Latency * s /\ square = s * s
    OBVIOUS
  <2>5. 2 * ComfortDecel * (lag + buffer) = 2 * ComfortDecel * (lag + b) + 2 * (ComfortDecel * more)
    BY <2>3
  <2>6. ComfortDecel * more \in Nat /\ 2 * ComfortDecel * (lag + b) \in Int /\ 2 * ComfortDecel * d \in Int
    BY <1>1
  <2>7. 2 * ComfortDecel * d >= Envelope!Required(s, b)
    BY <2>1, <2>4, <2>5, <2>6 DEF Envelope!Required
  <2>8. QED
    BY <2>2, <2>7 DEF Covered
<1>5. ASSUME Covered(d, s, less, t)
      PROVE  /\ d - s * t \in Nat
             /\ Covered(d - s * t, Braked(s, t), less, t)
             /\ Envelope!Evaluate(d - s * t, Braked(s, t), less).zone \notin StopZones
  <2>1. PICK far \in Nat, u \in Nat, room \in Int :
          far = s * t /\ u = ComfortDecel * t /\ room = 2 * ComfortDecel * (d - far)
    <3>1. s * t \in Nat /\ ComfortDecel * t \in Nat
      BY <1>1
    <3>2. PICK far \in Nat, u \in Nat : far = s * t /\ u = ComfortDecel * t
      BY <3>1
    <3>3. 2 * ComfortDecel * (d - far) \in Int
      OBVIOUS
    <3>4. QED
      BY <3>2, <3>3
  <2>2. room >= 2 * (ComfortDecel * (l * s)) + 2 * (ComfortDecel * less) + s * s
    <3>1. t * s = far
      BY <2>1
    <3>2. room = 2 * ComfortDecel * d - 2 * (ComfortDecel * far)
      BY <2>1
    <3>3. 2 * ComfortDecel * d
            >= 2 * (ComfortDecel * (l * s)) + 2 * (ComfortDecel * far) + 2 * (ComfortDecel * less) + s * s
      BY <1>2, <1>5, <3>1 DEF Covered
    <3>4. /\ 2 * ComfortDecel * d \in Int /\ ComfortDecel * (l * s) \in Int /\ ComfortDecel * far \in Int
          /\ ComfortDecel * less \in Int /\ s * s \in Int
      BY <1>1, <2>1
    <3>5. QED
      BY <3>2, <3>3, <3>4
  <2>3. PICK w \in Nat : w = Braked(s, t) /\ (s = w + u \/ w = 0)
    <3>1. Braked(s, t) \in Nat /\ (s = Braked(s, t) + u \/ Braked(s, t) = 0)
      BY <2>1 DEF Braked
    <3>2. QED
      BY <3>1
  <2>4. room >= 2 * (ComfortDecel * (l * w)) + 2 * (ComfortDecel * (t * w)) + 2 * (ComfortDecel * less) + w * w
    <3>1. CASE s = w + u
      <4>1. /\ s * s = w * w + 2 * (u * w) + u * u
            /\ ComfortDecel * (l * s) = ComfortDecel * (l * w) + ComfortDecel * (l * u)
        BY <3>1
      <4>2. ComfortDecel * (t * w) = u * w
        BY <2>1
      <4>3. /\ ComfortDecel * (l * u) \in Nat /\ u * u \in Nat /\ ComfortDecel * (l * w) \in Nat
            /\ u * w \in Nat /\ w * w \in Nat /\ ComfortDecel * less \in Nat
        BY <1>1
      <4>4. QED
        BY <2>1, <2>2, <4>1, <4>2, <4>3
    <3>2. CASE w = 0
      <4>1. ComfortDecel * (l * w) = 0 /\ ComfortDecel * (t * w) = 0 /\ w * w = 0
        BY <3>2
      <4>2. ComfortDecel * (l * s) \in Nat /\ s * s \in Nat /\ ComfortDecel * less \in Nat
        BY <1>1
      <4>3. QED
        BY <2>1, <2>2, <4>1, <4>2
    <3>3. QED
      BY <2>3, <3>1, <3>2
  <2>5. d - far >= less
    <3>1. SUFFICES ASSUME d - far < less PROVE FALSE
      BY <2>1
    <3>2. PICK k \in Nat : less = (d - far) + k + 1
      <4>1. less - (d - far) - 1 \in Nat /\ less = (d - far) + (less - (d - far) - 1) + 1
        BY <2>1, <3>1
      <4>2. QED
        BY <4>1
    <3>3. 2 * (ComfortDecel * less) = room + 2 * (ComfortDecel * k) + 2 * ComfortDecel
      BY <2>1, <3>2
    <3>4. /\ ComfortDecel * (l * w) \in Nat /\ ComfortDecel * (t * w) \in Nat /\ w * w \in Nat
          /\ ComfortDecel * k \in Nat
      BY <1>1
    <3>5. QED
      BY <2>1, <2>4, <3>3, <3>4
  <2>6. d - far \in Nat
    BY <2>1, <2>5
  <2>7. Covered(d - far, w, less, t)
    BY <1>2, <2>1, <2>4 DEF Covered
  <2>8. 2 * ComfortDecel * (d - far) >= Envelope!Required(w, less)
    <3>1. PICK lag \in Int, more \in Nat, square \in Int :
            lag = Latency * w /\ more = Beyond(t) * w /\ square = w * w
      BY <1>1, <1>3
    <3>2. 2 * ComfortDecel * (lag + (less + more)) = 2 * ComfortDecel * (lag + less) + 2 * (ComfortDecel * more)
      OBVIOUS
    <3>3. ComfortDecel * more \in Nat /\ 2 * ComfortDecel * (lag + less) \in Int
          /\ 2 * ComfortDecel * (d - far) \in Int
      BY <1>1, <2>1
    <3>4. QED
      BY <2>7, <3>1, <3>2, <3>3 DEF Covered, Envelope!Required
  <2>9. Envelope!Evaluate(d - far, w, less).zone \notin StopZones
    BY <2>5, <2>6, <2>8, HasRoom DEF Moving
  <2>10. QED
    BY <2>1, <2>3, <2>6, <2>7, <2>9
<1>6. QED
  BY <1>4, <1>5
-------------------------------------------------------------------------------
(* The room of a stop                                                      *)

\* The profile's limits are those of the envelope, and the ramp up takes whole
\* samples.
Admitted ==
  /\ ComfortDecel = Decel /\ Decel <= MaxAccel /\ Jerk <= MaxJerk /\ MaxSpeed <= TopSpeed
  /\ Decel % Jerk = 0

\* The latency, or one sample if that is longer.
Lag == IF Latency = 0 THEN 1 ELSE Latency

\* A product grows with its factor.
LEMMA TimesGrows ==
  ASSUME NEW k \in Nat, NEW m \in Int, NEW n \in Int, m <= n
  PROVE  k * m <= k * n /\ k * m \in Int /\ k * n \in Int
<1>1. PICK more \in Nat : n = m + more
  <2>1. n - m \in Nat /\ n = m + (n - m)
    OBVIOUS
  <2>2. QED
    BY <2>1
<1>2. k * n = k * m + k * more /\ k * more \in Nat /\ k * m \in Int
  BY <1>1
<1>3. QED
  BY <1>2

\* The samples of the ramp up to the largest deceleration.
Samples == Decel \div Jerk

LEMMA SamplesFacts ==
  ASSUME Admitted
  PROVE  Samples \in Nat \ {0} /\ Decel = Jerk * Samples /\ Jerk <= Decel
<1>1. Decel = Jerk * (Decel \div Jerk) + (Decel % Jerk) /\ Decel \div Jerk \in Nat
  BY StopAssumption
<1>2. Samples \in Nat /\ Decel = Jerk * Samples
  <2>1. Decel % Jerk = 0
    BY DEF Admitted
  <2>2. PICK q \in Nat : q = Samples
    BY <1>1 DEF Samples
  <2>3. Decel = Jerk * q + 0 /\ Jerk * q \in Int
    BY <1>1, <2>1, <2>2, StopAssumption DEF Samples
  <2>4. QED
    BY <2>2, <2>3
<1>3. Samples /= 0
  <2>1. SUFFICES ASSUME Samples = 0 PROVE FALSE
    OBVIOUS
  <2>2. Decel = Jerk * 0
    BY <1>2, <2>1
  <2>3. QED
    BY <2>2, StopAssumption
<1>4. PICK k \in Nat : Samples = k + 1
  <2>1. Samples - 1 \in Nat /\ Samples = (Samples - 1) + 1
    BY <1>2, <1>3
  <2>2. QED
    BY <2>1
<1>5. Decel = Jerk * k + Jerk /\ Jerk * k \in Nat
  BY <1>2, <1>4, StopAssumption
<1>6. QED
  BY <1>2, <1>3, <1>5, StopAssumption

\* What ValidatorAssumption and Admitted say of the envelope's numbers.
LEMMA EnvelopeNumbers ==
  ASSUME Admitted
  PROVE  /\ Lag \in Nat \ {0} /\ Latency \in Nat /\ Buffer \in Nat /\ TopSpeed \in Nat /\ MaxJerk \in Nat
         /\ MaxAccel \in Nat /\ Decel \in Nat \ {0} /\ Jerk \in Nat \ {0}
  BY ValidatorAssumption, ConfigurationAssumption, StopAssumption DEF Admitted, ValidEnvelope, Lag

\* The room, times Decel, that is left over when the speed has come down to s
\* after a distance far: of that of the ramp, of the latency and of braking.
Slack(s, far) ==
  Decel * (initial * (Samples - 1)) + 2 * Decel * Lag * (initial - s)
    + initial * initial - s * s - Decel * far

\* What one sample from speed s to speed next adds to it.
Gain(s, next) == 2 * Decel * Lag * (s - next) + (s * s - next * next) - Decel * (s + next)

LEMMA SlackGain ==
  ASSUME Admitted, initial \in Nat, NEW s \in Nat, NEW next \in Nat, NEW far \in Nat
  PROVE  /\ Slack(next, far + s + next) = Slack(s, far) + Gain(s, next)
         /\ Slack(s, far) \in Int /\ Gain(s, next) \in Int
<1>1. Lag \in Nat /\ Decel \in Nat /\ Samples \in Nat
  BY EnvelopeNumbers, SamplesFacts
<1>2. PICK ramp \in Int : ramp = Decel * (initial * (Samples - 1))
  BY <1>1
<1>3. PICK g \in Int : g = 2 * Decel * Lag
  BY <1>1
<1>4. /\ Slack(s, far) = ramp + g * (initial - s) + initial * initial - s * s - Decel * far
      /\ Slack(next, far + s + next)
           = ramp + g * (initial - next) + initial * initial - next * next - Decel * (far + s + next)
      /\ Gain(s, next) = g * (s - next) + (s * s - next * next) - Decel * (s + next)
  BY <1>2, <1>3 DEF Slack, Gain
<1>5. g * (initial - next) = g * (initial - s) + g * (s - next)
  OBVIOUS
<1>6. Decel * (far + s + next) = Decel * far + Decel * (s + next)
  BY <1>1
<1>7. /\ g * (initial - s) \in Int /\ g * (s - next) \in Int /\ initial * initial \in Int
      /\ s * s \in Int /\ next * next \in Int /\ Decel * far \in Int /\ Decel * (s + next) \in Int
  BY <1>1
<1>8. QED
  BY <1>4, <1>5, <1>6, <1>7

\* A sample at the largest deceleration gains its latency.
LEMMA GainAtFull ==
  ASSUME Admitted, NEW s \in Nat, NEW next \in Nat, s = next + Decel
  PROVE  Gain(s, next) >= 2 * (Decel * Decel)
<1>1. PICK l \in Nat : Lag = l + 1
  <2>1. Lag - 1 \in Nat /\ Lag = (Lag - 1) + 1
    BY EnvelopeNumbers
  <2>2. QED
    BY <2>1
<1>2. Decel \in Nat
  BY EnvelopeNumbers
<1>3. s * s - next * next = Decel * (s + next)
  BY <1>2
<1>4. 2 * Decel * Lag * (s - next) = 2 * (Decel * Decel) + 2 * (Decel * (l * Decel))
  BY <1>1, <1>2
<1>5. Decel * (l * Decel) \in Nat /\ Decel * Decel \in Nat /\ Decel * (s + next) \in Int
  <2>1. \A m, n \in Nat : m * n \in Nat
    OBVIOUS
  <2>2. QED
    BY <1>2, <2>1
<1>6. QED
  BY <1>3, <1>4, <1>5 DEF Gain

\* One that is eased by Jerk loses at most what the one before it gained, at a
\* speed at which the deceleration is ramped down.
LEMMA GainEased ==
  ASSUME Admitted, NEW s \in Nat, NEW next \in Nat, s = next + (Decel - Jerk),
         s * Jerk <= Decel * Decel
  PROVE  Gain(s, next) >= -(2 * (Decel * Decel))
<1>1. PICK b \in Nat : b = Decel - Jerk /\ Decel = b + Jerk /\ s = next + b
  <2>1. Decel - Jerk \in Nat /\ Decel = (Decel - Jerk) + Jerk
    BY SamplesFacts, EnvelopeNumbers
  <2>2. QED
    BY <2>1
<1>2. Decel \in Nat /\ Lag \in Nat /\ Jerk \in Nat
  BY EnvelopeNumbers
<1>3. \A m, n \in Nat : m * n \in Nat
  OBVIOUS
<1>4. s * s - next * next = b * (s + next)
  BY <1>1
<1>5. Decel * (s + next) = b * (s + next) + 2 * (s * Jerk) - Jerk * b
  BY <1>1, <1>2
<1>6. 2 * Decel * Lag * (s - next) = 2 * (Decel * (Lag * b))
  BY <1>1, <1>2
<1>7. /\ Decel * (Lag * b) \in Nat /\ Jerk * b \in Nat /\ b * (s + next) \in Nat
      /\ s * Jerk \in Nat /\ Decel * Decel \in Nat
  BY <1>1, <1>2, <1>3
<1>8. Gain(s, next) = 2 * (Decel * (Lag * b)) - 2 * (s * Jerk) + Jerk * b
  BY <1>4, <1>5, <1>6, <1>7 DEF Gain
<1>9. QED
  BY <1>7, <1>8

\* The sample that comes to rest loses nothing.
LEMMA GainAtRest ==
  ASSUME Admitted, NEW s \in Nat
  PROVE  Gain(s, 0) >= 0
<1>1. PICK l \in Nat : Lag = l + 1
  <2>1. Lag - 1 \in Nat /\ Lag = (Lag - 1) + 1
    BY EnvelopeNumbers
  <2>2. QED
    BY <2>1
<1>2. Decel \in Nat
  BY EnvelopeNumbers
<1>3. 2 * Decel * Lag * (s - 0) = 2 * (Decel * s) + 2 * (Decel * (l * s))
  BY <1>1, <1>2
<1>4. Decel * (l * s) \in Nat /\ Decel * s \in Nat /\ s * s \in Nat
  <2>1. \A m, n \in Nat : m * n \in Nat
    OBVIOUS
  <2>2. QED
    BY <1>2, <2>1
<1>5. Gain(s, 0) = 2 * (Decel * s) + 2 * (Decel * (l * s)) + s * s - Decel * s
  <2>1. 0 * 0 = 0 /\ s + 0 = s
    OBVIOUS
  <2>2. QED
    BY <1>3, <2>1 DEF Gain
<1>6. QED
  BY <1>4, <1>5

\* What the ramp up costs, in its first n samples, times the initial speed.
RampCost(n) == Jerk * (n * (2 * Samples - n - 1))

\* A sample of the ramp costs what its deceleration lacks, twice; the whole ramp
\* costs what RampDistance allows it.
LEMMA RampCosts ==
  ASSUME Admitted, NEW n \in Nat, n <= Samples
  PROVE  /\ RampCost(n) \in Int /\ RampCost(n) <= Decel * (Samples - 1)
         /\ RampCost(n + 1) = RampCost(n) + 2 * (Decel - (n + 1) * Jerk)
<1>1. Jerk \in Nat /\ Samples \in Nat \ {0} /\ Decel = Jerk * Samples
  BY EnvelopeNumbers, SamplesFacts
<1>2. PICK k \in Nat : Samples = n + k
  <2>1. Samples - n \in Nat /\ Samples = n + (Samples - n)
    BY <1>1
  <2>2. QED
    BY <2>1
<1>3. RampCost(n + 1) = RampCost(n) + 2 * (Decel - (n + 1) * Jerk)
  <2>1. RampCost(n) = 2 * (n * (Jerk * Samples)) - Jerk * (n * n) - Jerk * n
    BY <1>1 DEF RampCost
  <2>2. RampCost(n + 1) = 2 * (n * (Jerk * Samples)) + 2 * (Jerk * Samples)
                            - Jerk * (n * n) - 2 * (Jerk * n) - Jerk - Jerk * n - Jerk
    BY <1>1 DEF RampCost
  <2>3. (n + 1) * Jerk = Jerk * n + Jerk
    BY <1>1
  <2>4. /\ Jerk * n \in Int /\ Jerk * (n * n) \in Int /\ n * (Jerk * Samples) \in Int
        /\ Jerk * Samples \in Int
    BY <1>1
  <2>5. QED
    BY <1>1, <2>1, <2>2, <2>3, <2>4
<1>4. Decel * (Samples - 1) = RampCost(n) + Jerk * (k * (k - 1))
  <2>1. Decel * (Samples - 1) = (Jerk * (n + k)) * (n + k - 1)
    BY <1>1, <1>2
  <2>2. RampCost(n) = Jerk * (n * (2 * (n + k) - n - 1))
    BY <1>2 DEF RampCost
  <2>3. (Jerk * (n + k)) * (n + k - 1) = Jerk * (n * (2 * (n + k) - n - 1)) + Jerk * (k * (k - 1))
    BY <1>1
  <2>4. QED
    BY <2>1, <2>2, <2>3
<1>5. Jerk * (k * (k - 1)) \in Nat
  <2>1. k * (k - 1) \in Nat
    <3>1. CASE k = 0
      BY <3>1
    <3>2. CASE k > 0
      <4>1. k - 1 \in Nat /\ \A m, l \in Nat : m * l \in Nat
        BY <3>2
      <4>2. QED
        BY <4>1
    <3>3. QED
      BY <3>1, <3>2
  <2>2. QED
    BY <1>1, <2>1
<1>6. RampCost(n) \in Int
  BY <1>1 DEF RampCost
<1>7. QED
  BY <1>3, <1>4, <1>5, <1>6

\* A stop that has only ramped up has spent nothing of the room of its latency.
LEMMA RampSlack ==
  ASSUME Admitted, initial \in Nat, NEW n \in Nat, n <= Samples,
         NEW s \in Nat, NEW far \in Nat,
         Decel * far + s * s <= initial * RampCost(n) + initial * initial
  PROVE  Slack(s, far) >= 2 * Decel * Lag * (initial - s)
<1>1. RampCost(n) \in Int /\ RampCost(n) <= Decel * (Samples - 1)
  BY RampCosts
<1>2. Decel \in Nat /\ Lag \in Nat /\ Samples \in Nat
  BY EnvelopeNumbers, SamplesFacts
<1>3. PICK whole \in Int : whole = Decel * (Samples - 1)
  BY <1>2
<1>4. initial * RampCost(n) <= initial * whole
  BY <1>1, <1>3, TimesGrows
<1>5. Decel * (initial * (Samples - 1)) = initial * whole
  BY <1>2, <1>3
<1>6. PICK g \in Int : g = 2 * Decel * Lag * (initial - s)
  BY <1>2
<1>7. Slack(s, far) = initial * whole + g + initial * initial - s * s - Decel * far
  BY <1>5, <1>6 DEF Slack
<1>8. /\ initial * whole \in Int /\ initial * RampCost(n) \in Int /\ initial * initial \in Int
      /\ s * s \in Int /\ Decel * far \in Int
  BY <1>1, <1>2, <1>3
<1>9. QED
  BY <1>4, <1>6, <1>7, <1>8

\* One sample of the ramp.
LEMMA RampSample ==
  ASSUME Admitted, initial \in Nat, NEW n \in Nat, n < Samples,
         NEW s \in Nat, s <= initial, NEW next \in Nat, NEW far \in Nat,
         s = next + (n + 1) * Jerk, (n + 1) * Jerk <= Decel,
         Decel * far + s * s <= initial * RampCost(n) + initial * initial
  PROVE  Decel * (far + s + next) + next * next <= initial * RampCost(n + 1) + initial * initial
<1>1. Decel \in Nat /\ Jerk \in Nat /\ RampCost(n) \in Int
      /\ RampCost(n + 1) = RampCost(n) + 2 * (Decel - (n + 1) * Jerk)
  BY EnvelopeNumbers, SamplesFacts, RampCosts
<1>2. PICK b \in Nat, lack \in Nat : b = (n + 1) * Jerk /\ Decel = b + lack /\ s = next + b
  <2>1. (n + 1) * Jerk \in Nat /\ Decel - (n + 1) * Jerk \in Nat
        /\ Decel = (n + 1) * Jerk + (Decel - (n + 1) * Jerk)
    BY <1>1
  <2>2. QED
    BY <2>1
<1>3. s * s - next * next = b * (s + next)
  BY <1>2
<1>4. Decel * (far + s + next) = Decel * far + b * (s + next) + lack * (s + next)
  BY <1>2
<1>5. lack * (s + next) <= 2 * (initial * lack)
  <2>1. next <= s
    BY <1>2
  <2>2. s + next <= 2 * initial
    BY <2>1
  <2>3. lack * (s + next) <= lack * (2 * initial)
    BY <1>2, <2>2, TimesGrows
  <2>4. lack * (2 * initial) = 2 * (initial * lack)
    BY <1>2
  <2>5. QED
    BY <2>3, <2>4
<1>6. initial * RampCost(n + 1) = initial * RampCost(n) + 2 * (initial * lack)
  <2>1. RampCost(n + 1) = RampCost(n) + 2 * lack
    BY <1>1, <1>2
  <2>2. QED
    BY <1>1, <1>2, <2>1
<1>7. /\ b * (s + next) \in Int /\ lack * (s + next) \in Int /\ Decel * far \in Int
      /\ s * s \in Int /\ next * next \in Int /\ initial * initial \in Int
      /\ initial * lack \in Int /\ initial * RampCost(n) \in Int
  BY <1>1, <1>2
<1>8. QED
  BY <1>3, <1>4, <1>5, <1>6, <1>7

\* While the loop runs some of the room is left over: before the deceleration
\* has reached its limit that of the latency, and whenever it is at its limit
\* what a sample of ramping it down may take.
Roomy ==
  result = "none" =>
    LET n == Len(out)
    IN  /\ Slack(v, x) >= 0
        /\ v > 0 /\ n < Samples =>
             a = -(n * Jerk) /\ Decel * x + v * v <= initial * RampCost(n) + initial * initial
        /\ v > 0 /\ n >= Samples =>
             a \in {-Decel, Jerk - Decel} /\ (a = -Decel => Slack(v, x) >= 2 * (Decel * Decel))

LEMMA InitRoomy == Admitted /\ Init => Roomy
<1> SUFFICES ASSUME Admitted, Init PROVE Roomy
  OBVIOUS
<1>1. initial \in Nat /\ v = initial /\ x = 0 /\ a = 0 /\ Len(out) = 0
  BY SpeedAssumption DEF Init
<1>2. Samples \in Nat \ {0} /\ Decel \in Nat /\ Jerk \in Nat /\ Lag \in Nat
  BY SamplesFacts, EnvelopeNumbers
<1>3. RampCost(0) = 0 /\ -(0 * Jerk) = 0 /\ initial * 0 = 0 /\ Decel * 0 = 0
  BY <1>1, <1>2 DEF RampCost
<1>4. Decel * (initial * (Samples - 1)) \in Nat
  <2>1. Samples - 1 \in Nat /\ \A m, k \in Nat : m * k \in Nat
    BY <1>2
  <2>2. QED
    BY <1>1, <1>2, <2>1
<1>5. Slack(v, x) = Decel * (initial * (Samples - 1))
  <2>1. /\ 2 * Decel * Lag * (initial - initial) = 0 /\ initial * initial \in Int
        /\ Decel * (initial * (Samples - 1)) \in Int
    BY <1>1, <1>2
  <2>2. QED
    BY <1>1, <1>3, <2>1 DEF Slack
<1>6. initial * initial \in Int
  BY <1>1
<1>7. QED
  BY <1>1, <1>2, <1>3, <1>4, <1>5, <1>6 DEF Roomy

\* The deceleration of the next sample, while it ramps up and afterwards.
LEMMA NextAccelOfRamp ==
  ASSUME Admitted, NEW n \in Nat, n < Samples, NEW s \in Nat
  PROVE  NextAccel(s, -(n * Jerk)) = -((n + 1) * Jerk) /\ (n + 1) * Jerk \in 0..Decel
<1>1. Samples \in Nat /\ Decel = Jerk * Samples /\ Jerk \in Nat \ {0}
  BY SamplesFacts, EnvelopeNumbers
<1>2. Jerk * (n + 1) <= Jerk * Samples
  BY <1>1, TimesGrows
<1>3. (n + 1) * Jerk = n * Jerk + Jerk /\ n * Jerk \in Nat /\ Jerk * (n + 1) = (n + 1) * Jerk
  BY <1>1
<1>4. PICK k \in Nat : k = n * Jerk
  BY <1>3
<1>5. k + Jerk <= Decel /\ Decel \in Nat
  BY <1>1, <1>2, <1>3, <1>4, EnvelopeNumbers
<1>6. NextAccel(s, -k) = -(k + Jerk)
  <2>1. -k > -Decel /\ -k - Jerk = -(k + Jerk) /\ ~(-k - Jerk < -Decel)
    BY <1>1, <1>5
  <2>2. QED
    BY <2>1 DEF NextAccel
<1>7. QED
  BY <1>1, <1>3, <1>4, <1>5, <1>6

LEMMA NextAccelAfter ==
  ASSUME Admitted, NEW s \in Nat, NEW b \in {-Decel, Jerk - Decel}
  PROVE  \/ NextAccel(s, b) = -Decel
         \/ b = -Decel /\ NextAccel(s, b) = Jerk - Decel /\ s * Jerk <= Decel * Decel
<1>1. Decel \in Nat /\ Jerk \in Nat \ {0} /\ Jerk <= Decel
  BY SamplesFacts, EnvelopeNumbers
<1>2. CASE b = Jerk - Decel
  <2>1. b > -Decel /\ b - Jerk = -Decel
    BY <1>1, <1>2
  <2>2. QED
    BY <1>1, <2>1 DEF NextAccel
<1>3. CASE b = -Decel
  <2>1. b * b = Decel * Decel
    BY <1>1, <1>3
  <2>2. NextAccel(s, b) = IF s * Jerk <= b * b THEN IF b + Jerk > 0 THEN 0 ELSE b + Jerk ELSE b
    BY <1>1, <1>3 DEF NextAccel
  <2>3. b + Jerk = Jerk - Decel /\ ~(b + Jerk > 0)
    BY <1>1, <1>3
  <2>4. QED
    BY <1>3, <2>1, <2>2, <2>3
<1>4. QED
  BY <1>2, <1>3

LEMMA IterateRoomy ==
  ASSUME Admitted, Inv, Inv', Roomy, Iterate
  PROVE  Roomy'
<1> DEFINE n == Len(out)
<1>0. /\ initial \in Nat /\ v \in Nat /\ v <= initial /\ v' \in Nat /\ x \in Nat /\ n \in Nat
      /\ initial' = initial /\ x' = x + v + v' /\ result' = "none"
      /\ v' = NextSpeed(v, a') /\ a' = NextAccel(v, a)
      /\ v > 0 /\ result = "none"
  BY SpeedAssumption, StopAssumption DEF Inv, TypeOK, Iterate
<1>1. Len(out') = n + 1
  BY <1>0 DEF Iterate, Inv, TypeOK
<1>2. /\ Slack(v', x') = Slack(v, x) + Gain(v, v')
      /\ Slack(v, x) \in Int /\ Gain(v, v') \in Int /\ Slack(v, x) >= 0
  BY <1>0, SlackGain DEF Roomy
<1>3. Slack(v, x)' = Slack(v', x')
  BY <1>0 DEF Slack
<1>4. /\ n < Samples => a = -(n * Jerk) /\ Decel * x + v * v <= initial * RampCost(n) + initial * initial
      /\ n >= Samples => a \in {-Decel, Jerk - Decel} /\ (a = -Decel => Slack(v, x) >= 2 * (Decel * Decel))
  BY <1>0 DEF Roomy
<1>5. Samples \in Nat /\ Decel \in Nat /\ Jerk \in Nat \ {0} /\ Jerk <= Decel /\ Decel * Decel \in Nat
      /\ Lag \in Nat \ {0}
  BY SamplesFacts, EnvelopeNumbers
<1> HIDE DEF n
<1>6. /\ Slack(v', x') >= 0
      /\ v' > 0 /\ n + 1 < Samples =>
           a' = -((n + 1) * Jerk)
           /\ Decel * x' + v' * v' <= initial * RampCost(n + 1) + initial * initial
      /\ v' > 0 /\ n + 1 >= Samples =>
           a' \in {-Decel, Jerk - Decel} /\ (a' = -Decel => Slack(v', x') >= 2 * (Decel * Decel))
  <2>1. CASE v' = 0
    <3>1. Gain(v, v') >= 0
      BY <1>0, <2>1, GainAtRest
    <3>2. Slack(v', x') >= 0
      BY <1>2, <3>1
    <3>3. QED
      BY <2>1, <3>2
  <2>2. CASE v' > 0 /\ n < Samples
    <3>1. a' = -((n + 1) * Jerk) /\ (n + 1) * Jerk \in 0..Decel
      BY <1>0, <1>4, <2>2, NextAccelOfRamp
    <3>2. v = v' + (n + 1) * Jerk
      <4>1. PICK b \in Nat : b = (n + 1) * Jerk
        BY <1>5, <3>1
      <4>2. v' = NextSpeed(v, -b)
        BY <1>0, <3>1, <4>1
      <4>3. v = v' + b
        BY <1>0, <2>2, <4>2 DEF NextSpeed
      <4>4. QED
        BY <4>1, <4>3
    <3>3. Decel * x' + v' * v' <= initial * RampCost(n + 1) + initial * initial
      <4>1. (n + 1) * Jerk <= Decel
        BY <1>5, <3>1
      <4>2. QED
        BY <1>0, <1>4, <2>2, <3>2, <4>1, RampSample
    <3>4. Slack(v', x') >= 2 * Decel * Lag * (initial - v')
      <4>1. n + 1 \in Nat /\ n + 1 <= Samples /\ x' \in Nat
        BY <1>0, <1>5, <2>2
      <4>2. QED
        BY <1>0, <3>3, <4>1, RampSlack
    <3>5. PICK lost \in Nat : lost = initial - v'
      <4>1. v' <= v
        <5>1. (n + 1) * Jerk \in Nat
          BY <3>1, <1>5
        <5>2. QED
          BY <1>0, <3>2, <5>1
      <4>2. initial - v' \in Nat
        BY <1>0, <4>1
      <4>3. QED
        BY <4>2
    <3>6. \A m, k \in Nat : m * k \in Nat
      OBVIOUS
    <3>7. 2 * Decel * Lag * lost = 2 * (Decel * (Lag * lost))
      BY <1>5
    <3>8. Slack(v', x') >= 0
      <4>1. Decel * (Lag * lost) \in Nat
        BY <1>5, <3>6
      <4>2. QED
        BY <1>2, <3>4, <3>5, <3>7, <4>1
    <3>9. ASSUME n + 1 >= Samples
          PROVE  a' = -Decel /\ Slack(v', x') >= 2 * (Decel * Decel)
      <4>1. n + 1 = Samples
        BY <1>0, <1>5, <2>2, <3>9
      <4>2. (n + 1) * Jerk = Decel
        BY <1>5, <4>1, SamplesFacts
      <4>3. Decel <= lost
        <5>1. v = v' + Decel
          BY <3>2, <4>2
        <5>2. QED
          BY <1>0, <1>5, <3>5, <5>1
      <4>4. PICK l \in Nat : Lag = l + 1
        <5>1. Lag - 1 \in Nat /\ Lag = (Lag - 1) + 1
          BY <1>5
        <5>2. QED
          BY <5>1
      <4>5. Decel * Decel <= Decel * lost
        BY <1>5, <4>3, TimesGrows
      <4>6. 2 * Decel * Lag * lost = 2 * (Decel * lost) + 2 * (Decel * (l * lost))
        BY <1>5, <4>4
      <4>7. Decel * (l * lost) \in Nat /\ Decel * lost \in Nat
        BY <1>5, <3>6
      <4>8. Slack(v', x') >= 2 * (Decel * Decel)
        BY <1>2, <1>5, <3>4, <3>5, <4>5, <4>6, <4>7
      <4>9. QED
        BY <3>1, <4>2, <4>8
    <3>10. QED
      BY <1>0, <1>5, <3>1, <3>3, <3>8, <3>9
  <2>3. CASE v' > 0 /\ n >= Samples
    <3>1. a \in {-Decel, Jerk - Decel} /\ (a = -Decel => Slack(v, x) >= 2 * (Decel * Decel))
      BY <1>4, <2>3
    <3>2. CASE a' = -Decel
      <4>1. v = v' + Decel
        BY <1>0, <1>5, <2>3, <3>2 DEF NextSpeed
      <4>2. Gain(v, v') >= 2 * (Decel * Decel)
        BY <1>0, <4>1, GainAtFull
      <4>3. Slack(v', x') >= 2 * (Decel * Decel) /\ Slack(v', x') >= 0
        BY <1>2, <1>5, <4>2
      <4>4. QED
        BY <1>0, <1>5, <2>3, <3>2, <4>3
    <3>3. CASE a = -Decel /\ a' = Jerk - Decel /\ v * Jerk <= Decel * Decel
      <4>1. v = v' + (Decel - Jerk)
        BY <1>0, <1>5, <2>3, <3>3 DEF NextSpeed
      <4>2. Gain(v, v') >= -(2 * (Decel * Decel))
        BY <1>0, <3>3, <4>1, GainEased
      <4>3. Slack(v', x') >= 0
        BY <1>2, <1>5, <3>1, <3>3, <4>2
      <4>4. a' /= -Decel
        BY <1>5, <3>3
      <4>5. QED
        BY <1>0, <1>5, <2>3, <3>3, <4>3, <4>4
    <3>4. a' = -Decel \/ (a = -Decel /\ a' = Jerk - Decel /\ v * Jerk <= Decel * Decel)
      BY <1>0, <3>1, NextAccelAfter
    <3>5. QED
      BY <3>2, <3>3, <3>4
  <2>4. QED
    BY <1>0, <1>5, <2>1, <2>2, <2>3
<1>7. QED
  BY <1>0, <1>1, <1>3, <1>6 DEF Roomy

\* The obstacle of StopValidatesCorrect.
Room == RequiredRoom + RampDistance + ShortLatency

\* The room it gives in whole units is at least what the envelope requires, with
\* the longer latency.
LEMMA RoomIsEnough ==
  ASSUME Admitted, initial \in Nat
  PROVE  /\ Room \in Int
         /\ Decel * Room >= 2 * (Decel * (Lag * initial)) + 2 * (Decel * Buffer)
                              + initial * initial + Decel * (initial * (Samples - 1))
<1>1. /\ Decel \in Nat \ {0} /\ Latency \in Nat /\ Buffer \in Nat /\ Samples \in Nat
      /\ ComfortDecel = Decel
  BY EnvelopeNumbers, SamplesFacts DEF Admitted
<1>2. \A m, k \in Nat : m * k \in Nat
  OBVIOUS
<1>3. PICK need \in Nat : need = 2 * (Decel * (Latency * initial)) + 2 * (Decel * Buffer) + initial * initial
  <2>1. Decel * (Latency * initial) \in Nat /\ Decel * Buffer \in Nat /\ initial * initial \in Nat
    BY <1>1, <1>2
  <2>2. QED
    BY <2>1
<1>4. Envelope!Required(initial, Buffer) = need
  <2>1. 2 * Decel * (Latency * initial + Buffer) = 2 * (Decel * (Latency * initial)) + 2 * (Decel * Buffer)
    BY <1>1
  <2>2. QED
    BY <1>1, <1>3, <2>1 DEF Envelope!Required
<1>5. PICK whole \in Int : whole = RequiredRoom /\ Decel * whole >= need
  <2>1. PICK up \in Nat : up = need + Decel - 1
    BY <1>1, <1>3
  <2>2. up = Decel * (up \div Decel) + (up % Decel) /\ up \div Decel \in Int /\ up % Decel \in 0..(Decel - 1)
    BY <1>1, <2>1
  <2>3. PICK q \in Int, least \in Int : q = up \div Decel /\ least = Decel * q
    BY <1>1, <2>2
  <2>4. least >= need
    BY <1>1, <2>1, <2>2, <2>3
  <2>5. RequiredRoom = q
    BY <1>1, <1>4, <2>1, <2>3 DEF RequiredRoom
  <2>6. QED
    BY <2>3, <2>4, <2>5
<1>6. PICK ramp \in Int, more \in Nat :
        /\ ramp = initial * (Samples - 1) /\ more = ShortLatency
        /\ Room = whole + ramp + more
  <2>1. ShortLatency \in Nat
    BY DEF ShortLatency
  <2>2. QED
    BY <1>1, <1>5, <2>1 DEF Room, RampDistance, Samples
<1>7. Decel * Room = Decel * whole + Decel * ramp + Decel * more
      /\ Decel * whole \in Int /\ Decel * ramp \in Int /\ Decel * more \in Int
  BY <1>1, <1>6
<1>8. 2 * (Decel * (Lag * initial)) = 2 * (Decel * (Latency * initial)) + Decel * more
  <2>1. CASE Latency = 0
    <3>1. Lag * initial = initial /\ Latency * initial = 0 /\ more = 2 * initial
      BY <1>6, <2>1 DEF Lag, ShortLatency
    <3>2. Decel * more = 2 * (Decel * initial) /\ Decel * 0 = 0
      BY <1>1, <3>1
    <3>3. QED
      BY <1>1, <3>1, <3>2
  <2>2. CASE Latency /= 0
    <3>1. Lag = Latency /\ more = 0
      BY <1>6, <2>2 DEF Lag, ShortLatency
    <3>2. Decel * more = 0
      BY <1>1, <3>1
    <3>3. QED
      BY <1>1, <3>1, <3>2
  <2>3. QED
    BY <2>1, <2>2
<1>9. /\ Room \in Int /\ Decel * (Latency * initial) \in Int /\ Decel * Buffer \in Int
      /\ initial * initial \in Int
  BY <1>1, <1>6
<1>10. QED
  BY <1>3, <1>5, <1>6, <1>7, <1>8, <1>9

\* As long as some is left over, a point's own room is there.
LEMMA SlackIsRoom ==
  ASSUME Admitted, initial \in Nat, NEW p, p.speed \in Nat, p.distance \in Nat,
         Slack(p.speed, p.distance) >= 0
  PROVE  WithinEnvelope(p, Room)
<1>1. Decel \in Nat /\ Lag \in Nat /\ Latency \in Nat /\ Buffer \in Nat /\ Samples \in Nat /\ ComfortDecel = Decel
  BY EnvelopeNumbers, SamplesFacts DEF Admitted
<1>2. PICK s \in Nat, far \in Nat : s = p.speed /\ far = p.distance
  OBVIOUS
<1>3. PICK ramp \in Int : ramp = Decel * (initial * (Samples - 1))
  BY <1>1
<1>4. PICK stop \in Int, brake \in Int, buffer \in Int, slow \in Int, square \in Int, done \in Int :
        /\ stop = Decel * (Lag * initial) /\ brake = initial * initial /\ buffer = Decel * Buffer
        /\ slow = Decel * (Lag * s) /\ square = s * s /\ done = Decel * far
  BY <1>1
<1>5. Slack(s, far) = ramp + 2 * stop - 2 * slow + brake - square - done
  <2>1. 2 * Decel * Lag * (initial - s) = 2 * stop - 2 * slow
    BY <1>1, <1>4
  <2>2. QED
    BY <1>3, <1>4, <2>1 DEF Slack
<1>6. Room \in Int /\ Decel * Room >= 2 * stop + 2 * buffer + brake + ramp
  BY <1>3, <1>4, RoomIsEnough
<1>7. Envelope!Required(s, Buffer) <= 2 * slow + 2 * buffer + square
  <2>1. PICK lag \in Nat, late \in Nat : lag = Latency * s /\ late = Lag * s /\ lag <= late
    <3>1. \A m, n \in Nat : m * n \in Nat
      OBVIOUS
    <3>2. CASE Latency = 0
      <4>1. Latency * s = 0 /\ Lag * s \in Nat
        BY <1>1, <3>1, <3>2
      <4>2. QED
        BY <4>1
    <3>3. CASE Latency /= 0
      <4>1. Lag = Latency /\ Latency * s \in Nat
        BY <1>1, <3>1, <3>3 DEF Lag
      <4>2. QED
        BY <4>1
    <3>4. QED
      BY <3>2, <3>3
  <2>2. 2 * Decel * (lag + Buffer) = 2 * (Decel * lag) + 2 * buffer
    BY <1>1, <1>4
  <2>3. Decel * lag <= slow /\ Decel * lag \in Int
    BY <1>1, <1>4, <2>1, TimesGrows
  <2>4. QED
    BY <1>1, <1>4, <2>1, <2>2, <2>3 DEF Envelope!Required
<1>8. Decel * (Room - far) = Decel * Room - done /\ Decel * Room \in Int
      /\ Envelope!Required(s, Buffer) \in Int
  BY <1>1, <1>4, <1>6 DEF Envelope!Required
<1>9. Decel * (Room - far) >= Envelope!Required(s, Buffer)
  <2>1. Slack(s, far) >= 0
    BY <1>2
  <2>2. QED
    BY <1>5, <1>6, <1>7, <1>8, <2>1
<1>10. QED
  BY <1>1, <1>2, <1>9 DEF WithinEnvelope

\* A point of the profile that follows the one before it passes every check.
LEMMA PointPasses ==
  ASSUME Admitted, NEW points, NEW i \in Nat, points[i] \in Points,
         points[i].speed <= MaxSpeed, points[i].accel \in (-Decel)..0,
         points[i].jerk \in (-Jerk)..Jerk, WithinEnvelope(points[i], Room),
         i > 1 => points[i - 1].t < points[i].t /\ points[i - 1].distance <= points[i].distance,
         i > 1 => points[i - 1] \in Points
  PROVE  Violation(points, i, Room) = "None"
<1>1. PICK p \in Points : p = points[i]
  OBVIOUS
<1>2. p.t \in Nat /\ p.speed \in Nat /\ p.accel \in Int /\ p.jerk \in Int /\ p.distance \in Nat
  BY DEF Points
<1>3. /\ TopSpeed \in Nat /\ MaxAccel \in Nat /\ MaxJerk \in Nat /\ MaxSpeed \in Nat
      /\ Decel \in Nat /\ Jerk \in Nat
      /\ MaxSpeed <= TopSpeed /\ Decel <= MaxAccel /\ Jerk <= MaxJerk
  BY EnvelopeNumbers, SpeedAssumption DEF Admitted
<1>4. Bounded(TopSpeed, p.speed)
  BY <1>1, <1>2, <1>3 DEF Bounded, Within
<1>5. Bounded(MaxAccel, p.accel)
  BY <1>1, <1>2, <1>3 DEF Bounded, Within
<1>6. Within(MaxJerk, p.jerk)
  BY <1>1, <1>2, <1>3 DEF Within
<1>7. ~(i > 1 /\ p.t <= points[i - 1].t) /\ ~(i > 1 /\ p.distance < points[i - 1].distance)
  <2>1. SUFFICES ASSUME i > 1
                 PROVE  ~(p.t <= points[i - 1].t) /\ ~(p.distance < points[i - 1].distance)
    OBVIOUS
  <2>2. points[i - 1].t \in Nat /\ points[i - 1].distance \in Nat
    BY <2>1 DEF Points
  <2>3. points[i - 1].t < p.t /\ points[i - 1].distance <= p.distance
    BY <1>1, <2>1
  <2>4. QED
    BY <1>2, <2>2, <2>3
<1>8. QED
  BY <1>1, <1>4, <1>5, <1>6, <1>7 DEF Violation

\* Every point so far passes, and the next one follows on.
Passing ==
  /\ \A i \in DOMAIN out : Violation(out, i, Room) = "None"
  /\ out /= << >> => out[Len(out)].t < Len(out) /\ out[Len(out)].distance <= x
  /\ result = "true" => out /= << >>

LEMMA AppendPasses ==
  ASSUME Admitted, Passing, out \in Seq(Points), x \in Nat,
         NEW p \in Points, p.t = Len(out), p.distance = x, p.speed <= MaxSpeed,
         p.accel \in (-Decel)..0, p.jerk \in (-Jerk)..Jerk, WithinEnvelope(p, Room),
         NEW longer, longer = Append(out, p)
  PROVE  /\ \A i \in DOMAIN longer : Violation(longer, i, Room) = "None"
         /\ longer /= << >> /\ longer[Len(longer)] = p /\ Len(longer) = Len(out) + 1
<1> DEFINE n == Len(out)
<1>1. /\ n \in Nat /\ DOMAIN out = 1..n /\ Len(longer) = n + 1 /\ DOMAIN longer = 1..(n + 1)
      /\ longer[n + 1] = p /\ \A i \in 1..n : longer[i] = out[i] /\ out[i] \in Points
      /\ longer /= << >>
  OBVIOUS
<1> HIDE DEF n
<1>2. ASSUME NEW i \in 1..n
      PROVE  Violation(longer, i, Room) = "None"
  <2>1. longer[i] = out[i] /\ (i > 1 => longer[i - 1] = out[i - 1])
    <3>1. i > 1 => i - 1 \in 1..n
      BY <1>1
    <3>2. QED
      BY <1>1, <3>1
  <2>2. Violation(longer, i, Room) = Violation(out, i, Room)
    <3>1. CASE i > 1
      BY <2>1, <3>1 DEF Violation
    <3>2. CASE ~(i > 1)
      BY <2>1, <3>2 DEF Violation
    <3>3. QED
      BY <3>1, <3>2
  <2>3. QED
    BY <1>1, <2>2 DEF Passing
<1>3. Violation(longer, n + 1, Room) = "None"
  <2>1. PICK m \in Nat : m = n + 1 /\ m - 1 = n /\ longer[m] = p
    BY <1>1
  <2>2. longer[m] \in Points /\ longer[m].speed <= MaxSpeed /\ longer[m].accel \in (-Decel)..0
        /\ longer[m].jerk \in (-Jerk)..Jerk /\ WithinEnvelope(longer[m], Room)
    BY <2>1
  <2>3. ASSUME m > 1
        PROVE  /\ longer[m - 1] \in Points
               /\ longer[m - 1].t < longer[m].t /\ longer[m - 1].distance <= longer[m].distance
    <3>1. n \in 1..n /\ out /= << >>
      BY <1>1, <2>1, <2>3
    <3>2. longer[n] = out[n] /\ out[n] \in Points
      BY <1>1, <3>1
    <3>3. out[n].t < n /\ out[n].distance <= x
      BY <3>1 DEF Passing, n
    <3>4. p.t = n
      BY DEF n
    <3>5. QED
      BY <2>1, <3>2, <3>3, <3>4
  <2>4. Violation(longer, m, Room) = "None"
    BY <2>2, <2>3, PointPasses
  <2>5. QED
    BY <2>1, <2>4
<1>4. \A i \in 1..(n + 1) : i \in 1..n \/ i = n + 1
  BY <1>1
<1>5. QED
  BY <1>1, <1>2, <1>3, <1>4 DEF n

StopInv == Inv /\ Roomy /\ Passing

LEMMA InitStop == Admitted /\ Init => StopInv
<1> SUFFICES ASSUME Admitted, Init PROVE StopInv
  OBVIOUS
<1>1. Passing
  BY DEF Init, Passing
<1>2. QED
  BY <1>1, InitInv, InitRoomy DEF StopInv

LEMMA StepStop == Admitted /\ StopInv /\ [Next]_vars => StopInv'
<1> SUFFICES ASSUME Admitted, StopInv, [Next]_vars PROVE StopInv'
  OBVIOUS
<1>0. Inv /\ Inv' /\ Roomy /\ Passing
  BY StepInv DEF StopInv
<1>1. /\ initial \in Nat /\ initial <= MaxSpeed /\ v \in Nat /\ v <= initial /\ x \in Nat
      /\ a' \in (-Decel)..0 /\ out \in Seq(Points) /\ Len(out) \in Nat
  BY <1>0, SpeedAssumption DEF Inv, TypeOK
<1>2. ASSUME initial' = initial PROVE Room' = Room
  BY <1>2 DEF Room, RequiredRoom, RampDistance, ShortLatency
<1>3. CASE Iterate
  <2>1. PICK p : p = Point(v, a', NextJerk(v, a)) /\ out' = Append(out, p)
    BY <1>3 DEF Iterate
  <2>2. NextJerk(v, a) \in (-Jerk)..Jerk
    BY StopAssumption DEF NextJerk
  <2>3. p \in Points
    BY <1>1, <2>1, <2>2, StopAssumption DEF Point, Points
  <2>4. p.t = Len(out) /\ p.speed = v /\ p.accel = a' /\ p.jerk = NextJerk(v, a) /\ p.distance = x
    BY <2>1 DEF Point
  <2>5. WithinEnvelope(p, Room)
    BY <1>0, <1>1, <1>3, <2>4, SlackIsRoom DEF Iterate, Roomy
  <2>6. p.speed <= MaxSpeed
    BY <1>1, <2>4, SpeedAssumption
  <2>7. /\ \A i \in DOMAIN out' : Violation(out', i, Room) = "None"
        /\ out' /= << >> /\ out'[Len(out')] = p /\ Len(out') = Len(out) + 1
    BY <1>0, <1>1, <2>1, <2>2, <2>3, <2>4, <2>5, <2>6, AppendPasses
  <2>8. x' = x + v + v' /\ v' \in Nat /\ initial' = initial
    BY <1>0, <1>3, SpeedAssumption DEF Iterate, Inv, TypeOK
  <2>9. Passing'
    <3>1. x <= x'
      <4>1. x \in Nat /\ v \in Nat /\ v' \in Nat
        BY <1>1, <2>8
      <4>2. x <= x + v + v'
        BY <4>1, FartherOn
      <4>3. QED
        BY <2>8, <4>2
    <3>2. Len(out) < Len(out')
      BY <1>1, <2>7
    <3>3. QED
      BY <1>2, <1>3, <2>4, <2>7, <2>8, <3>1, <3>2 DEF Passing, Iterate
  <2>10. QED
    BY <1>0, <1>3, <2>9, IterateRoomy DEF StopInv
<1>4. CASE Finish
  <2>1. PICK p : p = Point(0, 0, 0) /\ out' = Append(out, p)
    BY <1>4 DEF Finish
  <2>2. p \in Points
    BY <1>1, <2>1 DEF Point, Points
  <2>3. p.t = Len(out) /\ p.speed = 0 /\ p.accel = 0 /\ p.jerk = 0 /\ p.distance = x
    BY <2>1 DEF Point
  <2>4. WithinEnvelope(p, Room)
    BY <1>0, <1>1, <1>4, <2>3, SlackIsRoom DEF Finish, Roomy
  <2>5. p.speed <= MaxSpeed /\ p.accel \in (-Decel)..0 /\ p.jerk \in (-Jerk)..Jerk
    BY <2>3, SpeedAssumption, StopAssumption
  <2>6. /\ \A i \in DOMAIN out' : Violation(out', i, Room) = "None"
        /\ out' /= << >> /\ out'[Len(out')] = p /\ Len(out') = Len(out) + 1
    BY <1>0, <1>1, <2>1, <2>2, <2>3, <2>4, <2>5, AppendPasses
  <2>7. x' = x /\ initial' = initial /\ result' = "true"
    BY <1>4 DEF Finish
  <2>8. Passing' /\ Roomy'
    <3>1. x <= x' /\ Len(out) < Len(out')
      BY <1>1, <2>6, <2>7
    <3>2. QED
      BY <1>2, <2>3, <2>6, <2>7, <3>1 DEF Passing, Roomy
  <2>9. QED
    BY <1>0, <2>8 DEF StopInv
<1>5. CASE Overflow
  BY <1>0, <1>2, <1>5 DEF Overflow, StopInv, Passing, Roomy
<1>6. CASE UNCHANGED vars
  <2>1. Room' = Room
    BY <1>2, <1>6 DEF vars
  <2>2. Slack(v, x)' = Slack(v, x)
    BY <1>6 DEF vars, Slack
  <2>3. QED
    BY <1>0, <1>6, <2>1, <2>2 DEF vars, StopInv, Passing, Roomy
<1>7. QED
  BY <1>3, <1>4, <1>5, <1>6 DEF Next

\* For any envelope that validate accepts, and any stop within its limits: with
\* the room the envelope requires and that of the ramp, every point of the
\* profile passes the validator, down to the last one.  If the latency is less
\* than one sample the room is that of a latency of one.
THEOREM StopValidatesCorrect ==
  ASSUME Admitted
  PROVE  /\ Spec => [](Latency >= 1 => StopValidates)
         /\ Spec => []ValidatesIn(RequiredRoom + RampDistance + ShortLatency)
<1>1. Init => StopInv
  BY InitStop
<1>2. StopInv /\ [Next]_vars => StopInv'
  BY StepStop
<1>3. StopInv => ValidatesIn(RequiredRoom + RampDistance + ShortLatency)
  <2> SUFFICES ASSUME StopInv, result = "true" PROVE Validate(out, Room) = "None"
    BY DEF ValidatesIn, Room
  <2>1. { i \in DOMAIN out : Violation(out, i, Room) /= "None" } = {} /\ out /= << >>
    BY DEF StopInv, Passing
  <2>2. QED
    BY <2>1 DEF Validate
<1>4. ValidatesIn(RequiredRoom + RampDistance + ShortLatency) /\ Inv => (Latency >= 1 => StopValidates)
  <2> SUFFICES ASSUME ValidatesIn(RequiredRoom + RampDistance + ShortLatency), Inv, Latency >= 1
               PROVE  StopValidates
    OBVIOUS
  <2>1. ShortLatency = 0
    BY EnvelopeNumbers DEF ShortLatency
  <2>2. RequiredRoom + RampDistance + 0 = RequiredRoom + RampDistance
    <3>1. Room \in Int /\ initial \in Nat
      BY RoomIsEnough, SpeedAssumption DEF Inv, TypeOK
    <3>2. RequiredRoom \in Int /\ RampDistance \in Int
      BY <3>1, EnvelopeNumbers DEF RequiredRoom, RampDistance, Envelope!Required, Admitted
    <3>3. QED
      BY <3>2
  <2>3. QED
    BY <2>1, <2>2 DEF StopValidates
<1>5. Spec => []ValidatesIn(RequiredRoom + RampDistance + ShortLatency)
  BY <1>1, <1>2, <1>3, PTL DEF Spec
<1>6. Spec => [](Latency >= 1 => StopValidates)
  BY <1>4, <1>5, Invariance, PTL
<1>7. QED
  BY <1>5, <1>6
-------------------------------------------------------------------------------
(* The configuration at start-up                                           *)

LEMMA ConstantFacts ==
  ASSUME ConfigurationAssumption
  PROVE  /\ HalfWord \in Nat /\ HalfWord > 0
         /\ NoNumber \notin Int /\ NotFinite \notin Int
         /\ {MinControlPeriod, MaxTasksCap, SpeedCap, AccelCap, LatencyCap, BufferCap} \subseteq Nat
BY DEF ConfigurationAssumption

LEMMA FieldKinds ==
  ASSUME NEW f
  PROVE  /\ f \in Limits => f \notin Times /\ f /= "version" /\ f /= "tasks" /\ Kind(f) = Doubles
         /\ f \in Times => f \notin Limits /\ f /= "version" /\ f /= "tasks" /\ Kind(f) = Durations
<1>1. f \in Limits => f \notin Times /\ f /= "version" /\ f /= "tasks"
  BY DEF Limits, Times
<1>2. f \in Times => f \notin Limits /\ f /= "version" /\ f /= "tasks"
  BY DEF Limits, Times
<1>3. QED
  BY <1>1, <1>2, Zenon DEF Kind

\* A field that is read again, over the value read before, keeps that value.
LEMMA ReadTwice ==
  ASSUME ConfigurationAssumption, NEW f \in Fields, NEW text \in Texts, NEW d \in Kind(f)
  PROVE  Read(f, text, d) \in Kind(f) /\ Read(f, text, Read(f, text, d)) = Read(f, text, d)
<1>1. CASE f \in Limits
  <2>1. Kind(f) = Doubles
    BY <1>1, FieldKinds
  <2>2. QED
    BY <1>1, <2>1 DEF Read, ReadDouble, Doubles
<1>2. CASE f \in Times
  <2>1. Kind(f) = Durations /\ f \notin Limits
    BY <1>2, FieldKinds
  <2>2. ReadDuration(text, d) \in Durations
        /\ ReadDuration(text, ReadDuration(text, d)) = ReadDuration(text, d)
    <3>1. d \in Int /\ -HalfWord <= d /\ d < HalfWord
      BY <2>1, ConstantFacts DEF Durations
    <3>2. CASE text \in Int
      BY <3>1, <3>2, ConstantFacts DEF ReadDuration, ReadUnsigned, Word, Durations
    <3>3. CASE text \notin Int
      BY <3>1, <3>3, ConstantFacts DEF ReadDuration, ReadUnsigned, Word, Durations
    <3>4. QED
      BY <3>2, <3>3
  <2>3. QED
    BY <1>2, <2>1, <2>2 DEF Read
<1>3. CASE f \notin Limits /\ f \notin Times
  <2>1. Read(f, text, d) = ReadBounded(text, d, f)
        /\ Read(f, text, Read(f, text, d)) = ReadBounded(text, Read(f, text, d), f)
    BY <1>3 DEF Read
  <2>2. QED
    BY <2>1 DEF ReadBounded, ReadUnsigned
<1>4. QED
  BY <1>1, <1>2, <1>3

LEMMA ConfigFields ==
  ASSUME NEW c \in SystemConfigs, NEW f \in Fields
  PROVE  c[f] \in Kind(f)
BY DEF SystemConfigs

LEMMA KindsAreNumbers ==
  ASSUME ConfigurationAssumption, NEW f \in Fields
  PROVE  Kind(f) \subseteq Int \cup {NotFinite}
<1>1. SUFFICES ASSUME NEW value \in Kind(f)
               PROVE  value \in Int \cup {NotFinite}
  OBVIOUS
<1>2. Kind(f) = Uint16 \/ Kind(f) = Uint8 \/ Kind(f) = Durations \/ Kind(f) = Doubles
  BY Zenon DEF Kind
<1>3. CASE Kind(f) = Uint16 \/ Kind(f) = Uint8
  BY <1>1, <1>3 DEF Uint16, Uint8
<1>4. CASE Kind(f) = Durations
  BY <1>1, <1>4, ConstantFacts DEF Durations
<1>5. CASE Kind(f) = Doubles
  BY <1>1, <1>5 DEF Doubles
<1>6. QED
  BY <1>2, <1>3, <1>4, <1>5

\* A loaded configuration fits its fields: nothing is truncated on the way.
THEOREM LoadTyped ==
  ASSUME ConfigurationAssumption, NEW env \in [Fields -> Texts], NEW d \in SystemConfigs
  PROVE  Load(env, d) \in SystemConfigs
<1>1. \A f \in Fields : Read(f, env[f], d[f]) \in Kind(f)
  BY ConfigFields, ReadTwice
<1>2. \A f \in Fields : Read(f, env[f], d[f]) \in Int \cup {NotFinite}
  BY <1>1, KindsAreNumbers
<1>3. QED
  BY <1>1, <1>2 DEF Load, SystemConfigs

\* The application loads the environment and hands the result to build_context,
\* which loads it again: the second time changes nothing.
THEOREM LoadTwice ==
  ASSUME ConfigurationAssumption, NEW env \in [Fields -> Texts], NEW d \in SystemConfigs
  PROVE  Load(env, Load(env, d)) = Load(env, d)
<1>1. \A f \in Fields : Read(f, env[f], Read(f, env[f], d[f])) = Read(f, env[f], d[f])
  BY ConfigFields, ReadTwice
<1>2. QED
  BY <1>1 DEF Load

\* So the application builds the same context as with its own defaults.
THEOREM ApplicationBuildsTheSame ==
  ASSUME ConfigurationAssumption, NEW env \in [Fields -> Texts], NEW d \in SystemConfigs,
         NEW strict \in BOOLEAN, NEW held
  PROVE  BuildContext(held, env, Load(env, d), strict) = BuildContext(held, env, d, strict)
BY LoadTwice DEF BuildContext, Builds, Candidate

\* What the consumers of a configuration rely on without a check of their own:
\* the controller's clamps and its localization gate are on, a watchdog is never
\* shorter than a period, and braking and buffer are what the envelope needs.
Usable(c) ==
  /\ PidAccepts(c) /\ c.timeout > 0
  /\ c.period > 0 /\ c.watchdog >= c.period
  /\ c.decel > 0 /\ c.latency >= 0 /\ c.buffer >= 0

\* A context is never left with a configuration its consumers cannot use,
\* whatever the environment, and however often it is built.
THEOREM BuiltIsUsable ==
  ASSUME ConfigurationAssumption, NEW env \in [Fields -> Texts], NEW d \in SystemConfigs,
         NEW strict \in BOOLEAN, NEW held, Usable(held)
  PROVE  Usable(BuildContext(held, env, d, strict))
<1>1. CASE ~Builds(env, d, strict)
  BY <1>1 DEF BuildContext
<1>2. CASE Builds(env, d, strict)
  <2>1. PICK c : c = Candidate(env, d)
    OBVIOUS
  <2>2. ValidTiming(c) /\ ValidEnvelope(c)
    BY <1>2, <2>1 DEF Builds, Valid
  <2>3. Usable(c)
    BY <2>2, ConstantFacts DEF Usable, PidAccepts, ValidTiming, ValidEnvelope
  <2>4. QED
    BY <1>2, <2>1, <2>3 DEF BuildContext
<1>3. QED
  BY <1>1, <1>2

\* A control period that does not fit the signed 64 bits of a duration, or is
\* negative and does, is refused; it is not wrapped into a valid one.
THEOREM WrappedPeriodRefused ==
  ASSUME ConfigurationAssumption, NEW env \in [Fields -> Texts], NEW d \in SystemConfigs,
         NEW strict \in BOOLEAN,
         env.period \in HalfWord..(2 * HalfWord - 1) \/ env.period \in (-HalfWord)..(-1)
  PROVE  ~Builds(env, d, strict)
<1>1. PICK p : p = env.period
  OBVIOUS
<1>2. p \in Int /\ -HalfWord <= p /\ p < 2 * HalfWord /\ (p < 0 \/ p >= HalfWord)
  BY <1>1, ConstantFacts
<1>3. \A fallback : ReadDuration(p, fallback) < 0
  BY <1>2, ConstantFacts DEF ReadDuration, ReadUnsigned, Word
<1>4. Candidate(env, d).period = ReadDuration(p, d.period)
  BY <1>1 DEF Candidate, Migrated, Load, Read, Fields, Times, Limits
<1>5. ReadDuration(p, d.period) \in Int
  BY <1>2, ConstantFacts DEF ReadDuration, ReadUnsigned, Word
<1>6. ~(Candidate(env, d).period > 0)
  BY <1>3, <1>4, <1>5
<1>7. QED
  BY <1>6 DEF Builds, Valid, ValidTiming
===============================================================================
