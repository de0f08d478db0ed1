--------------------------- MODULE StopProfile_proofs ---------------------------
(***************************************************************************)
(* What the recursive definition of a stop's samples amounts to, for any   *)
(* speed and limits: it defines a function, and what that function has.    *)
(*                                                                         *)
(* The library's induction theorems take an operator, which no prover here *)
(* can instantiate; induction is therefore stated over sets, from the fact *)
(* that < on Nat is well founded.                                          *)
(***************************************************************************)
EXTENDS StopProfile, SequenceTheorems, WellFoundedInduction, TLAPS

-------------------------------------------------------------------------------
(* Induction                                                               *)

Below == { p \in Nat \X Nat : p[1] < p[2] }

\* Every set of natural numbers has a least element.
LEMMA LeastNatural ==
  ASSUME NEW T, T \subseteq Nat, T /= {}
  PROVE  \E m \in T : \A k \in T : m <= k
<1>0. IsWellFoundedOn(Below, Nat)
  BY NatLessThanWellFounded DEF OpToRel, Below
<1>1. PICK m \in T : \A k \in T : ~(<<k, m>> \in Below)
  BY <1>0, WFMin
<1>2. ASSUME NEW k \in T PROVE m <= k
  <2>1. ~(<<k, m>> \in Below)
    BY <1>1
  <2>2. m \in Nat /\ k \in Nat
    OBVIOUS
  <2>3. <<k, m>> \in Below <=> k < m
    BY <2>2 DEF Below
  <2>4. QED
    BY <2>1, <2>2, <2>3
<1>3. QED
  BY <1>2

\* A set that has 0, and the successor of each of its numbers, has them all.
LEMMA Inductive ==
  ASSUME NEW S, 0 \in S, \A n \in Nat : n \in S => n + 1 \in S
  PROVE  \A n \in Nat : n \in S
<1> SUFFICES ASSUME Nat \ S /= {} PROVE FALSE
  OBVIOUS
<1>1. PICK m \in Nat \ S : \A k \in Nat \ S : m <= k
  BY LeastNatural
<1>2. m - 1 \in Nat /\ m - 1 \in S
  BY <1>1
<1>3. QED
  BY <1>1, <1>2

-------------------------------------------------------------------------------
(* The samples are defined by their recursion                              *)

Body(f, m) == IF m[1] = 0 THEN <<0>> ELSE <<m[1]>> \o f[NextMotion(m)]

\* The motions with fewer steps than this many to come, at the most.
Steps(m) == IF m[2] = 0 THEN 2 * m[1] ELSE 2 * m[1] + 1

\* The acceleration stays within its limit, changes by at most the jerk, and
\* never stays at zero.
LEMMA NextAccelBounds ==
  ASSUME NEW s \in Nat, NEW b \in (-Decel)..0
  PROVE  /\ NextAccel(s, b) \in (-Decel)..0
         /\ NextAccel(s, b) - b \in (-Jerk)..Jerk
         /\ b = 0 => NextAccel(s, b) < 0
<1>1. CASE b > -Decel
  <2>1. NextAccel(s, b) = IF b - Jerk < -Decel THEN -Decel ELSE b - Jerk
    BY <1>1 DEF NextAccel
  <2>2. QED
    BY <1>1, <2>1, StopAssumption
<1>2. CASE b = -Decel
  <2>1. NextAccel(s, b) \in {b, 0, b + Jerk}
        /\ (NextAccel(s, b) = 0 => b + Jerk >= 0)
        /\ (NextAccel(s, b) = b + Jerk => b + Jerk <= 0)
    <3> DEFINE ramped == s * Jerk <= b * b
    <3>1. NextAccel(s, b) = IF ramped THEN IF b + Jerk > 0 THEN 0 ELSE b + Jerk ELSE b
      BY <1>2, StopAssumption DEF NextAccel
    <3> HIDE DEF ramped
    <3>2. QED
      BY <1>2, <3>1, StopAssumption
  <2>2. QED
    BY <1>2, <2>1, StopAssumption
<1>3. QED
  BY <1>1, <1>2, StopAssumption

\* A motion that is not at rest has a next, no faster, with fewer steps to come.
LEMMA NextMotionRange ==
  ASSUME NEW v \in Nat, NEW m \in Motions(v), m[1] /= 0
  PROVE  /\ NextMotion(m) \in Motions(v) /\ NextMotion(m)[1] <= m[1]
         /\ Steps(m) \in Nat /\ Steps(NextMotion(m)) \in Nat
         /\ Steps(NextMotion(m)) < Steps(m)
<1> DEFINE s == m[1]
           b == m[2]
           c == NextAccel(s, b)
           t == NextSpeed(s, c)
<1>1. s \in 0..v /\ b \in (-Decel)..0 /\ s \in Nat /\ s > 0
  BY DEF Motions
<1>2. c \in (-Decel)..0 /\ (b = 0 => c < 0)
  BY <1>1, NextAccelBounds
<1>3. NextMotion(m) = <<t, c>>
  BY DEF NextMotion
<1> HIDE DEF c, s, b
<1>4. t \in 0..s /\ (c < 0 => t < s)
  BY <1>1, <1>2, StopAssumption DEF NextSpeed
<1> HIDE DEF t
<1>5. <<t, c>> \in Motions(v)
  BY <1>1, <1>2, <1>4 DEF Motions
<1>6. /\ Steps(m) = IF b = 0 THEN 2 * s ELSE 2 * s + 1
      /\ Steps(<<t, c>>) = IF c = 0 THEN 2 * t ELSE 2 * t + 1
  BY DEF Steps, s, b
<1>7. Steps(m) \in Nat /\ Steps(<<t, c>>) \in Nat /\ Steps(<<t, c>>) < Steps(m)
  BY <1>1, <1>2, <1>4, <1>6, StopAssumption
<1>8. QED
  BY <1>3, <1>4, <1>5, <1>7 DEF s

\* A function that obeys the recursion below n steps can be made to obey it at
\* n steps too.
LEMMA OneStepMore ==
  ASSUME NEW v \in Nat, NEW n \in Nat, NEW f,
         \A m \in Motions(v) : Steps(m) < n => f[m] = Body(f, m)
  PROVE  \E g : /\ g = [m \in Motions(v) |-> g[m]]
                /\ \A m \in Motions(v) : Steps(m) < n + 1 => g[m] = Body(g, m)
<1> DEFINE g == [m \in Motions(v) |-> IF Steps(m) < n THEN f[m] ELSE Body(f, m)]
<1>1. ASSUME NEW m \in Motions(v), Steps(m) < n + 1 PROVE g[m] = Body(g, m)
  <2>1. Steps(m) \in Nat
    BY DEF Steps, Motions
  <2>2. g[m] = Body(f, m)
    BY <1>1, <2>1
  <2>3. CASE m[1] = 0
    BY <2>2, <2>3 DEF Body
  <2>4. CASE m[1] /= 0
    <3>1. /\ NextMotion(m) \in Motions(v)
          /\ Steps(NextMotion(m)) \in Nat /\ Steps(NextMotion(m)) < Steps(m)
      BY <2>4, NextMotionRange
    <3>2. Steps(NextMotion(m)) < n
      BY <1>1, <2>1, <3>1
    <3>3. g[NextMotion(m)] = f[NextMotion(m)]
      BY <3>1, <3>2
    <3> HIDE DEF g
    <3>4. QED
      BY <2>2, <2>4, <3>3 DEF Body
  <2>5. QED
    BY <2>3, <2>4
<1>2. g = [m \in Motions(v) |-> g[m]]
  OBVIOUS
<1> HIDE DEF g
<1>3. QED
  BY <1>1, <1>2

\* Of the samples of a stop there is a function, and StopSamples is it: the
\* recursion comes to an end from every motion.
LEMMA StopSamplesUnfold ==
  ASSUME NEW v \in Nat
  PROVE  \A m \in Motions(v) : StopSamples(v)[m] = Body(StopSamples(v), m)
<1> DEFINE Obeys(f, n) == /\ f = [m \in Motions(v) |-> f[m]]
                          /\ \A m \in Motions(v) : Steps(m) < n => f[m] = Body(f, m)
           S == { n \in Nat : \E f : Obeys(f, n) }
           Def(g) == g = [m \in Motions(v) |-> Body(g, m)]
<1>1. 0 \in S
  <2> DEFINE f == [m \in Motions(v) |-> << >>]
  <2>1. f = [m \in Motions(v) |-> f[m]]
    OBVIOUS
  <2>2. \A m \in Motions(v) : ~(Steps(m) < 0)
    BY DEF Steps, Motions
  <2>3. QED
    BY <2>1, <2>2
<1>2. \A n \in Nat : n \in S => n + 1 \in S
  <2> SUFFICES ASSUME NEW n \in Nat, n \in S PROVE n + 1 \in S
    OBVIOUS
  <2>1. PICK f : \A m \in Motions(v) : Steps(m) < n => f[m] = Body(f, m)
    OBVIOUS
  <2>2. \E g : Obeys(g, n + 1)
    BY <2>1, OneStepMore
  <2>3. QED
    BY <2>2
<1>3. 2 * v + 2 \in S
  <2> HIDE DEF S
  <2>1. 2 * v + 2 \in Nat
    OBVIOUS
  <2>2. QED
    BY <1>1, <1>2, <2>1, Inductive
<1>4. PICK f : Obeys(f, 2 * v + 2)
  BY <1>3
<1>5. Def(f)
  <2>1. \A m \in Motions(v) : Steps(m) < 2 * v + 2
    BY DEF Steps, Motions
  <2>2. \A m \in Motions(v) : f[m] = Body(f, m)
    BY <1>4, <2>1
  <2>3. QED
    BY <1>4, <2>2
<1>6. StopSamples(v) = CHOOSE g : Def(g)
  BY DEF StopSamples, Body
<1> HIDE DEF Def
<1>7. Def(StopSamples(v))
  BY <1>5, <1>6
<1>8. QED
  BY <1>7 DEF Def

-------------------------------------------------------------------------------
(* What the samples are                                                    *)

\* One sample before the others.
LEMMA Prepend ==
  ASSUME NEW T, NEW s \in T, NEW rest \in Seq(T)
  PROVE  /\ <<s>> \o rest \in Seq(T)
         /\ Len(<<s>> \o rest) = 1 + Len(rest)
         /\ (<<s>> \o rest)[1] = s
         /\ \A i \in 1..Len(rest) : (<<s>> \o rest)[1 + i] = rest[i]
  OBVIOUS

\* The samples from a motion start with its speed, never rise above it, and end
\* at rest.
Stopping(samples, speed) ==
  /\ samples \in Seq(0..speed)
  /\ samples /= << >> /\ samples[1] = speed
  /\ samples[Len(samples)] = 0

LEMMA PrependStopping ==
  ASSUME NEW s \in Nat, NEW t \in 0..s, NEW rest, Stopping(rest, t)
  PROVE  Stopping(<<s>> \o rest, s)
<1>1. rest \in Seq(0..s) /\ s \in 0..s
  BY DEF Stopping
<1>2. Len(rest) \in Nat /\ Len(rest) > 0
  BY DEF Stopping
<1>3. /\ <<s>> \o rest \in Seq(0..s)
      /\ Len(<<s>> \o rest) = 1 + Len(rest)
      /\ (<<s>> \o rest)[1] = s
      /\ \A i \in 1..Len(rest) : (<<s>> \o rest)[1 + i] = rest[i]
  BY <1>1, Prepend
<1> DEFINE all == <<s>> \o rest
<1> HIDE DEF all
<1>4. all \in Seq(0..s) /\ Len(all) = 1 + Len(rest) /\ all[1] = s
      /\ all[1 + Len(rest)] = rest[Len(rest)]
  BY <1>2, <1>3 DEF all
<1>5. Stopping(all, s)
  BY <1>2, <1>4 DEF Stopping
<1>6. QED
  BY <1>5 DEF all

LEMMA StopSamplesStop ==
  ASSUME NEW v \in Nat
  PROVE  \A m \in Motions(v) : Stopping(StopSamples(v)[m], m[1])
<1> DEFINE f == StopSamples(v)
           S == { n \in Nat : \A m \in Motions(v) : Steps(m) < n => Stopping(f[m], m[1]) }
<1>0. \A m \in Motions(v) : f[m] = Body(f, m)
  BY StopSamplesUnfold
<1> HIDE DEF f
<1>1. 0 \in S
  BY DEF Steps, Motions
<1>2. \A n \in Nat : n \in S => n + 1 \in S
  <2> SUFFICES ASSUME NEW n \in Nat, n \in S, NEW m \in Motions(v), Steps(m) < n + 1
               PROVE  Stopping(f[m], m[1])
    OBVIOUS
  <2>0. m[1] \in Nat
    BY DEF Motions
  <2>1. CASE m[1] = 0
    <3>1. f[m] = <<0>>
      BY <1>0, <2>1 DEF Body
    <3>2. QED
      BY <2>1, <3>1 DEF Stopping
  <2>2. CASE m[1] /= 0
    <3> DEFINE q == NextMotion(m)
    <3>1. q \in Motions(v) /\ q[1] <= m[1] /\ Steps(q) < Steps(m)
          /\ Steps(m) \in Nat /\ Steps(q) \in Nat
      BY <2>2, NextMotionRange
    <3>2. f[m] = <<m[1]>> \o f[q]
      BY <1>0, <2>2 DEF Body
    <3> HIDE DEF q
    <3>3. Stopping(f[q], q[1])
      BY <3>1
    <3>4. q[1] \in 0..m[1]
      BY <2>0, <3>1 DEF Motions
    <3>5. QED
      BY <2>0, <3>2, <3>3, <3>4, PrependStopping
  <2>3. QED
    BY <2>1, <2>2
<1>3. 2 * v + 2 \in S
  <2> HIDE DEF S
  <2>1. 2 * v + 2 \in Nat
    OBVIOUS
  <2>2. QED
    BY <1>1, <1>2, <2>1, Inductive
<1>4. \A m \in Motions(v) : Steps(m) < 2 * v + 2
  BY DEF Steps, Motions
<1>5. QED
  BY <1>3, <1>4 DEF f

\* A profile that fits starts with the present speed, is never faster and ends
\* at rest; what the bridge plays is a sequence of speeds.
THEOREM ProfileStops ==
  ASSUME NEW v \in Nat
  PROVE  /\ Profile(v) \in Seq(0..v) /\ Len(Profile(v)) <= Capacity
         /\ Profile(v) /= << >> => Stopping(Profile(v), v)
<1> DEFINE samples == StopSamples(v)[<<v, 0>>]
<1>1. <<v, 0>> \in Motions(v)
  BY StopAssumption DEF Motions
<1>2. Stopping(samples, v)
  BY <1>1, StopSamplesStop
<1>3. Profile(v) = IF Len(samples) <= Capacity THEN samples ELSE << >>
  BY DEF Profile
<1> HIDE DEF samples
<1>4. << >> \in Seq(0..v) /\ Len(<< >>) <= Capacity
  BY StopAssumption
<1>5. QED
  BY <1>2, <1>3, <1>4 DEF Stopping
===============================================================================
