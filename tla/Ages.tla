--------------------------------- MODULE Ages ---------------------------------
(***************************************************************************)
(* The nodes keep the clock readings of past events (uint64 nanoseconds)   *)
(* and only ever use now - stamp, compared with a timeout.  A model keeps  *)
(* that difference, in units of a coarse clock, and lets it grow up to the *)
(* largest value its comparisons tell apart.                               *)
(***************************************************************************)
EXTENDS Integers

None  == -2     \* std::nullopt
Ahead == -1     \* the stamp is later than the clock: now - stamp wraps around

AgeUpTo(cap) == {None, Ahead} \cup 0..cap

\* One unit of time passes.  A stamp that is Ahead stays so: the clock went
\* back, or the sender's clock is wrong, by more than every timeout.
Older(a, cap) == IF a \in {None, Ahead, cap} THEN a ELSE a + 1

\* The clock steps back behind every stamp taken so far.
Overtaken(a) == IF a = None THEN None ELSE Ahead

\* TimeUtils::calculate_age_ns: the unsigned difference, which for a stamp
\* ahead of the clock is larger than any timeout.
Elapsed(a, cap) == IF a = Ahead THEN cap ELSE a
===============================================================================
