----------------------------- MODULE ModeProtocol -----------------------------
(***************************************************************************)
(* What ModeStateMachine promises its callers, with every operation one    *)
(* indivisible step: the mode follows the allowed edges, a latched fault   *)
(* holds it in SafeStop, and only clear_fault takes it out again.          *)
(* ModeStateMachine is the detailed specification, one atomic access to    *)
(* mode_ or latched_fault_ per step.                                       *)
(***************************************************************************)
EXTENDS ModeRules

VARIABLES
  mode,       \* mode()
  latched     \* fault_latched()

vars == <<mode, latched>>

TypeOK == mode \in Modes /\ latched \in BOOLEAN

Init == mode = "Init" /\ latched = FALSE

\* transition_to(target), and recover_localization, which takes the edge
\* from LocalizationLost to Degraded.
Change(target) ==
  /\ latched => target = "SafeStop"
  /\ <<mode, target>> \in Edges
  /\ mode' = target
  /\ UNCHANGED latched

LatchFault == mode' = "SafeStop" /\ latched' = TRUE

ClearFault == latched /\ mode' = "Idle" /\ latched' = FALSE

Next == LatchFault \/ ClearFault \/ \E target \in Modes : Change(target)

Spec == Init /\ [][Next]_vars
===============================================================================
