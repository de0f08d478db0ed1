-------------------------- MODULE MCModeStateMachine --------------------------
(* Small instances of ModeStateMachine for TLC.                            *)
EXTENDS ModeStateMachine

CONSTANTS sup, other

\* The supervisor alone.
SoloTargets == [t \in {sup} |-> Modes]

\* One supervisor that makes every call, and a thread that only asks to stop.
StopTargets ==
  [t \in {sup, other} |-> IF t = sup THEN Modes ELSE {"SafeStop"}]

\* One supervisor, and a motion task that asks for any mode.
AllTargets == [t \in {sup, other} |-> Modes]
===============================================================================
