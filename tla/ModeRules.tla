------------------------------ MODULE ModeRules ------------------------------
(***************************************************************************)
(* The operating modes of the vehicle and the edges ModeStateMachine       *)
(* accepts between them (safety_core::sm::Mode and                         *)
(* ModeStateMachine::allowed).  Every module that talks about modes        *)
(* extends this one.                                                       *)
(***************************************************************************)

Modes ==
  { "Init", "Idle", "Moving", "Degraded", "AvoidingObstacle",
    "LocalizationLost", "Docking", "SafeStop" }

\* The targets other than the mode itself that the switch in allowed() lists.
Edges ==
  UNION {
    {"Init"}             \X {"Idle", "SafeStop"},
    {"Idle"}             \X {"Moving", "Degraded", "SafeStop", "Docking"},
    {"Moving"}           \X {"Degraded", "AvoidingObstacle", "LocalizationLost",
                              "SafeStop", "Docking"},
    {"Degraded"}         \X {"Moving", "AvoidingObstacle", "LocalizationLost",
                              "SafeStop", "Docking"},
    {"AvoidingObstacle"} \X {"Moving", "Degraded", "SafeStop"},
    {"LocalizationLost"} \X {"Degraded", "Idle", "SafeStop"},
    {"Docking"}          \X {"Idle", "SafeStop"} }

Allowed(from, to) == from = to \/ <<from, to>> \in Edges
==============================================================================
