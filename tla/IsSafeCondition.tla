---------------------------- MODULE IsSafeCondition ----------------------------
(***************************************************************************)
(* The behaviour-tree condition by which Nav2 asks whether it may drive.   *)
(* It keeps the last safety/state message that reaches it, a record of     *)
(* fault_latched, safe_stop_requested, mode and zone.                      *)
(***************************************************************************)
CONSTANT AllowProtective    \* the port allow_protective; allow_warning is TRUE

\* The durability the subscription asks for, and the one that state_qos offers.
Asked   == "transient_local"
Offered == "volatile"

\* DDS, which is external, connects a subscription to a publisher that offers at
\* least what it asks for.
Connected == Asked = Offered \/ Asked = "volatile"

\* have_msg_ is FALSE.
NoMessage == [latched |-> TRUE, stop |-> TRUE, mode |-> "Init", zone |-> "Emergency"]

RefusedModes == {"SafeStop", "Degraded", "LocalizationLost"}

\* tick: SUCCESS.
IsSafe(msg) ==
  /\ msg /= NoMessage
  /\ ~msg.latched /\ ~msg.stop
  /\ msg.mode \notin RefusedModes
  /\ msg.zone \in {"Clear", "Warning"} \/ (msg.zone = "Protective" /\ AllowProtective)
===============================================================================
