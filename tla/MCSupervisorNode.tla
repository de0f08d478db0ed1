--------------------------- MODULE MCSupervisorNode ---------------------------
(* Small instances of SupervisorNode for TLC.                              *)
EXTENDS SupervisorNode, TLC

\* Odometry arrives fresh, or stamped ahead of the node's clock.
SkewedOdom == {0, Ahead}

FreshOdom == {0}

NoOdom == {}

SensorSymmetry == Permutations(Sensors)
===============================================================================
