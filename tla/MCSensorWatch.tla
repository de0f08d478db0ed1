----------------------------- MODULE MCSensorWatch -----------------------------
(* A small instance of SensorWatch for TLC.                                *)
EXTENDS SensorWatch

CONSTANT lidar

OneSensor == <<lidar>>

EveryUnit == [s \in {lidar} |-> 1]

NoOdom == {}
===============================================================================
