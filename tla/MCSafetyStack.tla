---------------------------- MODULE MCSafetyStack ----------------------------
(* A small instance of SafetyStack for TLC.                                *)
EXTENDS SafetyStack

NoOdom == {}
===============================================================================
