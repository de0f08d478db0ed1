------------------------------ MODULE MCSafetyPid ------------------------------
EXTENDS SafetyPid

SmallConfigs == {[speed |-> 2, accel |-> 1, timeout |-> 1, period |-> 1],
                 [speed |-> 1, accel |-> 0, timeout |-> 0, period |-> 0]}

SmallOutputs == {-3, 0, 3}

SmallFeeds == {0, 2}
===============================================================================
