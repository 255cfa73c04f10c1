SPECIFICATION GroupCallSpec
CONSTANTS Users = {1, 2, 3}
 None = 0
 Callers = {1, 2, 3}
 Asked = {2}
 MaxCalls = 1
 MaxFaults = 1
 MaxSignals = 1
CHECK_DEADLOCK FALSE
INVARIANT SilentUntilJoined
PROPERTY NotResurrected
