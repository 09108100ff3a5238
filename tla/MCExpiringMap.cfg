SPECIFICATION Spec
CONSTANTS
    Callers = {c1, c2}
    Keys = {k1, k2}
    Values = {v1, v2}
    NoValue = none
    Lifetime = 2
    LastCall = 2
    MaxCalls = 2
INVARIANTS TypeOK TimerInTime
PROPERTIES IsLifetimeMap ExpiredIsRemoved CloseEnds
CHECK_DEADLOCK FALSE
