CONSTANTS
    Callers = {c1, c2}
    NoCaller = none
    Networks = {1}
    Timeouts = {1}
    Checkers = {TRUE}
    Optimistic = TRUE
    MaxCalls = 2
SPECIFICATION Safety
INVARIANT RdrcIsCheckResult
