SPECIFICATION MuxSpec
CONSTANTS
    q1 = q1
    q2 = q2
    Procs = {q1, q2}
    MaxDials = 2
    MaxResets = 0
    MaxCalls = 0
    MaxPending = 1
    RetryReadError = TRUE
    ProbeReuse = FALSE
PROPERTIES EveryQueryAnswered
CHECK_DEADLOCK FALSE
