SPECIFICATION MuxSafety
CONSTANTS
    q1 = q1
    q2 = q2
    Procs = {q1, q2}
    MaxDials = 2
    MaxResets = 1
    MaxCalls = 1
    MaxPending = 2
    RetryReadError = TRUE
    ProbeReuse = TRUE
SYMMETRY QuerySymmetry
INVARIANTS  NoUserLost AnsweredOnce PendingIsRead IdleIsClosed
CHECK_DEADLOCK FALSE
