SPECIFICATION Spec
CONSTANTS
    Procs = {p1}
    Domains = {d1, d2, d3}
    NoDomain = NoDomain
    N = 2
    Reserved = 2
    FlushInterval = 0
    MaxCreates = 4
    MaxEvents = 1
INVARIANT OldDomainInvalidated
CHECK_DEADLOCK FALSE
