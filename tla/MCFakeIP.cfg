SPECIFICATION Spec
CONSTANTS
    Procs = {p1, p2}
    Domains = {d1, d2, d3}
    NoDomain = NoDomain
    N = 2
    Reserved = 2
    FlushInterval = 1
    MaxCreates = 3
    MaxEvents = 2
SYMMETRY FakeIPSymmetry
INVARIANTS TypeOK PendingIsFlushed AllocatedIsVisible DiskAgrees OldDomainInvalidatedIfWritten CloseSavesAll
CHECK_DEADLOCK FALSE
