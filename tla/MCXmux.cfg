SPECIFICATION Spec
CONSTANTS
    Streams = {s1, s2}
    Slots = {down, up}
    MaxClients = 2
    MaxDials = 3
    ReuseTimes = 2
    RequestTimes = 1
    MaxOver = 1
    Concurrencies = {1}
    Connections = {2}
    Threshold = 2
    MaxDelay = 1
SYMMETRY StreamSymmetry
INVARIANTS UsageExact TypeOK LimitsKept ConcurrencyKept RetiredIsTornDownIfCounted
CHECK_DEADLOCK FALSE
