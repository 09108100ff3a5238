SPECIFICATION Spec
CONSTANTS
    Streams = {s1, s2}
    Slots = {down, up}
    MaxClients = 2
    MaxDials = 3
    ReuseTimes = 2
    RequestTimes = 1
    MaxOver = 1
    Concurrencies = {1}
    Connections = {2}
    Threshold = 2
    MaxDelay = 1
INVARIANT RetiredIsTornDown
CHECK_DEADLOCK FALSE
