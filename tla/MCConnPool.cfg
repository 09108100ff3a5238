SPECIFICATION PoolSpec
CONSTANTS
    p1 = p1
    p2 = p2
    Procs = {p1, p2}
    MaxDials = 1
    MaxResets = 1
INVARIANTS TypeOK CountsExact OneReceiver NoLeak HoldersAreTold
PROPERTIES CloseIdleSpares WaitersLeave AllClosed
CHECK_DEADLOCK FALSE
