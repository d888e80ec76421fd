SPECIFICATION NodeSpec
CONSTANTS
    NoThread = NoThread
    Threads = {a1}
    RingSize = 1
    Batch = 1
    JoinTimesOut = FALSE
    MaxToggles = 1
    MaxFaults = 0
    SendMayFail = FALSE
    MaxRevokes = 1
INVARIANT RevokedMeansPurged
