SPECIFICATION FairSpec
CONSTANTS
    NoThread = NoThread
    Threads = {a1}
    RingSize = 1
    Batch = 2
    JoinTimesOut = FALSE
    MaxToggles = 2
    MaxFaults = 0
PROPERTY EnabledCaptures
