SPECIFICATION FairSpec
CONSTANTS
    NoThread = NoThread
    Threads = {a1, a2}
    RingSize = 1
    Batch = 2
    JoinTimesOut = TRUE
    MaxToggles = 2
    MaxFaults = 1
INVARIANTS
    AtMostOneFrameEach
    CaptureOwned
PROPERTIES
    DisabledStopsCapture
    StopEndsThreads
