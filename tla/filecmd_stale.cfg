SPECIFICATION FileSpec
CONSTANTS
    Nothing = Nothing
    Clients = {c1}
    MaxRequests = 2
    MaxFileFaults = 0
    FineClock = TRUE
INVARIANT ResultIsMine
CHECK_DEADLOCK FALSE
