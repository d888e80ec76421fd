SPECIFICATION ExchangeSpec
CONSTANTS
    ta = ta
    tb = tb
    tc = tc
    \* command file
    Nothing = Nothing
    Clients = {c1, c2}
    MaxRequests = 1
    MaxFileFaults = 1
    FineClock = FALSE
    \* tokens
    Tokens = {ta, tb, tc}
    OwnTokens = {tb}
    NoToken = NoToken
    Fitness <- MCFitness
    Gate = 1
    Limit = 2
    Keep = 1
    MaxHit = 1
    MaxRestarts = 1
    MaxUnstored = 1
    \* headless daemon
    Loop = loop
    Shots = {shot1}
    Threshold = 2
    MaxConsentChanges = 1
    MaxLostWrites = 1
INVARIANTS
    ExchangeTypeOK
    ToldIsStored
PROPERTIES
    FittestArrives
    CommandTaken
    FailedStartStopsGossip
    LearnerStops
    OfflineRecorded
CHECK_DEADLOCK FALSE
