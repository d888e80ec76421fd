SPECIFICATION ServicesSpec
CONSTANTS
    a1 = a1
    g1 = g1
    g2 = g2
    h1 = h1
    h2 = h2
    h3 = h3
    d1 = d1
    p1 = p1
    p2 = p2
    m1 = m1
    m2 = m2
    m3 = m3
    alice = alice
    bob = bob
    carl = carl
    n1 = n1
    n2 = n2
    n3 = n3
    b1 = b1
    b2 = b2
    b3 = b3
    t1 = t1
    t2 = t2
    daemon = daemon
    cliTool = cliTool
    \* agent and node
    NoThread = NoThread
    Threads = {a1, a2, a3}
    RingSize = 2
    Batch = 2
    JoinTimesOut = FALSE
    MaxToggles = 2
    MaxFaults = 1
    SendMayFail = TRUE
    MaxRevokes = 2
    \* controller
    NoCaller = NoCaller
    CtrlThreads = {t1, t2}
    Procs = {daemon}
    ProcOf <- MCDaemonOnly
    MaxCtrlFaults = 2
    MaxCrashes = 2
    \* blindspot engine
    Callers = {c1, c2}
    Unlocked = Unlocked
    Gaps = {g1, g2}
    Hints = {h1, h2, h3}
    Domains = {d1}
    DomainOf <- MCDomainOf
    GapOf <- MCGapOf
    HintDomain <- MCHintDomain
    Foreign = {h1, h2}
    MaxHints = 2
    MaxRegister = 1
    MaxArrivals = 3
    \* task broker
    OwnTasks = {o1, o2}
    PeerTasks = {r1}
    Runnable = {r1}
    Caps = {k1}
    MaxRemote = 1
    MaxBids = 1
    MaxArriving = 2
    MaxStops = 1
    MaxSaveFaults = 1
    \* consensus engine
    Submitters = {s1, s2}
    NodeIds = {n1, n2}
    TtdHashes = {x1}
    NoWriter = NoWriter
    MaxSubmits = 4
    \* session chain
    Minters = {m1, m2, m3}
    UserOf <- MCUserOf
    Milestones = 2
    MaxVerified = 3
    MaxChain = 4
    \* anchor pool
    PoolProcs = {p1, p2}
    Bundles <- MCBundles
    BuilderOf <- MCBuilderOf
    PseudonymOf <- MCPseudonymOf
    MaxValidators = 3
    MaxPoolCrashes = 1
    \* hints
    Nodes = {n1, n2, n3}
    Edges <- MCEdges
    RelayHints = {b1, b2, b3}
    MakerOf <- MCMakerOf
    MaxHops = 3
    MaxPacket = 3
    MaxKept = 2
    MaxRemembered = 1
    MaxRate = 2
    Rejected = {b2}
    MaxRemakes = 1
    MaxLosses = 1
    \* command file
    Nothing = Nothing
    Clients = {c1, c2}
    MaxRequests = 2
    MaxFileFaults = 2
    FineClock = FALSE
INVARIANTS
    ServicesTypeOK
    SingleLoop
    StopIsFinal
    DeltaWithinSession
    PurgeHolds
    OneLastGossip
    StoredAndShown
    SolvedOnce
    NoHintLost
    QueueSurvives
    PromotionIsWhole
    HonestChainVerifies
    StoredCounts
    ValidatesOnce
    FloodReaches
    ExecutedOnce
PROPERTY ImplementsAtomicMode
CHECK_DEADLOCK FALSE
