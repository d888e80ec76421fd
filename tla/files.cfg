SPECIFICATION FilesSpec
CONSTANTS
    sig1 = sig1
    sig2 = sig2
    sig3 = sig3
    anc1 = anc1
    anc2 = anc2
    anc3 = anc3
    pack1 = pack1
    pack2 = pack2
    pack3 = pack3
    \* consent
    t1 = t1
    t2 = t2
    t3 = t3
    pA = pA
    pB = pB
    NoThread = NoThread
    Threads = {t1, t2, t3}
    Shells = {s1}
    Gates = {g1}
    Procs = {pA}
    ProcOf <- MCOneProc
    InitialFiles = {"absent", "granted", "revoked"}
    \* groups and chats
    Accounts = {u1, u2, u3}
    Slugs = {room}
    MaxStateOps = 4
    MaxStateFaults = 2
    \* quarantine
    Signals = {sig1, sig2, sig3}
    Dangerous = {sig1, sig2}
    Alike <- MCAlike
    Nil = Nil
    Unparsable = Unparsable
    MaxQFaults = 3
    \* vault and packs
    Anchors = {anc1, anc2, anc3}
    Packs = {pack1, pack2, pack3}
    AnchorsOf <- MCAnchorsOf
    DomainOf <- MCDomainOf
    NotInstalled = NotInstalled
    Trusted = {anc1, anc2}
    MaxEntries = 5
    MaxVaultFaults = 2
    \* account
    Names = {alice, bob, carl}
    Taken = {carl}
    Hardware = {"lan", "overlay"}
    Derivable = {TRUE, FALSE}
    Broken = Broken
    MaxBindingFaults = 2
    \* overlay
    Slots = {q1, q2}
    MaxOverlays = 2
    MaxOpMishaps = 2
\* a node without users may stop
CHECK_DEADLOCK FALSE
INVARIANTS
    FilesTypeOK
    FileWhole
    OptInOnlyUndecided
    AnswerWasStored
    OwnerLeads
    CopyHasOriginal
    NoSilentLoss
    StoredIsRecognised
    InstalledIsPresent
    AccountStays
    SignedInPassesGuard
    OneOverlay
