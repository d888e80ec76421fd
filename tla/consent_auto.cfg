SPECIFICATION ConsentSpec
CONSTANTS
    t1 = t1
    t2 = t2
    t3 = t3
    pA = pA
    pB = pB
    NoThread = NoThread
    Threads = {t1, t2}
    Shells = {}
    Gates = {}
    Procs = {pA}
    ProcOf <- MCOneProc
    InitialFiles = {"absent"}
INVARIANT RevokeRespected
