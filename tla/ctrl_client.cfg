SPECIFICATION CtrlSpec
CONSTANTS
    t1 = t1
    t2 = t2
    daemon = daemon
    cliTool = cliTool
    NoCaller = NoCaller
    CtrlThreads = {t1, t2}
    Procs = {daemon, cliTool}
    ProcOf <- MCClientAndDaemon
    MaxCtrlFaults = 0
    MaxCrashes = 0
INVARIANT DisableReachesDaemon
