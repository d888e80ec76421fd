SPECIFICATION BlindspotSpec
CONSTANTS
    g1 = g1
    h1 = h1
    d1 = d1
    Callers = {c1}
    Unlocked = Unlocked
    Gaps = {g1}
    Hints = {h1}
    Domains = {d1}
    DomainOf <- MCOneDomain
    GapOf <- MCOneGap
    HintDomain <- MCHintDomain
    Foreign = {}
    MaxHints = 1
    MaxRegister = 1
    MaxArrivals = 1
INVARIANT NoSelfWait
CHECK_DEADLOCK FALSE
