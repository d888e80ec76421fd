SPECIFICATION BindingSpec
CONSTANTS
    Names = {alice, bob}
    Taken = {}
    Hardware = {"overlay"}
    Derivable = {FALSE}
    Broken = Broken
    MaxBindingFaults = 0
\* a node without users may stop
CHECK_DEADLOCK FALSE
INVARIANT StartKeepsSignIn
