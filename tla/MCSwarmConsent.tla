-------------------------- MODULE MCSwarmConsent --------------------------
EXTENDS SwarmConsent

CONSTANTS t1, t2, t3, pA, pB

\* All Python threads in the daemon's process.
MCOneProc == [t \in Threads |-> pA]

\* Who acts: the daemon's threads alone, or one of them (whichever it is) beside a shell and a gate.
VARIABLE setting

Active(actors) == {a \in actors : op[a] # "none"}
Allowed ==
    IF setting = "threads" THEN Active(Shells \cup Gates) = {}
                           ELSE Active(Threads) \subseteq {t1}

ConsentSpec ==
    /\ Init /\ setting \in {"threads", "mixed"}
    /\ [][Next /\ UNCHANGED setting /\ Allowed']_<<vars, setting>>
===========================================================================
