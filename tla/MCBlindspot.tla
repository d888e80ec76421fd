---------------------------- MODULE MCBlindspot ----------------------------
EXTENDS BlindspotEngine

CONSTANTS g1, h1, d1

\* One gap and one hint that answers it.
MCOneDomain == [g \in {g1} |-> d1]
MCOneGap == [h \in {h1} |-> g1]
MCHintDomain == [h \in {h1} |-> d1]
===========================================================================
