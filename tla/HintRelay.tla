----------------------------- MODULE HintRelay -----------------------------
(***************************************************************************)
(* The flooding of blindspot hints through the swarm                       *)
(* (modules/blindspot_engine.py, get_hints_for_broadcast and               *)
(* absorb_peer_hints; modules/swarm_p2p.py, publish_fingerprints and the   *)
(* inbox loop of _do_gossip).  A node that is strong in a domain makes a   *)
(* hint; every node that absorbs a hint queues it once for its own next    *)
(* gossip packet.                                                          *)
(*                                                                         *)
(* An entry of a packet carries the hint and its relay_hop field.          *)
(***************************************************************************)
EXTENDS Naturals, Sequences, SequencesExt

CONSTANTS
    Nodes,
    Edges,          \* pairs <<sender, receiver>> of nodes that gossip
    RelayHints,     \* hint ids
    MakerOf,        \* the node that makes each hint
    MaxHops,        \* RELAY_MAX_HOPS
    MaxPacket,      \* MAX_GAPS_PER_GOSSIP * 3, hints in one packet
    MaxKept,        \* _MAX_BS_HINTS, hints of a packet that the receiver's filter keeps
    MaxRemembered,  \* 1000, entries that _relayed_hint_ids may have
    MaxRate,        \* _HINT_RATE_MAX, packets with hints from one peer in a window
    Rejected,       \* hints whose text or domain the filter does not let through
    MaxRemakes,     \* bound: hints that are made again
    MaxLosses       \* bound: packets that do not arrive

ASSUME HintRelayAssumption ==
    /\ IsFiniteSet(Nodes) /\ Edges \subseteq Nodes \X Nodes
    /\ MakerOf \in [RelayHints -> Nodes]
    /\ MaxHops \in Nat \ {0} /\ MaxPacket \in Nat \ {0}
    /\ MaxKept \in Nat \ {0} /\ MaxRemembered \in Nat /\ MaxRate \in Nat \ {0}
    /\ MaxRemakes \in Nat /\ MaxLosses \in Nat

VARIABLES
    made,     \* hints made
    remakes,
    relayQ,   \* _pending_relay_hints of each node
    seenIds,  \* _relayed_hint_ids of each node
    wire,     \* packets that have been sent and not yet handled
    rate,     \* _hint_rate: packets that <<receiver, sender>> has counted in its window
    gotHints, \* hints each node has absorbed
    twice,    \* <<node, hint>>: the node has queued the hint more than once
    once,     \* <<node, hint>>: the node has queued the hint
    cleared,  \* nodes whose _relayed_hint_ids has been cleared
    dropped,  \* hints that somewhere were too old to be sent, did not fit into a packet, were
              \* in a packet that did not arrive, or did not pass the filter
    losses

hrVars == <<made, remakes, relayQ, seenIds, wire, rate, gotHints, twice, once, cleared, dropped,
            losses>>

Lower(a, b) == IF a < b THEN a ELSE b
Neighbours(n) == {m \in Nodes : <<n, m>> \in Edges}

HintRelayInit ==
    /\ made = {} /\ wire = {} /\ dropped = {} /\ losses = 0 /\ remakes = 0
    /\ twice = {} /\ once = {} /\ cleared = {}
    /\ relayQ = [n \in Nodes |-> <<>>] /\ seenIds = [n \in Nodes |-> {}]
    /\ gotHints = [n \in Nodes |-> {}] /\ rate = [pair \in Nodes \X Nodes |-> 0]

HintsOf(entries) == {entries[i].hint : i \in 1..Len(entries)}
First(entries, n) == SubSeq(entries, 1, Lower(Len(entries), n))
After(entries, n) == SubSeq(entries, n + 1, Len(entries))

\* The hint that n makes for its next packet (at most one, a bound).  Its id is that of the
\* gap and the node, so that a node which has become stronger in the domain
\* (_shared_strengths) makes the same hint again.
Own(h) == [hint |-> h, hop |-> 0]
OwnHint(n) ==
    {<<>>} \cup {<<Own(h)>> : h \in {k \in RelayHints : MakerOf[k] = n
                                                    /\ (k \in made => remakes < MaxRemakes)}}

\* get_hints_for_broadcast() and the push.  The relay queue, in the order of arrival, is left
\* without its `aged` oldest entries, which have waited longer than two intervals: ts is none
\* of the fields the filter keeps, so the age counts from the arrival.  The queue is emptied
\* whatever becomes of the packet, which reaches only some of the neighbours when
\* connections fail.
PublishHints(n, own, aged, reached) ==
    LET entries == own \o After(relayQ[n], aged)
        sent == First(entries, MaxPacket)
        lost == Neighbours(n) \ reached IN
    /\ own \o relayQ[n] # <<>>
    /\ lost # {} => entries # <<>> /\ losses < MaxLosses
    /\ losses' = losses + (IF lost # {} THEN 1 ELSE 0)
    /\ made' = made \cup HintsOf(own)
    /\ remakes' = remakes + (IF HintsOf(own) \cap made # {} THEN 1 ELSE 0)
    /\ relayQ' = [relayQ EXCEPT ![n] = <<>>]
    /\ wire' = wire \cup {[from |-> n, to |-> m, hints |-> sent]
                             : m \in {k \in reached : entries # <<>>}}
    /\ dropped' = dropped \cup HintsOf(First(relayQ[n], aged))
                           \cup HintsOf(After(entries, MaxPacket))
                           \cup (IF lost # {} THEN HintsOf(sent) ELSE {})
    /\ UNCHANGED <<seenIds, rate, gotHints, twice, once, cleared>>

\* validate() looks at the first hints only and keeps, of each, the fields it knows: relay_hop
\* is none of them, so the entry arrives as if it had not been relayed yet
Filtered(hints) ==
    [i \in DOMAIN First(hints, MaxKept) |-> [hints[i] EXCEPT !.hop = 0]]

\* The hop is capped below RELAY_MAX_HOPS before it is compared with it
Hop(entry) == Lower(entry.hop, MaxHops - 1)

\* Mutant: only a hint that has been relayed before is relayed.
RelayFurther(st, entry) ==
    IF Hop(entry) > 0 /\ entry.hint \notin Rejected \cup st.ids
      THEN [st EXCEPT !.ids = @ \cup {entry.hint}]
      ELSE st

\* absorb_peer_hints(), the flood relay of one entry; one that the filter rejects does not
\* come so far
Relay(st, entry) ==
    IF Hop(entry) < MaxHops /\ entry.hint \notin Rejected \cup st.ids
      THEN LET ids == st.ids \cup {entry.hint}
               full == Cardinality(ids) > MaxRemembered IN
           [queue |-> Append(st.queue, [hint |-> entry.hint, hop |-> Hop(entry) + 1]),
            ids |-> IF full THEN {} ELSE ids,
            full |-> st.full \/ full]
      ELSE st

\* receive_gossip() filters the packet and hands its hints to absorb_peer_hints(), as long as
\* its sender has not sent too many in the window; the window may have ended.
ReceiveHints(p) ==
    LET n == p.to
        before == [queue |-> relayQ[n], ids |-> seenIds[n], full |-> FALSE]
        hints == Filtered(p.hints)
        after == FoldLeft(Relay, before, hints)
        queued == {after.queue[i].hint : i \in (Len(relayQ[n]) + 1)..Len(after.queue)} IN
    /\ p \in wire /\ wire' = wire \ {p}
    /\ \E count \in {0, rate[<<n, p.from>>]} :
         count < MaxRate /\ rate' = [rate EXCEPT ![<<n, p.from>>] = count + 1]
    /\ relayQ' = [relayQ EXCEPT ![n] = after.queue]
    /\ seenIds' = [seenIds EXCEPT ![n] = after.ids]
    /\ cleared' = IF after.full THEN cleared \cup {n} ELSE cleared
    /\ gotHints' = [gotHints EXCEPT ![n] = @ \cup (HintsOf(hints) \ Rejected)]
    /\ twice' = twice \cup {<<n, h>> : h \in {k \in queued : <<n, k>> \in once}}
    /\ once' = once \cup {<<n, h>> : h \in queued}
    /\ dropped' = dropped \cup HintsOf(After(p.hints, MaxKept)) \cup (HintsOf(hints) \cap Rejected)
    /\ UNCHANGED <<made, remakes, losses>>

\* a sender that has sent too many: the filter takes the hints out of its packet
ThrottleHints(p) ==
    /\ p \in wire /\ wire' = wire \ {p}
    /\ rate[<<p.to, p.from>>] >= MaxRate
    /\ dropped' = dropped \cup HintsOf(p.hints)
    /\ UNCHANGED <<made, remakes, relayQ, seenIds, rate, gotHints, twice, once, cleared, losses>>

HintRelayNext ==
    \/ \E n \in Nodes : \E own \in OwnHint(n), aged \in 0..Len(relayQ[n]),
                          reached \in SUBSET Neighbours(n) :
         PublishHints(n, own, aged, reached)
    \/ \E p \in wire : ReceiveHints(p) \/ ThrottleHints(p)

HintRelaySpec == HintRelayInit /\ [][HintRelayNext]_hrVars

-----------------------------------------------------------------------------
Entries == [hint : RelayHints, hop : 0..MaxHops]
Packets == [from : Nodes, to : Nodes, hints : Seq(Entries)]

\* Every variable keeps its type, and no entry has more hops than a relay gives it.
HintTypeOK ==
    /\ made \subseteq RelayHints /\ remakes \in 0..MaxRemakes
    /\ relayQ \in [Nodes -> Seq(Entries)]
    /\ seenIds \in [Nodes -> SUBSET RelayHints] /\ gotHints \in [Nodes -> SUBSET RelayHints]
    /\ wire \subseteq Packets /\ dropped \subseteq RelayHints /\ cleared \subseteq Nodes
    /\ rate \in [Nodes \X Nodes -> 0..MaxRate]
    /\ once \subseteq Nodes \X RelayHints /\ twice \subseteq Nodes \X RelayHints
    /\ losses \in 0..MaxLosses

\* The nodes a flood from n can reach.
Within(S) == S \cup UNION {Neighbours(m) : m \in S}
Reach(n) == FoldLeft(LAMBDA S, i : Within(S), {n}, [i \in 1..Cardinality(Nodes) |-> i])

\* Every node on the way gets the hint ("Jeder Knoten am Weg bekommt die Loesung"): when
\* nothing is left to send or to handle, a hint has reached every node the flood can reach,
\* or it was given up somewhere: in a packet that was lost or too large, after too long a
\* wait, or by a filter.  No hint is lost in another way, least of all because a node takes
\* it for one that it has relayed.  And the flood ends: by whatever paths a hint comes in,
\* and however often it is made, a node queues it once, until its memory of relayed ids has
\* been cleared.
FloodReaches ==
    /\ \A pair \in twice : pair[1] \in cleared
    /\ wire = {} /\ (\A n \in Nodes : relayQ[n] = <<>>) =>
        \A h \in made \ dropped : \A n \in Reach(MakerOf[h]) \ {MakerOf[h]} : h \in gotHints[n]
=============================================================================
