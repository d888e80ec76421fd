-------------------------- MODULE BlindspotEngine --------------------------
(***************************************************************************)
(* The blindspot engine of one node (modules/blindspot_engine.py): gaps it *)
(* has reported, the pools in which hints of peers are collected until     *)
(* they are ripe, and the strengths it has gained.  Several threads call   *)
(* the singleton: the gossip loop absorbs hints and fetches signals, the   *)
(* monitor ticks, any module registers gaps.                               *)
(*                                                                         *)
(* _lock is a plain threading.Lock.  A section that takes and releases it  *)
(* is one action that needs the lock free; _flush_mature_solution_pools    *)
(* alone calls a function that takes the lock while it holds it.           *)
(*                                                                         *)
(* What absorb_peer_hints queues for other nodes is in HintRelay; who is   *)
(* told of which gap, and the text of gaps and hints, are left out.        *)
(***************************************************************************)
EXTENDS Naturals, FiniteSets

CONSTANTS
    Callers,     \* threads that call the engine
    Unlocked,    \* _lock is free
    Gaps,        \* signal ids
    Hints,       \* hint ids
    Domains,
    DomainOf,    \* the domain of each gap
    GapOf,       \* signal_id of each hint
    HintDomain,  \* the domain of each hint
    Foreign,     \* hints other programs have made: they carry fingerprints and any
                 \* priority_boost; this program's carry none and a boost of at least 0.5
    MaxHints,    \* MAX_HINTS_PER_GAP
    MaxRegister, \* bound: registrations of each gap
    MaxArrivals  \* bound: hints absorbed

ASSUME BlindspotAssumption ==
    /\ IsFiniteSet(Callers) /\ Unlocked \notin Callers /\ Gaps # {}
    /\ DomainOf \in [Gaps -> Domains]
    /\ GapOf \in [Hints -> Gaps]
    /\ HintDomain \in [Hints -> Domains] /\ Foreign \subseteq Hints
    /\ MaxHints \in Nat \ {0} /\ MaxRegister \in Nat /\ MaxArrivals \in Nat

VARIABLES
    bsLock,     \* the thread that holds _lock
    activeGaps, \* keys of _active_gaps
    strong,     \* domains whose _known_strengths value is at least 0.8
    pool,       \* _solution_pool: the hints collected for each gap
    ripe,       \* pools whose HINT_COLLECTION_WINDOW_SEC has passed
    bpc,        \* where each thread is
    back,       \* where _resolve_gap returns to
    todo,       \* the gaps a thread has still to flush or to resolve
    inHand,     \* the gap it is working on
    taken,      \* the pool entry it has popped
    known,      \* registrations of each gap (register_gap that found it missing)
    solved,     \* entries of each gap in _resolved_history, with _gaps_resolved
    absorbed,   \* hints ever put into a pool or found there
    learned,    \* hints whose fingerprints OfflineLearner.on_task_result has taken
    spoilt,     \* hints whose learner call failed, which is only logged
    overflow,   \* hints dropped because the pool was full
    arrivals

bsVars == <<bsLock, activeGaps, strong, pool, ripe, bpc, back, todo, inHand, taken,
            known, solved, absorbed, learned, spoilt, overflow, arrivals>>
hintState == <<pool, ripe, taken, absorbed, learned, spoilt, overflow, arrivals>>
gapState == <<activeGaps, strong, known, solved>>

BlindspotInit ==
    /\ bsLock = Unlocked
    /\ activeGaps = {} /\ strong = {}
    /\ pool = [g \in Gaps |-> {}] /\ ripe = {}
    /\ bpc = [t \in Callers |-> "idle"] /\ back = [t \in Callers |-> "idle"]
    /\ todo = [t \in Callers |-> {}]
    /\ inHand = [t \in Callers |-> CHOOSE g \in Gaps : TRUE]
    /\ taken = [t \in Callers |-> {}]
    /\ known = [g \in Gaps |-> 0] /\ solved = [g \in Gaps |-> 0]
    /\ absorbed = {} /\ learned = {} /\ spoilt = {} /\ overflow = {} /\ arrivals = 0

BsGoto(t, where) == bpc' = [bpc EXCEPT ![t] = where]

\* a locked section of thread t
Section(t, where) == bpc[t] = where /\ bsLock = Unlocked

\* register_gap(), idempotent per signal id; called by the tick's checks too
RegisterGap(t, g) ==
    /\ Section(t, "idle")
    /\ g \notin activeGaps /\ known[g] < MaxRegister
    /\ activeGaps' = activeGaps \cup {g}
    /\ known' = [known EXCEPT ![g] = @ + 1]
    /\ UNCHANGED <<bsLock, strong, bpc, back, todo, inHand, hintState, solved>>

\* _check_capability_gaps(): a probe that works is a strength of 1.0
MarkProbe(t, d) ==
    /\ Section(t, "idle") /\ d \notin strong
    /\ strong' = strong \cup {d}
    /\ UNCHANGED <<bsLock, activeGaps, bpc, back, todo, inHand, hintState, known, solved>>

\* _auto_resolve_by_domain() and _auto_resolve_gaps(): list the domain's gaps
ListDomain(t, d) ==
    /\ Section(t, "idle") /\ d \in strong
    /\ todo' = [todo EXCEPT ![t] = {g \in activeGaps : DomainOf[g] = d}]
    /\ todo'[t] # {}
    /\ BsGoto(t, "resolve")
    /\ UNCHANGED <<bsLock, back, inHand, gapState, hintState>>

ResolveNext(t) ==
    /\ bpc[t] = "resolve"
    /\ \/ /\ todo[t] = {} /\ BsGoto(t, "idle") /\ UNCHANGED <<back, todo, inHand>>
       \/ \E g \in todo[t] :
            /\ todo' = [todo EXCEPT ![t] = @ \ {g}]
            /\ inHand' = [inHand EXCEPT ![t] = g]
            /\ back' = [back EXCEPT ![t] = "resolve"]
            /\ BsGoto(t, "pop")
    /\ UNCHANGED <<bsLock, gapState, hintState>>

\* Mutant: the gap is counted whether or not it was still in the table.
PopGapAnyway(t) ==
    /\ Section(t, "pop")
    /\ activeGaps' = activeGaps \ {inHand[t]}
    /\ BsGoto(t, "log")
    /\ UNCHANGED <<bsLock, strong, back, todo, inHand, hintState, known, solved>>

\* _resolve_gap(), first section: take the gap out of _active_gaps
PopGap(t) ==
    /\ Section(t, "pop")
    /\ activeGaps' = activeGaps \ {inHand[t]}
    /\ BsGoto(t, IF inHand[t] \in activeGaps THEN "log" ELSE back[t])
    /\ UNCHANGED <<bsLock, strong, back, todo, inHand, hintState, known, solved>>

\* second section: into _resolved_history
LogGap(t) ==
    /\ Section(t, "log")
    /\ solved' = [solved EXCEPT ![inHand[t]] = @ + 1]
    /\ BsGoto(t, back[t])
    /\ UNCHANGED <<bsLock, activeGaps, strong, back, todo, inHand, hintState, known>>

\* absorb_peer_hints(), first section: the hint joins its gap's pool
AbsorbHint(t, h) ==
    LET g == GapOf[h]
        fits == h \in pool[g] \/ Cardinality(pool[g]) < MaxHints IN
    /\ Section(t, "idle") /\ arrivals < MaxArrivals
    /\ arrivals' = arrivals + 1
    /\ pool' = IF fits THEN [pool EXCEPT ![g] = @ \cup {h}] ELSE pool
    /\ absorbed' = absorbed \cup {h}
    /\ overflow' = IF fits THEN overflow ELSE overflow \cup {h}
    /\ BsGoto(t, "select")
    /\ UNCHANGED <<bsLock, back, todo, inHand, gapState, ripe, taken, learned, spoilt>>

\* tick() calls the flush too
FlushTick(t) ==
    /\ bpc[t] = "idle" /\ ripe # {}
    /\ BsGoto(t, "select")
    /\ UNCHANGED <<bsLock, back, todo, inHand, gapState, hintState>>

\* two minutes have passed since the first hint of the pool
Ripen(g) ==
    /\ pool[g] # {} /\ g \notin ripe
    /\ ripe' = ripe \cup {g}
    /\ UNCHANGED <<bsLock, bpc, back, todo, inHand, gapState, pool, taken, absorbed, learned,
                   spoilt, overflow, arrivals>>

\* _flush_mature_solution_pools(): which pools are ripe or full
SelectRipe(t) ==
    /\ Section(t, "select")
    /\ todo' = [todo EXCEPT ![t] =
                  {g \in Gaps : g \in ripe \/ Cardinality(pool[g]) >= MaxHints}]
    /\ BsGoto(t, "flush")
    /\ UNCHANGED <<bsLock, back, inHand, gapState, hintState>>

\* the entry is popped; nothing to do when another thread popped it first
PopPool(t) ==
    /\ Section(t, "flush")
    /\ \/ /\ todo[t] = {} /\ BsGoto(t, "idle")
          /\ UNCHANGED <<todo, inHand, pool, ripe, taken>>
       \/ \E g \in todo[t] :
            /\ todo' = [todo EXCEPT ![t] = @ \ {g}]
            /\ inHand' = [inHand EXCEPT ![t] = g]
            /\ taken' = [taken EXCEPT ![t] = pool[g]]
            /\ pool' = [pool EXCEPT ![g] = {}] /\ ripe' = ripe \ {g}
            /\ BsGoto(t, IF pool[g] = {} THEN "flush" ELSE "learn")
    /\ UNCHANGED <<bsLock, back, gapState, absorbed, learned, spoilt, overflow, arrivals>>

\* The pool's hints are taken in: the fingerprints of those that have any go to the offline
\* learner, whose failure is swallowed, and every hint counts for its domain.  The strength
\* reaches 0.8 unless all the domain's hints have a small priority_boost.
TakeIn(t, failed, weak) ==
    LET paths == taken[t] \cap Foreign IN
    /\ failed \subseteq paths /\ weak \subseteq paths
    /\ learned' = learned \cup (paths \ failed)
    /\ spoilt' = spoilt \cup failed
    /\ strong' = strong \cup {HintDomain[h] : h \in taken[t] \ weak}

\* Mutant: only the hints of a gap that is still open are taken in.
LearnIfOpen(t) ==
    /\ Section(t, "learn")
    /\ IF inHand[t] \in activeGaps
         THEN \E failed, weak \in SUBSET taken[t] : TakeIn(t, failed, weak)
         ELSE UNCHANGED <<learned, spoilt, strong>>
    /\ taken' = [taken EXCEPT ![t] = {}]
    /\ BsGoto(t, "settle")
    /\ UNCHANGED <<bsLock, activeGaps, back, todo, inHand, pool, ripe, known, solved, absorbed,
                   overflow, arrivals>>

\* the loop over the popped hints and _mark_strength() of their domains, which takes the
\* lock for each
LearnHints(t) ==
    /\ Section(t, "learn")
    /\ \E failed, weak \in SUBSET taken[t] : TakeIn(t, failed, weak)
    /\ taken' = [taken EXCEPT ![t] = {}]
    /\ BsGoto(t, "settle")
    /\ UNCHANGED <<bsLock, activeGaps, back, todo, inHand, pool, ripe, known, solved, absorbed,
                   overflow, arrivals>>

\* under the lock: is the gap still open?  Then _resolve_gap(), still under the lock
SettleGap(t) ==
    /\ Section(t, "settle")
    /\ IF inHand[t] \in activeGaps
         THEN /\ bsLock' = t
              /\ back' = [back EXCEPT ![t] = "flush"]
              /\ BsGoto(t, "pop")
         ELSE BsGoto(t, "flush") /\ UNCHANGED <<bsLock, back>>
    /\ UNCHANGED <<todo, inHand, gapState, hintState>>

BlindspotNext ==
    \/ \E t \in Callers :
         \/ \E g \in Gaps : RegisterGap(t, g)
         \/ \E d \in Domains : MarkProbe(t, d) \/ ListDomain(t, d)
         \/ \E h \in Hints : AbsorbHint(t, h)
         \/ ResolveNext(t) \/ PopGap(t) \/ LogGap(t)
         \/ FlushTick(t) \/ SelectRipe(t) \/ PopPool(t) \/ LearnHints(t) \/ SettleGap(t)
    \/ \E g \in Gaps : Ripen(g)

BlindspotSpec == BlindspotInit /\ [][BlindspotNext]_bsVars

-----------------------------------------------------------------------------
BlindspotTypeOK ==
    /\ bsLock \in Callers \cup {Unlocked}
    /\ activeGaps \subseteq Gaps /\ strong \subseteq Domains
    /\ pool \in [Gaps -> SUBSET Hints] /\ ripe \subseteq Gaps
    /\ bpc \in [Callers -> {"idle", "resolve", "pop", "log", "select", "flush", "learn",
                            "settle"}]
    /\ back \in [Callers -> {"idle", "resolve", "flush"}]
    /\ todo \in [Callers -> SUBSET Gaps] /\ inHand \in [Callers -> Gaps]
    /\ taken \in [Callers -> SUBSET Hints]
    /\ known \in [Gaps -> Nat] /\ solved \in [Gaps -> Nat]
    /\ absorbed \subseteq Hints /\ overflow \subseteq Hints
    /\ learned \subseteq Hints /\ spoilt \subseteq Hints
    /\ arrivals \in Nat

\* Every reported gap is open, on its way into the history, or in the history exactly
\* once, although several threads resolve the gaps of one domain from lists they took
\* earlier (_resolve_gap pops before it counts).
SolvedOnce ==
    \A g \in Gaps :
        known[g] = solved[g] + (IF g \in activeGaps THEN 1 ELSE 0)
                     + Cardinality({t \in Callers : bpc[t] = "log" /\ inHand[t] = g})

\* What a hint leaves behind: with fingerprints a call of the learner, whatever came of it,
\* and without (as all this program makes) the strength of its domain.
Used(h) ==
    IF h \in Foreign THEN h \in learned \cup spoilt ELSE HintDomain[h] \in strong

\* A hint that was absorbed is in a pool, in the hands of the thread that flushes the pool,
\* or used, unless its pool was full: a hint that arrives while another thread flushes its
\* gap is not lost with the popped entry, nor when its gap has been solved meanwhile.
NoHintLost ==
    \A h \in absorbed \ overflow :
        \/ \E g \in Gaps : h \in pool[g]
        \/ \E t \in Callers : h \in taken[t]
        \/ Used(h)

\* No thread waits for a lock it holds itself: _resolve_gap can be called with and
\* without the lock, as its docstring allows.
NoSelfWait == \A t \in Callers : ~(bpc[t] = "pop" /\ bsLock = t)
=============================================================================
