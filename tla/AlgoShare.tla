----------------------------- MODULE AlgoShare -----------------------------
(***************************************************************************)
(* The AutoPropagator of modules/algo_share.py: algorithm tokens a node    *)
(* has found or received, the file they are kept in, and the broadcast     *)
(* queue that lets every token go out once before a token that has already *)
(* been sent takes a place in a gossip packet.                             *)
(*                                                                         *)
(* Every method runs under one lock and saves inside it, so each is one    *)
(* action; a crash may hit it while the file is being rewritten.  A write  *)
(* that fails is swallowed: the caller hears nothing of it, and the file   *)
(* keeps what it had or is left unreadable.  Packets                       *)
(* are taken to arrive: peersHave is what one peer that got all of them    *)
(* has let through its filter (modules/gossip_toxicity_filter.py).         *)
(***************************************************************************)
EXTENDS Naturals, Sequences, FiniteSets

CONSTANTS
    Tokens,      \* token ids
    OwnTokens,   \* those whose source is this node
    NoToken,     \* _pending_token is None
    Fitness,     \* fitness_score of each token
    Gate,        \* MIN_FITNESS_TO_SHARE and LOCAL_FITNESS_GATE
    Limit,       \* limit of get_tokens_for_gossip (256)
    Keep,        \* tokens of a packet the receiving filter looks at (5)
    MaxHit,      \* bound: hit ratios, in steps of MIN_IMPROVEMENT_DELTA
    MaxRestarts, \* bound: restarts and crashes
    MaxUnstored  \* bound: writes of the token file that fail

ASSUME AlgoAssumption ==
    /\ OwnTokens \subseteq Tokens /\ NoToken \notin Tokens
    /\ IsFiniteSet(Tokens)
    /\ Fitness \in [Tokens -> Nat] /\ Gate \in Nat
    /\ Limit \in Nat \ {0} /\ Keep \in Nat \ {0} /\ MaxHit \in Nat /\ MaxRestarts \in Nat
    /\ MaxUnstored \in Nat

VARIABLES
    tokens,     \* keys of _known_tokens
    tokenFile,  \* the tokens in algo_tokens.json, {} when it cannot be read
    unstored,   \* the last write of algo_tokens.json has failed
    sendQueue,  \* _broadcast_queue
    sentOnce,   \* _broadcast_done
    pendingTok, \* _pending_token
    lastHit,    \* _last_hit_ratio
    packetTok,  \* the tokens of the last packet
    announced,       \* tokens ever put into a packet
    peersHave,  \* tokens a peer has received and let through
    forgot,     \* history: a start has read a file the last save had not brought up to date
    restarts, storeFaults

asVars == <<tokens, tokenFile, unstored, sendQueue, sentOnce, pendingTok, lastHit, packetTok,
            announced, peersHave, forgot, restarts, storeFaults>>
storeSide == <<tokenFile, unstored, storeFaults>>
lives == <<forgot, restarts>>

Elements(s) == {s[i] : i \in DOMAIN s}

AlgoInit ==
    /\ tokens = {} /\ tokenFile = {} /\ sendQueue = <<>> /\ sentOnce = {}
    /\ pendingTok = NoToken /\ lastHit = 0 /\ packetTok = {}
    /\ announced = {} /\ peersHave = {} /\ restarts = 0
    /\ unstored = FALSE /\ forgot = FALSE /\ storeFaults = 0

\* a token id joins the queue unless it has already been sent; ids may be queued twice
Enqueue(tok) ==
    /\ sendQueue' = IF tok \in sentOnce THEN sendQueue ELSE Append(sendQueue, tok)

\* Mutant: the file is written before the table changes.
SaveBefore == tokenFile' = tokens /\ unstored' = FALSE /\ UNCHANGED storeFaults

\* _save_persistent(): a write that fails has changed nothing or has truncated the file
Save ==
    \/ tokenFile' = tokens' /\ unstored' = FALSE /\ UNCHANGED storeFaults
    \/ /\ storeFaults < MaxUnstored /\ storeFaults' = storeFaults + 1
       /\ unstored' = TRUE
       /\ tokenFile' \in {tokenFile, {}}

\* emit_if_improved(): an own token whose hit ratio is at least a step better
EmitToken(tok, hit) ==
    /\ Fitness[tok] >= Gate
    /\ hit > lastHit
    /\ tokens' = tokens \cup {tok}
    /\ Enqueue(tok)
    /\ pendingTok' = tok
    /\ lastHit' = hit
    /\ Save
    /\ UNCHANGED <<sentOnce, packetTok, lives, announced, peersHave>>

\* receive_algo_token(): a valid token above the gate that is not known yet.  The pending
\* token is only replaced when the queue is empty, that is when the id was sent before.
ReceiveToken(tok) ==
    /\ Fitness[tok] >= Gate
    /\ tok \notin tokens
    /\ tokens' = tokens \cup {tok}
    /\ Enqueue(tok)
    /\ pendingTok' = IF sendQueue' = <<>> THEN tok ELSE pendingTok
    /\ Save
    /\ UNCHANGED <<sentOnce, lastHit, packetTok, lives, announced, peersHave>>

\* get_best_token_for_gossip(): the pending token, else one of the fittest; it travels as
\* the packet's algo_token, which the filter lets through unless the peer's five tokens a
\* minute are used up
FetchBest(tok) ==
    /\ IF pendingTok # NoToken
         THEN tok = pendingTok
         ELSE tok \in tokens /\ \A o \in tokens : Fitness[o] <= Fitness[tok]
    /\ pendingTok' = NoToken
    /\ announced' = announced \cup {tok}
    /\ peersHave' \in {peersHave, peersHave \cup {tok}}
    /\ UNCHANGED <<tokens, storeSide, sendQueue, sentOnce, lastHit, packetTok, lives>>

\* get_tokens_for_gossip(), step 1: how many entries of the queue are taken (a second
\* entry of an id is dropped and takes no place)
Handled ==
    CHOOSE k \in 0..Len(sendQueue) :
        /\ \A j \in 0..(k - 1) : Cardinality(Elements(SubSeq(sendQueue, 1, j))) < Limit
        /\ k < Len(sendQueue) => Cardinality(Elements(SubSeq(sendQueue, 1, k))) = Limit
Fresh == Elements(SubSeq(sendQueue, 1, Handled))

\* Mutant: the other tokens go out in the wrong order.
IsWeakest(S, room) ==
    /\ S \subseteq tokens \ Fresh
    /\ Cardinality(S) <= room
    /\ Cardinality(S) < room => S = tokens \ Fresh
    /\ \A t \in S, u \in (tokens \ Fresh) \ S : Fitness[t] <= Fitness[u]

\* step 2: the fittest of the other known tokens, as far as there is room
IsFittest(S, room) ==
    /\ S \subseteq tokens \ Fresh
    /\ Cardinality(S) <= room
    /\ Cardinality(S) < room => S = tokens \ Fresh
    /\ \A t \in S, u \in (tokens \ Fresh) \ S : Fitness[t] >= Fitness[u]

\* What the receiver's filter keeps of the packet: its first tokens, in the packet's order
IsKept(K, S) ==
    /\ K \subseteq Fresh \cup S
    /\ Cardinality(K) <= Keep /\ (Cardinality(K) < Keep => K = Fresh \cup S)
    /\ \A i, j \in 1..Handled : i < j /\ sendQueue[j] \in K => sendQueue[i] \in K
    /\ S \cap K # {} => Fresh \subseteq K
    /\ \A t \in S \cap K, u \in S \ K : Fitness[t] >= Fitness[u]

\* Mutant: the pending token is added without a look whether there is one.
FetchesPending(S) ==
    /\ IsFittest(S, Limit - Cardinality(Fresh))
    /\ packetTok' = Fresh \cup S \cup {pendingTok}
    /\ sendQueue' = SubSeq(sendQueue, Handled + 1, Len(sendQueue))
    /\ sentOnce' = sentOnce \cup Fresh
    /\ announced' = announced \cup packetTok'
    /\ \E K \in SUBSET packetTok' : IsKept(K, S) /\ peersHave' = peersHave \cup K
    /\ UNCHANGED <<tokens, storeSide, pendingTok, lastHit, lives>>

\* step 3, the pending token, adds nothing that step 2 has not: it only forgets it
FetchTokens(S) ==
    /\ IsFittest(S, Limit - Cardinality(Fresh))
    /\ packetTok' = Fresh \cup S
    /\ sendQueue' = SubSeq(sendQueue, Handled + 1, Len(sendQueue))
    /\ sentOnce' = sentOnce \cup Fresh
    /\ announced' = announced \cup packetTok'
    /\ \E K \in SUBSET packetTok' : IsKept(K, S) /\ peersHave' = peersHave \cup K
    /\ pendingTok' = IF sendQueue' = <<>> /\ pendingTok \notin packetTok'
                        /\ Cardinality(packetTok') < Limit
                       THEN NoToken ELSE pendingTok
    /\ UNCHANGED <<tokens, storeSide, lastHit, lives>>

\* The process ends and _load_persistent() reads the file: only the tokens survive
Reload(content, stale) ==
    /\ restarts < MaxRestarts /\ restarts' = restarts + 1
    /\ tokens' = content /\ tokenFile' = content
    /\ unstored' = FALSE /\ forgot' = (forgot \/ stale)
    /\ sendQueue' = <<>> /\ sentOnce' = {} /\ pendingTok' = NoToken /\ lastHit' = 0
    /\ packetTok' = {}
    /\ UNCHANGED <<announced, peersHave, storeFaults>>
RestartAlgo == Reload(tokenFile, unstored)
\* a crash while write_text() rewrites the file: the next start cannot read it
CrashInSave == Reload({}, TRUE)

AlgoNext ==
    \/ \E tok \in OwnTokens, hit \in 1..MaxHit : EmitToken(tok, hit)
    \/ \E tok \in Tokens : ReceiveToken(tok) \/ FetchBest(tok)
    \/ \E S \in SUBSET tokens : FetchTokens(S)
    \/ RestartAlgo \/ CrashInSave

\* the gossip loop publishes again and again
AlgoFairness == WF_asVars(\E S \in SUBSET tokens : FetchTokens(S))
AlgoSpec == AlgoInit /\ [][AlgoNext]_asVars /\ AlgoFairness

-----------------------------------------------------------------------------
AlgoTypeOK ==
    /\ tokens \subseteq Tokens /\ tokenFile \subseteq Tokens
    /\ sendQueue \in Seq(Tokens)
    /\ sentOnce \subseteq Tokens /\ pendingTok \in Tokens \cup {NoToken}
    /\ lastHit \in Nat /\ packetTok \subseteq Tokens
    /\ announced \subseteq Tokens /\ peersHave \subseteq Tokens
    /\ restarts \in Nat /\ storeFaults \in Nat
    /\ unstored \in BOOLEAN /\ forgot \in BOOLEAN

\* What peers have been told of, this node knows until a start has read a file that the last
\* save had not brought up to date; and only a failed save is not, for the next one stores
\* the tokens of the failed ones too.
ToldIsStored ==
    /\ ~unstored => tokenFile = tokens
    /\ ~forgot => announced \subseteq tokens

\* A token that stays among the fittest the filter has room for reaches the peers, in
\* spite of the queue that goes first.
Top == {tok \in tokens : Cardinality({o \in tokens : Fitness[o] >= Fitness[tok]}) <= Keep}
FittestArrives ==
    \A tok \in Tokens : (tok \in Top) ~> (tok \notin Top \/ tok \in peersHave)
=============================================================================
