-------------------------- MODULE Services_proofs ---------------------------
(***************************************************************************)
(* What the services of a node never lose or mix up: the consensus         *)
(* database, the task broker's queue, the blindspot engine's hints, the    *)
(* session chain, the pool of anchors and the flooding of hints, for any   *)
(* number of calls, threads, tasks, hints, blocks, bundles, nodes,         *)
(* failures and restarts; and that the types hold in the specification in  *)
(* which they are checked.                                                 *)
(***************************************************************************)
EXTENDS MCServices, SwarmNode_proofs, SwarmController_proofs, FileCommand_proofs, DataInduction,
        FiniteSetTheorems, SequenceTheorems, TLAPS

-----------------------------------------------------------------------------
(* The consensus database.                                                 *)

\* The type of the consensus database's variables, whatever calls overlap or fail.
THEOREM ConsensusTypeCorrect == ConsensusSpec => []ConsensusTypeOK
<1>1. ConsensusInit => ConsensusTypeOK
  <2> SUFFICES ASSUME ConsensusInit PROVE ConsensusTypeOK
    OBVIOUS
  <2>1. (CHOOSE r \in TtdHashes \X NodeIds : TRUE) \in TtdHashes \X NodeIds
    <3>1. PICK h \in TtdHashes, n \in NodeIds : TRUE
      BY ConsensusAssumption DEF ConsensusAssumption
    <3>2. <<h, n>> \in TtdHashes \X NodeIds
      OBVIOUS
    <3> QED
      BY <3>2
  <2>2. submits \in 0..MaxSubmits
    BY ConsensusAssumption DEF ConsensusInit
  <2> QED
    BY <2>1, <2>2 DEF ConsensusInit, ConsensusTypeOK
<1>2. ConsensusTypeOK /\ [ConsensusNext]_ceVars => ConsensusTypeOK'
  <2> SUFFICES ASSUME ConsensusTypeOK, [ConsensusNext]_ceVars PROVE ConsensusTypeOK'
    OBVIOUS
  <2> USE DEF ConsensusTypeOK
  <2>1. ASSUME NEW s \in Submitters, NEW h \in TtdHashes, NEW n \in NodeIds, Submit(s, h, n)
        PROVE  ConsensusTypeOK'
    <3>1. submits' \in 0..MaxSubmits
      BY <2>1, ConsensusAssumption DEF Submit
    <3> QED
      BY <2>1, <3>1 DEF Submit
  <2>2. ASSUME NEW s \in Submitters, OpenTransaction(s) PROVE ConsensusTypeOK'
    BY <2>2 DEF OpenTransaction
  <2>3. ASSUME NEW s \in Submitters, Commits(s) PROVE ConsensusTypeOK'
    <3>1. /\ CandidateOf(s) \in TtdHashes
          /\ ReporterOf(s) \in NodeIds
          /\ Sources(s) \subseteq NodeIds
      BY DEF CandidateOf, ReporterOf, Sources
    <3> QED
      BY <2>3, <3>1 DEF Commits
  <2>4. ASSUME NEW s \in Submitters, SubmitFails(s) PROVE ConsensusTypeOK'
    BY <2>4 DEF SubmitFails
  <2>5. CASE UNCHANGED ceVars
    BY <2>5 DEF ceVars
  <2> QED
    BY <2>1, <2>2, <2>3, <2>4, <2>5 DEF ConsensusNext
<1> QED
  BY <1>1, <1>2, PTL DEF ConsensusSpec

\* No transaction leaves a candidate behind, so that no call ever finds one to join, and an
\* anchor names the last reporter alone.
LoneInv ==
    /\ candidateRow = [h \in TtdHashes |-> {}]
    /\ rowSeen = [s \in Submitters |-> {}]
    /\ anchorRow = lastReporter

\* Whatever calls of submit_candidate() overlap, fail or die, no candidate is left and the
\* anchor names the node that committed last.
THEOREM PromotedAtOnce == ConsensusSpec => []PromotionIsWhole
<1>1. ConsensusInit => LoneInv
  BY DEF ConsensusInit, LoneInv
<1>2. LoneInv /\ [ConsensusNext]_ceVars => LoneInv'
  <2> SUFFICES ASSUME LoneInv, [ConsensusNext]_ceVars PROVE LoneInv'
    OBVIOUS
  <2> USE DEF LoneInv
  <2>1. ASSUME NEW s \in Submitters, NEW h \in TtdHashes, NEW n \in NodeIds, Submit(s, h, n)
        PROVE  LoneInv'
    BY <2>1 DEF Submit
  <2>2. ASSUME NEW s \in Submitters, Commits(s) PROVE LoneInv'
    <3>1. Sources(s) = {ReporterOf(s)}
      BY DEF Sources
    <3> QED
      BY <2>2, <3>1 DEF Commits
  <2>3. ASSUME NEW s \in Submitters, OpenTransaction(s) \/ SubmitFails(s) PROVE LoneInv'
    BY <2>3 DEF OpenTransaction, SubmitFails
  <2>4. CASE UNCHANGED ceVars
    BY <2>4 DEF ceVars
  <2> QED
    BY <2>1, <2>2, <2>3, <2>4 DEF ConsensusNext
<1>3. LoneInv => PromotionIsWhole
  BY DEF LoneInv, PromotionIsWhole
<1> QED
  BY <1>1, <1>2, <1>3, PTL DEF ConsensusSpec

-----------------------------------------------------------------------------
(* The task broker.                                                        *)

\* Everything but the remote requests.
QueueTypes ==
    /\ created \subseteq OwnTasks /\ mine \subseteq created /\ queueFile \subseteq created
    /\ expired \subseteq OwnTasks \cup PeerTasks
    /\ bidders \subseteq created /\ results \subseteq answered /\ answered \subseteq created
    /\ accepted \subseteq results
    /\ taught \in [OwnTasks -> Nat]
    /\ solutions \in [OwnTasks -> SUBSET Caps] /\ pooled \in [OwnTasks -> SUBSET Caps]
    /\ stops \in Nat /\ relapses \in Nat /\ saveFaults \in Nat /\ unsaved \in BOOLEAN
RemoteTypes == remote \in Seq(PeerTasks) /\ offered \subseteq PeerTasks /\ requests \in Nat

LEMMA BrokerTypesInit == BrokerInit => QueueTypes /\ RemoteTypes
<1> SUFFICES ASSUME BrokerInit PROVE QueueTypes /\ RemoteTypes
  OBVIOUS
<1>1. unsaved \in BOOLEAN
  BY Zenon DEF BrokerInit
<1>2. remote \in Seq(PeerTasks)
  BY DEF BrokerInit
<1> QED
  BY <1>1, <1>2 DEF BrokerInit, QueueTypes, RemoteTypes

LEMMA QueueTypesNext == QueueTypes /\ [BrokerNext]_tbVars => QueueTypes'
<1> SUFFICES ASSUME QueueTypes, [BrokerNext]_tbVars PROVE QueueTypes'
  OBVIOUS
<1>s. ASSUME SaveQueue, mine' \subseteq created', created \subseteq created'
      PROVE  queueFile' \subseteq created' /\ saveFaults' \in Nat /\ unsaved' \in BOOLEAN
  <2>1. unsaved' \in BOOLEAN
    BY <1>s, Zenon DEF SaveQueue
  <2>2. queueFile' \subseteq created' /\ saveFaults' \in Nat
    BY <1>s DEF SaveQueue, QueueTypes
  <2> QED
    BY <2>1, <2>2
<1> USE DEF QueueTypes, fileSide, restarts
<1>1. ASSUME NEW t \in OwnTasks, CreateTask(t) \/ ReceiveBid(t) PROVE QueueTypes'
  <2>1. CASE CreateTask(t)
    BY <2>1, <1>s DEF CreateTask
  <2> QED
    BY <1>1, <2>1 DEF ReceiveBid
<1>2. ASSUME NEW t \in OwnTasks, NEW caps \in SUBSET Caps, AcceptResult(t, caps)
      PROVE  QueueTypes'
  BY <1>2, <1>s DEF AcceptResult
<1>9. CASE ExecuteTask
  BY <1>9, <1>s DEF ExecuteTask
<1>3. ASSUME NEW t \in OwnTasks, TeachResult(t) PROVE QueueTypes'
  <2>1. pooled' \in [OwnTasks -> SUBSET Caps]
    <3>1. PICK first \in solutions[t] \cup {"none"} :
             /\ first = "none" => solutions[t] = {}
             /\ pooled' = [pooled EXCEPT ![t] = {first} \ {"none"}]
      BY <1>3 DEF TeachResult
    <3>2. {first} \ {"none"} \subseteq Caps
      OBVIOUS
    <3> QED
      BY <3>1, <3>2
  <2> QED
    BY <1>3, <2>1 DEF TeachResult, peerSide
<1>4. ASSUME NEW t \in OwnTasks \cup PeerTasks, Expire(t) PROVE QueueTypes'
  BY <1>4 DEF Expire, ownSide
<1>5. ASSUME NEW t \in PeerTasks, ReceiveRemote(t) PROVE QueueTypes'
  BY <1>5 DEF ReceiveRemote, ownSide
<1>6. CASE BroadcastBids
  BY <1>6 DEF BroadcastBids, ownSide
<1>7. CASE StopBroker \/ CrashWhileSaving
  <2>1. unsaved' \in BOOLEAN
    BY <1>7 DEF StopBroker, CrashWhileSaving, Reborn
  <2>2. /\ stops' = stops + 1 /\ bidders' = {} /\ results' = {} /\ accepted' = {}
        /\ relapses' \in Nat
        /\ UNCHANGED <<created, expired, answered, taught, solutions, pooled, saveFaults>>
        /\ mine' \subseteq created /\ queueFile' \subseteq created
    BY <1>7 DEF StopBroker, CrashWhileSaving, Reborn
  <2> QED
    BY <2>1, <2>2
<1>8. CASE UNCHANGED tbVars
  BY <1>8 DEF tbVars
<1> QED
  BY <1>1, <1>2, <1>3, <1>4, <1>5, <1>6, <1>7, <1>8, <1>9 DEF BrokerNext

LEMMA RemoteTypesNext == RemoteTypes /\ [BrokerNext]_tbVars => RemoteTypes'
<1> SUFFICES ASSUME RemoteTypes, [BrokerNext]_tbVars PROVE RemoteTypes'
  OBVIOUS
<1> USE DEF RemoteTypes
<1>1. ASSUME NEW t \in OwnTasks, NEW caps \in SUBSET Caps,
             CreateTask(t) \/ ReceiveBid(t) \/ AcceptResult(t, caps) \/ TeachResult(t)
      PROVE  RemoteTypes'
  BY <1>1 DEF CreateTask, ReceiveBid, AcceptResult, TeachResult, peerSide
<1>7. CASE ExecuteTask
  BY <1>7 DEF ExecuteTask, peerSide
<1>2. ASSUME NEW t \in OwnTasks \cup PeerTasks, Expire(t) PROVE RemoteTypes'
  BY <1>2 DEF Expire, peerSide
<1>3. ASSUME NEW t \in PeerTasks, ReceiveRemote(t) PROVE RemoteTypes'
  <2> DEFINE grown == Append(remote, t)
  <2>1. grown \in Seq(PeerTasks) /\ Len(grown) \in Nat
    OBVIOUS
  <2>2. Len(grown) > MaxRemote =>
          SubSeq(grown, Len(grown) - MaxRemote + 1, Len(grown)) \in Seq(PeerTasks)
    BY <2>1, BrokerAssumption DEF BrokerAssumption
  <2>3. /\ requests' = requests + 1 /\ offered' = offered
        /\ remote' = IF Len(grown) > MaxRemote
                       THEN SubSeq(grown, Len(grown) - MaxRemote + 1, Len(grown)) ELSE grown
    BY <1>3 DEF ReceiveRemote
  <2> HIDE DEF grown
  <2> QED
    BY <2>1, <2>2, <2>3
<1>4. CASE BroadcastBids
  <2>1. FirstFits(MaxBids) \subseteq DOMAIN remote
    BY DEF FirstFits
  <2>2. \A i \in DOMAIN remote : remote[i] \in PeerTasks
    OBVIOUS
  <2>3. {remote[i] : i \in FirstFits(MaxBids)} \subseteq PeerTasks
    BY <2>1, <2>2
  <2>4. /\ offered' = offered \cup {remote[i] : i \in FirstFits(MaxBids)}
        /\ UNCHANGED <<remote, requests>>
    BY <1>4 DEF BroadcastBids
  <2> QED
    BY <2>3, <2>4
<1>5. CASE StopBroker \/ CrashWhileSaving
  <2>1. remote' = <<>> /\ UNCHANGED <<offered, requests>>
    BY <1>5 DEF StopBroker, CrashWhileSaving, Reborn
  <2> QED
    BY <2>1
<1>6. CASE UNCHANGED tbVars
  BY <1>6 DEF tbVars
<1> QED
  BY <1>1, <1>2, <1>3, <1>4, <1>5, <1>6, <1>7 DEF BrokerNext

\* The type of the broker's variables; every table holds created tasks only.
THEOREM BrokerTypeCorrect == BrokerSpec => []BrokerTypeOK
<1>1. BrokerInit => QueueTypes /\ RemoteTypes
  BY BrokerTypesInit
<1>2. QueueTypes /\ RemoteTypes /\ [BrokerNext]_tbVars => QueueTypes' /\ RemoteTypes'
  BY QueueTypesNext, RemoteTypesNext
<1>3. QueueTypes /\ RemoteTypes => BrokerTypeOK
  BY DEF QueueTypes, RemoteTypes, BrokerTypeOK
<1> QED
  BY <1>1, <1>2, <1>3, PTL DEF BrokerSpec

\* 1 while a result may still be taught: the request is in the table, or its result in hand.
Due(t) == IF t \in mine \cup accepted THEN 1 ELSE 0

\* What is taught was created, and each start from a file that was not brought up to date can
\* make one more result of a task due.
QueueInv ==
    /\ QueueTypes
    /\ ~unsaved => queueFile \ expired = mine \ expired
    /\ relapses = 0 => /\ created \ (expired \cup answered) \subseteq mine
                       /\ answered \cap mine = {}
    /\ accepted \cap mine = {}
    /\ \A t \in OwnTasks : taught[t] + Due(t) <= 1 + relapses
    /\ \A t \in OwnTasks \ created : taught[t] = 0

LEMMA QueueInvNext == QueueInv /\ [BrokerNext]_tbVars => QueueInv'
<1> SUFFICES ASSUME QueueInv, [BrokerNext]_tbVars PROVE QueueInv'
  OBVIOUS
<1>t. QueueTypes'
  BY QueueTypesNext DEF QueueInv
<1>s. ASSUME SaveQueue, expired' = expired PROVE ~unsaved' => queueFile' \ expired' = mine' \ expired'
  BY <1>s, <1>t DEF SaveQueue, QueueTypes
<1> USE DEF QueueInv, QueueTypes, Due, fileSide, restarts
<1>1. ASSUME NEW t \in OwnTasks, CreateTask(t) PROVE QueueInv'
  BY <1>1, <1>t, <1>s DEF CreateTask
<1>9. ASSUME NEW t \in OwnTasks, ReceiveBid(t) PROVE QueueInv'
  BY <1>9, <1>t DEF ReceiveBid
<1>2. ASSUME NEW t \in OwnTasks, NEW caps \in SUBSET Caps, AcceptResult(t, caps)
      PROVE  QueueInv'
  BY <1>2, <1>t, <1>s DEF AcceptResult
<1>10. CASE ExecuteTask
  BY <1>10, <1>t, <1>s DEF ExecuteTask
<1>3. ASSUME NEW t \in OwnTasks, TeachResult(t) PROVE QueueInv'
  <2>1. \A u \in OwnTasks : taught'[u] = IF u = t THEN taught[t] + 1 ELSE taught[u]
    BY <1>3 DEF TeachResult
  <2> QED
    BY <1>3, <1>t, <2>1 DEF TeachResult
<1>4. ASSUME NEW t \in OwnTasks \cup PeerTasks, Expire(t) PROVE QueueInv'
  BY <1>4, <1>t DEF Expire, ownSide
<1>5. ASSUME NEW t \in PeerTasks, ReceiveRemote(t) PROVE QueueInv'
  BY <1>5, <1>t DEF ReceiveRemote, ownSide
<1>6. CASE BroadcastBids
  BY <1>6, <1>t DEF BroadcastBids, ownSide
<1>7. CASE StopBroker
  BY <1>7, <1>t DEF StopBroker, Reborn
<1>11. CASE CrashWhileSaving
  BY <1>11, <1>t DEF CrashWhileSaving, Reborn
<1>8. CASE UNCHANGED tbVars
  BY <1>8, <1>t DEF tbVars
<1> QED
  BY <1>1, <1>2, <1>3, <1>4, <1>5, <1>6, <1>7, <1>8, <1>9, <1>10, <1>11 DEF BrokerNext

\* Whatever writes of the queue file fail and in whatever order bids and results arrive: the
\* next save that succeeds brings the file up to date, only a start from a file that was not
\* loses a request or brings an answered one back, and a result is learnt once and at most
\* once more for each such start.
THEOREM NoRequestLost == BrokerSpec => []QueueSurvives
<1>1. BrokerInit => QueueInv
  BY BrokerTypesInit DEF BrokerInit, QueueInv, Due
<1>2. QueueInv => QueueSurvives
  BY DEF QueueInv, QueueTypes, QueueSurvives, Due
<1> QED
  BY <1>1, <1>2, QueueInvNext, PTL DEF BrokerSpec

-----------------------------------------------------------------------------
(* The blindspot engine.                                                   *)

\* Threads and the gaps and hints they have in hand.
ThreadTypes ==
    /\ bsLock \in Callers \cup {Unlocked}
    /\ bpc \in [Callers -> {"idle", "resolve", "pop", "log", "select", "flush", "learn",
                            "settle"}]
    /\ back \in [Callers -> {"idle", "resolve", "flush"}]
    /\ todo \in [Callers -> SUBSET Gaps] /\ inHand \in [Callers -> Gaps]
    /\ taken \in [Callers -> SUBSET Hints]
\* The tables of the engine.
TableTypes ==
    /\ activeGaps \subseteq Gaps /\ strong \subseteq Domains
    /\ pool \in [Gaps -> SUBSET Hints] /\ ripe \subseteq Gaps
    /\ known \in [Gaps -> Nat] /\ solved \in [Gaps -> Nat]
    /\ absorbed \subseteq Hints /\ overflow \subseteq Hints
    /\ learned \subseteq Hints /\ spoilt \subseteq Hints
    /\ arrivals \in Nat

LEMMA BlindspotTypesInit == BlindspotInit => ThreadTypes /\ TableTypes
<1> SUFFICES ASSUME BlindspotInit PROVE ThreadTypes /\ TableTypes
  OBVIOUS
<1>1. (CHOOSE g \in Gaps : TRUE) \in Gaps
  <2>1. PICK g \in Gaps : TRUE
    BY BlindspotAssumption DEF BlindspotAssumption
  <2> QED
    BY <2>1
<1> QED
  BY <1>1 DEF BlindspotInit, ThreadTypes, TableTypes

LEMMA BlindspotTypesNext ==
  ThreadTypes /\ TableTypes /\ [BlindspotNext]_bsVars => ThreadTypes' /\ TableTypes'
<1> SUFFICES ASSUME ThreadTypes, TableTypes, [BlindspotNext]_bsVars
             PROVE  ThreadTypes' /\ TableTypes'
  OBVIOUS
<1>a. /\ DomainOf \in [Gaps -> Domains] /\ GapOf \in [Hints -> Gaps]
  BY BlindspotAssumption DEF BlindspotAssumption
<1> USE DEF ThreadTypes, TableTypes, BsGoto, Section, hintState, gapState
<1>1. ASSUME NEW t \in Callers, NEW g \in Gaps, RegisterGap(t, g)
      PROVE  ThreadTypes' /\ TableTypes'
  BY <1>1 DEF RegisterGap
<1>13. ASSUME NEW t \in Callers, NEW d \in Domains, MarkProbe(t, d) \/ ListDomain(t, d)
       PROVE  ThreadTypes' /\ TableTypes'
  <2>1. CASE MarkProbe(t, d)
    BY <2>1 DEF MarkProbe
  <2>2. CASE ListDomain(t, d)
    <3>1. {h \in activeGaps : DomainOf[h] = d} \subseteq Gaps
      OBVIOUS
    <3> QED
      BY <2>2, <3>1 DEF ListDomain
  <2> QED
    BY <1>13, <2>1, <2>2
<1>2. ASSUME NEW t \in Callers, NEW h \in Hints, AbsorbHint(t, h)
      PROVE  ThreadTypes' /\ TableTypes'
  <2>1. GapOf[h] \in Gaps
    BY <1>a
  <2> QED
    BY <1>2, <2>1 DEF AbsorbHint
<1>3. ASSUME NEW t \in Callers, ResolveNext(t) PROVE ThreadTypes' /\ TableTypes'
  <2>1. CASE todo[t] = {} /\ BsGoto(t, "idle") /\ UNCHANGED <<back, todo, inHand>>
    BY <1>3, <2>1 DEF ResolveNext
  <2>2. ASSUME NEW g \in todo[t],
               /\ todo' = [todo EXCEPT ![t] = @ \ {g}]
               /\ inHand' = [inHand EXCEPT ![t] = g]
               /\ back' = [back EXCEPT ![t] = "resolve"]
               /\ BsGoto(t, "pop")
        PROVE  ThreadTypes' /\ TableTypes'
    BY <1>3, <2>2 DEF ResolveNext
  <2> QED
    BY <1>3, <2>1, <2>2 DEF ResolveNext
<1>4. ASSUME NEW t \in Callers, PopGap(t) PROVE ThreadTypes' /\ TableTypes'
  BY <1>4 DEF PopGap
<1>5. ASSUME NEW t \in Callers, LogGap(t) PROVE ThreadTypes' /\ TableTypes'
  <2>1. solved' \in [Gaps -> Nat]
    BY <1>5 DEF LogGap
  <2> QED
    BY <1>5, <2>1 DEF LogGap
<1>6. ASSUME NEW t \in Callers, FlushTick(t) PROVE ThreadTypes' /\ TableTypes'
  BY <1>6 DEF FlushTick
<1>7. ASSUME NEW t \in Callers, SelectRipe(t) PROVE ThreadTypes' /\ TableTypes'
  <2>1. {g \in Gaps : g \in ripe \/ Cardinality(pool[g]) >= MaxHints} \subseteq Gaps
    OBVIOUS
  <2> QED
    BY <1>7, <2>1 DEF SelectRipe
<1>8. ASSUME NEW t \in Callers, PopPool(t) PROVE ThreadTypes' /\ TableTypes'
  <2>1. CASE /\ todo[t] = {} /\ BsGoto(t, "idle")
             /\ UNCHANGED <<todo, inHand, pool, ripe, taken>>
    BY <1>8, <2>1 DEF PopPool
  <2>2. ASSUME NEW g \in todo[t],
               /\ todo' = [todo EXCEPT ![t] = @ \ {g}]
               /\ inHand' = [inHand EXCEPT ![t] = g]
               /\ taken' = [taken EXCEPT ![t] = pool[g]]
               /\ pool' = [pool EXCEPT ![g] = {}] /\ ripe' = ripe \ {g}
               /\ BsGoto(t, IF pool[g] = {} THEN "flush" ELSE "learn")
        PROVE  ThreadTypes' /\ TableTypes'
    BY <1>8, <2>2 DEF PopPool
  <2> QED
    BY <1>8, <2>1, <2>2 DEF PopPool
<1>9. ASSUME NEW t \in Callers, LearnHints(t) PROVE ThreadTypes' /\ TableTypes'
  <2>1. PICK failed \in SUBSET taken[t], weak \in SUBSET taken[t] : TakeIn(t, failed, weak)
    BY <1>9 DEF LearnHints
  <2>2. taken[t] \subseteq Hints
    OBVIOUS
  <2>3. {HintDomain[h] : h \in taken[t] \ weak} \subseteq Domains
    BY <2>2, BlindspotAssumption DEF BlindspotAssumption
  <2>4. strong' \subseteq Domains /\ learned' \subseteq Hints /\ spoilt' \subseteq Hints
    BY <2>1, <2>2, <2>3 DEF TakeIn
  <2> QED
    BY <1>9, <2>4 DEF LearnHints
<1>10. ASSUME NEW t \in Callers, SettleGap(t) PROVE ThreadTypes' /\ TableTypes'
  BY <1>10 DEF SettleGap
<1>11. ASSUME NEW g \in Gaps, Ripen(g) PROVE ThreadTypes' /\ TableTypes'
  BY <1>11 DEF Ripen
<1>12. CASE UNCHANGED bsVars
  BY <1>12 DEF bsVars
<1> QED
  BY <1>1, <1>2, <1>3, <1>4, <1>5, <1>6, <1>7, <1>8, <1>9, <1>10, <1>11, <1>12,
     <1>13 DEF BlindspotNext

\* The type of the engine's variables, for any number of threads.
THEOREM BlindspotTypeCorrect == BlindspotSpec => []BlindspotTypeOK
<1>1. ThreadTypes /\ TableTypes => BlindspotTypeOK
  BY DEF ThreadTypes, TableTypes, BlindspotTypeOK
<1> QED
  BY <1>1, BlindspotTypesInit, BlindspotTypesNext, PTL DEF BlindspotSpec

HintsKept ==
    \A h \in absorbed :
        \/ h \in overflow \/ Used(h)
        \/ \E g \in Gaps : h \in pool[g]
        \/ \E t \in Callers : h \in taken[t]

\* What is used stays used.
LEMMA UsedStays ==
  ASSUME NEW h, Used(h), learned \subseteq learned', spoilt \subseteq spoilt', strong \subseteq strong'
  PROVE  Used(h)'
BY DEF Used

\* The hints in the hands of a thread that no longer learns are none.
HintInv ==
    /\ ThreadTypes /\ TableTypes /\ HintsKept
    /\ \A t \in Callers : bpc[t] # "learn" => taken[t] = {}

LEMMA HintInvNext == HintInv /\ [BlindspotNext]_bsVars => HintInv'
<1> SUFFICES ASSUME HintInv, [BlindspotNext]_bsVars PROVE HintInv'
  OBVIOUS
<1>t. ThreadTypes' /\ TableTypes'
  BY BlindspotTypesNext DEF HintInv
<1>0. ASSUME UNCHANGED <<pool, taken, absorbed, learned, spoilt, overflow>>,
             strong \subseteq strong',
             \A t \in Callers : bpc'[t] # "learn" => bpc[t] # "learn"
      PROVE  HintInv'
  <2>1. \A h \in absorbed : Used(h) => Used(h)'
    BY <1>0, UsedStays
  <2> QED
    BY <1>0, <1>t, <2>1 DEF HintInv, HintsKept
<1> USE DEF BsGoto, Section, hintState
<1>1. ASSUME NEW t \in Callers, NEW g \in Gaps, RegisterGap(t, g) PROVE HintInv'
  BY <1>1, <1>0 DEF RegisterGap
<1>2. ASSUME NEW t \in Callers, NEW d \in Domains, MarkProbe(t, d) PROVE HintInv'
  BY <1>2, <1>0 DEF MarkProbe
<1>3. ASSUME NEW t \in Callers,
             \/ \E d \in Domains : ListDomain(t, d)
             \/ ResolveNext(t) \/ PopGap(t) \/ LogGap(t) \/ FlushTick(t) \/ SelectRipe(t)
             \/ SettleGap(t)
      PROVE  HintInv'
  <2>1. UNCHANGED <<pool, taken, absorbed, learned, spoilt, overflow>> /\ strong' = strong
    BY <1>3 DEF gapState, ListDomain, ResolveNext, PopGap, LogGap, FlushTick, SelectRipe, SettleGap
  <2>2. bpc[t] # "learn"
    BY <1>3 DEF ListDomain, ResolveNext, PopGap, LogGap, FlushTick, SelectRipe, SettleGap
  <2>3. \A u \in Callers \ {t} : bpc'[u] = bpc[u]
    BY <1>3 DEF ListDomain, ResolveNext, PopGap, LogGap, FlushTick, SelectRipe, SettleGap,
       HintInv, ThreadTypes
  <2> QED
    BY <1>0, <2>1, <2>2, <2>3
<1>4. ASSUME NEW t \in Callers, NEW h \in Hints, AbsorbHint(t, h) PROVE HintInv'
  <2>1. GapOf[h] \in Gaps
    BY BlindspotAssumption DEF BlindspotAssumption
  <2>2. /\ bpc[t] = "idle" /\ bpc' = [bpc EXCEPT ![t] = "select"]
        /\ UNCHANGED <<taken, learned, spoilt, strong>>
    BY <1>4 DEF AbsorbHint, gapState
  <2>3. \A g \in Gaps : pool[g] \subseteq pool'[g]
    BY <1>4 DEF AbsorbHint, HintInv, TableTypes
  <2>4. h \in overflow' \/ h \in pool'[GapOf[h]]
    BY <1>4, <2>1 DEF AbsorbHint, HintInv, TableTypes
  <2>5. absorbed' = absorbed \cup {h} /\ overflow \subseteq overflow'
    BY <1>4 DEF AbsorbHint
  <2>8. \A k \in absorbed : Used(k) => Used(k)'
    BY <2>2, UsedStays
  <2>6. HintsKept'
    BY <2>1, <2>2, <2>3, <2>4, <2>5, <2>8 DEF HintInv, HintsKept
  <2>7. \A u \in Callers : bpc'[u] # "learn" => taken'[u] = {}
    BY <2>2 DEF HintInv, ThreadTypes
  <2> QED
    BY <1>t, <2>6, <2>7 DEF HintInv
<1>5. ASSUME NEW t \in Callers, PopPool(t) PROVE HintInv'
  <2>1. CASE /\ todo[t] = {} /\ BsGoto(t, "idle")
             /\ UNCHANGED <<todo, inHand, pool, ripe, taken>>
    <3>1. /\ bpc[t] = "flush" /\ bpc' = [bpc EXCEPT ![t] = "idle"]
          /\ UNCHANGED <<pool, taken, absorbed, learned, spoilt, overflow, strong>>
      BY <1>5, <2>1 DEF PopPool, gapState
    <3> QED
      BY <1>0, <3>1 DEF HintInv, ThreadTypes
  <2>2. ASSUME NEW g \in todo[t],
               /\ todo' = [todo EXCEPT ![t] = @ \ {g}]
               /\ inHand' = [inHand EXCEPT ![t] = g]
               /\ taken' = [taken EXCEPT ![t] = pool[g]]
               /\ pool' = [pool EXCEPT ![g] = {}] /\ ripe' = ripe \ {g}
               /\ BsGoto(t, IF pool[g] = {} THEN "flush" ELSE "learn")
        PROVE  HintInv'
    <3>1. /\ g \in Gaps /\ taken[t] = {}
          /\ UNCHANGED <<absorbed, learned, spoilt, strong, overflow>>
      BY <1>5 DEF PopPool, HintInv, ThreadTypes, gapState
    <3>2. /\ taken'[t] = pool[g]
          /\ \A u \in Callers \ {t} : taken'[u] = taken[u]
          /\ \A f \in Gaps \ {g} : pool'[f] = pool[f]
      BY <2>2, <3>1 DEF HintInv, ThreadTypes, TableTypes
    <3>3. HintsKept'
      <4> SUFFICES ASSUME NEW h \in absorbed', ~Used(h)', h \notin overflow'
                   PROVE  \/ \E f \in Gaps : h \in pool'[f]
                          \/ \E u \in Callers : h \in taken'[u]
        BY DEF HintsKept
      <4>2. ~Used(h)
        BY <3>1, UsedStays
      <4>1. (\E f \in Gaps : h \in pool[f]) \/ (\E u \in Callers : h \in taken[u])
        BY <3>1, <4>2 DEF HintInv, HintsKept
      <4> QED
        BY <3>1, <3>2, <4>1
    <3>4. \A u \in Callers : bpc'[u] # "learn" => taken'[u] = {}
      <4>1. \A u \in Callers : bpc'[u] = IF u = t THEN IF pool[g] = {} THEN "flush" ELSE "learn"
                                         ELSE bpc[u]
        BY <2>2 DEF HintInv, ThreadTypes
      <4> QED
        BY <3>2, <4>1 DEF HintInv
    <3> QED
      BY <1>t, <3>3, <3>4 DEF HintInv
  <2> QED
    BY <1>5, <2>1, <2>2 DEF PopPool
<1>6. ASSUME NEW t \in Callers, LearnHints(t) PROVE HintInv'
  <2>1. /\ taken' = [taken EXCEPT ![t] = {}]
        /\ bpc' = [bpc EXCEPT ![t] = "settle"] /\ UNCHANGED <<pool, absorbed, overflow>>
    BY <1>6 DEF LearnHints
  <2>4. PICK failed \in SUBSET taken[t], weak \in SUBSET taken[t] : TakeIn(t, failed, weak)
    BY <1>6 DEF LearnHints
  <2>2. taken'[t] = {} /\ \A u \in Callers \ {t} : taken'[u] = taken[u] /\ bpc'[u] = bpc[u]
    BY <2>1 DEF HintInv, ThreadTypes
  <2>3. HintsKept'
    <3> SUFFICES ASSUME NEW h \in absorbed', ~Used(h)', h \notin overflow'
                 PROVE  \/ \E f \in Gaps : h \in pool'[f]
                        \/ \E u \in Callers : h \in taken'[u]
      BY DEF HintsKept
    <3>1. ~Used(h)
      BY <2>4, UsedStays DEF TakeIn
    <3>2. (\E f \in Gaps : h \in pool[f]) \/ (\E u \in Callers : h \in taken[u])
      BY <2>1, <3>1 DEF HintInv, HintsKept
    <3>3. h \notin taken[t]
      BY <2>4 DEF TakeIn, Used
    <3> QED
      BY <2>1, <2>2, <3>2, <3>3
  <2> QED
    BY <1>t, <2>2, <2>3 DEF HintInv
<1>7. ASSUME NEW g \in Gaps, Ripen(g) PROVE HintInv'
  BY <1>7, <1>0 DEF Ripen, gapState
<1>8. CASE UNCHANGED bsVars
  BY <1>8, <1>0 DEF bsVars
<1> QED
  BY <1>1, <1>2, <1>3, <1>4, <1>5, <1>6, <1>7, <1>8 DEF BlindspotNext

\* An absorbed hint is never lost between the pool, the thread that flushes it and what it is
\* used for (a call of the learner, or its domain's strength), unless its pool was full.
THEOREM HintsAreKept == BlindspotSpec => []NoHintLost
<1>1. BlindspotInit => HintInv
  <2> SUFFICES ASSUME BlindspotInit PROVE HintInv
    OBVIOUS
  <2> QED
    BY BlindspotTypesInit DEF BlindspotInit, HintInv, HintsKept
<1>2. HintInv => NoHintLost
  BY DEF HintInv, HintsKept, NoHintLost
<1> QED
  BY <1>1, <1>2, HintInvNext, PTL DEF BlindspotSpec

\* 1 while a gap is open.
Open(g) == IF g \in activeGaps THEN 1 ELSE 0
\* The threads that have popped a gap and not yet logged it.
Logging(g) == {t \in Callers : bpc[t] = "log" /\ inHand[t] = g}

\* Every registration is accounted for.
CountInv ==
    /\ ThreadTypes /\ TableTypes
    /\ \A g \in Gaps : known[g] = solved[g] + Open(g) + Cardinality(Logging(g))

LEMMA LoggingFinite ==
  ASSUME NEW g PROVE IsFiniteSet(Logging(g)) /\ Cardinality(Logging(g)) \in Nat
<1>1. Logging(g) \subseteq Callers
  BY DEF Logging
<1>2. IsFiniteSet(Logging(g))
  BY <1>1, BlindspotAssumption, FS_Subset DEF BlindspotAssumption
<1> QED
  BY <1>2, FS_CardinalityType

LEMMA CountInvNext == CountInv /\ [BlindspotNext]_bsVars => CountInv'
<1> SUFFICES ASSUME CountInv, [BlindspotNext]_bsVars PROVE CountInv'
  OBVIOUS
<1>t. ThreadTypes' /\ TableTypes'
  BY BlindspotTypesNext DEF CountInv
<1> USE DEF BsGoto, Section, gapState
\* steps of a thread that logs nothing, before or after
<1>0. ASSUME NEW t \in Callers, bpc[t] # "log", bpc'[t] # "log",
             \A u \in Callers \ {t} : bpc'[u] = bpc[u] /\ inHand'[u] = inHand[u],
             UNCHANGED <<activeGaps, known, solved>>
      PROVE  CountInv'
  <2>1. \A g \in Gaps : Logging(g)' = Logging(g)
    BY <1>0 DEF Logging
  <2>2. \A g \in Gaps : Open(g)' = Open(g)
    BY <1>0 DEF Open
  <2> QED
    BY <1>0, <1>t, <2>1, <2>2 DEF CountInv
<1>1. ASSUME NEW t \in Callers, NEW g \in Gaps, RegisterGap(t, g) PROVE CountInv'
  <2>1. \A h \in Gaps : Logging(h)' = Logging(h)
    BY <1>1 DEF RegisterGap, Logging
  <2>2. \A h \in Gaps : /\ known'[h] = IF h = g THEN known[h] + 1 ELSE known[h]
                        /\ solved'[h] = solved[h]
                        /\ Open(h)' = IF h = g THEN Open(h) + 1 ELSE Open(h)
    BY <1>1 DEF RegisterGap, Open, CountInv, TableTypes
  <2>3. \A h \in Gaps : /\ Cardinality(Logging(h)) \in Nat
                        /\ known[h] \in Nat /\ solved[h] \in Nat /\ Open(h) \in Nat
    BY LoggingFinite DEF CountInv, TableTypes, Open
  <2>4. \A h \in Gaps : known'[h] = solved'[h] + Open(h)' + Cardinality(Logging(h))
    BY <2>2, <2>3 DEF CountInv
  <2> QED
    BY <1>t, <2>1, <2>4 DEF CountInv
<1>2. ASSUME NEW t \in Callers, NEW d \in Domains, MarkProbe(t, d) \/ ListDomain(t, d)
      PROVE  CountInv'
  <2>1. /\ bpc[t] # "log" /\ bpc'[t] # "log"
        /\ \A u \in Callers \ {t} : bpc'[u] = bpc[u] /\ inHand'[u] = inHand[u]
        /\ UNCHANGED <<activeGaps, known, solved>>
    BY <1>2 DEF MarkProbe, ListDomain, CountInv, ThreadTypes
  <2> QED
    BY <1>0, <2>1
<1>3. ASSUME NEW t \in Callers, NEW h \in Hints, AbsorbHint(t, h) PROVE CountInv'
  <2>1. /\ bpc[t] = "idle" /\ bpc' = [bpc EXCEPT ![t] = "select"]
        /\ UNCHANGED <<inHand, activeGaps, known, solved>>
    BY <1>3 DEF AbsorbHint
  <2> QED
    BY <1>0, <2>1 DEF CountInv, ThreadTypes
<1>4. ASSUME NEW t \in Callers,
             ResolveNext(t) \/ FlushTick(t) \/ SelectRipe(t) \/ PopPool(t) \/ SettleGap(t)
               \/ LearnHints(t)
      PROVE  CountInv'
  <2>1. /\ bpc[t] # "log" /\ bpc'[t] # "log"
        /\ \A u \in Callers \ {t} : bpc'[u] = bpc[u] /\ inHand'[u] = inHand[u]
    BY <1>4 DEF ResolveNext, FlushTick, SelectRipe, PopPool, SettleGap, LearnHints, CountInv,
       ThreadTypes
  <2>2. UNCHANGED <<activeGaps, known, solved>>
    BY <1>4 DEF ResolveNext, FlushTick, SelectRipe, PopPool, SettleGap, LearnHints
  <2> QED
    BY <1>0, <2>1, <2>2
<1>5. ASSUME NEW t \in Callers, PopGap(t) PROVE CountInv'
  <2>a. /\ bpc[t] = "pop" /\ activeGaps' = activeGaps \ {inHand[t]}
        /\ bpc' = [bpc EXCEPT ![t] = IF inHand[t] \in activeGaps THEN "log" ELSE back[t]]
        /\ UNCHANGED <<inHand, known, solved>> /\ back[t] # "log" /\ inHand[t] \in Gaps
    BY <1>5 DEF PopGap, CountInv, ThreadTypes
  <2>1. CASE inHand[t] \notin activeGaps
    <3>1. activeGaps' = activeGaps /\ bpc'[t] # "log"
      BY <2>a, <2>1 DEF CountInv, ThreadTypes
    <3> QED
      BY <1>0, <2>a, <3>1 DEF CountInv, ThreadTypes
  <2>2. CASE inHand[t] \in activeGaps
    <3>g. PICK g \in Gaps : g = inHand[t]
      BY <2>a
    <3>1. Logging(g)' = Logging(g) \cup {t} /\ t \notin Logging(g)
      BY <2>a, <2>2, <3>g DEF Logging, CountInv, ThreadTypes
    <3>2. Cardinality(Logging(g)') = Cardinality(Logging(g)) + 1
      BY <3>1, LoggingFinite, FS_AddElement
    <3>3. \A h \in Gaps \ {g} : Logging(h)' = Logging(h)
      BY <2>a, <2>2, <3>g DEF Logging, CountInv, ThreadTypes
    <3>4. /\ Open(g) = 1 /\ Open(g)' = 0
          /\ \A h \in Gaps \ {g} : Open(h)' = Open(h)
      BY <2>a, <2>2, <3>g DEF Open
    <3>5. \A h \in Gaps : Cardinality(Logging(h)) \in Nat
      BY LoggingFinite
    <3>6. \A h \in Gaps : known'[h] = solved'[h] + Open(h)' + Cardinality(Logging(h)')
      <4>1. ASSUME NEW h \in Gaps \ {g}
            PROVE  known'[h] = solved'[h] + Open(h)' + Cardinality(Logging(h)')
        BY <2>a, <3>3, <3>4, <4>1 DEF CountInv
      <4>2. known'[g] = solved'[g] + Open(g)' + Cardinality(Logging(g)')
        <5>1. /\ known'[g] = known[g] /\ solved'[g] = solved[g] /\ g \in Gaps
              /\ known[g] = solved[g] + Open(g) + Cardinality(Logging(g))
              /\ solved[g] \in Nat /\ Cardinality(Logging(g)) \in Nat
          BY <2>a, <3>5 DEF CountInv, TableTypes
        <5> QED
          BY <5>1, <3>2, <3>4
      <4> QED
        BY <4>1, <4>2
    <3> QED
      BY <1>t, <3>6 DEF CountInv
  <2> QED
    BY <2>1, <2>2
<1>6. ASSUME NEW t \in Callers, LogGap(t) PROVE CountInv'
  <2>g. PICK g \in Gaps : g = inHand[t]
    BY DEF CountInv, ThreadTypes
  <2>a. /\ bpc[t] = "log" /\ bpc' = [bpc EXCEPT ![t] = back[t]]
        /\ solved' = [solved EXCEPT ![g] = @ + 1]
        /\ UNCHANGED <<inHand, known, activeGaps>> /\ back[t] # "log"
    BY <1>6, <2>g DEF LogGap, CountInv, ThreadTypes
  <2>1. Logging(g)' = Logging(g) \ {t} /\ t \in Logging(g)
    BY <2>a, <2>g DEF Logging, CountInv, ThreadTypes
  <2>2. Cardinality(Logging(g)') = Cardinality(Logging(g)) - 1
    BY <2>1, LoggingFinite, FS_RemoveElement
  <2>3. \A h \in Gaps \ {g} : Logging(h)' = Logging(h) /\ solved'[h] = solved[h]
    BY <2>a, <2>g DEF Logging, CountInv, ThreadTypes, TableTypes
  <2>4. \A h \in Gaps : Open(h)' = Open(h) /\ known'[h] = known[h]
    BY <2>a DEF Open
  <2>5. \A h \in Gaps : known'[h] = solved'[h] + Open(h)' + Cardinality(Logging(h)')
    <3>1. ASSUME NEW h \in Gaps \ {g}
          PROVE  known'[h] = solved'[h] + Open(h)' + Cardinality(Logging(h)')
      BY <2>3, <2>4, <3>1 DEF CountInv
    <3>2. known'[g] = solved'[g] + Open(g)' + Cardinality(Logging(g)')
      <4>1. /\ solved'[g] = solved[g] + 1
            /\ known[g] = solved[g] + Open(g) + Cardinality(Logging(g))
            /\ solved[g] \in Nat /\ Cardinality(Logging(g)) \in Nat /\ Open(g) \in Nat
        BY <2>a, LoggingFinite DEF CountInv, TableTypes, Open
      <4> QED
        BY <4>1, <2>2, <2>4
    <3> QED
      BY <3>1, <3>2
  <2> QED
    BY <1>t, <2>5 DEF CountInv
<1>7. CASE (\E g \in Gaps : Ripen(g)) \/ UNCHANGED bsVars
  <2>1. UNCHANGED <<bpc, inHand, activeGaps, known, solved>>
    BY <1>7 DEF Ripen, bsVars
  <2>2. \A g \in Gaps : Logging(g)' = Logging(g) /\ Open(g)' = Open(g)
    BY <2>1 DEF Logging, Open
  <2> QED
    BY <1>t, <2>1, <2>2 DEF CountInv
<1> QED
  BY <1>1, <1>2, <1>3, <1>4, <1>5, <1>6, <1>7 DEF BlindspotNext

\* Every reported gap is open, about to be logged, or in the history exactly once,
\* although threads resolve the gaps of a domain from lists they took earlier.
THEOREM GapsSolvedOnce == BlindspotSpec => []SolvedOnce
<1>1. BlindspotInit => CountInv
  <2> SUFFICES ASSUME BlindspotInit PROVE CountInv
    OBVIOUS
  <2>1. \A g \in Gaps : Logging(g) = {} /\ Open(g) = 0
    BY DEF BlindspotInit, Logging, Open
  <2>2. \A g \in Gaps : known[g] = 0 /\ solved[g] = 0
    BY DEF BlindspotInit
  <2> QED
    BY <2>1, <2>2, BlindspotTypesInit, FS_EmptySet DEF CountInv
<1>2. CountInv => SolvedOnce
  BY DEF CountInv, SolvedOnce, Open, Logging
<1> QED
  BY <1>1, <1>2, CountInvNext, PTL DEF BlindspotSpec

-----------------------------------------------------------------------------
(* The session chain.                                                      *)

\* Whoever is at work has a milestone left to mint.
MintInv == \A a \in Minters : scpc[a] # "idle" => mintedUpTo[a] < reached[a]

LEMMA RowTypes ==
  ASSUME ChainTypeOK
  PROVE  /\ Len(chainBlocks) \in Nat
         /\ \A i \in 1..Len(chainBlocks) : chainBlocks[i].prev \in Nat
<1>1. PICK R : R = [by : Minters, milestone : 1..Milestones, prev : Nat]
  OBVIOUS
<1>b. chainBlocks \in Seq(R)
  BY <1>1 DEF ChainTypeOK
<1>2. Len(chainBlocks) \in Nat /\ \A i \in 1..Len(chainBlocks) : chainBlocks[i] \in R
  BY <1>b
<1>3. \A r \in R : r.prev \in Nat
  BY <1>1
<1> QED
  BY <1>2, <1>3

LEMMA ChainTypesNext == ChainTypeOK /\ MintInv /\ [ChainNext]_scVars => (ChainTypeOK /\ MintInv)'
<1> SUFFICES ASSUME ChainTypeOK, MintInv, [ChainNext]_scVars PROVE ChainTypeOK' /\ MintInv'
  OBVIOUS
<1> USE ChainAssumption DEF ChainAssumption, ChainTypeOK, MintInv
<1>1. CASE UNCHANGED scVars
  BY <1>1 DEF scVars
<1>2. ASSUME NEW a \in Minters, NEW n \in 1..Milestones, Mint(a, n) PROVE ChainTypeOK' /\ MintInv'
  BY <1>2 DEF Mint
<1>3. ASSUME NEW a \in Minters, ReadTip(a) PROVE ChainTypeOK' /\ MintInv'
  BY <1>3 DEF ReadTip
<1>4. ASSUME NEW a \in Minters, SavesBlock(a) PROVE ChainTypeOK' /\ MintInv'
  <2>1. mintedUpTo[a] + 1 \in 1..Milestones
    <3>1. mintedUpTo[a] \in 0..Milestones /\ reached[a] \in 0..Milestones
      OBVIOUS
    <3>2. mintedUpTo[a] < reached[a]
      BY <1>4 DEF SavesBlock
    <3> QED
      BY <3>1, <3>2
  <2>2. chainBlocks' \in Seq([by : Minters, milestone : 1..Milestones, prev : Nat])
           /\ Len(chainBlocks') <= MaxChain
    <3>1. PICK R : R = [by : Minters, milestone : 1..Milestones, prev : Nat]
      OBVIOUS
    <3>2. PICK row : row = [by |-> a, milestone |-> mintedUpTo[a] + 1, prev |-> tipSeen[a]]
      OBVIOUS
    <3>3. row \in R
      BY <2>1, <3>1, <3>2
    <3>4. chainBlocks \in Seq(R) /\ chainBlocks' = Append(chainBlocks, row)
             /\ Len(chainBlocks) < MaxChain
      BY <1>4, <3>1, <3>2 DEF SavesBlock
    <3>5. chainBlocks' \in Seq(R) /\ Len(chainBlocks') = Len(chainBlocks) + 1
      BY <3>3, <3>4
    <3> QED
      BY <3>1, <3>4, <3>5
  <2>3. mintedUpTo' \in [Minters -> 0..Milestones] /\ reached' = reached /\ tipSeen' = tipSeen
    BY <1>4, <2>1 DEF SavesBlock
  <2>4. scpc' \in [Minters -> {"idle", "tip", "save"}]
    BY <1>4 DEF SavesBlock, AfterSave
  <2>5. MintInv'
    BY <1>4, <2>1 DEF SavesBlock, AfterSave
  <2> QED
    BY <2>2, <2>3, <2>4, <2>5
<1>5. ASSUME NEW a \in Minters, SaveFails(a) PROVE ChainTypeOK' /\ MintInv'
  BY <1>5 DEF SaveFails
<1> QED
  BY <1>1, <1>2, <1>3, <1>4, <1>5 DEF ChainNext

\* The table of blocks and the state of every session keep their types
\* (modules/vault_chain.py).
THEOREM ChainTypeCorrect == ChainSpec => []ChainTypeOK
<1>1. ChainInit => ChainTypeOK /\ MintInv
  BY ChainAssumption DEF ChainAssumption, ChainInit, ChainTypeOK, MintInv
<1> QED
  BY <1>1, ChainTypesNext, PTL DEF ChainSpec

\* A block names an earlier one, and its session has minted none in between; nor has one that
\* has read the tip and not saved yet.
LinkInv ==
    /\ ChainTypeOK /\ MintInv
    /\ \A i \in 1..Len(chainBlocks) :
         /\ chainBlocks[i].prev < i
         /\ \A j \in 1..Len(chainBlocks) :
              chainBlocks[i].prev < j /\ j < i => chainBlocks[j].by # chainBlocks[i].by
    /\ \A a \in Minters : scpc[a] = "save" =>
         /\ tipSeen[a] <= Len(chainBlocks)
         /\ \A j \in 1..Len(chainBlocks) : tipSeen[a] < j => chainBlocks[j].by # a

LEMMA LinkInvNext == LinkInv /\ [ChainNext]_scVars => LinkInv'
<1> SUFFICES ASSUME LinkInv, [ChainNext]_scVars PROVE LinkInv'
  OBVIOUS
<1>0. ChainTypeOK' /\ MintInv'
  BY ChainTypesNext DEF LinkInv
<1> USE DEF LinkInv
<1>1. CASE UNCHANGED scVars
  BY <1>0, <1>1 DEF scVars, ChainTypeOK
<1>2. ASSUME NEW a \in Minters, NEW n \in 1..Milestones, Mint(a, n) PROVE LinkInv'
  BY <1>0, <1>2 DEF Mint, ChainTypeOK
<1>3. ASSUME NEW a \in Minters, ReadTip(a) PROVE LinkInv'
  <2>1. /\ chainBlocks' = chainBlocks
        /\ tipSeen' = [tipSeen EXCEPT ![a] = Len(chainBlocks)] /\ tipSeen \in [Minters -> Nat]
        /\ \A b \in Minters \ {a} : scpc'[b] = scpc[b]
    BY <1>3 DEF ReadTip, ChainTypeOK
  <2>2. Len(chainBlocks) \in Nat
    BY RowTypes
  <2>3. ASSUME NEW b \in Minters, scpc'[b] = "save"
        PROVE  /\ tipSeen'[b] <= Len(chainBlocks)
               /\ \A j \in 1..Len(chainBlocks) : tipSeen'[b] < j => chainBlocks[j].by # b
    <3>1. CASE b = a
      BY <2>1, <2>2, <3>1
    <3>2. CASE b # a
      BY <2>1, <2>3, <3>2
    <3> QED
      BY <3>1, <3>2
  <2> QED
    BY <1>0, <2>1, <2>3
<1>4. ASSUME NEW a \in Minters, SavesBlock(a) PROVE LinkInv'
  <2> DEFINE n == Len(chainBlocks)
  <2>1. n \in Nat /\ Len(chainBlocks') = n + 1
    BY <1>4 DEF SavesBlock, ChainTypeOK
  <2>2. \A i \in 1..n : chainBlocks'[i] = chainBlocks[i]
    BY <1>4 DEF SavesBlock, ChainTypeOK
  <2>3. chainBlocks'[n + 1].by = a /\ chainBlocks'[n + 1].prev = tipSeen[a]
    BY <1>4 DEF SavesBlock, ChainTypeOK
  <2>4. scpc[a] = "save" /\ tipSeen' = tipSeen /\ tipSeen \in [Minters -> Nat]
    BY <1>4 DEF SavesBlock, ChainTypeOK
  <2>5. \A b \in Minters : scpc'[b] = "save" => b # a /\ scpc[b] = "save"
    BY <1>4 DEF SavesBlock, AfterSave, ChainTypeOK
  <2>6. \A i \in 1..n : chainBlocks[i].prev \in Nat
    BY RowTypes
  <2>7. ASSUME NEW i \in 1..(n + 1)
        PROVE  /\ chainBlocks'[i].prev < i
               /\ \A j \in 1..(n + 1) : chainBlocks'[i].prev < j /\ j < i
                    => chainBlocks'[j].by # chainBlocks'[i].by
    <3>1. CASE i = n + 1
      BY <3>1, <2>1, <2>2, <2>3, <2>4
    <3>2. CASE i \in 1..n
      <4>1. chainBlocks'[i] = chainBlocks[i] /\ chainBlocks[i].prev < i
        BY <3>2, <2>2
      <4>2. ASSUME NEW j \in 1..(n + 1), chainBlocks[i].prev < j, j < i
            PROVE  chainBlocks'[j].by # chainBlocks[i].by
        <5>1. j \in 1..n
          BY <3>2, <4>2, <2>1
        <5> QED
          BY <5>1, <4>2, <3>2, <2>2
      <4> QED
        BY <4>1, <4>2
    <3> QED
      BY <3>1, <3>2, <2>1
  <2>8. ASSUME NEW b \in Minters, scpc'[b] = "save"
        PROVE  /\ tipSeen'[b] <= n + 1
               /\ \A j \in 1..(n + 1) : tipSeen'[b] < j => chainBlocks'[j].by # b
    BY <2>8, <2>1, <2>2, <2>3, <2>4, <2>5
  <2> QED
    BY <1>0, <2>1, <2>7, <2>8
<1>5. ASSUME NEW a \in Minters, SaveFails(a) PROVE LinkInv'
  BY <1>0, <1>5 DEF SaveFails, ChainTypeOK
<1> QED
  BY <1>1, <1>2, <1>3, <1>4, <1>5 DEF ChainNext

\* Where no two sessions took the same tip, every block names the row before it.
LEMMA UnforkedChain ==
  ASSUME LinkInv, ~Forked
  PROVE  \A i \in 1..Len(chainBlocks) : chainBlocks[i].prev = i - 1
<1> DEFINE Odd == {i \in 1..Len(chainBlocks) : chainBlocks[i].prev # i - 1}
<1>1. SUFFICES ASSUME Odd # {} PROVE FALSE
  OBVIOUS
<1>t. Len(chainBlocks) \in Nat /\ \A i \in 1..Len(chainBlocks) : chainBlocks[i].prev \in Nat
  BY RowTypes DEF LinkInv
<1>2. PICK i \in Odd : \A k \in Odd : i <= k
  <2>1. Odd \in SUBSET Nat
    OBVIOUS
  <2> HIDE DEF Odd
  <2> QED
    BY <1>1, <2>1, LeastNumber
<1>3. i \in 1..Len(chainBlocks) /\ chainBlocks[i].prev < i - 1
  BY <1>t DEF LinkInv
<1>4. PICK j \in 1..Len(chainBlocks) : j = chainBlocks[i].prev + 1 /\ j < i
  BY <1>t, <1>3
<1>5. chainBlocks[j].prev = chainBlocks[i].prev
  <2>1. j \notin Odd
    BY <1>2, <1>4
  <2>2. chainBlocks[j].prev = j - 1
    BY <2>1
  <2>3. chainBlocks[i].prev \in Nat
    BY <1>t, <1>3
  <2> QED
    BY <2>2, <2>3, <1>4
<1>6. chainBlocks[j].by # chainBlocks[i].by
  BY <1>t, <1>3, <1>4 DEF LinkInv
<1> QED
  BY <1>3, <1>4, <1>5, <1>6 DEF Forked

\* verify_chain() reports no block that nobody has touched, as long as the table holds the
\* blocks of one user, no more than its limit, and the chain has not forked.
THEOREM HonestBlocksVerify == ChainSpec => []HonestChainVerifies
<1>1. ChainInit => LinkInv
  BY ChainAssumption DEF ChainAssumption, ChainInit, LinkInv, ChainTypeOK, MintInv
<1>2. LinkInv => HonestChainVerifies
  <2> SUFFICES ASSUME LinkInv, NEW a \in Minters, Verified(a) = 1..Len(chainBlocks), ~Forked,
                      NEW i \in 1..Len(chainBlocks)
               PROVE  ~Tampered(a, i)
    BY DEF HonestChainVerifies
  <2>1. chainBlocks[i].prev = i - 1 /\ Len(chainBlocks) \in Nat
    BY UnforkedChain, RowTypes DEF LinkInv
  <2> DEFINE earlier == {j \in Verified(a) : j < i}
  <2>2. earlier = 1..(i - 1)
    BY <2>1
  <2>3. CASE i = 1
    BY <2>1, <2>2, <2>3 DEF Tampered, Predecessor
  <2>4. CASE i # 1
    <3>1. i - 1 \in earlier /\ \A k \in earlier : k <= i - 1
      BY <2>1, <2>2, <2>4
    <3>2. ASSUME NEW j \in earlier, \A k \in earlier : k <= j PROVE j = i - 1
      <4>1. j \in Int /\ i \in Int /\ j < i
        BY <2>1, <2>2
      <4>2. i - 1 <= j
        BY <3>1, <3>2
      <4> QED
        BY <4>1, <4>2
    <3>3. Predecessor(a, i) = i - 1
      BY <3>1, <3>2 DEF Predecessor
    <3> QED
      BY <2>1, <3>3 DEF Tampered
  <2> QED
    BY <2>3, <2>4
<1> QED
  BY <1>1, <1>2, LinkInvNext, PTL DEF ChainSpec

-----------------------------------------------------------------------------
(* The pool of anchors.                                                    *)

Pseudonyms(S) == {PseudonymOf[b] : b \in S}
Records == Seq(Pseudonyms(Bundles))
\* A record that has dropped nobody and has nobody twice.
Faithful(validators, S) ==
  /\ validators \in Records
  /\ ToSet(validators) = Pseudonyms(S)
  /\ Len(validators) = Cardinality(Pseudonyms(S))

LEMMA FewPseudonyms ==
  ASSUME NEW S \in SUBSET Bundles
  PROVE  /\ IsFiniteSet(Pseudonyms(S)) 
         /\ Cardinality(Pseudonyms(S)) \in Nat
         /\ NothingDropped => Cardinality(Pseudonyms(S)) <= MaxValidators
<1>1. ASSUME NEW T \in SUBSET Bundles PROVE IsFiniteSet(Pseudonyms(T))
  <2> DEFINE f == [b \in T |-> PseudonymOf[b]]
  <2>1. IsFiniteSet(T)
    BY PoolAssumption, FS_Subset
  <2>2. f \in Surjection(T, Pseudonyms(T))
    BY DEF Surjection, Pseudonyms
  <2> HIDE DEF f
  <2> QED
    BY <2>1, <2>2, FS_Surjection
<1>2. Pseudonyms(S) \in SUBSET Pseudonyms(Bundles)
  BY DEF Pseudonyms
<1>3. IsFiniteSet(Pseudonyms(Bundles)) /\ IsFiniteSet(Pseudonyms(S))
  BY <1>1
<1>4. Cardinality(Pseudonyms(S)) <= Cardinality(Pseudonyms(Bundles))
  BY <1>2, <1>3, FS_Subset
<1>5. Cardinality(Pseudonyms(S)) \in Nat /\ Cardinality(Pseudonyms(Bundles)) \in Nat
  BY <1>3, FS_CardinalityType
<1>6. NothingDropped => Cardinality(Pseudonyms(Bundles)) <= MaxValidators
  BY DEF NothingDropped, Pseudonyms
<1> QED
  BY <1>3, <1>4, <1>5, <1>6, PoolAssumption

LEMMA MergeType ==
  ASSUME NEW v \in Records, NEW b \in Bundles
  PROVE  Merge(v, b) \in Records
<1> DEFINE more == IF PseudonymOf[b] \in ToSet(v) THEN v ELSE Append(v, PseudonymOf[b])
<1>1. PseudonymOf[b] \in Pseudonyms(Bundles)
  BY DEF Pseudonyms
<1>2. more \in Records
  BY <1>1 DEF Records
<1>3. Len(more) > MaxValidators => Tail(more) \in Records
  <2> HIDE DEF more
  <2> SUFFICES ASSUME Len(more) > MaxValidators PROVE Tail(more) \in Records
    OBVIOUS
  <2>1. more # <<>>
    BY PoolAssumption
  <2> QED
    BY <1>2, <2>1 DEF Records
<1>4. Merge(v, b) = (IF Len(more) <= MaxValidators THEN more ELSE Tail(more))
  BY DEF Merge
<1>5. Len(more) \in Nat
  <2> HIDE DEF more
  <2> QED
    BY <1>2 DEF Records
<1> HIDE DEF more
<1> QED
  BY <1>2, <1>3, <1>4, <1>5, PoolAssumption

LEMMA MergeFaithful ==
  ASSUME NothingDropped, NEW S \in SUBSET Bundles, NEW b \in Bundles,
         NEW v, Faithful(v, S)
  PROVE  Faithful(Merge(v, b), S \cup {b})
<1> DEFINE x == PseudonymOf[b]
           more == IF x \in ToSet(v) THEN v ELSE Append(v, x)
<1>1. /\ Pseudonyms(S \cup {b}) = Pseudonyms(S) \cup {x}
      /\ x \in Pseudonyms(Bundles)
  BY DEF Pseudonyms
<1>2. /\ IsFiniteSet(Pseudonyms(S)) /\ Cardinality(Pseudonyms(S \cup {b})) <= MaxValidators
      /\ Cardinality(Pseudonyms(S \cup {b})) \in Nat
  <2>1. S \cup {b} \in SUBSET Bundles
    OBVIOUS
  <2> QED
    BY <2>1, FewPseudonyms
<1>3. Cardinality(Pseudonyms(S) \cup {x}) =
        IF x \in Pseudonyms(S) THEN Cardinality(Pseudonyms(S)) ELSE Cardinality(Pseudonyms(S)) + 1
  BY <1>2, FS_AddElement
<1>4. Faithful(more, S \cup {b})
  <2>1. CASE x \in ToSet(v)
    <3>1. Pseudonyms(S \cup {b}) = Pseudonyms(S)
      BY <1>1, <2>1 DEF Faithful
    <3> QED
      BY <2>1, <3>1 DEF Faithful
  <2>2. CASE x \notin ToSet(v)
    <3>1. v \in Records
      BY DEF Faithful
    <3>2. /\ Append(v, x) \in Records /\ Len(Append(v, x)) = Len(v) + 1 /\ Len(v) \in Nat
          /\ \A i \in 1..Len(v) : Append(v, x)[i] = v[i]
          /\ Append(v, x)[Len(v) + 1] = x
          /\ DOMAIN v = 1..Len(v) /\ DOMAIN Append(v, x) = 1..(Len(v) + 1)
      BY <1>1, <3>1 DEF Records
    <3>3. ToSet(Append(v, x)) = ToSet(v) \cup {x}
      <4>1. \A i \in 1..(Len(v) + 1) : i \in 1..Len(v) \/ i = Len(v) + 1
        BY <3>2
      <4>2. 1..Len(v) \subseteq 1..(Len(v) + 1) /\ Len(v) + 1 \in 1..(Len(v) + 1)
        BY <3>2
      <4> HIDE DEF x
      <4> QED
        BY <3>2, <4>1, <4>2 DEF ToSet
    <3> QED
      BY <2>2, <3>2, <3>3, <1>1, <1>3 DEF Faithful
  <2> QED
    BY <2>1, <2>2
<1>5. Merge(v, b) = (IF Len(more) <= MaxValidators THEN more ELSE Tail(more))
  BY DEF Merge
<1>6. Len(more) <= MaxValidators
  <2> HIDE DEF more
  <2> QED
    BY <1>2, <1>4 DEF Faithful
<1> HIDE DEF more
<1> QED
  BY <1>4, <1>5, <1>6

\* As long as nothing is dropped, the record made from some bundles has the validators of
\* all of them, and nobody else (merge_public_ttd_anchor_record).
THEOREM RecordIsFaithful ==
  ASSUME NothingDropped, NEW S \in SUBSET Bundles
  PROVE  ToSet(Validators(S)) = Pseudonyms(S)
<1> DEFINE n == Cardinality(Bundles)
           F(f) == [s \in SUBSET S |-> IF s = {} THEN <<>> ELSE Merge(f[s \ {Max(s)}], Max(s))]
           iter == CHOOSE f : f = F(f)
           g == [p \in Records \X (1..n) |-> Merge(p[1], p[2])]
<1>1. n \in Nat /\ Bundles = 1..n
  BY PoolAssumption, FS_CardinalityType
<1>2. Validators(S) = iter[S]
  BY Zenon DEF Validators, MapThenFoldSet
<1>3. g \in [Records \X (1..n) -> Records]
  BY <1>1, MergeType
<1>x. <<>> \in Records
  BY DEF Records
<1>4. PICK f : IsFold(f, n, Records, <<>>, g)
  <2> HIDE DEF g, n
  <2> QED
    BY <1>1, <1>3, <1>x, FoldExists
<1>5. /\ f[{}] = <<>>
      /\ \A s \in SUBSET (1..n) : f[s] \in Records
      /\ \A s \in SUBSET (1..n) : s # {} => f[s] = g[<<f[s \ {Max(s)}], Max(s)>>]
  BY <1>4 DEF IsFold
<1>6. \A s \in SUBSET S : s # {} => Max(s) \in s /\ \A y \in s : y <= Max(s)
  <2> HIDE DEF n
  <2> QED
    BY <1>1, Greatest
<1> DEFINE r == [s \in SUBSET S |-> f[s]]
<1>7. r = F(r)
  <2>1. ASSUME NEW s \in SUBSET S PROVE r[s] = F(r)[s]
    <3>1. CASE s = {}
      BY <3>1, <1>5
    <3>2. CASE s # {}
      <4>1. f[s] = g[<<f[s \ {Max(s)}], Max(s)>>] /\ <<f[s \ {Max(s)}], Max(s)>> \in Records \X (1..n)
        <5> HIDE DEF g, n
        <5> QED
          BY <3>2, <1>1, <1>5, <1>6
      <4>2. f[s] = Merge(f[s \ {Max(s)}], Max(s))
        BY <4>1
      <4> QED
        BY <4>2, <3>2
    <3> QED
      BY <3>1, <3>2
  <2> QED
    BY <2>1
<1>8. iter = F(iter)
  <2> HIDE DEF F, r
  <2> QED
    BY <1>7
<1> HIDE DEF iter
<1>9. iter[{}] = <<>>
  <2>1. F(iter)[{}] = <<>>
    OBVIOUS
  <2> HIDE DEF F
  <2> QED
    BY <2>1, <1>8
<1>10. ASSUME NEW s \in SUBSET S, s # {} PROVE iter[s] = Merge(iter[s \ {Max(s)}], Max(s))
  <2>1. F(iter)[s] = Merge(iter[s \ {Max(s)}], Max(s))
    BY <1>10
  <2> HIDE DEF F
  <2> QED
    BY <2>1, <1>8
<1> HIDE DEF F
<1> DEFINE T == {k \in Nat : \A s \in SUBSET S : s \subseteq 1..k => Faithful(iter[s], s)}
<1>11. 0 \in T
  <2>1. Pseudonyms({}) = {} /\ ToSet(<<>>) = {} /\ Len(<<>>) = 0
    BY DEF Pseudonyms, ToSet
  <2>2. Faithful(iter[{}], {})
    BY <1>9, <1>x, <2>1, FS_EmptySet DEF Faithful
  <2>3. 1..0 = {}
    OBVIOUS
  <2> QED
    BY <2>2, <2>3
<1>12. ASSUME NEW k \in Nat, k \in T PROVE k + 1 \in T
  <2>1. ASSUME NEW s \in SUBSET S, s \subseteq 1..(k+1) PROVE Faithful(iter[s], s)
    <3>1. CASE s = {}
      BY <3>1, <1>12
    <3>2. CASE s # {}
      <4>1. Max(s) \in s /\ \A y \in s : y <= Max(s)
        BY <3>2, <1>6
      <4>2. s \ {Max(s)} \subseteq 1..k
        <5>1. \A y \in s : y \in 1..(k+1) /\ Max(s) \in 1..(k+1)
          BY <4>1, <2>1
        <5>2. ASSUME NEW y \in s, y # Max(s) PROVE y \in 1..k
          BY <5>1, <5>2, <4>1
        <5> QED
          BY <5>2
      <4>3. Faithful(iter[s \ {Max(s)}], s \ {Max(s)})
        BY <4>2, <1>12
      <4>4. Faithful(Merge(iter[s \ {Max(s)}], Max(s)), (s \ {Max(s)}) \cup {Max(s)})
        <5>1. Max(s) \in Bundles /\ s \ {Max(s)} \in SUBSET Bundles
          BY <4>1
        <5> QED
          BY <5>1, <4>3, MergeFaithful
      <4>5. (s \ {Max(s)}) \cup {Max(s)} = s
        BY <4>1
      <4> QED
        BY <4>4, <4>5, <3>2, <1>10
    <3> QED
      BY <3>1, <3>2
  <2> QED
    BY <2>1
<1>13. Nat \subseteq T
  <2> HIDE DEF T
  <2> QED
    BY <1>11, <1>12, Induction
<1>14. Faithful(iter[S], S)
  <2>1. S \subseteq 1..n /\ n \in T
    BY <1>1, <1>13
  <2> HIDE DEF n
  <2> QED
    BY <2>1
<1> QED
  BY <1>2, <1>14 DEF Faithful

\* What a process between its steps may rely on, when nothing is dropped: nobody else writes
\* the files of its bundles, so what it has read of them is still so.
Mine(p, S) == {b \in S : BuilderOf[b] = p}
Owners ==
  \A p \in PoolProcs : /\ adding[p] # 0 => BuilderOf[adding[p]] = p
                       /\ appc[p] \in {"file", "fill", "rescan", "answer"} => adding[p] # 0
PoolSafe ==
  /\ \A p \in PoolProcs : appc[p] = "summary" => Mine(p, poolSeen[p]) = Mine(p, Whole)
  /\ \A p \in PoolProcs : appc[p] \in {"file", "fill"} =>
       \A b \in Mine(p, Whole) : PseudonymOf[b] # PseudonymOf[adding[p]]
  /\ \A p \in PoolProcs : appc[p] \in {"rescan", "answer"} => adding[p] \in Whole
  /\ confirmed \subseteq Whole
  /\ \A b, c \in Whole :
       PseudonymOf[b] = PseudonymOf[c] /\ BuilderOf[b] = BuilderOf[c] => b = c
PoolInv == PoolTypeOK /\ Owners /\ (NothingDropped => PoolSafe)

LEMMA PoolTypesInit == PoolInit => PoolInv
<1> SUFFICES ASSUME PoolInit PROVE PoolInv
  OBVIOUS
<1>1. PoolTypeOK
  BY PoolAssumption DEF PoolInit, PoolTypeOK
<1>2. Whole = {}
  BY DEF PoolInit, Whole
<1>3. Owners /\ PoolSafe
  BY <1>2 DEF PoolInit, Owners, PoolSafe
<1> QED
  BY <1>1, <1>3 DEF PoolInv

LEMMA PoolTypesNext == PoolTypeOK /\ Owners /\ [PoolNext]_apVars => PoolTypeOK' /\ Owners'
<1> SUFFICES ASSUME PoolTypeOK, Owners, [PoolNext]_apVars PROVE PoolTypeOK' /\ Owners'
  OBVIOUS
<1> USE PoolAssumption DEF PoolTypeOK, Owners, PoolGoto
<1>1. ASSUME NEW p \in PoolProcs, NEW b \in Bundles, BeginAppend(p, b) PROVE PoolTypeOK' /\ Owners'
  BY <1>1 DEF BeginAppend
<1>2. ASSUME NEW p \in PoolProcs, BeginLoad(p) PROVE PoolTypeOK' /\ Owners'
  BY <1>2 DEF BeginLoad
<1>3. ASSUME NEW p \in PoolProcs, ScansHistory(p) PROVE PoolTypeOK' /\ Owners'
  <2>1. Whole \subseteq Bundles
    BY DEF Whole
  <2>2. PoolTypeOK'
    BY <1>3, <2>1 DEF ScansHistory
  <2>3. Owners'
    BY <1>3 DEF ScansHistory
  <2> QED
    BY <2>2, <2>3
<1>4. ASSUME NEW p \in PoolProcs, WritesSummary(p) PROVE PoolTypeOK' /\ Owners'
  <2> DEFINE present == adding[p] # 0 /\ PseudonymOf[adding[p]] \in ToSet(Validators(poolSeen[p]))
  <2>1. appc' = [appc EXCEPT ![p] = IF adding[p] = 0 \/ present THEN "idle" ELSE "file"]
    BY <1>4 DEF WritesSummary
  <2> HIDE DEF present
  <2>2. latestFile' \subseteq Bundles
    BY <1>4 DEF WritesSummary
  <2>3. UNCHANGED <<historyFile, adding, poolSeen, confirmed, poolCrashes>>
    BY <1>4 DEF WritesSummary
  <2> QED
    BY <2>1, <2>2, <2>3
<1>5. ASSUME NEW p \in PoolProcs, CreatesFile(p) PROVE PoolTypeOK' /\ Owners'
  BY <1>5 DEF CreatesFile
<1>6. ASSUME NEW p \in PoolProcs, FillsFile(p) PROVE PoolTypeOK' /\ Owners'
  BY <1>6 DEF FillsFile
<1>7. ASSUME NEW p \in PoolProcs, AnswersStored(p) PROVE PoolTypeOK' /\ Owners'
  BY <1>7 DEF AnswersStored
<1>8. ASSUME NEW p \in PoolProcs, PoolCrash(p) PROVE PoolTypeOK' /\ Owners'
  BY <1>8 DEF PoolCrash
<1>9. CASE UNCHANGED apVars
  BY <1>9 DEF apVars
<1> QED
  BY <1>1, <1>2, <1>3, <1>4, <1>5, <1>6, <1>7, <1>8, <1>9 DEF PoolNext

LEMMA PoolSafeNext ==
  ASSUME PoolTypeOK, Owners, PoolSafe, NothingDropped, [PoolNext]_apVars
  PROVE  PoolSafe'
<1> USE PoolAssumption DEF PoolTypeOK, Owners, PoolGoto
<1>a. ASSUME UNCHANGED historyFile PROVE Whole' = Whole
  BY <1>a DEF Whole
<1>b. ASSUME NEW p \in PoolProcs PROVE adding[p] # 0 => adding[p] \in Bundles
  OBVIOUS
<1>1. ASSUME NEW p \in PoolProcs, NEW b \in Bundles, BeginAppend(p, b) PROVE PoolSafe'
  <2>1. Whole' = Whole
    BY <1>a, <1>1 DEF BeginAppend
  <2> QED
    BY <1>1, <2>1 DEF BeginAppend, PoolSafe, Mine
<1>2. ASSUME NEW p \in PoolProcs, BeginLoad(p) PROVE PoolSafe'
  <2>1. Whole' = Whole
    BY <1>a, <1>2 DEF BeginLoad
  <2> QED
    BY <1>2, <2>1 DEF BeginLoad, PoolSafe, Mine
<1>3. ASSUME NEW p \in PoolProcs, ScansHistory(p) PROVE PoolSafe'
  <2>1. Whole' = Whole
    BY <1>a, <1>3 DEF ScansHistory
  <2>2. Whole \in SUBSET Bundles
    BY DEF Whole
  <2>3. \A q \in PoolProcs : poolSeen'[q] = (IF q = p THEN Whole ELSE poolSeen[q])
    BY <1>3, <2>2 DEF ScansHistory
  <2>4. /\ appc'[p] = (IF appc[p] = "scan" THEN "summary" ELSE "answer")
        /\ appc[p] \in {"scan", "rescan"}
        /\ \A q \in PoolProcs : q # p => appc'[q] = appc[q]
    BY <1>3 DEF ScansHistory
  <2> QED
    BY <1>3, <2>1, <2>3, <2>4 DEF ScansHistory, PoolSafe, Mine
<1>4. ASSUME NEW p \in PoolProcs, WritesSummary(p) PROVE PoolSafe'
  <2>1. Whole' = Whole
    BY <1>a, <1>4 DEF WritesSummary
  <2> DEFINE present == adding[p] # 0 /\ PseudonymOf[adding[p]] \in ToSet(Validators(poolSeen[p]))
  <2>2. appc' = [appc EXCEPT ![p] = IF adding[p] = 0 \/ present THEN "idle" ELSE "file"]
    BY <1>4 DEF WritesSummary
  <2>3. adding[p] # 0 /\ ~present => PseudonymOf[adding[p]] \notin Pseudonyms(poolSeen[p])
    BY RecordIsFaithful
  <2> HIDE DEF present
  <2>4. appc[p] = "summary" /\ UNCHANGED <<historyFile, adding, poolSeen, confirmed, poolCrashes>>
    BY <1>4 DEF WritesSummary
  <2>5. Mine(p, poolSeen[p]) = Mine(p, Whole)
    BY <2>4 DEF PoolSafe
  <2>6. appc'[p] = "file" => \A b \in Mine(p, Whole) : PseudonymOf[b] # PseudonymOf[adding[p]]
    <3> SUFFICES ASSUME appc'[p] = "file", NEW b \in Mine(p, Whole)
                 PROVE  PseudonymOf[b] # PseudonymOf[adding[p]]
      OBVIOUS
    <3>1. adding[p] # 0 /\ ~present
      BY <2>2
    <3>2. b \in poolSeen[p]
      BY <2>5 DEF Mine
    <3> QED
      BY <3>1, <3>2, <2>3 DEF Pseudonyms
  <2>7. appc'[p] \in {"idle", "file"} /\ \A q \in PoolProcs : q # p => appc'[q] = appc[q]
    BY <2>2
  <2> QED
    BY <2>1, <2>4, <2>6, <2>7 DEF PoolSafe, Mine
<1>5. ASSUME NEW p \in PoolProcs, CreatesFile(p) PROVE PoolSafe'
  <2>1. adding[p] # 0 /\ adding[p] \notin Whole
    BY <1>5 DEF CreatesFile, PoolSafe, Mine
  <2>2. Whole' = Whole
    BY <1>5, <2>1 DEF CreatesFile, Whole
  <2> QED
    BY <1>5, <2>2 DEF CreatesFile, PoolSafe, Mine
<1>6. ASSUME NEW p \in PoolProcs, FillsFile(p) PROVE PoolSafe'
  <2>1. adding[p] \in Bundles /\ BuilderOf[adding[p]] = p
    BY <1>6 DEF FillsFile
  <2>2. Whole' = Whole \cup {adding[p]}
    BY <1>6, <2>1 DEF FillsFile, Whole
  <2>3. \A b \in Mine(p, Whole) : PseudonymOf[b] # PseudonymOf[adding[p]]
    BY <1>6 DEF FillsFile, PoolSafe
  <2>4. \A q \in PoolProcs : q # p => Mine(q, Whole') = Mine(q, Whole)
    BY <2>1, <2>2 DEF Mine
  <2>5. /\ appc[p] = "fill" /\ appc'[p] = "rescan"
        /\ \A q \in PoolProcs : q # p => appc'[q] = appc[q]
        /\ UNCHANGED <<adding, poolSeen, confirmed>>
    BY <1>6 DEF FillsFile
  <2>6. \A b, c \in Whole' :
          PseudonymOf[b] = PseudonymOf[c] /\ BuilderOf[b] = BuilderOf[c] => b = c
    BY <2>1, <2>2, <2>3 DEF Mine, PoolSafe
  <2>7. \A q \in PoolProcs : appc'[q] = "summary" => Mine(q, poolSeen'[q]) = Mine(q, Whole')
    BY <2>4, <2>5 DEF PoolSafe
  <2>8. \A q \in PoolProcs : appc'[q] \in {"file", "fill"} =>
          \A b \in Mine(q, Whole') : PseudonymOf[b] # PseudonymOf[adding'[q]]
    BY <2>4, <2>5 DEF PoolSafe
  <2>9. \A q \in PoolProcs : appc'[q] \in {"rescan", "answer"} => adding'[q] \in Whole'
    BY <2>2, <2>5 DEF PoolSafe
  <2>10. confirmed' \subseteq Whole'
    BY <2>2, <2>5 DEF PoolSafe
  <2> QED
    BY <2>6, <2>7, <2>8, <2>9, <2>10 DEF PoolSafe, Mine
<1>7. ASSUME NEW p \in PoolProcs, AnswersStored(p) PROVE PoolSafe'
  <2>1. Whole' = Whole
    BY <1>a, <1>7 DEF AnswersStored
  <2> QED
    BY <1>7, <2>1 DEF AnswersStored, PoolSafe, Mine
<1>8. ASSUME NEW p \in PoolProcs, PoolCrash(p) PROVE PoolSafe'
  <2>1. Whole' = Whole
    BY <1>a, <1>8 DEF PoolCrash
  <2> QED
    BY <1>8, <2>1 DEF PoolCrash, PoolSafe, Mine
<1>9. CASE UNCHANGED apVars
  <2>1. Whole' = Whole
    BY <1>a, <1>9 DEF apVars
  <2> QED
    BY <1>9, <2>1 DEF apVars, PoolSafe, Mine
<1> QED
  BY <1>1, <1>2, <1>3, <1>4, <1>5, <1>6, <1>7, <1>8, <1>9 DEF PoolNext

LEMMA PoolInvNext == PoolInv /\ [PoolNext]_apVars => PoolInv'
  <1> SUFFICES ASSUME PoolInv, [PoolNext]_apVars PROVE PoolInv'
    OBVIOUS
  <1>1. PoolTypeOK' /\ Owners'
    BY PoolTypesNext DEF PoolInv
  <1>2. NothingDropped => PoolSafe'
    BY PoolSafeNext DEF PoolInv
  <1> QED
    BY <1>1, <1>2 DEF PoolInv, NothingDropped

\* Every variable of the pool keeps its type.
THEOREM PoolTypeCorrect == PoolSpec => []PoolTypeOK
<1>1. PoolInv => PoolTypeOK
  BY DEF PoolInv
<1> QED
  BY <1>1, PoolTypesInit, PoolInvNext, PTL DEF PoolSpec

\* A bundle that append_public_ttd_anchor_bundle() has confirmed stays in the history, and its
\* validator in the record made of it, whoever else appends, loads or dies.
THEOREM ConfirmedCounts == PoolSpec => []StoredCounts
<1>1. PoolInv => StoredCounts
  <2> SUFFICES ASSUME PoolInv, NothingDropped, NEW b \in confirmed
               PROVE  b \in Whole /\ PseudonymOf[b] \in ToSet(Validators(Whole))
    BY DEF StoredCounts
  <2>1. b \in Whole /\ Whole \in SUBSET Bundles
    BY DEF PoolInv, PoolSafe, Whole
  <2>2. ToSet(Validators(Whole)) = Pseudonyms(Whole)
    BY <2>1, RecordIsFaithful
  <2> QED
    BY <2>1, <2>2 DEF Pseudonyms
<1> QED
  BY <1>1, PoolTypesInit, PoolInvNext, PTL DEF PoolSpec

\* public_ttd_validator_present(): one process writes one bundle under a pseudonym, although
\* it looks first and writes later, and may die in between.
THEOREM OneValidation == PoolSpec => []ValidatesOnce
<1>1. PoolInv => ValidatesOnce
  BY DEF PoolInv, PoolSafe, ValidatesOnce
<1> QED
  BY <1>1, PoolTypesInit, PoolInvNext, PTL DEF PoolSpec

-----------------------------------------------------------------------------
(* The flooding of hints.                                                  *)

RelayStates == [queue : Seq(Entries), ids : SUBSET RelayHints, full : BOOLEAN]

LEMMA RelayType ==
  ASSUME NEW st \in RelayStates, NEW e \in Entries
  PROVE  Relay(st, e) \in RelayStates
<1>1. MaxHops \in Nat \ {0}
  BY HintRelayAssumption
<1>2. Hop(e) + 1 \in 0..MaxHops
  BY <1>1 DEF Entries, Hop, Lower
<1> DEFINE ids == st.ids \cup {e.hint}
           full == Cardinality(ids) > MaxRemembered
           next == [queue |-> Append(st.queue, [hint |-> e.hint, hop |-> Hop(e) + 1]),
                    ids |-> IF full THEN {} ELSE ids,
                    full |-> st.full \/ full]
<1>3. next.queue \in Seq(Entries) 
  BY <1>2 DEF Entries, RelayStates
<1>4. next.ids \in SUBSET RelayHints
  BY DEF Entries, RelayStates
<1>5. next.full \in BOOLEAN
  BY Zenon
<1>6. next \in RelayStates
  <2> USE DEF RelayStates
  <2> HIDE DEF ids, full
  <2> QED
    BY <1>3, <1>4, <1>5, Zenon
<1>7. Relay(st, e) = next \/ Relay(st, e) = st
  BY DEF Relay
<1> QED
  BY <1>6, <1>7

\* The states a packet's entries lead through, one after the other.
LEMMA RelaySteps ==
  ASSUME NEW st \in RelayStates, NEW seq \in Seq(Entries)
  PROVE  \E h \in [0..Len(seq) -> RelayStates] :
           /\ h[0] = st /\ FoldLeft(Relay, st, seq) = h[Len(seq)]
           /\ \A i \in 1..Len(seq) : h[i] = Relay(h[i - 1], seq[i])
<1> DEFINE n == Len(seq)
           D == 1..n
           F(f) == [s \in SUBSET D |-> IF s = {} THEN st ELSE Relay(f[s \ {Max(s)}], seq[Max(s)])]
           iter == CHOOSE f : f = F(f)
           g == [p \in RelayStates \X D |-> Relay(p[1], seq[p[2]])]
<1>1. n \in Nat /\ D = DOMAIN seq /\ \A i \in D : seq[i] \in Entries
  OBVIOUS
<1>2. FoldLeft(Relay, st, seq) = iter[D]
  BY <1>1, Zenon DEF FoldLeft, MapThenFoldSet
<1>3. g \in [RelayStates \X D -> RelayStates]
  BY <1>1, RelayType
<1>4. PICK f : IsFold(f, n, RelayStates, st, g)
  <2> HIDE DEF g, n
  <2> QED
    BY <1>1, <1>3, FoldExists
<1>a. /\ f[{}] = st /\ f = [s \in SUBSET D |-> f[s]]
      /\ \A s \in SUBSET D : f[s] \in RelayStates
      /\ \A s \in SUBSET D : s # {} => f[s] = g[<<f[s \ {Max(s)}], Max(s)>>]
  BY <1>4 DEF IsFold
<1>5. \A s \in SUBSET D : s # {} => Max(s) \in D
  BY <1>1, Greatest
<1>6. f = F(f)
  <2>1. ASSUME NEW s \in SUBSET D PROVE f[s] = F(f)[s]
    <3>1. CASE s = {}
      BY <3>1, <1>a
    <3>2. CASE s # {}
      <4> HIDE DEF g
      <4>1. f[s] = g[<<f[s \ {Max(s)}], Max(s)>>]
        BY <3>2, <1>a
      <4>2. <<f[s \ {Max(s)}], Max(s)>> \in RelayStates \X D
        BY <3>2, <1>5, <1>a
      <4>3. f[s] = Relay(f[s \ {Max(s)}], seq[Max(s)])
        BY <4>1, <4>2 DEF g
      <4> QED
        BY <4>3, <3>2
    <3> QED
      BY <3>1, <3>2
  <2> HIDE DEF g
  <2> QED
    BY <2>1, <1>a
<1>7. iter = F(iter)
  <2> HIDE DEF F
  <2> QED
    BY <1>6
<1> HIDE DEF iter
<1>8. iter[{}] = st
  <2>1. F(iter)[{}] = st
    OBVIOUS
  <2> HIDE DEF F
  <2> QED
    BY <2>1, <1>7
<1>9. ASSUME NEW s \in SUBSET D, s # {}, iter[s \ {Max(s)}] \in RelayStates
      PROVE  iter[s] = g[<<iter[s \ {Max(s)}], Max(s)>>]
  <2>1. F(iter)[s] = Relay(iter[s \ {Max(s)}], seq[Max(s)])
    BY <1>9
  <2>2. iter[s] = F(iter)[s]
    <3> HIDE DEF F
    <3> QED
      BY <1>7
  <2>3. <<iter[s \ {Max(s)}], Max(s)>> \in RelayStates \X D
    BY <1>9, <1>5
  <2> HIDE DEF F
  <2> QED
    BY <2>1, <2>2, <2>3
<1>b. Folds(iter, n, RelayStates, st, g)
  <2> HIDE DEF F, g
  <2> QED
    BY <1>8, <1>9 DEF Folds
<1>10. PICK h : IsWay(h, n, RelayStates, st, g, iter[D])
  <2> HIDE DEF F, g, n
  <2> QED
    BY <1>1, <1>3, <1>b, FoldSteps
<1>c. /\ h[0] = st /\ h[n] = iter[D] /\ h \in [0..n -> RelayStates]
      /\ \A i \in D : h[i] = g[<<h[i - 1], i>>]
  BY <1>10 DEF IsWay
<1>11. ASSUME NEW i \in D PROVE h[i] = Relay(h[i - 1], seq[i])
  <2>1. i - 1 \in 0..n
    BY <1>1
  <2>2. <<h[i - 1], i>> \in RelayStates \X D
    BY <2>1, <1>c
  <2> QED
    BY <1>c, <2>2
<1> QED
  BY <1>2, <1>c, <1>11

\* What the relay has done to a node after k entries of a packet: each of their hints that the
\* filter lets through has been queued unless it had been before, and what is remembered has
\* been queued.
Relayed(before, seq, k, st) ==
  LET queued == {st.queue[i].hint : i \in (Len(before.queue) + 1)..Len(st.queue)}
  IN  /\ Len(before.queue) <= Len(st.queue)
      /\ \A i \in 1..Len(before.queue) : st.queue[i] = before.queue[i]
      /\ \A i \in 1..k : seq[i].hint \in Rejected \cup before.ids \cup queued
      /\ \A x \in queued : x \notin Rejected /\ \E i \in 1..k : x = seq[i].hint
      /\ st.ids \subseteq before.ids \cup queued
      /\ ~st.full => before.ids \cup queued \subseteq st.ids /\ before.ids \cap queued = {}

LEMMA HopBelow ==
  ASSUME NEW e \in Entries PROVE Hop(e) \in Nat /\ Hop(e) < MaxHops
  BY HintRelayAssumption DEF Hop, Lower, Entries

LEMMA RelayedOneMore ==
  ASSUME NEW before \in RelayStates, NEW seq \in Seq(Entries), NEW k \in Nat, k + 1 <= Len(seq),
         NEW st \in RelayStates, Relayed(before, seq, k, st)
  PROVE  Relayed(before, seq, k + 1, Relay(st, seq[k + 1]))
<1> DEFINE e == seq[k + 1]
           new == Relay(st, e)
           b == Len(before.queue)
           Queued(s) == {s.queue[i].hint : i \in (b + 1)..Len(s.queue)}
<1>1. e \in Entries /\ k + 1 \in 1..Len(seq)
  OBVIOUS
<1>2. st.queue \in Seq(Entries) /\ b \in Nat /\ Len(st.queue) \in Nat /\ b <= Len(st.queue)
  BY DEF RelayStates, Relayed
<1>3. CASE e.hint \in Rejected \cup st.ids
  <2>1. new = st
    BY <1>3 DEF Relay
  <2>2. e.hint \in Rejected \cup before.ids \cup Queued(st)
    BY <1>3 DEF Relayed
  <2>3. \A i \in 1..(k + 1) : i \in 1..k \/ i = k + 1
    OBVIOUS
  <2>4. 1..k \subseteq 1..(k + 1)
    OBVIOUS
  <2> DEFINE Q == Queued(st)
  <2>5. /\ \A i \in 1..k : seq[i].hint \in Rejected \cup before.ids \cup Q
        /\ \A y \in Q : y \notin Rejected /\ \E i \in 1..k : y = seq[i].hint
        /\ st.ids \subseteq before.ids \cup Q
        /\ ~st.full => before.ids \cup Q \subseteq st.ids /\ before.ids \cap Q = {}
        /\ b <= Len(st.queue) /\ \A i \in 1..b : st.queue[i] = before.queue[i]
    BY DEF Relayed
  <2>6. e.hint \in Rejected \cup before.ids \cup Q
    BY <2>2
  <2> HIDE DEF Q
  <2>7. \A i \in 1..(k + 1) : seq[i].hint \in Rejected \cup before.ids \cup Q
    BY <2>3, <2>5, <2>6
  <2>8. \A y \in Q : y \notin Rejected /\ \E i \in 1..(k + 1) : y = seq[i].hint
    BY <2>4, <2>5
  <2>9. Relayed(before, seq, k + 1, st)
    BY <2>5, <2>7, <2>8 DEF Relayed, Q
  <2> QED
    BY <2>1, <2>9
<1>4. CASE e.hint \notin Rejected \cup st.ids
  <2> DEFINE x == [hint |-> e.hint, hop |-> Hop(e) + 1]
             ids == st.ids \cup {e.hint}
             full == Cardinality(ids) > MaxRemembered
             anyFull == st.full \/ full
  <2>1. new = [queue |-> Append(st.queue, x), ids |-> IF full THEN {} ELSE ids,
               full |-> anyFull]
    BY <1>4, <1>1, HopBelow DEF Relay
  <2>2. new.queue = Append(st.queue, x) /\ new.ids = (IF full THEN {} ELSE ids)
    <3> HIDE DEF new, x, ids, full, anyFull
    <3> QED
      BY <2>1
  <2>3. ~new.full => ~st.full /\ ~full
    <3>1. new.full = anyFull
      <4> HIDE DEF new, x, ids, full, anyFull
      <4> QED
        BY <2>1
    <3> QED
      BY <3>1, Zenon
  <2> HIDE DEF full, new, anyFull
  <2>x. x.hint = e.hint
    OBVIOUS
  <2> HIDE DEF x
  <2>4. /\ Len(new.queue) = Len(st.queue) + 1
        /\ \A i \in 1..Len(st.queue) : new.queue[i] = st.queue[i]
        /\ new.queue[Len(st.queue) + 1] = x
    BY <2>2, <1>2
  <2>5. Queued(new) = Queued(st) \cup {e.hint}
    <3>1. \A i \in (b + 1)..Len(new.queue) :
            (i \in (b + 1)..Len(st.queue) /\ i \in 1..Len(st.queue)) \/ i = Len(st.queue) + 1
      BY <2>4, <1>2
    <3>2. Len(st.queue) + 1 \in (b + 1)..Len(new.queue)
      BY <2>4, <1>2
    <3>3. \A i \in (b + 1)..Len(st.queue) : i \in (b + 1)..Len(new.queue) /\ i \in 1..Len(st.queue)
      BY <2>4, <1>2
    <3> HIDE DEF b, e
    <3> QED
      BY <3>1, <3>2, <3>3, <2>4, <2>x
  <2> DEFINE Q == Queued(st)
             R == Queued(new)
  <2>6. /\ \A i \in 1..k : seq[i].hint \in Rejected \cup before.ids \cup Q
        /\ \A y \in Q : y \notin Rejected /\ \E i \in 1..k : y = seq[i].hint
        /\ st.ids \subseteq before.ids \cup Q
        /\ ~st.full => before.ids \cup Q \subseteq st.ids /\ before.ids \cap Q = {}
        /\ \A i \in 1..b : st.queue[i] = before.queue[i]
    BY DEF Relayed
  <2>7. R = Q \cup {e.hint}
    BY <2>5
  <2> HIDE DEF Q, R
  <2>8. \A i \in 1..(k + 1) : i \in 1..k \/ i = k + 1
    OBVIOUS
  <2>9. \A i \in 1..(k + 1) : seq[i].hint \in Rejected \cup before.ids \cup R
    BY <2>6, <2>7, <2>8
  <2>10. \A y \in R : y \notin Rejected /\ \E i \in 1..(k + 1) : y = seq[i].hint
    <3>1. 1..k \subseteq 1..(k + 1) /\ k + 1 \in 1..(k + 1)
      OBVIOUS
    <3> QED
      BY <3>1, <2>6, <2>7, <1>4
  <2>11. new.ids \subseteq before.ids \cup R
    BY <2>2, <2>6, <2>7
  <2>12. ~new.full => before.ids \cup R \subseteq new.ids /\ before.ids \cap R = {}
    BY <2>2, <2>3, <2>6, <2>7, <1>4
  <2>13. b <= Len(new.queue) /\ \A i \in 1..b : new.queue[i] = before.queue[i]
    BY <2>4, <2>6, <1>2
  <2>14. Relayed(before, seq, k + 1, new)
    BY <2>9, <2>10, <2>11, <2>12, <2>13 DEF Relayed, R
  <2> QED
    BY <2>14 DEF new
<1> QED
  BY <1>3, <1>4

\* A whole packet.
LEMMA RelayedAll ==
  ASSUME NEW before \in RelayStates, ~before.full, NEW seq \in Seq(Entries)
  PROVE  /\ FoldLeft(Relay, before, seq) \in RelayStates
         /\ Relayed(before, seq, Len(seq), FoldLeft(Relay, before, seq))
<1> DEFINE n == Len(seq)
<1>1. PICK h \in [0..n -> RelayStates] :
        /\ h[0] = before /\ FoldLeft(Relay, before, seq) = h[n]
        /\ \A i \in 1..n : h[i] = Relay(h[i - 1], seq[i])
  BY RelaySteps
<1>2. n \in Nat
  OBVIOUS
<1> DEFINE T == {k \in Nat : k <= n => Relayed(before, seq, k, h[k])}
<1>3. 0 \in T
  <2>1. Relayed(before, seq, 0, before)
    <3>1. before.queue \in Seq(Entries)
      BY DEF RelayStates
    <3>2. (Len(before.queue) + 1)..Len(before.queue) = {} /\ 1..0 = {}
      BY <3>1
    <3> QED
      BY <3>1, <3>2 DEF Relayed
  <2> QED
    BY <2>1, <1>1
<1>4. ASSUME NEW k \in Nat, k \in T PROVE k + 1 \in T
  <2> SUFFICES ASSUME k + 1 <= n PROVE Relayed(before, seq, k + 1, h[k + 1])
    OBVIOUS
  <2>1. k + 1 \in 1..n /\ k \in 0..n /\ (k + 1) - 1 = k /\ Relayed(before, seq, k, h[k])
    BY <1>4, <1>2
  <2>2. h[k + 1] = Relay(h[k], seq[k + 1]) /\ h[k] \in RelayStates
    BY <2>1, <1>1
  <2> QED
    BY <2>1, <2>2, RelayedOneMore
<1>5. Nat \subseteq T
  <2> HIDE DEF T
  <2> QED
    BY <1>3, <1>4, Induction
<1>6. Relayed(before, seq, n, h[n])
  BY <1>5, <1>2
<1> QED
  BY <1>1, <1>2, <1>6

-----------------------------------------------------------------------------
\* A node remembers what it has queued, as long as its memory was never cleared, and what it
\* remembers it has absorbed.
Remembers ==
  /\ \A n \in Nodes, h \in RelayHints : <<n, h>> \in once /\ n \notin cleared => h \in seenIds[n]
  /\ \A n \in Nodes : seenIds[n] \subseteq gotHints[n]
  /\ \A pair \in twice : pair[1] \in cleared

\* The front of the flood: whoever has a hint that was nowhere given up has it in its queue
\* still, or every neighbour has it or will find it in a packet that is on its way.
HasHint(n, h) == h \in gotHints[n] \/ (h \in made /\ MakerOf[h] = n)
SentOn(n, h) == \A m \in Neighbours(n) :
                  h \in gotHints[m] \/ \E p \in wire : p.to = m /\ h \in HintsOf(p.hints)
FloodFront ==
  \A n \in Nodes, h \in RelayHints \ dropped :
    HasHint(n, h) => h \in HintsOf(relayQ[n]) \/ SentOn(n, h)

FloodInv == HintTypeOK /\ Remembers /\ FloodFront

\* A queue or a packet is cut in two, and no hint is in neither part.
LEMMA CutEntries ==
  ASSUME NEW q \in Seq(Entries), NEW k \in Nat
  PROVE  /\ First(q, k) \in Seq(Entries) /\ After(q, k) \in Seq(Entries)
         /\ \A i \in 1..Len(First(q, k)) : i \in 1..Len(q) /\ First(q, k)[i] = q[i]
         /\ HintsOf(q) = HintsOf(First(q, k)) \cup HintsOf(After(q, k))
<1> DEFINE l == Lower(Len(q), k)
           a == After(q, k)
<1>1. l \in 0..Len(q) /\ l = (IF Len(q) < k THEN Len(q) ELSE k)
  BY DEF Lower
<1>2. /\ First(q, k) \in Seq(Entries) /\ Len(First(q, k)) = l
      /\ \A i \in 1..l : First(q, k)[i] = q[i]
  <2> HIDE DEF l
  <2>1. First(q, k) = SubSeq(q, 1, l)
    BY DEF First, l
  <2> QED
    BY <1>1, <2>1
<1>3. \A i \in 1..l : i \in 1..Len(q)
  BY <1>1
<1>4. /\ a \in Seq(Entries) /\ Len(a) = (IF k < Len(q) THEN Len(q) - k ELSE 0)
      /\ \A i \in 1..Len(a) : a[i] = q[k + i] /\ k + i \in 1..Len(q)
  BY DEF After
<1>5. \A i \in 1..Len(q) : i \in 1..l \/ (i - k \in 1..Len(a) /\ a[i - k] = q[i])
  <2> HIDE DEF l, a
  <2> SUFFICES ASSUME NEW i \in 1..Len(q), i \notin 1..l
               PROVE  i - k \in 1..Len(a) /\ a[i - k] = q[i]
    OBVIOUS
  <2>1. i - k \in 1..Len(a)
    BY <1>1, <1>4
  <2>2. a[i - k] = q[k + (i - k)] /\ k + (i - k) = i
    BY <2>1, <1>4
  <2> QED
    BY <2>1, <2>2
<1>6. HintsOf(First(q, k)) = {q[i].hint : i \in 1..l}
  <2> HIDE DEF l
  <2> QED
    BY <1>2 DEF HintsOf
<1>7. HintsOf(a) = {q[k + i].hint : i \in 1..Len(a)}
  <2> HIDE DEF a
  <2> QED
    BY <1>4 DEF HintsOf
<1>8. HintsOf(q) \subseteq HintsOf(First(q, k)) \cup HintsOf(a)
  <2> HIDE DEF l, a
  <2> SUFFICES ASSUME NEW i \in 1..Len(q) PROVE q[i].hint \in HintsOf(First(q, k)) \cup HintsOf(a)
    BY DEF HintsOf
  <2>1. CASE i \in 1..l
    BY <2>1, <1>6
  <2>2. CASE i \notin 1..l
    BY <2>2, <1>5 DEF HintsOf
  <2> QED
    BY <2>1, <2>2
<1>9. HintsOf(First(q, k)) \subseteq HintsOf(q) /\ HintsOf(a) \subseteq HintsOf(q)
  <2> HIDE DEF l, a
  <2> QED
    BY <1>3, <1>4, <1>6, <1>7 DEF HintsOf
<1> QED
  BY <1>2, <1>3, <1>4, <1>8, <1>9

LEMMA EntryHints ==
  ASSUME NEW q \in Seq(Entries)
  PROVE  HintsOf(q) \subseteq RelayHints
<1>1. \A i \in 1..Len(q) : q[i] \in Entries
  OBVIOUS
<1> QED
  BY <1>1 DEF HintsOf, Entries

LEMMA FilteredEntries ==
  ASSUME NEW q \in Seq(Entries)
  PROVE  /\ Filtered(q) \in Seq(Entries)
         /\ HintsOf(q) = HintsOf(Filtered(q)) \cup HintsOf(After(q, MaxKept))
<1>1. MaxKept \in Nat
  BY HintRelayAssumption
<1> DEFINE k == MaxKept
           l == Len(First(q, k))
<1>2. /\ First(q, k) \in Seq(Entries)
      /\ \A i \in 1..l : i \in 1..Len(q) /\ First(q, k)[i] = q[i]
      /\ HintsOf(q) = HintsOf(First(q, k)) \cup HintsOf(After(q, k))
  BY <1>1, CutEntries
<1>3. l \in Nat /\ DOMAIN First(q, k) = 1..l
  BY <1>2
<1>4. ASSUME NEW i \in 1..l
      PROVE  [q[i] EXCEPT !.hop = 0] \in Entries /\ [q[i] EXCEPT !.hop = 0].hint = q[i].hint
  <2>1. q[i] \in Entries
    BY <1>2
  <2>2. 0 \in 0..MaxHops
    BY HintRelayAssumption
  <2>3. ASSUME NEW e \in Entries PROVE [e EXCEPT !.hop = 0] \in Entries /\ [e EXCEPT !.hop = 0].hint = e.hint
    BY <2>2 DEF Entries
  <2> QED
    BY <2>1, <2>3
<1>5. Filtered(q) = [i \in 1..l |-> [q[i] EXCEPT !.hop = 0]]
  BY <1>3 DEF Filtered
<1>6. Filtered(q) \in [1..l -> Entries]
  BY <1>4, <1>5
<1>7. Filtered(q) \in Seq(Entries) /\ Len(Filtered(q)) = l
  BY <1>3, <1>6
<1>8. HintsOf(Filtered(q)) = HintsOf(First(q, k))
  <2>1. \A i \in 1..l : Filtered(q)[i].hint = First(q, k)[i].hint
    <3> HIDE DEF l
    <3> QED
      BY <1>2, <1>4, <1>5
  <2> HIDE DEF l
  <2>2. HintsOf(First(q, k)) = {First(q, k)[i].hint : i \in 1..l}
    BY DEF HintsOf, l
  <2>3. HintsOf(Filtered(q)) = {Filtered(q)[i].hint : i \in 1..l}
    BY <1>7 DEF HintsOf
  <2> QED
    BY <2>1, <2>2, <2>3
<1> QED
  BY <1>2, <1>7, <1>8

\* The hints of a packet before it is cut: the node's own, and those of the queue that are not
\* too old.
LEMMA JoinedHints ==
  ASSUME NEW own \in Seq(Entries), NEW q \in Seq(Entries)
  PROVE  own \o q \in Seq(Entries) /\ HintsOf(own) \cup HintsOf(q) = HintsOf(own \o q)
<1> DEFINE entries == own \o q
<1>0. entries \in Seq(Entries)
  OBVIOUS
<1>1. Len(entries) = Len(own) + Len(q) /\ Len(own) \in Nat /\ Len(q) \in Nat
  OBVIOUS
<1>2. \A i \in 1..Len(own) : entries[i] = own[i] /\ i \in 1..Len(entries)
  OBVIOUS
<1>3. \A i \in 1..Len(q) : entries[Len(own) + i] = q[i] /\ Len(own) + i \in 1..Len(entries)
  OBVIOUS
<1>4. \A i \in 1..Len(entries) : i \in 1..Len(own) \/ \E j \in 1..Len(q) : i = Len(own) + j
  <2>1. ASSUME NEW i \in 1..Len(entries), i \notin 1..Len(own)
        PROVE  i - Len(own) \in 1..Len(q) /\ i = Len(own) + (i - Len(own))
    BY <1>1, <2>1
  <2> QED
    BY <2>1
<1> HIDE DEF entries
<1>5. ASSUME NEW h \in HintsOf(entries) PROVE h \in HintsOf(own) \cup HintsOf(q)
  <2>1. PICK i \in 1..Len(entries) : h = entries[i].hint
    BY <1>5 DEF HintsOf
  <2>2. CASE i \in 1..Len(own)
    <3>1. h = own[i].hint
      BY <2>1, <2>2, <1>2
    <3> QED
      BY <2>2, <3>1 DEF HintsOf
  <2>3. CASE i \notin 1..Len(own)
    <3>1. PICK j \in 1..Len(q) : i = Len(own) + j
      BY <1>4, <2>3
    <3>2. h = q[j].hint
      BY <2>1, <3>1, <1>3
    <3> QED
      BY <3>2 DEF HintsOf
  <2> QED
    BY <2>2, <2>3
<1>6. HintsOf(own) \subseteq HintsOf(entries)
  BY <1>2 DEF HintsOf
<1>7. HintsOf(q) \subseteq HintsOf(entries)
  BY <1>3 DEF HintsOf
<1> QED
  BY <1>0, <1>5, <1>6, <1>7 DEF entries

LEMMA PublishKeeps ==
  ASSUME FloodInv, NEW n \in Nodes, NEW own \in OwnHint(n), NEW aged \in 0..Len(relayQ[n]),
         NEW arrived \in SUBSET Neighbours(n), PublishHints(n, own, aged, arrived)
  PROVE  FloodInv'
<1> DEFINE young == After(relayQ[n], aged)
           entries == own \o young
           packed == First(entries, MaxPacket)
           carried == {k \in arrived : entries # <<>>}
           lost == Neighbours(n) \ arrived
<1>1. /\ own \in Seq(Entries)
      /\ \A h \in HintsOf(own) : h \in RelayHints /\ MakerOf[h] = n /\ (h \in made => remakes < MaxRemakes)
  <2>1. CASE own = <<>>
    BY <2>1 DEF HintsOf
  <2>2. ASSUME NEW k \in RelayHints, MakerOf[k] = n, k \in made => remakes < MaxRemakes,
               own = <<Own(k)>>
        PROVE  /\ own \in Seq(Entries)
               /\ \A h \in HintsOf(own) : h \in RelayHints /\ MakerOf[h] = n
                                          /\ (h \in made => remakes < MaxRemakes)
    <3>1. Own(k) \in Entries /\ Own(k).hint = k
      BY HintRelayAssumption DEF Own, Entries
    <3>2. own \in Seq(Entries) /\ Len(own) = 1 /\ own[1] = Own(k)
      BY <2>2, <3>1
    <3> QED
      BY <2>2, <3>1, <3>2 DEF HintsOf
  <2>3. own = <<>> \/ \E k \in RelayHints : MakerOf[k] = n /\ own = <<Own(k)>>
                                            /\ (k \in made => remakes < MaxRemakes)
    BY DEF OwnHint
  <2> QED
    BY <2>1, <2>2, <2>3
<1>2. relayQ[n] \in Seq(Entries) /\ aged \in Nat
  BY DEF FloodInv, HintTypeOK
<1>3. /\ young \in Seq(Entries)
      /\ HintsOf(relayQ[n]) = HintsOf(First(relayQ[n], aged)) \cup HintsOf(young)
  BY <1>2, CutEntries
<1>4. entries \in Seq(Entries) /\ HintsOf(own) \cup HintsOf(young) = HintsOf(entries)
  <2> HIDE DEF young
  <2> QED
    BY <1>1, <1>3, JoinedHints
<1>5. /\ packed \in Seq(Entries)
      /\ HintsOf(entries) = HintsOf(packed) \cup HintsOf(After(entries, MaxPacket))
  <2> HIDE DEF entries
  <2>1. MaxPacket \in Nat
    BY HintRelayAssumption
  <2> QED
    BY <1>4, <2>1, CutEntries
<1> DEFINE packets == {[from |-> n, to |-> m, hints |-> packed] : m \in carried}
<1>6. /\ losses' = losses + (IF lost # {} THEN 1 ELSE 0)
      /\ lost # {} => losses < MaxLosses
      /\ made' = made \cup HintsOf(own)
      /\ remakes' = remakes + (IF HintsOf(own) \cap made # {} THEN 1 ELSE 0)
      /\ relayQ' = [relayQ EXCEPT ![n] = <<>>]
      /\ wire' = wire \cup packets
      /\ dropped' = dropped \cup HintsOf(First(relayQ[n], aged))
                            \cup HintsOf(After(entries, MaxPacket))
                            \cup (IF lost # {} THEN HintsOf(packed) ELSE {})
      /\ UNCHANGED <<seenIds, rate, gotHints, twice, once, cleared>>
  BY DEF PublishHints
<1>e. \A h \in HintsOf(entries) : entries # <<>>
  BY DEF HintsOf
<1> HIDE DEF young, entries, packed
<1>7. packets \subseteq Packets
  <2>1. ASSUME NEW m \in arrived PROVE [from |-> n, to |-> m, hints |-> packed] \in Packets
    <3>1. m \in Nodes
      BY DEF Neighbours
    <3> QED
      BY <1>5, <3>1 DEF Packets
  <2> QED
    BY <2>1
<1> HIDE DEF packets, lost
<1>8. HintTypeOK'
  <2> USE DEF FloodInv, HintTypeOK
  <2>1. made' \subseteq RelayHints
    BY <1>1, <1>6
  <2>2. relayQ' \in [Nodes -> Seq(Entries)]
    <3>1. <<>> \in Seq(Entries)
      OBVIOUS
    <3> QED
      BY <1>6, <3>1
  <2>3. wire' \subseteq Packets
    BY <1>6, <1>7
  <2>4. losses' \in 0..MaxLosses
    <3>1. losses \in 0..MaxLosses /\ MaxLosses \in Nat
      BY HintRelayAssumption
    <3> QED
      BY <1>6, <3>1
  <2>5. remakes' \in 0..MaxRemakes
    <3>1. remakes \in 0..MaxRemakes /\ MaxRemakes \in Nat
      BY HintRelayAssumption
    <3>2. HintsOf(own) \cap made # {} => remakes < MaxRemakes
      BY <1>1
    <3> QED
      BY <1>6, <3>1, <3>2
  <2>6. dropped' \subseteq RelayHints
    <3>1. HintsOf(relayQ[n]) \subseteq RelayHints /\ HintsOf(entries) \subseteq RelayHints
      BY <1>2, <1>4, EntryHints
    <3> QED
      BY <3>1, <1>3, <1>5, <1>6
  <2> QED
    BY <1>6, <2>1, <2>2, <2>3, <2>4, <2>5, <2>6
<1>9. Remembers'
  BY <1>6 DEF FloodInv, Remembers
<1>10. FloodFront'
  <2> SUFFICES ASSUME NEW m \in Nodes, NEW h \in RelayHints, h \notin dropped', HasHint(m, h)'
               PROVE  h \in HintsOf(relayQ'[m]) \/ SentOn(m, h)'
    BY DEF FloodFront
  <2>1. h \notin dropped
    BY <1>6
  <2>2. SentOn(m, h) => SentOn(m, h)'
    BY <1>6 DEF SentOn, Neighbours
  <2>3. HasHint(m, h) \/ (m = n /\ h \in HintsOf(own))
    BY <1>1, <1>6 DEF HasHint
  <2>4. HasHint(m, h) => h \in HintsOf(relayQ[m]) \/ SentOn(m, h)
    BY <2>1 DEF FloodInv, FloodFront
  <2>5. CASE m # n
    <3>1. relayQ'[m] = relayQ[m]
      BY <1>6, <2>5 DEF FloodInv, HintTypeOK
    <3> QED
      BY <2>2, <2>3, <2>4, <2>5, <3>1
  \* what is in the packet is in every neighbour's, or has been dropped
  <2>6. CASE m = n /\ h \in HintsOf(entries)
    <3>1. h \in HintsOf(packed) /\ lost = {}
      BY <1>5, <1>6, <2>6
    <3>2. carried = Neighbours(n)
      BY <3>1, <1>e, <2>6 DEF lost
    <3>3. ASSUME NEW k \in Neighbours(m)
          PROVE  \E p \in wire' : p.to = k /\ h \in HintsOf(p.hints)
      <4> DEFINE p == [from |-> n, to |-> k, hints |-> packed]
      <4>1. p \in wire'
        BY <1>6, <3>2, <2>6 DEF packets
      <4>2. p.to = k /\ p.hints = packed
        OBVIOUS
      <4> QED
        BY <4>1, <4>2, <3>1
    <3>4. SentOn(m, h)'
      BY <3>3 DEF SentOn, Neighbours
    <3> QED
      BY <3>4
  <2>7. m = n /\ h \in HintsOf(relayQ[n]) => h \in HintsOf(entries)
    BY <1>3, <1>4, <1>6
  <2> QED
    BY <1>4, <2>2, <2>3, <2>4, <2>5, <2>6, <2>7
<1> QED
  BY <1>8, <1>9, <1>10 DEF FloodInv

LEMMA ReceiveKeeps ==
  ASSUME FloodInv, NEW p \in wire, ReceiveHints(p)
  PROVE  FloodInv'
<1> DEFINE n == p.to
           before == [queue |-> relayQ[n], ids |-> seenIds[n], full |-> FALSE]
           hints == Filtered(p.hints)
           after == FoldLeft(Relay, before, hints)
           queued == {after.queue[i].hint : i \in (Len(relayQ[n]) + 1)..Len(after.queue)}
           H == HintsOf(hints) \ Rejected
<1>1. n \in Nodes /\ p.hints \in Seq(Entries)
  BY DEF FloodInv, HintTypeOK, Packets
<1>2. before \in RelayStates /\ ~before.full
  BY <1>1 DEF FloodInv, HintTypeOK, RelayStates
<1>3. /\ hints \in Seq(Entries)
      /\ HintsOf(p.hints) = HintsOf(hints) \cup HintsOf(After(p.hints, MaxKept))
  BY <1>1, FilteredEntries
<1>4. after \in RelayStates /\ Relayed(before, hints, Len(hints), after)
  <2> HIDE DEF before, hints
  <2> QED
    BY <1>2, <1>3, RelayedAll
<1>5. before.queue = relayQ[n] /\ before.ids = seenIds[n]
  OBVIOUS
<1>6. H \subseteq RelayHints /\ HintsOf(p.hints) \subseteq RelayHints
  <2> HIDE DEF hints
  <2> QED
    BY <1>1, <1>3, EntryHints
<1>7. /\ wire' = wire \ {p}
      /\ relayQ' = [relayQ EXCEPT ![n] = after.queue]
      /\ seenIds' = [seenIds EXCEPT ![n] = after.ids]
      /\ cleared' = IF after.full THEN cleared \cup {n} ELSE cleared
      /\ gotHints' = [gotHints EXCEPT ![n] = gotHints[n] \cup H]
      /\ twice' = twice \cup {<<n, h>> : h \in {k \in queued : <<n, k>> \in once}}
      /\ once' = once \cup {<<n, h>> : h \in queued}
      /\ dropped' = dropped \cup HintsOf(After(p.hints, MaxKept)) \cup (HintsOf(hints) \cap Rejected)
      /\ \E count \in {0, rate[<<n, p.from>>]} :
           count < MaxRate /\ rate' = [rate EXCEPT ![<<n, p.from>>] = count + 1]
      /\ UNCHANGED <<made, remakes, losses>>
  BY DEF ReceiveHints
<1>8. /\ \A i \in 1..Len(relayQ[n]) : i \in 1..Len(after.queue) /\ after.queue[i] = relayQ[n][i]
      /\ H \subseteq seenIds[n] \cup queued
      /\ queued \subseteq H
      /\ after.ids \subseteq seenIds[n] \cup queued
      /\ ~after.full => seenIds[n] \cup queued \subseteq after.ids /\ seenIds[n] \cap queued = {}
  <2>1. relayQ[n] \in Seq(Entries) /\ after.queue \in Seq(Entries)
    BY <1>1, <1>4 DEF FloodInv, HintTypeOK, RelayStates
  <2>2. Relayed(before, hints, Len(hints), after)
    BY <1>4
  <2> HIDE DEF hints, after, before, H, queued
  <2>3. /\ Len(before.queue) <= Len(after.queue)
        /\ \A i \in 1..Len(before.queue) : after.queue[i] = before.queue[i]
        /\ \A i \in 1..Len(hints) : hints[i].hint \in Rejected \cup before.ids \cup queued
        /\ \A x \in queued : x \notin Rejected /\ \E i \in 1..Len(hints) : x = hints[i].hint
        /\ after.ids \subseteq before.ids \cup queued
        /\ ~after.full => before.ids \cup queued \subseteq after.ids /\ before.ids \cap queued = {}
    BY <2>2, <1>5 DEF Relayed, queued
  <2>4. Len(relayQ[n]) \in Nat /\ Len(after.queue) \in Nat
    BY <2>1
  <2> QED
    BY <2>3, <2>4, <1>5 DEF H, HintsOf
<1>9. /\ after.queue \in Seq(Entries) /\ after.ids \subseteq RelayHints
  BY <1>4 DEF RelayStates
<1>10. HintsOf(relayQ[n]) \cup queued \subseteq HintsOf(after.queue)
  <2>1. relayQ[n] \in Seq(Entries)
    BY <1>1 DEF FloodInv, HintTypeOK
  <2>2. \A i \in (Len(relayQ[n]) + 1)..Len(after.queue) : i \in 1..Len(after.queue)
    BY <2>1
  <2> HIDE DEF after
  <2> QED
    BY <1>8, <2>2 DEF HintsOf
<1> HIDE DEF hints, after, before, queued, H
<1>11. HintTypeOK'
  <2> USE DEF FloodInv, HintTypeOK
  <2>1. relayQ' \in [Nodes -> Seq(Entries)]
    BY <1>7, <1>9
  <2>2. seenIds' \in [Nodes -> SUBSET RelayHints]
    BY <1>7, <1>9
  <2>3. gotHints' \in [Nodes -> SUBSET RelayHints]
    BY <1>6, <1>7, <1>1
  <2>4. dropped' \subseteq RelayHints /\ cleared' \subseteq Nodes
    BY <1>1, <1>3, <1>6, <1>7
  <2>6. rate' \in [Nodes \X Nodes -> 0..MaxRate]
    <3>1. PICK count \in {0, rate[<<n, p.from>>]} :
            count < MaxRate /\ rate' = [rate EXCEPT ![<<n, p.from>>] = count + 1]
      BY <1>7
    <3>2. <<n, p.from>> \in Nodes \X Nodes
      BY <1>1 DEF Packets
    <3>3. MaxRate \in Nat /\ count \in 0..MaxRate
      BY <3>2, HintRelayAssumption
    <3>4. count + 1 \in 0..MaxRate
      BY <3>1, <3>3
    <3> QED
      BY <3>1, <3>4
  <2>5. once' \subseteq Nodes \X RelayHints /\ twice' \subseteq Nodes \X RelayHints
    <3>1. \A h \in queued : <<n, h>> \in Nodes \X RelayHints
      BY <1>1, <1>6, <1>8
    <3>2. once \subseteq Nodes \X RelayHints /\ twice \subseteq Nodes \X RelayHints
      OBVIOUS
    <3>3. {<<n, h>> : h \in queued} \subseteq Nodes \X RelayHints
      BY <3>1
    <3>4. {<<n, h>> : h \in {k \in queued : <<n, k>> \in once}} \subseteq {<<n, h>> : h \in queued}
      BY Zenon
    <3> HIDE DEF FloodInv, HintTypeOK, n
    <3> QED
      BY <1>7, <3>2, <3>3, <3>4, Zenon
  <2> QED
    BY <1>7, <2>1, <2>2, <2>3, <2>4, <2>5, <2>6
<1>12. Remembers'
  <2>1. ASSUME NEW m \in Nodes, NEW h \in RelayHints, <<m, h>> \in once', m \notin cleared'
        PROVE  h \in seenIds'[m]
    <3>1. m \notin cleared
      BY <2>1, <1>7
    <3>2. CASE <<m, h>> \in once
      <4>1. h \in seenIds[m]
        BY <3>1, <3>2 DEF FloodInv, Remembers
      <4>2. CASE m = n
        BY <4>1, <4>2, <2>1, <1>7, <1>8 DEF FloodInv, HintTypeOK
      <4>3. CASE m # n
        BY <4>1, <4>3, <1>7 DEF FloodInv, HintTypeOK
      <4> QED
        BY <4>2, <4>3
    <3>3. CASE m = n /\ h \in queued
      BY <3>3, <2>1, <1>7, <1>8 DEF FloodInv, HintTypeOK
    <3> QED
      BY <2>1, <1>7, <3>2, <3>3
  <2>2. ASSUME NEW m \in Nodes PROVE seenIds'[m] \subseteq gotHints'[m]
    <3>1. seenIds[m] \subseteq gotHints[m]
      BY DEF FloodInv, Remembers
    <3> QED
      BY <3>1, <1>7, <1>8 DEF FloodInv, HintTypeOK
  <2>3. ASSUME NEW pair \in twice' PROVE pair[1] \in cleared'
    <3>1. CASE pair \in twice
      BY <3>1, <1>7 DEF FloodInv, Remembers
    <3>2. ASSUME NEW h \in queued, <<n, h>> \in once, pair = <<n, h>> PROVE n \in cleared'
      <4>1. h \in RelayHints
        BY <1>6, <1>8
      <4>2. CASE n \in cleared
        BY <4>2, <1>7
      <4>3. CASE n \notin cleared
        <5>1. h \in seenIds[n]
          BY <3>2, <4>1, <4>3, <1>1 DEF FloodInv, Remembers
        <5>2. after.full
          BY <5>1, <1>8, Zenon
        <5> QED
          BY <5>2, <1>7
      <4> QED
        BY <4>2, <4>3
    <3>3. pair \in twice \/ \E h \in queued : <<n, h>> \in once /\ pair = <<n, h>>
      BY <1>7
    <3>4. ASSUME NEW h \in queued, <<n, h>> \in once, pair = <<n, h>> PROVE pair[1] \in cleared'
      <4>1. n \in cleared'
        BY <3>2, <3>4
      <4>2. pair[1] = n
        BY <3>4
      <4> QED
        BY <4>1, <4>2
    <3> QED
      BY <3>1, <3>3, <3>4
  <2> QED
    BY <2>1, <2>2, <2>3 DEF Remembers
<1>13. FloodFront'
  <2> SUFFICES ASSUME NEW m \in Nodes, NEW h \in RelayHints, h \notin dropped', HasHint(m, h)'
               PROVE  h \in HintsOf(relayQ'[m]) \/ SentOn(m, h)'
    BY DEF FloodFront
  <2>1. h \notin dropped /\ (h \in HintsOf(p.hints) => h \in H)
    BY <1>3, <1>7 DEF H
  <2>2. \A k \in Nodes : gotHints[k] \subseteq gotHints'[k]
    BY <1>7 DEF FloodInv, HintTypeOK
  <2>3. gotHints'[n] = gotHints[n] \cup H
    BY <1>1, <1>7 DEF FloodInv, HintTypeOK
  <2>4. ASSUME SentOn(m, h) PROVE SentOn(m, h)'
    <3> SUFFICES ASSUME NEW k \in Neighbours(m)
                 PROVE  h \in gotHints'[k] \/ \E q \in wire' : q.to = k /\ h \in HintsOf(q.hints)
      BY DEF SentOn, Neighbours
    <3>1. k \in Nodes
      BY DEF Neighbours
    <3>2. h \in gotHints[k] \/ \E q \in wire : q.to = k /\ h \in HintsOf(q.hints)
      BY <2>4 DEF SentOn
    <3>3. CASE h \in gotHints[k]
      BY <2>2, <3>1, <3>3
    <3>4. ASSUME NEW q \in wire, q.to = k, h \in HintsOf(q.hints)
          PROVE  h \in gotHints'[k] \/ \E r \in wire' : r.to = k /\ h \in HintsOf(r.hints)
      <4>1. CASE q = p
        BY <4>1, <3>4, <2>1, <2>3
      <4>2. CASE q # p
        BY <4>2, <3>4, <1>7
      <4> QED
        BY <4>1, <4>2
    <3> QED
      BY <3>2, <3>3, <3>4
  <2>5. HasHint(m, h) => h \in HintsOf(relayQ[m]) \/ SentOn(m, h)
    BY <2>1 DEF FloodInv, FloodFront
  <2>6. HintsOf(relayQ[m]) \subseteq HintsOf(relayQ'[m])
    <3>1. CASE m = n
      BY <3>1, <1>7, <1>10 DEF FloodInv, HintTypeOK
    <3>2. CASE m # n
      BY <3>2, <1>7 DEF FloodInv, HintTypeOK
    <3> QED
      BY <3>1, <3>2
  <2>7. CASE HasHint(m, h)
    BY <2>7, <2>4, <2>5, <2>6
  <2>8. CASE ~HasHint(m, h)
    <3>1. m = n /\ h \in H /\ h \notin gotHints[n]
      BY <2>8, <2>3, <1>7 DEF HasHint, FloodInv, HintTypeOK
    <3>2. h \notin seenIds[n]
      BY <3>1, <1>1 DEF FloodInv, Remembers
    <3>3. h \in queued
      BY <3>1, <3>2, <1>8
    <3>4. relayQ'[n] = after.queue
      BY <1>1, <1>7 DEF FloodInv, HintTypeOK
    <3> QED
      BY <3>1, <3>3, <3>4, <1>10
  <2> QED
    BY <2>7, <2>8
<1> QED
  BY <1>11, <1>12, <1>13 DEF FloodInv

LEMMA ThrottleKeeps ==
  ASSUME FloodInv, NEW p \in wire, ThrottleHints(p)
  PROVE  FloodInv'
<1>1. HintsOf(p.hints) \subseteq RelayHints
  BY EntryHints DEF FloodInv, HintTypeOK, Packets
<1>2. /\ wire' = wire \ {p} /\ dropped' = dropped \cup HintsOf(p.hints)
      /\ UNCHANGED <<made, remakes, relayQ, seenIds, rate, gotHints, twice, once, cleared, losses>>
  BY DEF ThrottleHints
<1>3. HintTypeOK' /\ Remembers'
  BY <1>1, <1>2 DEF FloodInv, HintTypeOK, Remembers
<1>4. FloodFront'
  <2> SUFFICES ASSUME NEW m \in Nodes, NEW h \in RelayHints, h \notin dropped', HasHint(m, h)'
               PROVE  h \in HintsOf(relayQ'[m]) \/ SentOn(m, h)'
    BY DEF FloodFront
  <2>1. h \in HintsOf(relayQ[m]) \/ SentOn(m, h)
    BY <1>2 DEF FloodInv, FloodFront, HasHint
  <2>2. \A q \in wire : h \in HintsOf(q.hints) => q \in wire'
    BY <1>2
  <2> QED
    BY <1>2, <2>1, <2>2 DEF SentOn, Neighbours
<1> QED
  BY <1>3, <1>4 DEF FloodInv

\* What a flood from a node can reach stays in every set of nodes that is closed under sending.
LEMMA ReachStaysIn ==
  ASSUME NEW o \in Nodes, NEW C \in SUBSET Nodes, o \in C,
         \A m \in C : Neighbours(m) \subseteq C
  PROVE  Reach(o) \subseteq C
<1> DEFINE n == Cardinality(Nodes)
           D == 1..n
           X == SUBSET C
           F(f) == [s \in SUBSET D |-> IF s = {} THEN {o} ELSE Within(f[s \ {Max(s)}])]
           iter == CHOOSE f : f = F(f)
           g == [p \in X \X D |-> Within(p[1])]
<1>1. n \in Nat
  BY HintRelayAssumption, FS_CardinalityType
<1>2. Reach(o) = iter[D]
  BY Zenon DEF Reach, FoldLeft, MapThenFoldSet
<1>3. g \in [X \X D -> X]
  <2>1. \A S \in X : Within(S) \in X
    BY DEF Within
  <2> QED
    BY <2>1
<1>x. {o} \in X
  OBVIOUS
<1>4. PICK f : IsFold(f, n, X, {o}, g)
  <2> HIDE DEF g, n, X
  <2> QED
    BY <1>1, <1>3, <1>x, FoldExists
<1>5. /\ f[{}] = {o} /\ f = [s \in SUBSET D |-> f[s]]
      /\ \A s \in SUBSET D : f[s] \in X
      /\ \A s \in SUBSET D : s # {} => f[s] = g[<<f[s \ {Max(s)}], Max(s)>>]
  BY <1>4 DEF IsFold
<1>6. \A s \in SUBSET D : s # {} => Max(s) \in D
  BY <1>1, Greatest
<1>7. f = F(f)
  <2>1. ASSUME NEW s \in SUBSET D PROVE f[s] = F(f)[s]
    <3>1. CASE s = {}
      BY <3>1, <1>5
    <3>2. CASE s # {}
      <4>1. f[s] = g[<<f[s \ {Max(s)}], Max(s)>>] /\ <<f[s \ {Max(s)}], Max(s)>> \in X \X D
        <5> HIDE DEF g, X
        <5> QED
          BY <3>2, <1>5, <1>6
      <4>2. f[s] = Within(f[s \ {Max(s)}])
        BY <4>1
      <4> QED
        BY <4>2, <3>2
    <3> QED
      BY <3>1, <3>2
  <2> HIDE DEF g
  <2> QED
    BY <2>1, <1>5
<1>8. iter = F(iter)
  <2> HIDE DEF F
  <2> QED
    BY <1>7
<1> HIDE DEF iter
<1>9. Folds(iter, n, X, {o}, g)
  <2>1. iter[{}] = {o}
    <3>1. F(iter)[{}] = {o}
      OBVIOUS
    <3> HIDE DEF F
    <3> QED
      BY <3>1, <1>8
  <2>2. ASSUME NEW s \in SUBSET D, s # {}, iter[s \ {Max(s)}] \in X
        PROVE  iter[s] = g[<<iter[s \ {Max(s)}], Max(s)>>]
    <3>1. F(iter)[s] = Within(iter[s \ {Max(s)}])
      BY <2>2
    <3>2. iter[s] = F(iter)[s]
      <4> HIDE DEF F
      <4> QED
        BY <1>8
    <3>3. <<iter[s \ {Max(s)}], Max(s)>> \in X \X D
      <4> HIDE DEF X
      <4> QED
        BY <2>2, <1>6
    <3> HIDE DEF F
    <3> QED
      BY <3>1, <3>2, <3>3
  <2> HIDE DEF F, g
  <2> QED
    BY <2>1, <2>2 DEF Folds
<1>10. PICK h : IsWay(h, n, X, {o}, g, iter[D])
  <2> HIDE DEF F, g, n, X
  <2> QED
    BY <1>1, <1>3, <1>9, <1>x, FoldSteps
<1>11. h[n] \in X /\ h[n] = iter[D]
  <2> HIDE DEF X, g, F
  <2> QED
    BY <1>1, <1>10 DEF IsWay
<1> QED
  BY <1>2, <1>11

LEMMA FloodInvInit == HintRelayInit => FloodInv
<1> SUFFICES ASSUME HintRelayInit PROVE FloodInv
  OBVIOUS
<1>1. HintTypeOK
  <2>1. <<>> \in Seq(Entries)
    OBVIOUS
  <2> QED
    BY <2>1, HintRelayAssumption DEF HintRelayInit, HintTypeOK
<1>2. Remembers
  BY DEF HintRelayInit, Remembers
<1>3. FloodFront
  BY DEF HintRelayInit, FloodFront, HasHint
<1> QED
  BY <1>1, <1>2, <1>3 DEF FloodInv

LEMMA FloodInvNext == FloodInv /\ [HintRelayNext]_hrVars => FloodInv'
<1> SUFFICES ASSUME FloodInv, [HintRelayNext]_hrVars PROVE FloodInv'
  OBVIOUS
<1>1. ASSUME NEW n \in Nodes, NEW own \in OwnHint(n), NEW arrived \in SUBSET Neighbours(n),
             NEW aged \in 0..Len(relayQ[n]), PublishHints(n, own, aged, arrived)
      PROVE  FloodInv'
  BY <1>1, PublishKeeps
<1>2. ASSUME NEW p \in wire, ReceiveHints(p) \/ ThrottleHints(p) PROVE FloodInv'
  BY <1>2, ReceiveKeeps, ThrottleKeeps
<1>3. CASE UNCHANGED hrVars
  BY <1>3 DEF hrVars, FloodInv, HintTypeOK, Remembers, FloodFront, HasHint, SentOn, Neighbours
<1> QED
  BY <1>1, <1>2, <1>3 DEF HintRelayNext

\* What a packet carries is a hint and no more hops than a relay gives it.
THEOREM HintTypeCorrect == HintRelaySpec => []HintTypeOK
<1>1. FloodInv => HintTypeOK
  BY DEF FloodInv
<1> QED
  BY <1>1, FloodInvInit, FloodInvNext, PTL DEF HintRelaySpec

\* A flood ends, and until a hint is given up somewhere for its age, for room, with a lost
\* packet or by a filter, it reaches every node on the way: for any network, any sizes of
\* packets, rates and memories of relayed ids (get_hints_for_broadcast, validate,
\* absorb_peer_hints).
THEOREM FloodReachesAll == HintRelaySpec => []FloodReaches
<1>1. FloodInv => FloodReaches
  <2> SUFFICES ASSUME FloodInv PROVE FloodReaches
    OBVIOUS
  <2>1. ASSUME wire = {}, \A n \in Nodes : relayQ[n] = <<>>, NEW h \in made, h \notin dropped,
               NEW n \in Reach(MakerOf[h]), n # MakerOf[h]
        PROVE  h \in gotHints[n]
    <3>1. h \in RelayHints /\ MakerOf[h] \in Nodes
      BY HintRelayAssumption DEF FloodInv, HintTypeOK
    <3> DEFINE C == {m \in Nodes : HasHint(m, h)}
    <3>2. MakerOf[h] \in C
      BY <3>1 DEF HasHint
    <3>3. ASSUME NEW m \in C, NEW k \in Neighbours(m) PROVE k \in C
      <4>1. h \in HintsOf(relayQ[m]) \/ SentOn(m, h)
        BY <2>1, <3>1 DEF FloodInv, FloodFront
      <4>2. HintsOf(relayQ[m]) = {}
        BY <2>1 DEF HintsOf
      <4>3. h \in gotHints[k]
        BY <4>1, <4>2, <2>1 DEF SentOn
      <4> QED
        BY <4>3 DEF HasHint, Neighbours
    <3>4. Reach(MakerOf[h]) \subseteq C
      <4>1. C \in SUBSET Nodes
        OBVIOUS
      <4> HIDE DEF C
      <4> QED
        BY <3>1, <3>2, <3>3, <4>1, ReachStaysIn
    <3> QED
      BY <3>4, <2>1 DEF HasHint
  <2>2. losses \in Nat /\ \A pair \in twice : pair[1] \in cleared
    BY DEF FloodInv, HintTypeOK, Remembers
  <2> QED
    BY <2>1, <2>2 DEF FloodReaches
<1> QED
  BY <1>1, FloodInvInit, FloodInvNext, PTL DEF HintRelaySpec

-----------------------------------------------------------------------------
(* The specification in which each part is checked.                        *)

\* A step of the agent alone keeps the types of the node.
LEMMA AgentAloneTypes ==
  ASSUME NodeTypeInv, Next, UNCHANGED <<metricsVars, cli, gossip>>
  PROVE  NodeTypeInv'
<1>1. TypeInv'
  BY TypeNext DEF NodeTypeInv
<1>2. TypeOK'
  BY <1>1 DEF TypeInv
<1>3. UNCHANGED <<rows, clean, consent, rpc, revokes, told, gpc, fps, leaks>>
  BY DEF metricsVars, cli, gossip
<1> QED
  BY <1>1, <1>2, <1>3 DEF NodeTypeInv, NodeTypeOK

\* A step of the run is a step of every part, but for the agent's, which runs without the gates
\* that a node puts before it.
LEMMA ServicesSteps ==
  ASSUME [ServicesNext]_allVars
  PROVE  /\ [NodeNext]_nodeVars \/ (Next /\ UNCHANGED <<metricsVars, cli, gossip>>)
         /\ [CtrlNext]_ctrlVars /\ [BlindspotNext]_bsVars /\ [BrokerNext]_tbVars
         /\ [ConsensusNext]_ceVars /\ [ChainNext]_scVars /\ [PoolNext]_apVars
         /\ [HintRelayNext]_hrVars /\ [FileNext]_fileVars
<1>1. CASE UNCHANGED allVars
  BY <1>1 DEF allVars
<1>2. ASSUME Others
      PROVE  /\ part \notin {"agent", "node"} => UNCHANGED nodeVars
             /\ part # "controller" => UNCHANGED ctrlVars
             /\ part # "blindspot" => UNCHANGED bsVars
             /\ part # "broker" => UNCHANGED tbVars
             /\ part # "consensus" => UNCHANGED ceVars
             /\ part # "chain" => UNCHANGED scVars
             /\ part # "pool" => UNCHANGED apVars
             /\ part # "hints" => UNCHANGED hrVars
             /\ part # "file" => UNCHANGED fileVars
  BY <1>2, Zenon DEF Others
<1>3. CASE part = "agent" /\ AgentNext /\ Others
  BY <1>2, <1>3 DEF AgentNext
<1>4. CASE part = "node" /\ NodeOfOneNext /\ Others
  BY <1>2, <1>4 DEF NodeOfOneNext
<1>5. CASE part = "controller" /\ CtrlNext /\ Others
  BY <1>2, <1>5
<1>6. CASE part = "blindspot" /\ BlindspotNext /\ Others
  BY <1>2, <1>6
<1>7. CASE part = "broker" /\ BrokerNext /\ Others
  BY <1>2, <1>7
<1>8. CASE part = "consensus" /\ ConsensusNext /\ Others
  BY <1>2, <1>8
<1>9. CASE part = "chain" /\ ChainNext /\ Others
  BY <1>2, <1>9
<1>10. CASE part = "pool" /\ PoolNext /\ Others
  BY <1>2, <1>10
<1>11. CASE part = "hints" /\ HintRelayNext /\ Others
  BY <1>2, <1>11
<1>12. CASE part = "file" /\ FileNext /\ Others
  BY <1>2, <1>12
<1> QED
  BY <1>1, <1>3, <1>4, <1>5, <1>6, <1>7, <1>8, <1>9, <1>10, <1>11, <1>12 DEF ServicesNext

LEMMA ServicesStart ==
  ServicesInit => /\ NodeInit /\ CtrlInit /\ BlindspotInit /\ BrokerInit /\ ConsensusInit
                  /\ ChainInit /\ PoolInit /\ HintRelayInit /\ FileInit
  BY DEF ServicesInit

\* Whatever part a behaviour of the run has picked, it is a behaviour of every component but
\* the node, whose agent also runs alone: what is proved of a component holds in the run.
THEOREM ServicesImplementsParts ==
  ServicesSpec => /\ CtrlSpec /\ BlindspotSpec /\ BrokerSpec /\ ConsensusSpec
                  /\ ChainSpec /\ PoolSpec /\ HintRelaySpec /\ FileSpec
<1>1. [ServicesNext]_allVars =>
         /\ [CtrlNext]_ctrlVars /\ [BlindspotNext]_bsVars /\ [BrokerNext]_tbVars
         /\ [ConsensusNext]_ceVars /\ [ChainNext]_scVars /\ [PoolNext]_apVars
         /\ [HintRelayNext]_hrVars /\ [FileNext]_fileVars
  BY ServicesSteps
<1> QED
  BY <1>1, ServicesStart, PTL
     DEF ServicesSpec, CtrlSpec, BlindspotSpec, BrokerSpec, ConsensusSpec, ChainSpec, PoolSpec,
         HintRelaySpec, FileSpec

\* Every variable of the services keeps its type, whichever of them runs.
THEOREM ServicesTypeCorrect == ServicesSpec => []ServicesTypeOK
<1>1. ServicesSpec => []NodeTypeInv
  <2>1. ServicesInit => NodeTypeInv
    BY ServicesStart, NodeTypeInit
  <2>2. NodeTypeInv /\ [ServicesNext]_allVars => NodeTypeInv'
    BY ServicesSteps, NodeTypeNext, AgentAloneTypes
  <2> QED
    BY <2>1, <2>2, PTL DEF ServicesSpec
<1>2. NodeTypeInv /\ CtrlTypeOK /\ BlindspotTypeOK /\ BrokerTypeOK /\ ConsensusTypeOK
         /\ ChainTypeOK /\ PoolTypeOK /\ HintTypeOK /\ FileTypeOK => ServicesTypeOK
  BY DEF NodeTypeInv, ServicesTypeOK
<1> QED
  BY <1>1, <1>2, ServicesImplementsParts, CtrlTypeCorrect, BlindspotTypeCorrect,
     BrokerTypeCorrect, ConsensusTypeCorrect, ChainTypeCorrect, PoolTypeCorrect,
     HintTypeCorrect, FileTypeCorrect, PTL
=============================================================================
