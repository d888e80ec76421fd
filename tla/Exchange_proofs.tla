-------------------------- MODULE Exchange_proofs ---------------------------
(***************************************************************************)
(* The algorithm tokens and the headless daemon, for any number of tokens, *)
(* restarts, consolidations and changes of the consent; and that the types *)
(* hold in the specification in which they are checked with the command    *)
(* file.                                                                   *)
(***************************************************************************)
EXTENDS MCExchange, FileCommand_proofs, DataInduction, FiniteSetTheorems, SequenceTheorems, TLAPS

-----------------------------------------------------------------------------
(* The algorithm tokens.                                                   *)

LEMMA PrefixElements ==
  ASSUME sendQueue \in Seq(Tokens), NEW k \in 0..Len(sendQueue)
  PROVE  Elements(SubSeq(sendQueue, 1, k)) = {sendQueue[i] : i \in 1..k}
<1>1. \A i \in 1..k : sendQueue[i] \in Tokens
  OBVIOUS
<1>2. /\ SubSeq(sendQueue, 1, k) \in Seq(Tokens) /\ Len(SubSeq(sendQueue, 1, k)) = k
      /\ \A i \in 1..k : SubSeq(sendQueue, 1, k)[i] = sendQueue[i]
  BY <1>1, SubSeqProperties
<1>3. DOMAIN SubSeq(sendQueue, 1, k) = 1..k
  BY <1>2
<1> QED
  BY <1>2, <1>3 DEF Elements

\* How many different tokens the first k entries of the queue hold.
Count(k) == Cardinality(Elements(SubSeq(sendQueue, 1, k)))

LEMMA PrefixCounts ==
  ASSUME sendQueue \in Seq(Tokens)
  PROVE  /\ Count(0) = 0
         /\ \A k \in 0..Len(sendQueue) : Count(k) \in Nat
         /\ \A k \in 1..Len(sendQueue) : Count(k) <= Count(k - 1) + 1
<1> DEFINE P(k) == {sendQueue[i] : i \in 1..k}
<1>1. ASSUME NEW k \in 0..Len(sendQueue)
      PROVE  Count(k) = Cardinality(P(k)) /\ IsFiniteSet(P(k))
  <2>1. P(k) \in SUBSET Tokens
    OBVIOUS
  <2>2. IsFiniteSet(P(k))
    BY <2>1, FS_Subset, AlgoAssumption DEF AlgoAssumption
  <2> QED
    BY <2>2, PrefixElements DEF Count
<1>2. Count(0) = 0
  <2>1. P(0) = {}
    OBVIOUS
  <2> QED
    BY <1>1, <2>1, FS_EmptySet
<1>3. ASSUME NEW k \in 0..Len(sendQueue) PROVE Count(k) \in Nat
  BY <1>1, FS_CardinalityType
<1>4. ASSUME NEW k \in 1..Len(sendQueue) PROVE Count(k) <= Count(k - 1) + 1
  <2>1. k - 1 \in 0..Len(sendQueue) /\ k \in 0..Len(sendQueue)
    OBVIOUS
  <2>2. P(k) = P(k - 1) \cup {sendQueue[k]}
    OBVIOUS
  <2> HIDE DEF P
  <2>3. Cardinality(P(k)) = Cardinality(P(k - 1)) \/ Cardinality(P(k)) = Cardinality(P(k - 1)) + 1
    BY <1>1, <2>1, <2>2, FS_AddElement
  <2> QED
    BY <1>1, <1>3, <2>1, <2>3
<1> QED
  BY <1>2, <1>3, <1>4

\* get_tokens_for_gossip() always finds where the packet is full or the queue ends.
LEMMA SomeHandled ==
  ASSUME sendQueue \in Seq(Tokens)
  PROVE  Handled \in 0..Len(sendQueue)
<1> DEFINE n == Len(sendQueue)
           Full == {k \in 0..n : k = n \/ Count(k) >= Limit}
<1>1. n \in Nat /\ Limit \in Nat \ {0}
  BY AlgoAssumption DEF AlgoAssumption
<1>2. PICK m \in Full : \A k \in Full : m <= k
  <2>1. Full \in SUBSET Nat /\ n \in Full
    BY <1>1
  <2> HIDE DEF Full
  <2> QED
    BY <2>1, LeastNumber
<1>3. m \in 0..n
  OBVIOUS
<1>4. ASSUME NEW j \in 0..(m - 1) PROVE Count(j) < Limit
  <2>1. j \in 0..n /\ j < m /\ j # n
    BY <1>1, <1>3
  <2>2. j \notin Full
    BY <1>2, <2>1, <1>3
  <2> QED
    BY <1>1, <2>1, <2>2, PrefixCounts
<1>5. ASSUME m < n PROVE Count(m) = Limit
  <2>1. Count(m) >= Limit
    BY <1>1, <1>3, <1>5, <1>2
  <2>2. m # 0
    BY <2>1, <1>1, PrefixCounts
  <2>3. m \in 1..n /\ m - 1 \in 0..(m - 1) /\ m - 1 \in 0..n
    BY <2>2, <1>1, <1>3
  <2>4. Count(m - 1) < Limit /\ Count(m) <= Count(m - 1) + 1
    BY <2>3, <1>4, PrefixCounts
  <2>5. Count(m) \in Nat /\ Count(m - 1) \in Nat
    BY <2>3, <1>3, PrefixCounts
  <2> QED
    BY <2>1, <2>4, <2>5, <1>1
<1> QED
  BY <1>3, <1>4, <1>5 DEF Handled, Count

LEMMA FreshQueued ==
  ASSUME sendQueue \in Seq(Tokens)
  PROVE  Fresh \subseteq Elements(sendQueue)
<1>1. Handled \in 0..Len(sendQueue)
  BY SomeHandled
<1>2. Fresh = {sendQueue[i] : i \in 1..Handled}
  BY <1>1, PrefixElements DEF Fresh
<1> QED
  BY <1>1, <1>2 DEF Elements

\* What is told is known, and what is known is stored by a save that succeeds.
ToldInv ==
    /\ AlgoTypeOK
    /\ ~unstored => tokenFile = tokens
    /\ Elements(sendQueue) \subseteq tokens
    /\ pendingTok \in tokens \cup {NoToken}
    /\ ~forgot => announced \subseteq tokens

LEMMA Enqueued ==
  ASSUME ToldInv, NEW tok \in Tokens, Enqueue(tok), tokens' = tokens \cup {tok}
  PROVE  sendQueue' \in Seq(Tokens) /\ Elements(sendQueue') \subseteq tokens'
<1>1. CASE sendQueue' = sendQueue
  BY <1>1 DEF ToldInv, AlgoTypeOK
<1>2. CASE sendQueue' = Append(sendQueue, tok)
  BY <1>2 DEF ToldInv, AlgoTypeOK, Elements
<1> QED
  BY <1>1, <1>2 DEF Enqueue

LEMMA Saved ==
  ASSUME ToldInv, Save, tokens' \subseteq Tokens
  PROVE  /\ tokenFile' \subseteq Tokens /\ storeFaults' \in Nat /\ unstored' \in BOOLEAN
         /\ ~unstored' => tokenFile' = tokens'
<1>1. unstored' \in BOOLEAN
  BY Zenon DEF Save
<1> QED
  BY <1>1 DEF Save, ToldInv, AlgoTypeOK

LEMMA Reloaded ==
  ASSUME ToldInv, NEW content \in SUBSET tokenFile, NEW stale \in BOOLEAN,
         Reload(content, stale), ~stale => content = tokens
  PROVE  ToldInv'
<1>1. forgot' \in BOOLEAN /\ unstored' \in BOOLEAN
  BY Zenon DEF Reload
<1>2. ~forgot' => ~forgot /\ ~stale
  BY Zenon DEF Reload
<1>3. sendQueue' = <<>> /\ Elements(<<>>) = {} /\ <<>> \in Seq(Tokens)
  BY DEF Elements, Reload
<1>4. sendQueue' \in Seq(Tokens) /\ Elements(sendQueue') = {}
  BY <1>3
<1>5. /\ restarts' = restarts + 1 /\ tokens' = content
      /\ tokenFile' = content /\ sentOnce' = {} /\ pendingTok' = NoToken /\ lastHit' = 0
      /\ packetTok' = {} /\ UNCHANGED <<announced, peersHave, storeFaults>>
  BY DEF Reload
<1>6. AlgoTypeOK'
  BY <1>1, <1>4, <1>5 DEF ToldInv, AlgoTypeOK
<1> QED
  BY <1>2, <1>4, <1>5, <1>6 DEF ToldInv

LEMMA ToldInvNext == ToldInv /\ [AlgoNext]_asVars => ToldInv'
<1> SUFFICES ASSUME ToldInv, [AlgoNext]_asVars PROVE ToldInv'
  OBVIOUS
<1> USE AlgoAssumption DEF AlgoAssumption
<1>1. CASE UNCHANGED asVars
  BY <1>1 DEF asVars, ToldInv, AlgoTypeOK, Elements
<1>2. ASSUME NEW tok \in OwnTokens, NEW hit \in 1..MaxHit, EmitToken(tok, hit) PROVE ToldInv'
  <2>1. tok \in Tokens /\ tokens' = tokens \cup {tok} /\ Enqueue(tok) /\ hit \in Nat
    BY <1>2 DEF EmitToken
  <2>2. sendQueue' \in Seq(Tokens) /\ Elements(sendQueue') \subseteq tokens'
    BY <2>1, Enqueued
  <2> QED
    BY <1>2, <2>1, <2>2, Saved DEF EmitToken, lives, ToldInv, AlgoTypeOK
<1>3. ASSUME NEW tok \in Tokens, ReceiveToken(tok) PROVE ToldInv'
  <2>1. tokens' = tokens \cup {tok} /\ Enqueue(tok)
    BY <1>3 DEF ReceiveToken
  <2>2. sendQueue' \in Seq(Tokens) /\ Elements(sendQueue') \subseteq tokens'
    BY <2>1, Enqueued
  <2> QED
    BY <1>3, <2>1, <2>2, Saved DEF ReceiveToken, lives, ToldInv, AlgoTypeOK
<1>4. ASSUME NEW tok \in Tokens, FetchBest(tok) PROVE ToldInv'
  <2>1. tok \in tokens
    BY <1>4 DEF FetchBest, ToldInv
  <2> QED
    BY <1>4, <2>1 DEF FetchBest, storeSide, lives, ToldInv, AlgoTypeOK, Elements
<1>5. ASSUME NEW S \in SUBSET tokens, FetchTokens(S) PROVE ToldInv'
  <2>1. sendQueue \in Seq(Tokens)
    BY DEF ToldInv, AlgoTypeOK
  <2>2. Handled \in 0..Len(sendQueue) /\ Fresh \subseteq Elements(sendQueue)
    BY <2>1, SomeHandled, FreshQueued
  <2>3. packetTok' \subseteq tokens /\ Fresh \subseteq tokens
    BY <1>5, <2>2 DEF FetchTokens, ToldInv
  <2>4. sendQueue' \in Seq(Tokens) /\ Elements(sendQueue') \subseteq Elements(sendQueue)
    <3>1. sendQueue' = SubSeq(sendQueue, Handled + 1, Len(sendQueue))
      BY <1>5 DEF FetchTokens
    <3>2. \A i \in (Handled + 1)..Len(sendQueue) : sendQueue[i] \in Tokens
      BY <2>1, <2>2
    <3>3. /\ sendQueue' \in Seq(Tokens)
          /\ Len(sendQueue') = IF Handled + 1 <= Len(sendQueue) THEN Len(sendQueue) - Handled ELSE 0
          /\ \A i \in 1..(Len(sendQueue) - Handled) : sendQueue'[i] = sendQueue[Handled + i]
      BY <3>1, <3>2, <2>1, <2>2, SubSeqProperties
    <3>4. ASSUME NEW i \in DOMAIN sendQueue' PROVE sendQueue'[i] \in Elements(sendQueue)
      <4>1. i \in 1..(Len(sendQueue) - Handled)
        BY <2>2, <3>3
      <4>2. Handled + i \in DOMAIN sendQueue
        BY <2>1, <2>2, <4>1
      <4> QED
        BY <3>3, <4>1, <4>2 DEF Elements
    <3> QED
      BY <3>3, <3>4 DEF Elements
  <2>5. announced' = announced \cup packetTok' /\ tokens' = tokens /\ tokenFile' = tokenFile
           /\ sentOnce' = sentOnce \cup Fresh
           /\ UNCHANGED <<forgot, unstored, storeFaults>>
    BY <1>5 DEF FetchTokens, storeSide, lives
  <2>6. pendingTok' \in {pendingTok, NoToken} /\ peersHave' \subseteq peersHave \cup packetTok'
           /\ UNCHANGED <<lastHit, restarts>>
    BY <1>5 DEF FetchTokens, lives
  <2> QED
    BY <2>3, <2>4, <2>5, <2>6 DEF ToldInv, AlgoTypeOK
<1>6. CASE RestartAlgo
  <2>1. unstored \in BOOLEAN /\ (~unstored => tokenFile = tokens)
    BY DEF ToldInv, AlgoTypeOK
  <2> QED
    BY <1>6, <2>1, Reloaded DEF RestartAlgo
<1>7. CASE CrashInSave
  BY <1>7, Reloaded DEF CrashInSave
<1> QED
  BY <1>1, <1>2, <1>3, <1>4, <1>5, <1>6, <1>7 DEF AlgoNext

LEMMA ToldInvInit == AlgoInit => ToldInv
<1> SUFFICES ASSUME AlgoInit PROVE ToldInv
  OBVIOUS
<1>1. Elements(<<>>) = {} /\ <<>> \in Seq(Tokens)
  BY DEF Elements
<1>2. sendQueue \in Seq(Tokens) /\ Elements(sendQueue) = {}
  <2>1. sendQueue = <<>>
    BY DEF AlgoInit
  <2> QED
    BY <1>1, <2>1
<1>3. /\ unstored \in BOOLEAN /\ forgot \in BOOLEAN
      /\ lastHit \in Nat /\ restarts \in Nat /\ storeFaults \in Nat
  BY DEF AlgoInit
<1>4. pendingTok = NoToken /\ \A S \in {tokens, tokenFile, sentOnce, packetTok, announced,
                                        peersHave} : S = {}
  BY DEF AlgoInit
<1> QED
  BY <1>2, <1>3, <1>4 DEF ToldInv, AlgoTypeOK

\* The tokens, the queue and the packets keep their types (modules/algo_share.py).
THEOREM AlgoTypeCorrect == AlgoSpec => []AlgoTypeOK
<1>1. ToldInv => AlgoTypeOK
  BY DEF ToldInv
<1> QED
  BY <1>1, ToldInvInit, ToldInvNext, PTL DEF AlgoSpec

\* What peers have been told this node knows, until a start has read a file that the last save
\* had not brought up to date; only a failed save leaves such a file.
THEOREM ToldIsKept == AlgoSpec => []ToldIsStored
<1>1. ToldInv => ToldIsStored
  BY DEF ToldInv, ToldIsStored
<1> QED
  BY <1>1, ToldInvInit, ToldInvNext, PTL DEF AlgoSpec

-----------------------------------------------------------------------------
(* The daemon's swarm task and its learner.                                *)

HeadlessTypes ==
    /\ hsConsent \in {"yes", "no", "missing"}
    /\ tier \in {"full", "relay", "beacon", "none"}
    /\ runner \in {"idle", "declined", "made", "raised", "alive", "stopEvent", "stopFlag",
                   "join", "ended"}
    /\ gt \in {"none", "claim", "clear", "spawn", "head", "round", "done"}
    /\ failsInRow \in 0..Threshold
    /\ wpc \in [Workers -> {"none", "sleep", "read", "write", "done"}]
    /\ noted \in [Workers -> BOOLEAN]
    /\ stateFile \subseteq BOOLEAN
    /\ consentChanges \in 0..MaxConsentChanges /\ lostWrites \in 0..MaxLostWrites

HeadlessFlags ==
    /\ cancelled \in BOOLEAN /\ layerStop \in BOOLEAN /\ lateBoot \in BOOLEAN
    /\ offline \in BOOLEAN /\ olRunning \in BOOLEAN /\ olStop \in BOOLEAN
    /\ recorded \in BOOLEAN /\ writeLost \in BOOLEAN

LEMMA HeadlessFlagsNext ==
  HeadlessTypes /\ HeadlessFlags /\ [HeadlessNext]_hsVars => HeadlessFlags'
<1> SUFFICES ASSUME HeadlessTypes, HeadlessFlags, [HeadlessNext]_hsVars PROVE HeadlessFlags'
  OBVIOUS
<1>1. CASE UNCHANGED hsVars
  BY <1>1, Zenon DEF hsVars, HeadlessFlags
<1>2. ASSUME NEW answer, ToggleConsent(answer) PROVE HeadlessFlags'
  BY <1>2, Zenon DEF ToggleConsent, learnerSide, stateSide, HeadlessFlags
<1>3. CASE CancelDaemon
  BY <1>3, Zenon DEF CancelDaemon, learnerSide, stateSide, HeadlessFlags
<1>4. CASE CreateTaskIfConsented
  BY <1>4, Zenon DEF CreateTaskIfConsented, learnerSide, stateSide, HeadlessFlags
<1>5. CASE StartLayer
  BY <1>5, Zenon DEF StartLayer, learnerSide, stateSide, HeadlessFlags
<1>6. CASE StopLayer
  BY <1>6, Zenon DEF StopLayer, learnerSide, stateSide, HeadlessFlags
<1>7. CASE StopLearner
  BY <1>7, Zenon DEF StopLearner, learnerSide, stateSide, HeadlessFlags
<1>8. CASE ResetRunning
  BY <1>8, Zenon DEF ResetRunning, learnerSide, stateSide, HeadlessFlags
<1>9. CASE JoinGossip
  BY <1>9, Zenon DEF JoinGossip, learnerSide, stateSide, HeadlessFlags
<1>10. CASE ClaimLoop
  BY <1>10, Zenon DEF ClaimLoop, daemonSide, learnerSide, stateSide, HeadlessFlags
<1>11. CASE ClearEvent
  BY <1>11, Zenon DEF ClearEvent, daemonSide, learnerSide, stateSide, HeadlessFlags
<1>12. CASE SpawnLoop
  BY <1>12, Zenon DEF SpawnLoop, daemonSide, stateSide, HeadlessFlags
<1>13. CASE GossipHead
  BY <1>13, Zenon DEF GossipHead, daemonSide, learnerSide, stateSide, HeadlessFlags
<1>14. CASE RoundSucceeds
  BY <1>14, Zenon DEF RoundSucceeds, daemonSide, learnerSide, stateSide, HeadlessFlags
<1>15. CASE RoundFails
  <2>1. UNCHANGED <<cancelled, layerStop, lateBoot, olRunning, olStop>>
    BY <1>15, Zenon DEF RoundFails, daemonSide
  <2>2. offline' \in BOOLEAN /\ recorded' \in BOOLEAN /\ writeLost' \in BOOLEAN
    BY <1>15, Zenon DEF RoundFails
  <2> QED
    BY <2>1, <2>2, Zenon DEF HeadlessFlags
<1>16. CASE LoopWakes
  BY <1>16, Zenon DEF LoopWakes, daemonSide, stateSide, HeadlessFlags
<1>17. ASSUME NEW w \in Workers, ReadOffline(w) PROVE HeadlessFlags'
  BY <1>17, Zenon DEF ReadOffline, daemonSide, stateSide, HeadlessFlags
<1>18. ASSUME NEW w \in Workers, WriteState(w) PROVE HeadlessFlags'
  <2>1. recorded' \in BOOLEAN /\ writeLost' \in BOOLEAN
    <3>1. CASE WriteLands(noted[w])
      BY <3>1, Zenon DEF WriteLands, HeadlessFlags
    <3>2. CASE WriteFails(noted[w])
      BY <3>2, Zenon DEF WriteFails, HeadlessFlags
    <3> QED
      BY <1>18, <3>1, <3>2, Zenon DEF WriteState
  <2> QED
    BY <1>18, <2>1, Zenon DEF WriteState, daemonSide, HeadlessFlags
<1> QED
  BY <1>1, <1>2, <1>3, <1>4, <1>5, <1>6, <1>7, <1>8, <1>9, <1>10, <1>11, <1>12, <1>13,
     <1>14, <1>15, <1>16, <1>17, <1>18
     DEF HeadlessNext, RunnerSteps, GossipSteps, WorkerSteps

LEMMA HeadlessTypesNext ==
  HeadlessTypes /\ HeadlessFlags /\ [HeadlessNext]_hsVars => HeadlessTypes'
<1> SUFFICES ASSUME HeadlessTypes, HeadlessFlags, [HeadlessNext]_hsVars PROVE HeadlessTypes'
  OBVIOUS
<1> USE HeadlessAssumption DEF HeadlessAssumption, HeadlessTypes
<1>1. CASE UNCHANGED hsVars
  BY <1>1 DEF hsVars
<1>2. ASSUME NEW answer \in {"yes", "no", "missing"}, ToggleConsent(answer) PROVE HeadlessTypes'
  BY <1>2 DEF ToggleConsent, learnerSide, stateSide
<1>3. CASE CancelDaemon
  BY <1>3 DEF CancelDaemon, learnerSide, stateSide
<1>4. CASE CreateTaskIfConsented
  BY <1>4 DEF CreateTaskIfConsented, learnerSide, stateSide
<1>5. CASE StartLayer
  BY <1>5 DEF StartLayer, learnerSide, stateSide
<1>6. CASE StopLayer \/ StopLearner \/ ResetRunning \/ JoinGossip
  BY <1>6 DEF StopLayer, StopLearner, ResetRunning, JoinGossip, learnerSide, stateSide
<1>7. CASE ClaimLoop
  BY <1>7 DEF ClaimLoop, daemonSide, learnerSide, stateSide
<1>8. CASE ClearEvent
  BY <1>8 DEF ClearEvent, daemonSide, learnerSide, stateSide
<1>9. CASE SpawnLoop
  BY <1>9 DEF SpawnLoop, daemonSide, stateSide
<1>10. CASE GossipHead \/ RoundSucceeds
  BY <1>10 DEF GossipHead, RoundSucceeds, daemonSide, learnerSide, stateSide
<1>11. CASE RoundFails
  <2>1. failsInRow' \in 0..Threshold /\ gt' = "head"
    BY <1>11 DEF RoundFails
  <2>2. wpc' = wpc \/ \E s \in Shots : wpc' = [wpc EXCEPT ![s] = "read"]
    BY <1>11 DEF RoundFails
  <2>3. wpc' \in [Workers -> {"none", "sleep", "read", "write", "done"}]
    BY <2>2
  <2> QED
    BY <1>11, <2>1, <2>3 DEF RoundFails, daemonSide
<1>12. CASE LoopWakes
  BY <1>12 DEF LoopWakes, daemonSide, stateSide
<1>13. ASSUME NEW w \in Workers, ReadOffline(w) PROVE HeadlessTypes'
  <2>1. noted' = [noted EXCEPT ![w] = offline] /\ offline \in BOOLEAN
    BY <1>13 DEF ReadOffline, HeadlessFlags
  <2>2. noted' \in [Workers -> BOOLEAN]
    BY <2>1, Zenon
  <2> QED
    BY <1>13, <2>2 DEF ReadOffline, daemonSide, stateSide
<1>14. ASSUME NEW w \in Workers, WriteState(w) PROVE HeadlessTypes'
  <2>1. noted[w] \in BOOLEAN
    BY Zenon
  <2>2. stateFile' \subseteq BOOLEAN
    <3>1. CASE WriteLands(noted[w])
      BY <2>1, <3>1, Zenon DEF WriteLands
    <3>2. CASE WriteFails(noted[w])
      BY <3>2, Zenon DEF WriteFails
    <3> QED
      BY <1>14, <3>1, <3>2, Zenon DEF WriteState
  <2>3. lostWrites' \in 0..MaxLostWrites
    BY <1>14 DEF WriteState, WriteLands, WriteFails
  <2> QED
    BY <1>14, <2>2, <2>3 DEF WriteState, daemonSide
<1> QED
  BY <1>1, <1>2, <1>3, <1>4, <1>5, <1>6, <1>7, <1>8, <1>9, <1>10, <1>11, <1>12, <1>13, <1>14
     DEF HeadlessNext, RunnerSteps, GossipSteps, WorkerSteps

LEMMA HeadlessTypesInit == HeadlessInit => HeadlessTypes /\ HeadlessFlags
<1> SUFFICES ASSUME HeadlessInit PROVE HeadlessTypes /\ HeadlessFlags
  OBVIOUS
<1>1. HeadlessFlags
  BY DEF HeadlessInit, HeadlessFlags
<1>2. HeadlessTypes
  BY HeadlessAssumption DEF HeadlessInit, HeadlessTypes, HeadlessAssumption
<1> QED
  BY <1>1, <1>2

\* Every variable of the daemon keeps its type.
THEOREM HeadlessTypeCorrect == HeadlessSpec => []HeadlessTypeOK
<1>1. HeadlessTypes /\ HeadlessFlags => HeadlessTypeOK
  BY Zenon DEF HeadlessTypes, HeadlessFlags, HeadlessTypeOK
<1> QED
  BY <1>1, HeadlessTypesInit, HeadlessTypesNext, HeadlessFlagsNext, PTL DEF HeadlessSpec

\* A node that is offline, has not written so and has lost no write of it has a consolidation
\* on its way that will try: one that has yet to read the flag, or that has read it and has
\* yet to write.
RecordPending ==
    offline /\ ~recorded /\ ~writeLost =>
        \E w \in Workers : wpc[w] = "read" \/ (wpc[w] = "write" /\ noted[w])

\* The loop is not running before the gossip thread has started it, and there is no gossip
\* thread before the layer is started.
LoopNotYet ==
    /\ runner \in {"idle", "declined", "made"} => gt = "none"
    /\ gt \in {"none", "claim", "clear", "spawn"} => wpc[Loop] = "none"

LEMMA LoopNotYetNext ==
  HeadlessTypes /\ LoopNotYet /\ [HeadlessNext]_hsVars => LoopNotYet'
<1> SUFFICES ASSUME HeadlessTypes, LoopNotYet, [HeadlessNext]_hsVars PROVE LoopNotYet'
  OBVIOUS
<1> USE DEF LoopNotYet
<1>1. CASE UNCHANGED hsVars
  BY <1>1 DEF hsVars
<1>2. ASSUME NEW answer, ToggleConsent(answer) PROVE LoopNotYet'
  BY <1>2 DEF ToggleConsent, learnerSide, stateSide
<1>3. CASE CancelDaemon
  BY <1>3 DEF CancelDaemon, learnerSide, stateSide
<1>4. CASE RunnerSteps
  BY <1>4 DEF RunnerSteps, CreateTaskIfConsented, StartLayer, StopLayer, StopLearner,
     ResetRunning, JoinGossip, learnerSide, stateSide
<1>5. CASE ClaimLoop \/ ClearEvent \/ SpawnLoop
  BY <1>5 DEF ClaimLoop, ClearEvent, SpawnLoop, daemonSide, learnerSide, stateSide
<1>6. CASE GossipHead \/ RoundSucceeds
  BY <1>6 DEF GossipHead, RoundSucceeds, daemonSide, learnerSide, stateSide
<1>7. CASE RoundFails
  BY <1>7 DEF RoundFails, daemonSide
<1>8. CASE LoopWakes
  BY <1>8 DEF LoopWakes, daemonSide, stateSide
<1>9. ASSUME NEW w \in Workers, ReadOffline(w) \/ WriteState(w) PROVE LoopNotYet'
  BY <1>9 DEF ReadOffline, WriteState, daemonSide, HeadlessTypes, Workers
<1> QED
  BY <1>1, <1>2, <1>3, <1>4, <1>5, <1>6, <1>7, <1>8, <1>9
     DEF HeadlessNext, GossipSteps, WorkerSteps

LEMMA RecordPendingNext ==
  HeadlessTypes /\ HeadlessFlags /\ LoopNotYet /\ RecordPending /\ [HeadlessNext]_hsVars
    => RecordPending'
<1> SUFFICES ASSUME HeadlessTypes, HeadlessFlags, LoopNotYet, RecordPending, [HeadlessNext]_hsVars
             PROVE  RecordPending'
  OBVIOUS
<1> DEFINE Quiet == UNCHANGED <<offline, recorded, writeLost, wpc, noted>>
<1>q. CASE Quiet
  BY <1>q DEF RecordPending
<1>1. CASE UNCHANGED hsVars
  BY <1>1, <1>q DEF hsVars
<1>2. ASSUME NEW answer, ToggleConsent(answer) PROVE RecordPending'
  BY <1>2, <1>q DEF ToggleConsent, learnerSide, stateSide
<1>3. CASE CancelDaemon
  BY <1>3, <1>q DEF CancelDaemon, learnerSide, stateSide
<1>4. CASE RunnerSteps
  BY <1>4, <1>q DEF RunnerSteps, CreateTaskIfConsented, StartLayer, StopLayer, StopLearner,
     ResetRunning, JoinGossip, learnerSide, stateSide
<1>5. CASE ClaimLoop \/ ClearEvent \/ GossipHead
  BY <1>5, <1>q DEF ClaimLoop, ClearEvent, GossipHead, learnerSide, stateSide
<1>6. CASE RoundSucceeds
  BY <1>6, Zenon DEF RoundSucceeds, RecordPending
\* the loop that is started had nothing on its way
<1>7. CASE SpawnLoop
  <2>1. gt = "spawn" /\ wpc' = [wpc EXCEPT ![Loop] = "sleep"] /\ UNCHANGED <<offline, recorded, writeLost, noted>>
    BY <1>7 DEF SpawnLoop, stateSide
  <2>2. wpc[Loop] = "none"
    BY <2>1 DEF LoopNotYet
  <2>3. \A w \in Workers : w # Loop => wpc'[w] = wpc[w]
    BY <2>1 DEF HeadlessTypes
  <2> QED
    BY <2>1, <2>2, <2>3 DEF RecordPending
\* the failure that counts starts one
<1>8. CASE RoundFails
  <2> DEFINE fails == IF failsInRow < Threshold THEN failsInRow + 1 ELSE failsInRow
             goesOffline == fails = Threshold /\ ~offline
  <2>1. CASE goesOffline
    <3>1. PICK s \in Shots : wpc' = [wpc EXCEPT ![s] = "read"]
      BY <1>8, <2>1 DEF RoundFails
    <3>2. s \in Workers /\ wpc'[s] = "read"
      BY <3>1 DEF HeadlessTypes, Workers
    <3> QED
      BY <3>2 DEF RecordPending
  <2>2. CASE ~goesOffline
    <3> HIDE DEF goesOffline
    <3>1. wpc' = wpc /\ noted' = noted
      BY <1>8, <2>2 DEF RoundFails, goesOffline
    <3>2. (offline' <=> offline) /\ (recorded' <=> recorded) /\ (writeLost' <=> writeLost)
      BY <1>8, <2>2, Zenon DEF RoundFails, goesOffline, HeadlessFlags
    <3> QED
      BY <3>1, <3>2 DEF RecordPending
  <2> QED
    BY <2>1, <2>2
<1>9. CASE LoopWakes
  <2>1. wpc[Loop] = "sleep" /\ UNCHANGED <<offline, recorded, writeLost, noted>>
        /\ wpc' = [wpc EXCEPT ![Loop] = IF olStop THEN "done" ELSE "read"]
    BY <1>9 DEF LoopWakes, stateSide
  <2>2. \A w \in Workers : w # Loop => wpc'[w] = wpc[w]
    BY <2>1 DEF HeadlessTypes
  <2> QED
    BY <2>1, <2>2 DEF RecordPending
\* what is read while the node is offline is what will be written
<1>10. ASSUME NEW v \in Workers, ReadOffline(v) PROVE RecordPending'
  <2>1. /\ UNCHANGED <<offline, recorded, writeLost>>
        /\ wpc' = [wpc EXCEPT ![v] = "write"] /\ noted' = [noted EXCEPT ![v] = offline]
    BY <1>10 DEF ReadOffline, stateSide
  <2> SUFFICES ASSUME offline, ~recorded, ~writeLost
               PROVE  \E w \in Workers : wpc'[w] = "read" \/ (wpc'[w] = "write" /\ noted'[w])
    BY <2>1 DEF RecordPending
  <2>2. wpc'[v] = "write"
    BY <2>1 DEF HeadlessTypes
  <2>3. noted'[v]
    BY <2>1, Zenon DEF HeadlessTypes
  <2> QED
    BY <2>2, <2>3
<1>11. ASSUME NEW v \in Workers, WriteState(v) PROVE RecordPending'
  <2>1. /\ offline' = offline /\ noted' = noted /\ wpc[v] = "write"
        /\ wpc' = [wpc EXCEPT ![v] = IF v = Loop THEN "sleep" ELSE "none"]
    BY <1>11 DEF WriteState
  \* whichever way it ends, a write of TRUE is remembered
  <2>5. \/ recorded' = (recorded \/ noted[v]) /\ writeLost' = writeLost
        \/ recorded' = recorded /\ writeLost' = (writeLost \/ noted[v])
    BY <1>11, Zenon DEF WriteState, WriteLands, WriteFails
  <2> SUFFICES ASSUME offline, ~recorded, ~writeLost, ~noted[v]
               PROVE  \E w \in Workers : wpc'[w] = "read" \/ (wpc'[w] = "write" /\ noted'[w])
    BY <2>1, <2>5, Zenon DEF RecordPending
  <2>2. PICK w \in Workers : wpc[w] = "read" \/ (wpc[w] = "write" /\ noted[w])
    BY DEF RecordPending
  <2>3. w # v
    BY <2>1, <2>2
  <2>4. wpc'[w] = wpc[w] /\ noted'[w] = noted[w]
    BY <2>1, <2>3 DEF HeadlessTypes
  <2> QED
    BY <2>2, <2>4
<1> QED
  BY <1>1, <1>2, <1>3, <1>4, <1>5, <1>6, <1>7, <1>8, <1>9, <1>10, <1>11
     DEF HeadlessNext, GossipSteps, WorkerSteps

LEMMA RecordPendingInit == HeadlessInit => LoopNotYet /\ RecordPending
  BY DEF HeadlessInit, LoopNotYet, RecordPending, Workers

\* A node that is offline and has not written so yet has a consolidation under way that will,
\* as long as no write of it has failed: the safety half of what becomes of it under fairness
\* (offline_learning.py, on_gossip_failure() and _save_offline_state()).
THEOREM OfflineIsPending == HeadlessSpec => []RecordPending
  BY RecordPendingInit, HeadlessTypesInit, HeadlessTypesNext, HeadlessFlagsNext, LoopNotYetNext,
     RecordPendingNext, PTL DEF HeadlessSpec

\* The events that stop() sets stay set: the gossip thread's for good, the learner's unless
\* the gossip thread was still starting the learner.
StopsStaySet ==
    /\ runner \in {"stopEvent", "stopFlag", "join", "ended"} => layerStop
    /\ runner \in {"stopFlag", "join", "ended"} /\ ~lateBoot => olStop

LEMMA StopsStaySetInit == HeadlessInit => StopsStaySet
  BY DEF HeadlessInit, StopsStaySet

LEMMA StopsStaySetNext == StopsStaySet /\ [HeadlessNext]_hsVars => StopsStaySet'
<1> SUFFICES ASSUME StopsStaySet, [HeadlessNext]_hsVars PROVE StopsStaySet'
  OBVIOUS
<1> USE DEF StopsStaySet
<1>q. CASE UNCHANGED <<runner, layerStop, olStop, lateBoot>>
  BY <1>q
<1>1. CASE UNCHANGED hsVars
  BY <1>1, <1>q DEF hsVars
<1>2. ASSUME NEW answer, ToggleConsent(answer) PROVE StopsStaySet'
  BY <1>2, <1>q DEF ToggleConsent
<1>3. CASE CancelDaemon
  BY <1>3, <1>q DEF CancelDaemon
<1>4. CASE CreateTaskIfConsented \/ StartLayer
  BY <1>4 DEF CreateTaskIfConsented, StartLayer
<1>5. CASE StopLayer
  BY <1>5 DEF StopLayer
<1>6. CASE StopLearner
  BY <1>6 DEF StopLearner
<1>7. CASE ResetRunning \/ JoinGossip
  BY <1>7 DEF ResetRunning, JoinGossip
<1>8. CASE ClearEvent
  BY <1>8 DEF ClearEvent, daemonSide
<1>9. CASE ClaimLoop \/ SpawnLoop \/ GossipHead \/ RoundSucceeds \/ RoundFails
  BY <1>9, <1>q DEF ClaimLoop, SpawnLoop, GossipHead, RoundSucceeds, RoundFails, daemonSide
<1>10. ASSUME NEW w \in Workers, WorkerSteps(w) PROVE StopsStaySet'
  BY <1>10, <1>q DEF WorkerSteps, ReadOffline, WriteState, LoopWakes, daemonSide
<1> QED
  BY <1>1, <1>2, <1>3, <1>4, <1>5, <1>6, <1>7, <1>8, <1>9, <1>10
     DEF HeadlessNext, RunnerSteps, GossipSteps

\* Both threads of a task that has ended find their event set when they look, unless the
\* learner was started late: the safety half of their ends (swarm_p2p.py, stop();
\* offline_learning.py, stop() and start_background_loop()).
THEOREM StopsReachThreads == HeadlessSpec => []StopsStaySet
  BY StopsStaySetInit, StopsStaySetNext, PTL DEF HeadlessSpec

-----------------------------------------------------------------------------
(* The specification in which the parts are checked.                       *)

\* A step of the run is a step of every part.
LEMMA ExchangeSteps ==
  ASSUME [ExchangeNext]_allVars
  PROVE  [FileNext]_fileVars /\ [AlgoNext]_asVars /\ [HeadlessNext]_hsVars
<1>1. CASE UNCHANGED allVars
  BY <1>1 DEF allVars
<1>2. ASSUME Others
      PROVE  /\ part # "file" => UNCHANGED fileVars
             /\ part # "tokens" => UNCHANGED asVars
             /\ part # "headless" => UNCHANGED hsVars
  BY <1>2, Zenon DEF Others
<1>3. CASE part = "file" /\ FileNext /\ Others
  BY <1>2, <1>3
<1>4. CASE part = "tokens" /\ AlgoNext /\ Others
  BY <1>2, <1>4
<1>5. CASE part = "headless" /\ HeadlessNext /\ Others
  BY <1>2, <1>5
<1> QED
  BY <1>1, <1>3, <1>4, <1>5 DEF ExchangeNext

LEMMA ExchangeStart == ExchangeInit => FileInit /\ AlgoInit /\ HeadlessInit
  BY DEF ExchangeInit

\* Whatever part a behaviour of the run has picked, every variable keeps its type.
THEOREM ExchangeTypeCorrect == ExchangeSpec => []ExchangeTypeOK
<1>1. FileInit /\ [][FileNext]_fileVars => []FileTypeOK
  BY FileTypeCorrect, PTL DEF FileSpec
<1>2. AlgoInit /\ [][AlgoNext]_asVars => []ToldInv
  BY ToldInvInit, ToldInvNext, PTL
<1>3. HeadlessInit /\ [][HeadlessNext]_hsVars => [](HeadlessTypes /\ HeadlessFlags)
  BY HeadlessTypesInit, HeadlessTypesNext, HeadlessFlagsNext, PTL
<1>4. FileTypeOK /\ ToldInv /\ HeadlessTypes /\ HeadlessFlags => ExchangeTypeOK
  <2>1. HeadlessTypes /\ HeadlessFlags => HeadlessTypeOK
    BY Zenon DEF HeadlessTypes, HeadlessFlags, HeadlessTypeOK
  <2> QED
    BY <2>1 DEF ToldInv, ExchangeTypeOK
<1>5. [ExchangeNext]_allVars =>
         [FileNext]_fileVars /\ [AlgoNext]_asVars /\ [HeadlessNext]_hsVars
  BY ExchangeSteps
<1> QED
  BY <1>1, <1>2, <1>3, <1>4, <1>5, ExchangeStart, PTL DEF ExchangeSpec

\* Whatever part a behaviour of the run has picked, it keeps what is proved of the parts: no
\* command is dispatched twice while no poll fails; as long as no write has failed what peers
\* were told is stored, and a node that is offline has the note of it on its way; and stop
\* events stay set.
THEOREM ExchangeKeepsParts ==
  ExchangeSpec => [](ExecutedOnce /\ ToldIsStored /\ RecordPending /\ StopsStaySet)
<1>1. FileInit /\ [][FileNext]_fileVars => []ExecutedOnce
  BY DispatchedOnce, PTL DEF FileSpec
<1>2. AlgoInit /\ [][AlgoNext]_asVars => []ToldInv
  BY ToldInvInit, ToldInvNext, PTL
<1>3. HeadlessInit /\ [][HeadlessNext]_hsVars => [](RecordPending /\ StopsStaySet)
  BY HeadlessTypesInit, HeadlessTypesNext, HeadlessFlagsNext, RecordPendingInit, LoopNotYetNext,
     RecordPendingNext, StopsStaySetInit, StopsStaySetNext, PTL
<1>4. ToldInv => ToldIsStored
  BY DEF ToldInv, ToldIsStored
<1>5. [ExchangeNext]_allVars =>
         [FileNext]_fileVars /\ [AlgoNext]_asVars /\ [HeadlessNext]_hsVars
  BY ExchangeSteps
<1> QED
  BY <1>1, <1>2, <1>3, <1>4, <1>5, ExchangeStart, PTL DEF ExchangeSpec
=============================================================================
