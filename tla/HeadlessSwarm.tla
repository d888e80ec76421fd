--------------------------- MODULE HeadlessSwarm ---------------------------
(***************************************************************************)
(* The headless daemon's swarm task (daemon_headless.py), the start and    *)
(* stop of the P2P layer it makes (modules/swarm_p2p.py) and the offline   *)
(* learner the gossip thread starts (modules/offline_learning.py).         *)
(*                                                                         *)
(* Three kinds of threads: the task's own, the gossip thread, and the      *)
(* learner's (the periodic loop and the one-shot consolidations).  The     *)
(* layer's tier watchdog never runs: _start_tier_watchdog() enters         *)
(* self._lock, an attribute no P2PLayer has, so the start of a node that   *)
(* needs a watchdog raises after it has done everything else.              *)
(*                                                                         *)
(* What a gossip round exchanges, the knowledge snapshot and the vault     *)
(* refresh of a consolidation are left out.                                *)
(***************************************************************************)
EXTENDS Naturals

CONSTANTS
    Loop,       \* the learner's periodic thread
    Shots,      \* bound: one-shot consolidations alive at once
    Threshold,  \* OFFLINE_THRESHOLD_FAILURES
    MaxConsentChanges, \* bound: changes of the consent file
    MaxLostWrites      \* bound: writes of offline_state.json that fail

ASSUME HeadlessAssumption ==
    /\ Loop \notin Shots /\ Threshold \in Nat \ {0} /\ MaxConsentChanges \in Nat
    /\ MaxLostWrites \in Nat

VARIABLES
    hsConsent,  \* swarm_consent.json: "yes", "no" or "missing"
    tier,       \* what start() finds: "full", "relay", "beacon" or "none"
    runner,     \* where _run_swarm() is
    cancelled,  \* the daemon has been told to stop
    layerStop,  \* P2PLayer._stop_event
    gt,         \* where the gossip thread is
    failsInRow, \* _consecutive_failures
    offline,    \* _offline_since is set
    olRunning,  \* OfflineLearner._is_running
    olStop,     \* OfflineLearner._stop_event
    wpc,        \* where each learner thread is
    noted,      \* the offline flag a learner thread is about to write
    stateFile,  \* offline_state.json: its is_offline, as a set: {} without a readable file
    lateBoot,   \* history: the gossip thread cleared olStop after the learner was stopped
    recorded,   \* history: TRUE has been written since the node went offline
    writeLost,  \* history: a write of TRUE has failed since the node went offline
    consentChanges, lostWrites

hsVars == <<hsConsent, tier, runner, cancelled, layerStop, gt, failsInRow, offline, olRunning,
            olStop, wpc, noted, stateFile, lateBoot, recorded, writeLost, consentChanges,
            lostWrites>>
daemonSide == <<hsConsent, tier, runner, cancelled, layerStop, consentChanges>>
stateSide == <<stateFile, recorded, writeLost, lostWrites>>
learnerSide == <<wpc, noted, stateSide>>

Workers == Shots \cup {Loop}

HeadlessInit ==
    /\ hsConsent \in {"yes", "no", "missing"}
    /\ tier \in {"full", "relay", "beacon", "none"}
    /\ runner = "idle" /\ cancelled = FALSE /\ layerStop = FALSE /\ gt = "none"
    /\ failsInRow = 0 /\ offline = FALSE /\ olRunning = FALSE /\ olStop = FALSE
    /\ wpc = [w \in Workers |-> "none"] /\ noted = [w \in Workers |-> FALSE]
    /\ stateFile = {} /\ lateBoot = FALSE /\ recorded = FALSE /\ writeLost = FALSE
    /\ consentChanges = 0 /\ lostWrites = 0

\* the shell or a command changes the consent file; once start() has read it nothing of the
\* task does, and later changes are left out
ToggleConsent(answer) ==
    /\ runner \in {"idle", "made"}
    /\ consentChanges < MaxConsentChanges /\ consentChanges' = consentChanges + 1
    /\ hsConsent' = answer /\ answer # hsConsent
    /\ UNCHANGED <<tier, runner, cancelled, layerStop, gt, failsInRow, offline, olRunning, olStop,
                   learnerSide, lateBoot>>

\* _main_loop(): the task is created only with a recorded consent
CreateTaskIfConsented ==
    /\ runner = "idle"
    /\ runner' = IF hsConsent = "yes" THEN "made" ELSE "declined"
    /\ UNCHANGED <<hsConsent, tier, cancelled, layerStop, gt, failsInRow, offline, olRunning,
                   olStop, learnerSide, lateBoot, consentChanges>>

\* P2PLayer.start(): the consent is read again, and a missing file is a consent here.  A
\* relay node's gossip thread has been started when the watchdog's lock raises.
StartLayer ==
    LET goes == hsConsent # "no" IN
    /\ runner = "made"
    /\ gt' = IF goes /\ tier \in {"full", "relay"} THEN "claim" ELSE "none"
    /\ runner' = IF goes /\ tier \in {"relay", "beacon"} THEN "raised" ELSE "alive"
    /\ UNCHANGED <<hsConsent, tier, cancelled, layerStop, failsInRow, offline, olRunning, olStop,
                   learnerSide, lateBoot, consentChanges>>

\* SIGINT or SIGTERM: the main loop cancels its tasks
CancelDaemon ==
    /\ runner \in {"alive", "raised"} /\ ~cancelled
    /\ cancelled' = TRUE
    /\ UNCHANGED <<hsConsent, tier, runner, layerStop, gt, failsInRow, offline, olRunning, olStop,
                   learnerSide, lateBoot, consentChanges>>

\* Mutant: stop() does not set the layer's stop event.
StopsNothing ==
    /\ runner = "raised" \/ (runner = "alive" /\ cancelled)
    /\ runner' = "stopEvent"
    /\ UNCHANGED <<hsConsent, tier, cancelled, layerStop, gt, failsInRow, offline, olRunning,
                   olStop, learnerSide, lateBoot, consentChanges>>

\* the finally of _run_swarm(): P2PLayer.stop(), in the order of its steps
StopLayer ==
    /\ runner = "raised" \/ (runner = "alive" /\ cancelled)
    /\ layerStop' = TRUE
    /\ runner' = "stopEvent"
    /\ UNCHANGED <<hsConsent, tier, cancelled, gt, failsInRow, offline, olRunning, olStop,
                   learnerSide, lateBoot, consentChanges>>

\* Mutant: the learner's stop() only resets the flag.
LeavesEvent ==
    /\ runner = "stopEvent" /\ runner' = "stopFlag"
    /\ UNCHANGED <<hsConsent, tier, cancelled, layerStop, gt, failsInRow, offline, olRunning,
                   olStop, learnerSide, lateBoot, consentChanges>>

\* OfflineLearner.stop(): the event, then the flag under the lock
StopLearner ==
    /\ runner = "stopEvent" /\ runner' = "stopFlag"
    /\ olStop' = TRUE
    /\ UNCHANGED <<hsConsent, tier, cancelled, layerStop, gt, failsInRow, offline, olRunning,
                   learnerSide, lateBoot, consentChanges>>
ResetRunning ==
    /\ runner = "stopFlag" /\ runner' = "join"
    /\ olRunning' = FALSE
    /\ UNCHANGED <<hsConsent, tier, cancelled, layerStop, gt, failsInRow, offline, olStop,
                   learnerSide, lateBoot, consentChanges>>

\* join(timeout=3.0) ends whether or not the gossip thread has
JoinGossip ==
    /\ runner = "join" /\ runner' = "ended"
    /\ UNCHANGED <<hsConsent, tier, cancelled, layerStop, gt, failsInRow, offline, olRunning,
                   olStop, learnerSide, lateBoot, consentChanges>>

-----------------------------------------------------------------------------
\* _gossip_loop(): start_background_loop(), which claims the flag under the lock,
ClaimLoop ==
    /\ gt = "claim"
    /\ gt' = IF olRunning THEN "head" ELSE "clear"
    /\ olRunning' = TRUE
    /\ UNCHANGED <<daemonSide, failsInRow, offline, olStop, learnerSide, lateBoot>>
\* clears the event
ClearEvent ==
    /\ gt = "clear" /\ gt' = "spawn"
    /\ olStop' = FALSE
    /\ lateBoot' = (lateBoot \/ runner \in {"stopFlag", "join", "ended"})
    /\ UNCHANGED <<daemonSide, failsInRow, offline, olRunning, learnerSide>>
\* and starts the thread
SpawnLoop ==
    /\ gt = "spawn" /\ gt' = "head"
    /\ wpc' = [wpc EXCEPT ![Loop] = "sleep"]
    /\ UNCHANGED <<daemonSide, failsInRow, offline, olRunning, olStop, noted, stateSide, lateBoot>>

GossipHead ==
    /\ gt = "head"
    /\ gt' = IF layerStop THEN "done" ELSE "round"
    /\ UNCHANGED <<daemonSide, failsInRow, offline, olRunning, olStop, learnerSide, lateBoot>>

\* _do_gossip() without an exception, on_gossip_success(), and the wait for the next round
RoundSucceeds ==
    /\ gt = "round" /\ gt' = "head"
    /\ failsInRow' = 0 /\ offline' = FALSE
    /\ UNCHANGED <<daemonSide, olRunning, olStop, learnerSide, lateBoot>>

\* Mutant: the third failure starts no consolidation.
FailsQuietly ==
    LET fails == IF failsInRow < Threshold THEN failsInRow + 1 ELSE failsInRow IN
    /\ gt = "round" /\ gt' = "head"
    /\ failsInRow' = fails
    /\ offline' = (fails = Threshold)
    /\ recorded' = (recorded /\ offline) /\ writeLost' = (writeLost /\ offline)
    /\ UNCHANGED <<daemonSide, olRunning, olStop, wpc, noted, stateFile, lostWrites, lateBoot>>

\* the round raises: on_gossip_failure().  Only the comparison with the threshold matters,
\* so the count stops there.
RoundFails ==
    LET fails == IF failsInRow < Threshold THEN failsInRow + 1 ELSE failsInRow
        goesOffline == fails = Threshold /\ ~offline IN
    /\ gt = "round" /\ gt' = "head"
    /\ failsInRow' = fails
    /\ offline' = (offline \/ goesOffline)
    /\ IF goesOffline
         THEN \E s \in Shots : wpc[s] = "none" /\ wpc' = [wpc EXCEPT ![s] = "read"]
         ELSE UNCHANGED wpc
    /\ recorded' = (recorded /\ ~goesOffline) /\ writeLost' = (writeLost /\ ~goesOffline)
    /\ UNCHANGED <<daemonSide, olRunning, olStop, noted, stateFile, lostWrites, lateBoot>>

-----------------------------------------------------------------------------
\* _consolidation_loop(): the wait ends with the event or after its interval
LoopWakes ==
    /\ wpc[Loop] = "sleep"
    /\ wpc' = [wpc EXCEPT ![Loop] = IF olStop THEN "done" ELSE "read"]
    /\ UNCHANGED <<daemonSide, gt, failsInRow, offline, olRunning, olStop, noted, stateSide,
                   lateBoot>>

\* _consolidate_now() up to _save_offline_state(): the flag is read under the lock
ReadOffline(w) ==
    /\ wpc[w] = "read"
    /\ noted' = [noted EXCEPT ![w] = offline]
    /\ wpc' = [wpc EXCEPT ![w] = "write"]
    /\ UNCHANGED <<daemonSide, gt, failsInRow, offline, olRunning, olStop, stateSide, lateBoot>>

\* and written without it.  A write that fails is logged and forgotten; it has changed
\* nothing or has truncated the file.
WriteLands(flag) ==
    /\ stateFile' = {flag} /\ recorded' = (recorded \/ flag)
    /\ UNCHANGED <<writeLost, lostWrites>>
WriteFails(flag) ==
    /\ lostWrites < MaxLostWrites /\ lostWrites' = lostWrites + 1
    /\ stateFile' \in {stateFile, {}} /\ writeLost' = (writeLost \/ flag)
    /\ UNCHANGED recorded
WriteState(w) ==
    /\ wpc[w] = "write"
    /\ WriteLands(noted[w]) \/ WriteFails(noted[w])
    /\ wpc' = [wpc EXCEPT ![w] = IF w = Loop THEN "sleep" ELSE "none"]
    /\ UNCHANGED <<daemonSide, gt, failsInRow, offline, olRunning, olStop, noted, lateBoot>>

RunnerSteps == CreateTaskIfConsented \/ StartLayer \/ StopLayer \/ StopLearner \/ ResetRunning
                 \/ JoinGossip
GossipSteps == ClaimLoop \/ ClearEvent \/ SpawnLoop \/ GossipHead \/ RoundSucceeds \/ RoundFails
WorkerSteps(w) == ReadOffline(w) \/ WriteState(w) \/ (w = Loop /\ LoopWakes)

HeadlessNext ==
    \/ \E answer \in {"yes", "no", "missing"} : ToggleConsent(answer)
    \/ CancelDaemon \/ RunnerSteps \/ GossipSteps
    \/ \E w \in Workers : WorkerSteps(w)

\* every thread runs on; nobody has to cancel the daemon or to change the consent
HeadlessFairness ==
    /\ WF_hsVars(RunnerSteps) /\ WF_hsVars(GossipSteps)
    /\ \A w \in Workers : WF_hsVars(WorkerSteps(w))
HeadlessSpec == HeadlessInit /\ [][HeadlessNext]_hsVars /\ HeadlessFairness

-----------------------------------------------------------------------------
HeadlessTypeOK ==
    /\ hsConsent \in {"yes", "no", "missing"}
    /\ tier \in {"full", "relay", "beacon", "none"}
    /\ runner \in {"idle", "declined", "made", "raised", "alive", "stopEvent", "stopFlag",
                   "join", "ended"}
    /\ cancelled \in BOOLEAN /\ layerStop \in BOOLEAN /\ lateBoot \in BOOLEAN
    /\ gt \in {"none", "claim", "clear", "spawn", "head", "round", "done"}
    /\ failsInRow \in 0..Threshold /\ offline \in BOOLEAN
    /\ olRunning \in BOOLEAN /\ olStop \in BOOLEAN
    /\ wpc \in [Workers -> {"none", "sleep", "read", "write", "done"}]
    /\ noted \in [Workers -> BOOLEAN]
    /\ stateFile \subseteq BOOLEAN /\ recorded \in BOOLEAN /\ writeLost \in BOOLEAN
    /\ consentChanges \in 0..MaxConsentChanges /\ lostWrites \in 0..MaxLostWrites

LoopAlive == wpc[Loop] \notin {"none", "done"}

\* A start that raised leaves no gossip thread behind, although it had been started: the
\* finally of _run_swarm() stops what start() began, wherever the thread is.
FailedStartStopsGossip == (runner = "raised") ~> (gt \in {"none", "done"})

\* After the end of the task the learner's loop ends too, unless the gossip thread was
\* still starting it and cleared the event stop() had set.
LearnerStops == (runner = "ended") ~> (~LoopAlive \/ lateBoot)

\* A node that goes offline writes it down, unless it comes back first: the failure that
\* counts starts a consolidation of its own, also when the loop has ended or sleeps, and
\* while the loop lives a write that fails is made good by the next.  Only a node without a
\* loop whose one write has failed goes on unrecorded.  (What was written can be overwritten
\* by an older consolidation that was slow, and stay so when the loop has ended.)
OfflineRecorded == offline ~> (~offline \/ recorded \/ (writeLost /\ ~LoopAlive))

\* A node with a recorded consent and a relay gossips ("Participates in the Aether swarm
\* via gossip", on hardware that only reaches the relay tier).
RelayNodeGossips ==
    (<>[](tier = "relay" /\ hsConsent = "yes" /\ runner \notin {"idle", "declined"} /\ ~cancelled))
        => (<>[](gt \in {"head", "round"}))
=============================================================================
