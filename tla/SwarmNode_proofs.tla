-------------------------- MODULE SwarmNode_proofs --------------------------
(***************************************************************************)
(* What the invariants of SwarmAgent and of SwarmNode hold for: any number *)
(* of threads, any ring size and batch, any number of mode changes,        *)
(* failures and revocations, and whether or not stop() gives up waiting.   *)
(***************************************************************************)
EXTENDS SwarmNode, TLAPS

-----------------------------------------------------------------------------
(* The capture agent.                                                      *)

\* The batch counter of a thread inside _process_frames has room for one frame.
BatchOpen ==
    \A t \in Threads : tpc[t] \in {"fstop", "fmode", "fread", "fstore"} => batch[t] < Batch

TypeInv == TypeOK /\ BatchOpen

LEMMA TypeInit == Init => TypeInv
<1> SUFFICES ASSUME Init PROVE TypeInv
  OBVIOUS
<1>1. /\ faults \in 0..MaxFaults /\ toggles \in 0..MaxToggles /\ ring \in 0..RingSize
      /\ batch \in [Threads -> 0..Batch]
  BY AgentAssumption DEF Init
<1>2. TypeOK
  BY <1>1 DEF Init, TypeOK
<1>3. BatchOpen
  BY DEF Init, BatchOpen
<1> QED
  BY <1>2, <1>3 DEF TypeInv

LEMMA TypeOKNext == TypeInv /\ [Next]_vars => TypeOK'
<1> SUFFICES ASSUME TypeInv, [Next]_vars PROVE TypeOK'
  OBVIOUS
<1>0. 0 \in 0..RingSize
  BY AgentAssumption
<1> USE AgentAssumption DEF TypeInv, TypeOK, BatchOpen
<1>1. CASE Switch
  BY <1>1 DEF Switch, owner, local, capture
<1>2. CASE StopSignals
  BY <1>2 DEF StopSignals, environment, local, capture
<1>3. CASE StopStopsCapture
  BY <1>0, <1>3 DEF StopStopsCapture, CaptureOff, environment, local
<1>4. CASE StopJoins
  BY <1>4 DEF StopJoins, environment, local, capture
<1>5. CASE FrameCaptured
  BY <1>5 DEF FrameCaptured, environment, owner, local
<1>6. ASSUME NEW t \in Threads, Start(t) PROVE TypeOK'
  BY <1>6 DEF Start, environment, local, capture
<1>7. ASSUME NEW t \in Threads, Agent(t) \/ StartFails(t) PROVE TypeOK'
  <2>1. CASE LoopHead(t)
    BY <2>1 DEF LoopHead, Goto, environment, owner, local, capture
  <2>2. CASE ReadMode(t)
    BY <2>2 DEF ReadMode, Goto, environment, owner, local, capture
  <2>3. CASE StartsCapture(t)
    <3>1. CASE active
      BY <2>3, <3>1 DEF StartsCapture, Goto, environment, owner, capture
    <3>2. CASE ~active
      BY <1>0, <2>3, <3>2 DEF StartsCapture, Goto, environment, owner
    <3> QED
      BY <3>1, <3>2
  <2>4. CASE StartFails(t)
    BY <2>4 DEF StartFails, Goto, environment, owner, local, capture
  <2>5. CASE StopsCapture(t)
    BY <1>0, <2>5 DEF StopsCapture, Goto, CaptureOff, environment, owner
  <2>6. CASE EntersFrames(t)
    BY <2>6 DEF EntersFrames, Goto, environment, owner, capture
  <2>7. CASE ChecksStop(t)
    BY <2>7 DEF ChecksStop, Goto, environment, owner, local, capture
  <2>8. CASE ChecksMode(t)
    BY <2>8 DEF ChecksMode, Goto, environment, owner, local, capture
  <2>9. CASE StopsCaptureInFrames(t)
    BY <1>0, <2>9 DEF StopsCaptureInFrames, Goto, CaptureOff, environment, owner, local
  <2>10. CASE TakesFrame(t)
    BY <2>10 DEF TakesFrame, Goto, environment, owner
  <2>11. CASE StoresFrame(t)
    BY <2>11 DEF StoresFrame, Goto, environment, owner, capture
  <2>12. CASE Exits(t)
    BY <1>0, <2>12 DEF Exits, Goto, CaptureOff, environment, owner, local
  <2> QED
    BY <1>7, <2>1, <2>2, <2>3, <2>4, <2>5, <2>6, <2>7, <2>8, <2>9, <2>10, <2>11, <2>12
    DEF Agent
<1>8. CASE UNCHANGED vars
  BY <1>8 DEF vars
<1> QED
  BY <1>1, <1>2, <1>3, <1>4, <1>5, <1>6, <1>7, <1>8 DEF Next, Owner

LEMMA BatchOpenNext == TypeInv /\ [Next]_vars => BatchOpen'
<1> SUFFICES ASSUME TypeInv, [Next]_vars PROVE BatchOpen'
  OBVIOUS
<1> USE AgentAssumption DEF TypeInv, TypeOK, BatchOpen
<1>1. CASE Switch
  BY <1>1 DEF Switch, owner, local, capture
<1>2. CASE StopSignals
  BY <1>2 DEF StopSignals, environment, local, capture
<1>3. CASE StopStopsCapture
  BY <1>3 DEF StopStopsCapture, CaptureOff, environment, local
<1>4. CASE StopJoins
  BY <1>4 DEF StopJoins, environment, local, capture
<1>5. CASE FrameCaptured
  BY <1>5 DEF FrameCaptured, environment, owner, local
<1>6. ASSUME NEW t \in Threads, Start(t) PROVE BatchOpen'
  BY <1>6 DEF Start, environment, local, capture
<1>7. ASSUME NEW t \in Threads, Agent(t) \/ StartFails(t) PROVE BatchOpen'
  <2>1. CASE LoopHead(t)
    BY <2>1 DEF LoopHead, Goto, environment, owner, local, capture
  <2>2. CASE ReadMode(t)
    BY <2>2 DEF ReadMode, Goto, environment, owner, local, capture
  <2>3. CASE StartsCapture(t)
    BY <2>3 DEF StartsCapture, Goto, environment, owner, capture
  <2>4. CASE StartFails(t)
    BY <2>4 DEF StartFails, Goto, environment, owner, local, capture
  <2>5. CASE StopsCapture(t)
    BY <2>5 DEF StopsCapture, Goto, CaptureOff, environment, owner
  <2>6. CASE EntersFrames(t)
    BY <2>6 DEF EntersFrames, Goto, environment, owner, capture
  <2>7. CASE ChecksStop(t)
    BY <2>7 DEF ChecksStop, Goto, environment, owner, local, capture
  <2>8. CASE ChecksMode(t)
    BY <2>8 DEF ChecksMode, Goto, environment, owner, local, capture
  <2>9. CASE StopsCaptureInFrames(t)
    BY <2>9 DEF StopsCaptureInFrames, Goto, CaptureOff, environment, owner, local
  <2>10. CASE TakesFrame(t)
    BY <2>10 DEF TakesFrame, Goto, environment, owner
  <2>11. CASE StoresFrame(t)
    BY <2>11 DEF StoresFrame, Goto, environment, owner, capture
  <2>12. CASE Exits(t)
    BY <2>12 DEF Exits, Goto, CaptureOff, environment, owner, local
  <2> QED
    BY <1>7, <2>1, <2>2, <2>3, <2>4, <2>5, <2>6, <2>7, <2>8, <2>9, <2>10, <2>11, <2>12
    DEF Agent
<1>8. CASE UNCHANGED vars
  BY <1>8 DEF vars
<1> QED
  BY <1>1, <1>2, <1>3, <1>4, <1>5, <1>6, <1>7, <1>8 DEF Next, Owner

LEMMA TypeNext == TypeInv /\ [Next]_vars => TypeInv'
  BY TypeOKNext, BatchOpenNext DEF TypeInv

LEMMA TypeInvariant == Spec => []TypeInv
  BY TypeInit, TypeNext, PTL DEF Spec

\* Type correctness of the agent: in particular the ring never holds more frames
\* than its size and no pass of _process_frames exceeds its batch.
THEOREM AgentTypeCorrect == Spec => []TypeOK
<1>1. TypeInv => TypeOK
  BY DEF TypeInv
<1> QED
  BY <1>1, TypeInvariant, PTL

----------------------------------------------------------------------------
\* While the mode is off, a thread that is about to store a frame has not stored
\* one since the switch: it got past the check of the mode before.
LateInv ==
    \A t \in Threads :
        /\ late[t] <= 1
        /\ ~mode /\ tpc[t] \in {"fread", "fstore"} => late[t] = 0

LEMMA LateInit == Init => LateInv
<1>1. Init => late \in [Threads -> 0..1] /\ \A t \in Threads : tpc[t] = "new"
  BY DEF Init
<1>2. late \in [Threads -> 0..1] => \A t \in Threads : late[t] <= 1
  OBVIOUS
<1> QED
  BY <1>1, <1>2 DEF LateInv

LEMMA LateNext == TypeInv /\ LateInv /\ [Next]_vars => LateInv'
<1> SUFFICES ASSUME TypeInv, LateInv, [Next]_vars PROVE LateInv'
  OBVIOUS
<1> USE DEF TypeInv, TypeOK, LateInv
<1>1. CASE Switch
  BY <1>1 DEF Switch
<1>2. CASE Owner
  BY <1>2 DEF Owner, StopSignals, StopStopsCapture, StopJoins, Start, environment
<1>3. CASE FrameCaptured
  BY <1>3 DEF FrameCaptured, environment
<1>4. ASSUME NEW t \in Threads, Agent(t) \/ StartFails(t) PROVE LateInv'
  <2>1. CASE LoopHead(t) \/ ReadMode(t) \/ EntersFrames(t) \/ ChecksStop(t) \/ ChecksMode(t)
    BY <2>1 DEF LoopHead, ReadMode, EntersFrames, ChecksStop, ChecksMode, Goto, environment
  <2>2. CASE StartsCapture(t) \/ StopsCapture(t) \/ StopsCaptureInFrames(t) \/ Exits(t)
             \/ StartFails(t)
    BY <2>2 DEF StartsCapture, StopsCapture, StopsCaptureInFrames, Exits, StartFails, Goto,
                environment
  <2>3. CASE TakesFrame(t)
    BY <2>3 DEF TakesFrame, Goto, environment
  <2>4. CASE StoresFrame(t)
    BY <2>4 DEF StoresFrame, Goto, environment
  <2> QED
    BY <1>4, <2>1, <2>2, <2>3, <2>4 DEF Agent
<1>5. CASE UNCHANGED vars
  BY <1>5 DEF vars
<1> QED
  BY <1>1, <1>2, <1>3, <1>4, <1>5 DEF Next

\* After the mode was switched off no thread stores more than the frame it had in
\* hand, whatever the batch size and however many frames wait in the ring.
THEOREM OneFrameAfterDisable == Spec => []AtMostOneFrameEach
<1>1. LateInv => AtMostOneFrameEach
  BY DEF LateInv, AtMostOneFrameEach
<1> QED
  BY <1>1, TypeInvariant, LateInit, LateNext, PTL DEF Spec

----------------------------------------------------------------------------
LEMMA OwnedNext == TypeInv /\ CaptureOwned /\ [Next]_vars => CaptureOwned'
<1> SUFFICES ASSUME TypeInv, CaptureOwned, [Next]_vars PROVE CaptureOwned'
  OBVIOUS
<1> USE DEF TypeInv, TypeOK, CaptureOwned, Alive
<1>1. CASE Switch \/ FrameCaptured
  BY <1>1 DEF Switch, FrameCaptured, capture
<1>2. CASE StopSignals \/ StopStopsCapture \/ StopJoins
  BY <1>2 DEF StopSignals, StopStopsCapture, StopJoins, CaptureOff, capture
<1>3. ASSUME NEW t \in Threads, Start(t) PROVE CaptureOwned'
  <2>1. tpc'[t] = "head"
    BY <1>3 DEF Start
  <2> QED
    BY <2>1
<1>4. ASSUME NEW t \in Threads, Agent(t) \/ StartFails(t) PROVE CaptureOwned'
  <2>1. CASE Exits(t)
    BY <2>1 DEF Exits, CaptureOff
  <2>2. CASE ~Exits(t)
    <3>1. tpc'[t] \notin {"new", "done"}
      BY <1>4, <2>2 DEF Agent, StartFails, LoopHead, ReadMode, StartsCapture, StopsCapture,
         EntersFrames, ChecksStop, ChecksMode, StopsCaptureInFrames, TakesFrame, StoresFrame, Goto
    <3> QED
      BY <3>1
  <2> QED
    BY <2>1, <2>2
<1>5. CASE UNCHANGED vars
  BY <1>5 DEF vars
<1> QED
  BY <1>1, <1>2, <1>3, <1>4, <1>5 DEF Next, Owner

\* Whatever stop() gave up waiting for and however threads of two start() calls
\* overlap, a running capture has a thread that will stop it.
THEOREM CaptureHasThread == Spec => []CaptureOwned
<1>1. Init => CaptureOwned
  BY DEF Init, CaptureOwned
<1> QED
  BY <1>1, TypeInvariant, OwnedNext, PTL DEF Spec

----------------------------------------------------------------------------
\* When stop() really waits, the only thread alive is the current one, and after
\* stop() there is none.
OwnerInv ==
    /\ \A t \in Threads : Alive(t) => current = t
    /\ mpc # "idle" => stopEvent
    /\ mpc = "idle" /\ stopEvent => current = NoThread

LEMMA OwnerInit == Init => OwnerInv
  BY DEF Init, OwnerInv, Alive

LEMMA OwnerNext ==
  ASSUME ~JoinTimesOut
  PROVE  TypeInv /\ OwnerInv /\ [Next]_vars => OwnerInv'
<1> SUFFICES ASSUME TypeInv, OwnerInv, [Next]_vars PROVE OwnerInv'
  OBVIOUS
<1> USE AgentAssumption DEF TypeInv, TypeOK, OwnerInv, Alive
<1>1. CASE Switch \/ FrameCaptured
  BY <1>1 DEF Switch, FrameCaptured, owner
<1>2. CASE StopSignals \/ StopStopsCapture
  BY <1>2 DEF StopSignals, StopStopsCapture
<1>3. CASE StopJoins
  <2>1. ~Running
    BY <1>3 DEF StopJoins
  <2>2. \A t \in Threads : ~Alive(t)
    BY <2>1 DEF Running
  <2> QED
    BY <1>3, <2>2 DEF StopJoins
<1>4. ASSUME NEW t \in Threads, Start(t) PROVE OwnerInv'
  <2>1. ~Running
    BY <1>4 DEF Start
  <2>2. \A u \in Threads : ~Alive(u)
    BY <2>1 DEF Running
  <2> QED
    BY <1>4, <2>2 DEF Start
<1>5. ASSUME NEW t \in Threads, Agent(t) \/ StartFails(t) PROVE OwnerInv'
  <2>1. Alive(t) /\ UNCHANGED owner /\ \A u \in Threads \ {t} : tpc'[u] = tpc[u]
    BY <1>5 DEF Agent, StartFails, LoopHead, ReadMode, StartsCapture, StopsCapture,
       EntersFrames, ChecksStop, ChecksMode, StopsCaptureInFrames, TakesFrame, StoresFrame,
       Exits, Goto
  <2> QED
    BY <2>1 DEF owner
<1>6. CASE UNCHANGED vars
  BY <1>6 DEF vars
<1> QED
  BY <1>1, <1>2, <1>3, <1>4, <1>5, <1>6 DEF Next, Owner

\* As long as no join gives up, start() never adds a second loop to a running one.
THEOREM OneLoop ==
  ASSUME ~JoinTimesOut
  PROVE  Spec => []SingleLoop
<1>1. OwnerInv => SingleLoop
  BY DEF OwnerInv, SingleLoop
<1> QED
  BY <1>1, TypeInvariant, OwnerInit, OwnerNext, PTL DEF Spec

\* As long as no join gives up, nothing runs and nothing is captured once stop()
\* has returned.
THEOREM StopEndsAll ==
  ASSUME ~JoinTimesOut
  PROVE  Spec => []StopIsFinal
<1>1. OwnerInv /\ CaptureOwned => StopIsFinal
  BY AgentAssumption DEF OwnerInv, CaptureOwned, StopIsFinal
<1> QED
  BY <1>1, TypeInvariant, OwnerInit, OwnerNext, CaptureHasThread, PTL DEF Spec

----------------------------------------------------------------------------
\* The frame a thread holds and the pipeline's last frame are of the running
\* capture.
SessionInv ==
    /\ DeltaWithinSession
    /\ \A t \in Threads : active /\ tpc[t] = "fstore" => held[t] = session

LEMMA SessionNext ==
  TypeInv /\ SingleLoop /\ SessionInv /\ [Next]_vars => SessionInv'
<1> SUFFICES ASSUME TypeInv, SingleLoop, SessionInv, [Next]_vars PROVE SessionInv'
  OBVIOUS
<1> USE DEF TypeInv, TypeOK, SessionInv, DeltaWithinSession
<1>1. CASE Switch \/ FrameCaptured
  BY <1>1 DEF Switch, FrameCaptured, capture, local
<1>2. CASE Owner
  BY <1>2 DEF Owner, StopSignals, StopStopsCapture, StopJoins, Start, CaptureOff, capture, local
<1>3. ASSUME NEW t \in Threads, Agent(t) \/ StartFails(t) PROVE SessionInv'
  <2>1. CASE LoopHead(t) \/ ReadMode(t) \/ EntersFrames(t) \/ ChecksStop(t) \/ ChecksMode(t)
    BY <2>1 DEF LoopHead, ReadMode, EntersFrames, ChecksStop, ChecksMode, Goto, capture, local
  <2>2. CASE StopsCapture(t) \/ StopsCaptureInFrames(t) \/ Exits(t) \/ StartFails(t)
    BY <2>2 DEF StopsCapture, StopsCaptureInFrames, Exits, StartFails, CaptureOff, capture
  <2>3. CASE StartsCapture(t)
    <3>1. \A u \in Threads : tpc'[u] # "fstore"
      BY <2>3 DEF StartsCapture, Goto, SingleLoop, Alive
    <3> QED
      BY <2>3, <3>1 DEF StartsCapture, capture
  <2>4. CASE TakesFrame(t)
    BY <2>4 DEF TakesFrame, Goto
  <2>5. CASE StoresFrame(t)
    <3>1. \A u \in Threads : tpc'[u] # "fstore"
      BY <2>5 DEF StoresFrame, Goto, SingleLoop, Alive
    <3> QED
      BY <2>5, <3>1 DEF StoresFrame, capture
  <2> QED
    BY <1>3, <2>1, <2>2, <2>3, <2>4, <2>5 DEF Agent
<1>4. CASE UNCHANGED vars
  BY <1>4 DEF vars
<1> QED
  BY <1>1, <1>2, <1>3, <1>4 DEF Next

\* As long as no join gives up, a frame is only ever compared with a frame of its
\* own capture session.
THEOREM DeltaStaysInSession ==
  ASSUME ~JoinTimesOut
  PROVE  Spec => []DeltaWithinSession
<1>1. Init => SessionInv
  BY DEF Init, SessionInv, DeltaWithinSession
<1>2. SessionInv => DeltaWithinSession
  BY DEF SessionInv
<1> QED
  BY <1>1, <1>2, OneLoop, TypeInvariant, SessionNext, PTL DEF Spec

-----------------------------------------------------------------------------
(* The agent inside a node.                                                *)

\* The steps of the agent inside a node are steps of the agent; the one other
\* change of its variables is the disable that cli_revoke sends.
LEMMA AgentInside ==
  ASSUME NodeNext
  PROVE  [Next]_vars \/ RevokeSends
BY DEF NodeNext, IpcEnable, DaemonSteps, AgentSteps, Grant, RevokeWrites, RevokePurges,
   P2PStart, P2PStop, GossipQueries, GossipPublishes, Next

NodeTypes ==
    /\ consent \in BOOLEAN /\ rows \in BOOLEAN
    /\ rpc \in {"idle", "purge", "send"} /\ revokes \in 0..MaxRevokes
    /\ told \in {"nothing", "revoked"}
    /\ gpc \in {"off", "query", "publish"} /\ fps \in BOOLEAN
    /\ clean \in BOOLEAN /\ leaks \in Nat

NodeTypeInv == TypeInv /\ NodeTypeOK

LEMMA NodeTypeInit == NodeInit => NodeTypeInv
<1> SUFFICES ASSUME NodeInit PROVE NodeTypeInv
  OBVIOUS
<1>1. TypeInv
  BY TypeInit DEF NodeInit
<1>2. revokes \in 0..MaxRevokes
  BY NodeAssumption DEF NodeInit
<1> QED
  BY <1>1, <1>2 DEF NodeTypeInv, NodeTypeOK, NodeInit, TypeInv

LEMMA NodeTypeNext == NodeTypeInv /\ [NodeNext]_nodeVars => NodeTypeInv'
<1> SUFFICES ASSUME NodeTypeInv, [NodeNext]_nodeVars PROVE NodeTypeInv'
  OBVIOUS
<1>1. TypeInv'
  <2>1. CASE [Next]_vars
    BY <2>1, TypeNext DEF NodeTypeInv
  <2>2. CASE RevokeSends
    <3>1. mode' \in BOOLEAN /\ late' \in [Threads -> Nat]
      <4>1. mode \in BOOLEAN /\ late \in [Threads -> Nat]
        BY DEF NodeTypeInv, TypeInv, TypeOK
      <4>2. CASE mode' = FALSE /\ late' = [t \in Threads |-> IF mode THEN 0 ELSE late[t]]
        BY <4>1, <4>2
      <4>3. CASE UNCHANGED <<mode, late>>
        BY <4>1, <4>3
      <4> QED
        BY <2>2, <4>2, <4>3 DEF RevokeSends
    <3>2. UNCHANGED <<toggles, faults, owner, tpc, local, capture, base>>
      BY <2>2 DEF RevokeSends
    <3> QED
      BY <3>1, <3>2 DEF NodeTypeInv, TypeInv, TypeOK, BatchOpen, owner, local, capture
  <2> QED
    BY <2>1, <2>2, AgentInside DEF nodeVars
<1>2. NodeTypes
  BY DEF NodeTypeInv, NodeTypeOK, NodeTypes
<1>3. NodeTypes'
  <2>1. CASE IpcEnable
    BY <1>2, <2>1 DEF NodeTypes, IpcEnable, cli
  <2>2. CASE DaemonSteps
    BY <1>2, <2>2 DEF NodeTypes, DaemonSteps, metricsVars, cli, gossip
  <2>3. ASSUME NEW t \in Threads, AgentSteps(t) PROVE NodeTypes'
    BY <1>2, <2>3 DEF NodeTypes, AgentSteps, cli, gossip
  <2>4. CASE Grant \/ RevokeWrites
    <3>1. revokes' \in 0..MaxRevokes
      BY <1>2, <2>4, NodeAssumption DEF NodeTypes, Grant, RevokeWrites
    <3> QED
      BY <1>2, <2>4, <3>1 DEF NodeTypes, Grant, RevokeWrites, metricsVars, gossip
  <2>5. CASE RevokePurges
    <3>1. clean' \in BOOLEAN /\ leaks' = 0
      BY <2>5, Zenon DEF RevokePurges, Quiet
    <3>2. rows' = FALSE /\ rpc' = "send" /\ UNCHANGED <<consent, revokes, told, gpc, fps>>
      BY <2>5 DEF RevokePurges
    <3> QED
      BY <1>2, <3>1, <3>2 DEF NodeTypes
  <2>6. CASE RevokeSends
    BY <1>2, <2>6 DEF NodeTypes, RevokeSends, metricsVars, gossip
  <2>7. CASE P2PStart \/ P2PStop \/ GossipQueries \/ GossipPublishes
    BY <1>2, <2>7 DEF NodeTypes, P2PStart, P2PStop, GossipQueries, GossipPublishes, metricsVars, cli
  <2>8. CASE UNCHANGED nodeVars
    BY <1>2, <2>8 DEF NodeTypes, nodeVars, metricsVars, cli, gossip
  <2> QED
    BY <2>1, <2>2, <2>3, <2>4, <2>5, <2>6, <2>7, <2>8 DEF NodeNext
<1> QED
  BY <1>1, <1>3 DEF NodeTypeInv, NodeTypeOK, NodeTypes, TypeInv

\* Type correctness of the composition.
THEOREM NodeTypeCorrect == NodeSpec => []NodeTypeOK
<1>1. NodeTypeInv => NodeTypeOK
  BY DEF NodeTypeInv
<1> QED
  BY <1>1, NodeTypeInit, NodeTypeNext, PTL DEF NodeSpec

----------------------------------------------------------------------------
\* As long as the last purge counts as clean, the mode is off, no thread has a
\* frame in hand, and at most the batch the gossip thread holds is still to come.
CleanInv ==
    /\ clean => Quiet /\ ~rows
    /\ leaks \in 0..1
    /\ clean /\ gpc = "publish" /\ fps => leaks = 0
    /\ ~clean => leaks = 0

LEMMA CleanInit == NodeInit => CleanInv
  BY DEF NodeInit, CleanInv

\* A quiet agent stays quiet and stores nothing while the mode is off.
LEMMA QuietSteps ==
  ASSUME TypeInv, Quiet, NEW t \in Threads, Agent(t) \/ StartFails(t)
  PROVE  Quiet' /\ tpc[t] # "fstore"
<1> USE DEF Quiet, TypeInv, TypeOK
<1>1. UNCHANGED mode /\ tpc[t] \notin {"fread", "fstore"}
  BY DEF Agent, StartFails, LoopHead, ReadMode, StartsCapture, StopsCapture, EntersFrames,
     ChecksStop, ChecksMode, StopsCaptureInFrames, TakesFrame, StoresFrame, Exits, environment
<1>2. tpc'[t] \notin {"fread", "fstore"} /\ \A u \in Threads \ {t} : tpc'[u] = tpc[u]
  BY <1>1 DEF Agent, StartFails, LoopHead, ReadMode, StartsCapture, StopsCapture,
     EntersFrames, ChecksStop, ChecksMode, StopsCaptureInFrames, TakesFrame, StoresFrame,
     Exits, Goto
<1> QED
  BY <1>1, <1>2

LEMMA CleanNext == NodeTypeInv /\ CleanInv /\ [NodeNext]_nodeVars => CleanInv'
<1> SUFFICES ASSUME NodeTypeInv, CleanInv, [NodeNext]_nodeVars PROVE CleanInv'
  OBVIOUS
<1> USE DEF CleanInv, NodeTypeInv, NodeTypeOK
<1>1. CASE IpcEnable
  BY <1>1 DEF IpcEnable
<1>2. CASE DaemonSteps
  <2>1. Quiet => Quiet'
    BY <1>2 DEF DaemonSteps, Owner, StopSignals, StopStopsCapture, StopJoins, Start,
       FrameCaptured, environment, Quiet, NodeTypeInv, TypeInv, TypeOK
  <2> QED
    BY <1>2, <2>1 DEF DaemonSteps, metricsVars, gossip
<1>3. ASSUME NEW t \in Threads, AgentSteps(t) PROVE CleanInv'
  <2>1. clean => Quiet' /\ tpc[t] # "fstore"
    BY <1>3, QuietSteps DEF AgentSteps, NodeTypeInv
  <2> QED
    BY <1>3, <2>1 DEF AgentSteps, gossip
<1>4. CASE RevokeSends
  BY <1>4 DEF RevokeSends, Quiet, metricsVars, gossip
<1>5. CASE RevokePurges
  BY <1>5 DEF RevokePurges, Quiet, vars
<1>6. CASE Grant \/ RevokeWrites \/ P2PStart \/ P2PStop
  BY <1>6 DEF Grant, RevokeWrites, P2PStart, P2PStop, Quiet, vars, metricsVars, gossip
<1>7. CASE GossipQueries
  BY <1>7 DEF GossipQueries, Quiet, vars, metricsVars
<1>8. CASE GossipPublishes
  BY <1>8 DEF GossipPublishes, Quiet, vars, metricsVars
<1>9. CASE UNCHANGED nodeVars
  BY <1>9 DEF nodeVars, Quiet, vars, metricsVars, gossip
<1> QED
  BY <1>1, <1>2, <1>3, <1>4, <1>5, <1>6, <1>7, <1>8, <1>9 DEF NodeNext

LEMMA CleanInvariant == NodeSpec => []CleanInv
  BY NodeTypeInit, NodeTypeNext, CleanInit, CleanNext, PTL DEF NodeSpec

\* After a purge that found the mode off and no frame in the agent's hands, no row
\* comes back until the swarm is enabled again.
THEOREM PurgeIsFinal == NodeSpec => []PurgeHolds
<1>1. CleanInv => PurgeHolds
  BY DEF CleanInv, PurgeHolds
<1> QED
  BY <1>1, CleanInvariant, PTL

\* After such a purge at most one batch of fingerprints is still published: the
\* one the gossip thread had read before.
THEOREM GossipEnds == NodeSpec => []OneLastGossip
<1>1. CleanInv => OneLastGossip
  BY DEF CleanInv, OneLastGossip
<1> QED
  BY <1>1, CleanInvariant, PTL
=============================================================================
