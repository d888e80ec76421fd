---------------------------- MODULE SwarmAgent ----------------------------
(***************************************************************************)
(* The capture agent of modules/swarm_agent.py: the agent thread polls the *)
(* controller's mode, starts and stops the capture adapter accordingly and *)
(* drains the adapter's ring buffer; the capture thread                    *)
(* (modules/capture_adapter.py) fills the ring; the owner of the agent     *)
(* calls start() and stop(); anybody may switch the mode at any time.      *)
(*                                                                         *)
(* A frame is known by the capture session (one _start_capture) that took  *)
(* it.  Each start() creates a new thread object, so one agent may have    *)
(* threads of several start() calls.  Steps that hold the agent's RLock    *)
(* are atomic: nobody else touches the capture without it except to read   *)
(* the attribute.                                                          *)
(***************************************************************************)
EXTENDS Naturals

CONSTANTS
    Threads,       \* the thread objects that successive start() calls create
    NoThread,      \* _agent_thread is None
    RingSize,      \* depth of the adapter's ring buffer
    Batch,         \* frames _process_frames handles before it returns
    JoinTimesOut,  \* stop()'s join may give up on a thread that is still busy
    MaxToggles,    \* bound: how often the mode changes
    MaxFaults      \* bound: adapters that fail to start

ASSUME AgentAssumption ==
    /\ NoThread \notin Threads
    /\ RingSize \in Nat \ {0}
    /\ Batch \in Nat \ {0}
    /\ JoinTimesOut \in BOOLEAN
    /\ MaxToggles \in Nat
    /\ MaxFaults \in Nat

VARIABLES
    mode,      \* SWARM_MODE: the _enabled of the controller the agent was given
    toggles, faults,
    stopEvent, \* _stop_event
    current,   \* _agent_thread
    mpc,       \* the owner: inside stop() or not
    tpc,       \* where each agent thread is
    was,       \* the local swarm_was_enabled of each thread
    batch,     \* the local processed of _process_frames
    held,      \* the session of the frame the thread has taken off the ring, or 0
    active,    \* _capture_active, and _capture is not None
    session,   \* how many captures have been started
    ring,      \* frames in the ring buffer of the running capture
    base,      \* the session of DeltaPipeline's previous frame, 0 after reset()
    late       \* frames each thread stored since the mode was switched off

vars == <<mode, toggles, faults, stopEvent, current, mpc, tpc, was, batch, held,
          active, session, ring, base, late>>
environment == <<mode, toggles>>
owner == <<stopEvent, current, mpc>>
capture == <<active, session, ring>>
local == <<was, batch, held>>

Alive(t) == tpc[t] \notin {"new", "done"}

\* is_running()
Running == IF current = NoThread THEN FALSE ELSE Alive(current)

TypeOK ==
    /\ mode \in BOOLEAN /\ toggles \in 0..MaxToggles /\ faults \in 0..MaxFaults
    /\ stopEvent \in BOOLEAN
    /\ current \in Threads \cup {NoThread}
    /\ mpc \in {"idle", "capture", "join"}
    /\ tpc \in [Threads -> {"new", "head", "mode", "start", "stop", "frames", "fstop",
                            "fmode", "foff", "fread", "fstore", "exit", "done"}]
    /\ was \in [Threads -> BOOLEAN]
    /\ batch \in [Threads -> 0..Batch]
    /\ held \in [Threads -> Nat]
    /\ active \in BOOLEAN /\ session \in Nat
    /\ ring \in 0..RingSize
    /\ base \in Nat
    /\ late \in [Threads -> Nat]

Init ==
    /\ mode \in BOOLEAN /\ toggles = 0 /\ faults = 0
    /\ stopEvent = FALSE /\ current = NoThread /\ mpc = "idle"
    /\ tpc = [t \in Threads |-> "new"]
    /\ was = [t \in Threads |-> FALSE]
    /\ batch = [t \in Threads |-> 0]
    /\ held = [t \in Threads |-> 0]
    /\ active = FALSE /\ session = 0 /\ ring = 0 /\ base = 0
    /\ late = [t \in Threads |-> 0]

----------------------------------------------------------------------------
\* The controller stores another mode.
Switch ==
    /\ toggles < MaxToggles
    /\ toggles' = toggles + 1
    /\ mode' = ~mode
    /\ late' = [t \in Threads |-> 0]
    /\ UNCHANGED <<faults, owner, tpc, local, capture, base>>

\* Mutant: start() does not ask whether a thread is running.
StartAnyway(t) ==
    /\ mpc = "idle" /\ tpc[t] = "new"
    /\ stopEvent' = FALSE
    /\ current' = t
    /\ tpc' = [tpc EXCEPT ![t] = "head"]
    /\ UNCHANGED <<environment, faults, mpc, local, capture, base, late>>

\* start(): nothing happens while the last thread is alive.
Start(t) ==
    /\ mpc = "idle" /\ tpc[t] = "new"
    /\ ~Running
    /\ stopEvent' = FALSE
    /\ current' = t
    /\ tpc' = [tpc EXCEPT ![t] = "head"]
    /\ UNCHANGED <<environment, faults, mpc, local, capture, base, late>>

\* stop(): the event is set, the capture stopped and the thread joined.
StopSignals ==
    /\ mpc = "idle"
    /\ stopEvent' = TRUE
    /\ mpc' = "capture"
    /\ UNCHANGED <<environment, faults, current, tpc, local, capture, base, late>>

\* _stop_capture: the adapter's thread is joined, its ring is gone with it.
CaptureOff == active' = FALSE /\ ring' = 0 /\ UNCHANGED session

StopStopsCapture ==
    /\ mpc = "capture"
    /\ CaptureOff
    /\ mpc' = "join"
    /\ UNCHANGED <<environment, faults, stopEvent, current, tpc, local, base, late>>

\* join(timeout=5.0); afterwards the thread is forgotten, whether it ended or not.
StopJoins ==
    /\ mpc = "join"
    /\ JoinTimesOut \/ ~Running
    /\ current' = NoThread
    /\ mpc' = "idle"
    /\ UNCHANGED <<environment, faults, stopEvent, tpc, local, capture, base, late>>

----------------------------------------------------------------------------
\* _agent_loop: one action per read of something another thread may change.
Goto(t, step) == tpc' = [tpc EXCEPT ![t] = step]

\* Mutant: the loop does not look at the stop event.
LoopHeadForever(t) ==
    /\ tpc[t] = "head"
    /\ Goto(t, "mode")
    /\ UNCHANGED <<environment, faults, owner, local, capture, base, late>>

LoopHead(t) ==
    /\ tpc[t] = "head"
    /\ Goto(t, IF stopEvent THEN "exit" ELSE "mode")
    /\ UNCHANGED <<environment, faults, owner, local, capture, base, late>>

ReadMode(t) ==
    /\ tpc[t] = "mode"
    /\ \/ mode /\ ~was[t] /\ Goto(t, "start")
       \/ ~mode /\ was[t] /\ Goto(t, "stop")
       \/ mode = was[t] /\ Goto(t, "frames")
    /\ UNCHANGED <<environment, faults, owner, local, capture, base, late>>

\* Mutant: the pipeline is not reset for a new capture.
StartsCaptureOnOldBase(t) ==
    /\ tpc[t] = "start"
    /\ IF active THEN UNCHANGED capture
       ELSE active' = TRUE /\ session' = session + 1 /\ ring' = 0
    /\ was' = [was EXCEPT ![t] = TRUE]
    /\ Goto(t, "frames")
    /\ UNCHANGED <<environment, faults, owner, batch, held, base, late>>

\* _start_capture: unless one is running, a new adapter with an empty ring.
StartsCapture(t) ==
    /\ tpc[t] = "start"
    /\ IF active THEN UNCHANGED <<capture, base>>
       ELSE active' = TRUE /\ session' = session + 1 /\ ring' = 0 /\ base' = 0
    /\ was' = [was EXCEPT ![t] = TRUE]
    /\ Goto(t, "frames")
    /\ UNCHANGED <<environment, faults, owner, batch, held, late>>

\* The adapter's start raises: the pipeline is reset already, swarm_was_enabled is
\* not set, and the loop tries again.
StartFails(t) ==
    /\ tpc[t] = "start" /\ ~active
    /\ faults < MaxFaults
    /\ faults' = faults + 1
    /\ base' = 0
    /\ Goto(t, "head")
    /\ UNCHANGED <<environment, owner, local, capture, late>>

StopsCapture(t) ==
    /\ tpc[t] = "stop"
    /\ CaptureOff
    /\ was' = [was EXCEPT ![t] = FALSE]
    /\ Goto(t, "frames")
    /\ UNCHANGED <<environment, faults, owner, batch, held, base, late>>

\* The loop goes on with the frames when a capture is active, else it sleeps.
EntersFrames(t) ==
    /\ tpc[t] = "frames"
    /\ Goto(t, IF active THEN "fstop" ELSE "head")
    /\ batch' = [batch EXCEPT ![t] = 0]
    /\ UNCHANGED <<environment, faults, owner, was, held, capture, base, late>>

\* _process_frames: before each frame the stop event and then the mode are read.
ChecksStop(t) ==
    /\ tpc[t] = "fstop"
    /\ Goto(t, IF stopEvent THEN "head" ELSE "fmode")
    /\ UNCHANGED <<environment, faults, owner, local, capture, base, late>>

\* Mutant: the mode is only read by the loop's next round.
ChecksModeNever(t) ==
    /\ tpc[t] = "fmode"
    /\ Goto(t, "fread")
    /\ UNCHANGED <<environment, faults, owner, local, capture, base, late>>

ChecksMode(t) ==
    /\ tpc[t] = "fmode"
    /\ Goto(t, IF mode THEN "fread" ELSE "foff")
    /\ UNCHANGED <<environment, faults, owner, local, capture, base, late>>

\* Mutant: only the mode is looked at, the capture keeps running.
BreaksOff(t) ==
    /\ tpc[t] = "foff"
    /\ was' = [was EXCEPT ![t] = FALSE]
    /\ Goto(t, "head")
    /\ UNCHANGED <<environment, faults, owner, batch, held, capture, base, late>>

\* The mode is off: the capture is stopped at once; swarm_was_enabled, a local of
\* the loop, stays TRUE.
StopsCaptureInFrames(t) ==
    /\ tpc[t] = "foff"
    /\ CaptureOff
    /\ Goto(t, "head")
    /\ UNCHANGED <<environment, faults, owner, local, base, late>>

\* read_and_consume on the adapter; stop() may have set it to None meanwhile, and
\* the AttributeError is caught by the loop.
TakesFrame(t) ==
    /\ tpc[t] = "fread"
    /\ \/ /\ active /\ ring > 0
          /\ ring' = ring - 1
          /\ held' = [held EXCEPT ![t] = session]
          /\ Goto(t, "fstore")
       \/ /\ ~active \/ ring = 0
          /\ Goto(t, "head")
          /\ UNCHANGED <<ring, held>>
    /\ UNCHANGED <<environment, faults, owner, was, batch, active, session, base, late>>

\* DeltaPipeline.process and append_frame_metrics; the latter's errors are
\* swallowed, so the row may be missing.
StoresFrame(t) ==
    /\ tpc[t] = "fstore"
    /\ base' = held[t]
    /\ held' = [held EXCEPT ![t] = 0]
    /\ late' = [late EXCEPT ![t] = IF mode THEN 0 ELSE @ + 1]
    /\ batch' = [batch EXCEPT ![t] = @ + 1]
    /\ Goto(t, IF batch[t] + 1 >= Batch THEN "head" ELSE "fstop")
    /\ UNCHANGED <<environment, faults, owner, was, capture>>

\* Mutant: the loop ends without stopping the capture.
ExitsOnly(t) ==
    /\ tpc[t] = "exit"
    /\ Goto(t, "done")
    /\ UNCHANGED <<environment, faults, owner, local, capture, base, late>>

Exits(t) ==
    /\ tpc[t] = "exit"
    /\ CaptureOff
    /\ Goto(t, "done")
    /\ UNCHANGED <<environment, faults, owner, local, base, late>>

\* Mutant: the ring has no maxlen.
FrameCapturedUnbounded ==
    /\ active
    /\ ring' = ring + 1
    /\ UNCHANGED <<environment, faults, owner, tpc, local, active, session, base, late>>

\* _capture_loop appends a frame; a full ring drops its oldest and stays full.
FrameCaptured ==
    /\ active /\ ring < RingSize
    /\ ring' = ring + 1
    /\ UNCHANGED <<environment, faults, owner, tpc, local, active, session, base, late>>

Agent(t) ==
    \/ LoopHead(t) \/ ReadMode(t) \/ StartsCapture(t) \/ StopsCapture(t)
    \/ EntersFrames(t) \/ ChecksStop(t) \/ ChecksMode(t) \/ StopsCaptureInFrames(t)
    \/ TakesFrame(t) \/ StoresFrame(t) \/ Exits(t)

Owner == StopSignals \/ StopStopsCapture \/ StopJoins \/ \E t \in Threads : Start(t)

Next ==
    \/ Switch \/ Owner \/ FrameCaptured
    \/ \E t \in Threads : Agent(t) \/ StartFails(t)

Spec == Init /\ [][Next]_vars

\* The threads run; a stop() that was called goes on to its join.
FairSpec ==
    /\ Spec
    /\ \A t \in Threads : WF_vars(Agent(t))
    /\ WF_vars(StopStopsCapture \/ StopJoins)

----------------------------------------------------------------------------
\* However start() and stop() follow each other, one agent has one loop.
SingleLoop == \A t, u \in Threads : Alive(t) /\ Alive(u) => t = u

\* "stop() -> graceful shutdown (waits for current frame to finish)": once it has
\* returned, no thread of the agent runs and nothing is captured.
StopIsFinal ==
    mpc = "idle" /\ stopEvent => ~active /\ \A t \in Threads : ~Alive(t)

\* "Stop capture immediately to avoid waiting for the next poll cycle": after the
\* mode was switched off a thread stores the one frame it had in hand, no more.
AtMostOneFrameEach == \A t \in Threads : late[t] <= 1

\* A capture never runs without a thread that will end it, whatever stop() gave
\* up waiting for.
CaptureOwned == active => \E t \in Threads : Alive(t)

\* The delta marker of a frame compares it with a frame of the same capture, never
\* with one from before the swarm was switched off.
DeltaWithinSession == active /\ base # 0 => base = session

\* "SWARM_MODE=false -> graceful shutdown": when the mode stays off, the capture
\* is off for good.
DisabledStopsCapture == <>[](~mode) => <>[](~active)

\* A thread that is told to stop ends, even if stop() did not wait for it.
StopEndsThreads ==
    \A t \in Threads : <>[](stopEvent) => <>[](~Alive(t))

\* "SWARM_MODE=true -> start CaptureAdapter + DeltaPipeline": when the mode stays
\* on and the agent runs, it captures.
EnabledCaptures ==
    <>[](mode /\ ~stopEvent /\ \E t \in Threads : Alive(t)) => <>[]active
===========================================================================
