--------------------------- MODULE OverlayProcess ---------------------------
(***************************************************************************)
(* The Yggdrasil overlay of a node (modules/yggdrasil_install.py), the two *)
(* programs that start it, the hybrid bridge (modules/hybrid_bridge.py)    *)
(* and the headless daemon with its P2P layer (modules/swarm_p2p.py), and  *)
(* the desktop shell that starts those (src/py_bridge.rs,                  *)
(* src/launcher_dashboard.rs).                                             *)
(*                                                                         *)
(* All that the programs know of the overlay is a file with its process    *)
(* number.  They outlive the shell, the overlay outlives them, and whoever *)
(* comes next goes by the file.  POSIX semantics: an overlay that has died *)
(* keeps its number until its parent looks or dies, and a file can be      *)
(* unlinked while it is written.  Numbers are not used a second time.      *)
(***************************************************************************)
EXTENDS Naturals

CONSTANTS
    Slots,      \* the processes of bridges and daemons
    MaxOverlays, \* bound: overlays started
    MaxOpMishaps  \* bound: shells and programs that end, kills and writes that fail

ASSUME OverlayAssumption == MaxOverlays \in Nat /\ MaxOpMishaps \in Nat

VARIABLES
    prog,       \* what runs in a slot, and where it is
    overlay,    \* the overlays, and whose children they are
    pidFile,    \* data/yggdrasil.pid: whether it is there, and the number in it
    bridge,     \* PythonBridgeManager.child
    tracked,    \* LauncherState.active_processes, of the overlay service
    disturbed,  \* history: a start or a stop was crossed, or broken off
    opMishaps

opVars == <<prog, overlay, pidFile, bridge, tracked, disturbed, opMishaps>>
shellSide == <<bridge, tracked>>

\* the process numbers of overlays, in the order they are given out
Overlays == 1..MaxOverlays

Off == [kind |-> "none", call |-> "none", step |-> "off", pid |-> {}]
Program(kind, call) == [kind |-> kind, call |-> call, step |-> "look", pid |-> {}]
At(p, step, pid) == [kind |-> p.kind, call |-> p.call, step |-> step, pid |-> pid]
NoFile == [there |-> FALSE, pid |-> {}]

Up == {o \in Overlays : overlay[o].state = "alive"}
Runs(q) == prog[q] # Off
\* from the finding that none runs until the number is written; from the number to the unlink
Busy(p) == p.step \in {"forget", "spawn", "empty", "fill", "lost", "kill", "unlink"}
Writing(p) == p.step \in {"empty", "fill", "lost"}

OverlayInit ==
    /\ prog = [q \in Slots |-> Off]
    /\ overlay = [o \in Overlays |-> [state |-> "none", parent |-> {}]]
    /\ pidFile = NoFile /\ bridge = {} /\ tracked = {}
    /\ disturbed = FALSE /\ opMishaps = 0

OpMayFail == opMishaps < MaxOpMishaps
OpMishap(b) == opMishaps' = IF b THEN opMishaps + 1 ELSE opMishaps

\* two programs are at the overlay
Crossed(p) == \E q, r \in Slots : q # r /\ Busy(p[q]) /\ Busy(p[r])

\* the programs after a step
Becomes(p, broken) ==
    /\ prog' = p
    /\ disturbed' = (disturbed \/ broken \/ Crossed(p))
Moves(q, p) == Becomes([prog EXCEPT ![q] = p], FALSE)

\* the overlays once their parent has ended: its zombies go
Orphaned(Q) ==
    [o \in Overlays |->
        IF overlay[o].parent \cap Q = {} THEN overlay[o]
        ELSE [state |-> IF overlay[o].state = "zombie" THEN "gone" ELSE overlay[o].state,
              parent |-> {}]]

\* a program ends, where it is
Ends(q) == Moves(q, Off) /\ overlay' = Orphaned({q})

-----------------------------------------------------------------------------
(* The programs and the overlay.                                           *)

\* is_yggdrasil_managed_running() says yes: the bridge's own attempt is over and its P2P
\* layer asks again; the layer goes on, and counts the overlay as its own if it is the start
\* that finds it (_started_yggdrasil: its program is up and the call is "start")
FoundRunning(p) == IF p.call = "try" THEN Program(p.kind, "ensure") ELSE [p EXCEPT !.step = "up"]

\* a node whose settings, tier or consent keep the layer from the overlay
Without(p) == At(Program(p.kind, "ensure"), "up", {})
LayerWithout(q) ==
    /\ prog[q].call = "ensure" /\ prog[q].step = "look"
    /\ Moves(q, Without(prog[q]))
    /\ UNCHANGED <<overlay, pidFile, shellSide, opMishaps>>

\* it says no: _ensure_yggdrasil_runtime() goes on to the start, which looks again
FoundNone(p) ==
    IF p.call = "ensure" THEN Program(p.kind, "start") ELSE [p EXCEPT !.step = "spawn"]

\* is_yggdrasil_managed_running(): kill(pid, 0), which a zombie passes
Look(q) ==
    LET p == prog[q]
        found == \E o \in pidFile.pid : overlay[o].state \in {"alive", "zombie"}
    IN  /\ p.step = "look" /\ p.call # "stop"
        /\ Moves(q, IF found THEN FoundRunning(p)
                    ELSE IF pidFile.there THEN [p EXCEPT !.step = "forget"]
                    ELSE FoundNone(p))
        /\ UNCHANGED <<overlay, pidFile, shellSide, opMishaps>>

\* the file goes; a number that is being written into it goes with it
Unlinked(q, p) ==
    /\ pidFile' = NoFile
    /\ Becomes([r \in Slots |-> IF r = q THEN p
                                ELSE IF prog[r].step = "fill" THEN [prog[r] EXCEPT !.step = "lost"]
                                ELSE prog[r]], FALSE)

\* the file names no process that runs
Forget(q) ==
    /\ prog[q].step = "forget" /\ Unlinked(q, FoundNone(prog[q]))
    /\ UNCHANGED <<overlay, shellSide, opMishaps>>

\* start_yggdrasil_subprocess(): the process, then its number, which empties the file first
Spawn(q) ==
    /\ prog[q].step = "spawn"
    /\ \E o \in Overlays :
         /\ overlay[o].state = "none" /\ \A n \in Overlays : n < o => overlay[n].state # "none"
         /\ overlay' = [overlay EXCEPT ![o] = [state |-> "alive", parent |-> {q}]]
         /\ Moves(q, At(prog[q], "empty", {o}))
    /\ UNCHANGED <<pidFile, shellSide, opMishaps>>
EmptyPid(q) ==
    /\ prog[q].step = "empty" /\ pidFile' = [there |-> TRUE, pid |-> {}]
    /\ Moves(q, [prog[q] EXCEPT !.step = "fill"])
    /\ UNCHANGED <<overlay, shellSide, opMishaps>>

\* how the start leaves the program: the bridge goes on to its layer, the layer is up
Started(p) ==
    IF p.call = "try" THEN Program(p.kind, "ensure") ELSE At(p, "up", {})
FillPid(q) ==
    LET p == prog[q]
    IN  /\ p.step \in {"fill", "lost"}
        /\ pidFile' = IF p.step = "fill" THEN [there |-> TRUE, pid |-> p.pid] ELSE pidFile
        /\ Moves(q, Started(p))
        /\ UNCHANGED <<overlay, shellSide, opMishaps>>

\* the binary or the write fails: the bridge's attempt and the daemon's task catch it
StartOverlayFails(q) ==
    LET p == prog[q]
    IN  /\ p.step \in {"spawn", "empty", "fill"} /\ OpMayFail /\ OpMishap(TRUE)
        /\ Becomes([prog EXCEPT ![q] =
                IF p.call = "try" THEN Program(p.kind, "ensure") ELSE Without(p)], Writing(p))
        /\ UNCHANGED <<overlay, pidFile, shellSide>>

\* main() of the bridge, its P2P layer started: _start_symbiont() is defined nowhere
BridgeEnds(q) ==
    /\ prog[q].kind = "bridge" /\ prog[q].step = "up" /\ Ends(q)
    /\ UNCHANGED <<pidFile, shellSide, opMishaps>>

\* the daemon is told to stop: P2PLayer.stop() and, if the overlay is its own,
\* stop_yggdrasil_subprocess()
StopDaemon(q) ==
    /\ prog[q].kind = "daemon" /\ prog[q].step = "up"
    /\ IF prog[q].call = "start" THEN Moves(q, Program("daemon", "stop")) /\ UNCHANGED overlay ELSE Ends(q)
    /\ UNCHANGED <<pidFile, shellSide, opMishaps>>
LookToStop(q) ==
    /\ prog[q].call = "stop" /\ prog[q].step = "look"
    /\ IF pidFile.there
       THEN /\ Moves(q, At(prog[q], IF pidFile.pid = {} THEN "unlink" ELSE "kill", pidFile.pid))
            /\ UNCHANGED overlay
       ELSE Ends(q)
    /\ UNCHANGED <<pidFile, shellSide, opMishaps>>

\* an overlay ends; its parent may have it for a zombie
Dies(o) ==
    \E s \in {"gone"} \cup (IF overlay[o].parent = {} THEN {} ELSE {"zombie"}) :
        overlay' = [overlay EXCEPT ![o].state = s]
\* Mutant: the stop leaves the overlay alone.
StopForgets(q) ==
    /\ prog[q].step = "kill" /\ Moves(q, [prog[q] EXCEPT !.step = "unlink"])
    /\ UNCHANGED <<overlay, pidFile, shellSide, opMishaps>>
\* kill(pid, 15), at which the overlay ends; that it takes a moment to is left out
KillOverlay(q) ==
    /\ prog[q].step = "kill" /\ Moves(q, [prog[q] EXCEPT !.step = "unlink"])
    /\ \E o \in prog[q].pid : IF o \in Up THEN Dies(o) ELSE UNCHANGED overlay
    /\ UNCHANGED <<pidFile, shellSide, opMishaps>>
UnlinkPid(q) ==
    /\ prog[q].step = "unlink" /\ Unlinked(q, Off) /\ overlay' = Orphaned({q})
    /\ UNCHANGED <<shellSide, opMishaps>>

\* an overlay crashes
OverlayCrash(o) ==
    /\ o \in Up /\ Dies(o)
    /\ UNCHANGED <<prog, pidFile, shellSide, disturbed, opMishaps>>

\* a program is killed from outside
ProgramCrash(q) ==
    /\ Runs(q) /\ OpMayFail /\ OpMishap(TRUE)
    /\ Becomes([prog EXCEPT ![q] = Off], Writing(prog[q])) /\ overlay' = Orphaned({q})
    /\ UNCHANGED <<pidFile, shellSide>>

-----------------------------------------------------------------------------
(* The shell and the programs.  A program that it holds is its child, and  *)
(* the number of a child that has ended is not free before it is let go.   *)

Free(p) == {q \in Slots \ (bridge \cup tracked) : p[q] = Off}

\* kill() on a child, which may be refused while it runs
KillChild(q, ok) ==
    /\ ok \/ (Runs(q) /\ OpMayFail)
    /\ OpMishap(~ok)
    /\ overlay' = IF ok THEN Orphaned({q}) ELSE overlay
After(q, ok) == IF ok THEN [prog EXCEPT ![q] = Off] ELSE prog

\* PythonBridgeManager.start() with a child or without: none is started while one runs, by
\* settings that say no, without the script, or when the spawn fails
BridgeGoes(p, held, broken) ==
    LET running == {q \in held : p[q] # Off}
    IN  \/ Becomes(p, broken) /\ bridge' = running
        \/ /\ running = {}
           /\ \E q \in Free(p) \cup held, call \in {"try", "ensure"} :
                /\ bridge' = {q}
                /\ Becomes([p EXCEPT ![q] = Program("bridge", call)], broken)

\* HybridBridgeStartPressed
StartBridge ==
    /\ BridgeGoes(prog, bridge, FALSE) /\ UNCHANGED <<overlay, pidFile, tracked, opMishaps>>

\* HybridBridgeStopPressed: stop() lets the child go before it kills it
StopBridge ==
    /\ \E q \in bridge, ok \in BOOLEAN :
         /\ KillChild(q, ok) /\ Becomes(After(q, ok), ok /\ Writing(prog[q]))
    /\ bridge' = {} /\ UNCHANGED <<pidFile, tracked>>

\* restart(), also after a change of the settings: a failing stop ends it
RestartBridge ==
    /\ \E q \in bridge, ok \in BOOLEAN :
         /\ KillChild(q, ok)
         /\ IF ok THEN BridgeGoes(After(q, TRUE), {q}, Writing(prog[q]))
            ELSE bridge' = {} /\ Becomes(prog, FALSE)
    /\ UNCHANGED <<pidFile, tracked>>

\* poll_processes(): a child that has ended is let go
Polled == {q \in tracked : Runs(q)}

\* start_service("aether_overlay"); the log file or the spawn may fail
StartService ==
    /\ \/ tracked' = Polled /\ Becomes(prog, FALSE)
       \/ /\ Polled = {}
          /\ \E q \in Free(prog) \cup tracked :
               /\ tracked' = {q}
               /\ Becomes([prog EXCEPT ![q] = Program("daemon", "ensure")], FALSE)
    /\ UNCHANGED <<overlay, pidFile, bridge, opMishaps>>

\* stop_service("aether_overlay"): the child is let go whether or not the kill succeeds
StopService ==
    /\ \E q \in Polled, ok \in BOOLEAN :
         /\ KillChild(q, ok) /\ Becomes(After(q, ok), ok /\ Writing(prog[q]))
    /\ tracked' = {} /\ UNCHANGED <<pidFile, bridge>>

\* a daemon that the shell did not start
StartByHand ==
    /\ \E q \in Free(prog) : Moves(q, Program("daemon", "ensure"))
    /\ UNCHANGED <<overlay, pidFile, shellSide, opMishaps>>

\* the shell ends, and its children do not; bootstrap() of the next starts a bridge
NextShell ==
    /\ OpMayFail /\ OpMishap(TRUE)
    /\ tracked' = {}
    /\ \/ Becomes(prog, FALSE) /\ bridge' = {}
       \/ \E q \in Slots, call \in {"try", "ensure"} :
            /\ ~Runs(q) /\ bridge' = {q}
            /\ Becomes([prog EXCEPT ![q] = Program("bridge", call)], FALSE)
    /\ UNCHANGED <<overlay, pidFile>>

OverlayNext ==
    \/ StartBridge \/ StopBridge \/ RestartBridge \/ StartService \/ StopService
    \/ StartByHand \/ NextShell
    \/ \E o \in Overlays : OverlayCrash(o)
    \/ \E q \in Slots :
         \/ Look(q) \/ LayerWithout(q) \/ Forget(q) \/ Spawn(q) \/ EmptyPid(q) \/ FillPid(q)
         \/ StartOverlayFails(q) \/ BridgeEnds(q) \/ ProgramCrash(q)
         \/ StopDaemon(q) \/ LookToStop(q) \/ KillOverlay(q) \/ UnlinkPid(q)

OverlaySpec == OverlayInit /\ [][OverlayNext]_opVars

-----------------------------------------------------------------------------
OverlaySteps == {"off", "look", "forget", "spawn", "empty", "fill", "lost", "up", "kill", "unlink"}
Where == [kind : {"none", "bridge", "daemon"}, call : {"none", "try", "ensure", "start", "stop"},
          step : OverlaySteps, pid : SUBSET Overlays]
Living == [state : {"none", "alive", "zombie", "gone"}, parent : SUBSET Slots]

\* Every variable keeps its type.
OverlayTypeOK ==
    /\ prog \in [Slots -> Where] /\ overlay \in [Overlays -> Living]
    /\ pidFile \in [there : BOOLEAN, pid : SUBSET Overlays]
    /\ bridge \in SUBSET Slots /\ tracked \in SUBSET Slots /\ disturbed \in BOOLEAN
    /\ opMishaps \in 0..MaxOpMishaps

\* One overlay runs at most, and the file names it as soon as its start is through, although
\* bridges end by themselves, daemons are killed, and shells come and go without knowing what
\* the one before has started: as long as no start or stop is crossed by another or broken
\* off between the process and its number.
OneOverlay ==
    ~disturbed =>
        /\ \A o1, o2 \in Up : o1 = o2
        /\ \A o \in Up : pidFile.pid = {o} \/ \E q \in Slots : Writing(prog[q])
=============================================================================
