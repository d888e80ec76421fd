------------------------- MODULE SwarmController --------------------------
(***************************************************************************)
(* SwarmController of modules/swarm_controller.py: the mode in             *)
(* data/swarm_ctrl.db, the copy every process keeps in _enabled, the       *)
(* status file data/interbus/swarm_status.json and the compute listener on *)
(* port 7389.  A process is the daemon, or a command line client: the      *)
(* client of modules/swarm_ui_adapter.py builds a controller of its own    *)
(* (cli_enable and cli_disable call get_controller() in their process).    *)
(***************************************************************************)
EXTENDS Naturals

CONSTANTS
    Procs,        \* processes, each with one SwarmController
    CtrlThreads,  \* threads that call it (IPC clients, file poll, UI)
    ProcOf,       \* the process each thread runs in
    NoCaller,     \* nobody: the controller's lock is free
    MaxCtrlFaults, \* bound: failing database or status file writes
    MaxCrashes    \* bound: processes that end, in the middle of a call or not

ASSUME ControllerAssumption ==
    /\ ProcOf \in [CtrlThreads -> Procs]
    /\ NoCaller \notin CtrlThreads
    /\ MaxCtrlFaults \in Nat
    /\ MaxCrashes \in Nat

VARIABLES
    db,        \* SWARM_MODE in swarm_flags
    status,    \* swarm_status.json: "on", "off", or "none" (missing, unreadable)
    up,        \* up[p]: the process runs
    enabled,   \* enabled[p]: its _enabled
    lock,      \* lock[p]: the thread inside its controller's lock
    listener,  \* listener[p]: "off", "bound", or "failed" (the port was taken)
    pc,        \* where each thread is in enable_swarm or disable_swarm
    op,        \* the command it was given
    reply,     \* what its last command answered
    ctrlFaults, crashes

ctrlVars == <<db, status, up, enabled, lock, listener, pc, op, reply, ctrlFaults, crashes>>

Commands == {"enable_swarm", "disable_swarm", "status"}
Steps == {"idle", "called", "db", "log", "mem", "status", "listen"}

CtrlTypeOK ==
    /\ db \in BOOLEAN
    /\ status \in {"none", "on", "off"}
    /\ up \in [Procs -> BOOLEAN]
    /\ enabled \in [Procs -> BOOLEAN]
    /\ lock \in [Procs -> CtrlThreads \cup {NoCaller}]
    /\ listener \in [Procs -> {"off", "bound", "failed"}]
    /\ pc \in [CtrlThreads -> Steps]
    /\ op \in [CtrlThreads -> Commands]
    /\ reply \in [CtrlThreads -> {"none", "ok", "on", "off", "failed"}]
    /\ ctrlFaults \in 0..MaxCtrlFaults
    /\ crashes \in 0..MaxCrashes

\* Nothing runs yet; the store and the status file are as a clean run left them.
CtrlInit ==
    /\ db \in BOOLEAN
    /\ status \in IF db THEN {"on"} ELSE {"none", "off"}
    /\ up = [p \in Procs |-> FALSE]
    /\ enabled = [p \in Procs |-> FALSE]
    /\ lock = [p \in Procs |-> NoCaller]
    /\ listener = [p \in Procs |-> "off"]
    /\ pc = [t \in CtrlThreads |-> "idle"]
    /\ op = [t \in CtrlThreads |-> "status"]
    /\ reply = [t \in CtrlThreads |-> "none"]
    /\ ctrlFaults = 0 /\ crashes = 0

----------------------------------------------------------------------------
Wanted(t) == op[t] = "enable_swarm"

CtrlGoto(t, from, to) == pc[t] = from /\ pc' = [pc EXCEPT ![t] = to]

\* The with-block ends: the lock is free and the caller has its answer.
Return(t, answer) ==
    /\ pc' = [pc EXCEPT ![t] = "idle"]
    /\ lock' = [lock EXCEPT ![ProcOf[t]] = NoCaller]
    /\ reply' = [reply EXCEPT ![t] = answer]

\* dispatch(), or a direct call of enable_swarm / disable_swarm / get_status.
Dispatch(t) ==
    /\ up[ProcOf[t]]
    /\ CtrlGoto(t, "idle", "called")
    /\ \E o \in Commands : op' = [op EXCEPT ![t] = o]
    /\ reply' = [reply EXCEPT ![t] = "none"]
    /\ UNCHANGED <<db, status, up, enabled, lock, listener, ctrlFaults, crashes>>

\* Mutant: the command is answered with itself.
GetStatusEchoes(t) ==
    /\ pc[t] = "called" /\ op[t] = "status"
    /\ lock[ProcOf[t]] = NoCaller
    /\ pc' = [pc EXCEPT ![t] = "idle"]
    /\ reply' = [reply EXCEPT ![t] = op[t]]
    /\ UNCHANGED <<db, status, up, enabled, lock, listener, op, ctrlFaults, crashes>>

GetStatus(t) ==
    /\ pc[t] = "called" /\ op[t] = "status"
    /\ lock[ProcOf[t]] = NoCaller
    /\ pc' = [pc EXCEPT ![t] = "idle"]
    /\ reply' = [reply EXCEPT ![t] = IF enabled[ProcOf[t]] THEN "on" ELSE "off"]
    /\ UNCHANGED <<db, status, up, enabled, lock, listener, op, ctrlFaults, crashes>>

\* Mutant: the body of enable_swarm / disable_swarm runs without the lock.
AcquireUnlocked(t) ==
    /\ op[t] # "status"
    /\ CtrlGoto(t, "called", "db")
    /\ UNCHANGED <<db, status, up, enabled, lock, listener, op, reply, ctrlFaults, crashes>>

Acquire(t) ==
    /\ op[t] # "status"
    /\ lock[ProcOf[t]] = NoCaller
    /\ lock' = [lock EXCEPT ![ProcOf[t]] = t]
    /\ CtrlGoto(t, "called", "db")
    /\ UNCHANGED <<db, status, up, enabled, listener, op, reply, ctrlFaults, crashes>>

\* _db_set: one transaction of its own.
DbSet(t) ==
    /\ CtrlGoto(t, "db", "log")
    /\ db' = Wanted(t)
    /\ UNCHANGED <<status, up, enabled, lock, listener, op, reply, ctrlFaults, crashes>>

\* _db_log_event: a second transaction; the event rows are left out.
DbLogEvent(t) ==
    /\ CtrlGoto(t, "log", "mem")
    /\ UNCHANGED <<db, status, up, enabled, lock, listener, op, reply, ctrlFaults, crashes>>

SetEnabled(t) ==
    /\ CtrlGoto(t, "mem", "status")
    /\ enabled' = [enabled EXCEPT ![ProcOf[t]] = Wanted(t)]
    /\ UNCHANGED <<db, status, up, lock, listener, op, reply, ctrlFaults, crashes>>

\* Mutant: disable_swarm forgets the status file.
WriteStatusOnEnable(t) ==
    /\ pc[t] = "status"
    /\ status' = IF Wanted(t) THEN "on" ELSE status
    /\ IF Wanted(t)
         THEN CtrlGoto(t, "status", "listen") /\ UNCHANGED <<lock, reply>>
         ELSE Return(t, "ok")
    /\ UNCHANGED <<db, up, enabled, listener, op, ctrlFaults, crashes>>

\* _write_status; disable_swarm returns after it.
WriteStatus(t) ==
    /\ pc[t] = "status"
    /\ status' = IF Wanted(t) THEN "on" ELSE "off"
    /\ IF Wanted(t)
         THEN CtrlGoto(t, "status", "listen") /\ UNCHANGED <<lock, reply>>
         ELSE Return(t, "ok")
    /\ UNCHANGED <<db, up, enabled, listener, op, ctrlFaults, crashes>>

\* start_compute_listener: once per process; where another process has the port
\* the listener thread ends, and the flag keeps it from being tried again.
StartComputeListener(t) ==
    /\ pc[t] = "listen"
    /\ listener' = [listener EXCEPT ![ProcOf[t]] =
                      IF @ # "off" THEN @
                      ELSE IF \E p \in Procs : listener[p] = "bound" THEN "failed"
                      ELSE "bound"]
    /\ Return(t, "ok")
    /\ UNCHANGED <<db, status, up, enabled, op, ctrlFaults, crashes>>

\* A database or file write raises (database is locked, disk full): the lock is
\* released, what was done before stays, and the caller gets the error.
Fail(t) ==
    /\ pc[t] \in {"db", "log", "status"}
    /\ ctrlFaults < MaxCtrlFaults
    /\ ctrlFaults' = ctrlFaults + 1
    /\ status' \in IF pc[t] = "status" THEN {status, "none"} ELSE {status}
    /\ Return(t, "failed")
    /\ UNCHANGED <<db, up, enabled, listener, op, crashes>>

\* The process ends: its memory, its lock, its listener and its callers are gone;
\* the status file may be left truncated.
Crash(p) ==
    /\ up[p]
    /\ crashes < MaxCrashes
    /\ crashes' = crashes + 1
    /\ up' = [up EXCEPT ![p] = FALSE]
    /\ enabled' = [enabled EXCEPT ![p] = FALSE]
    /\ lock' = [lock EXCEPT ![p] = NoCaller]
    /\ listener' = [listener EXCEPT ![p] = "off"]
    /\ pc' = [t \in CtrlThreads |-> IF ProcOf[t] = p THEN "idle" ELSE pc[t]]
    /\ reply' = [t \in CtrlThreads |-> IF ProcOf[t] = p THEN "none" ELSE reply[t]]
    /\ status' \in IF \E t \in CtrlThreads : ProcOf[t] = p /\ pc[t] = "status"
                    THEN {status, "none"} ELSE {status}
    /\ UNCHANGED <<db, op, ctrlFaults>>

\* __init__: the mode is read from the database; the status file is not written
\* and the compute listener is not started.
StartProc(p) ==
    /\ ~up[p]
    /\ up' = [up EXCEPT ![p] = TRUE]
    /\ enabled' = [enabled EXCEPT ![p] = db]
    /\ UNCHANGED <<db, status, lock, listener, pc, op, reply, ctrlFaults, crashes>>

CtrlNext ==
    \/ \E t \in CtrlThreads :
         \/ Dispatch(t) \/ GetStatus(t) \/ Acquire(t) \/ DbSet(t) \/ DbLogEvent(t)
         \/ SetEnabled(t) \/ WriteStatus(t) \/ StartComputeListener(t) \/ Fail(t)
    \/ \E p \in Procs : Crash(p) \/ StartProc(p)

CtrlSpec == CtrlInit /\ [][CtrlNext]_ctrlVars

----------------------------------------------------------------------------
Inside == {"db", "log", "mem", "status", "listen"}

\* Through every failing write and every crash, the body of enable_swarm and
\* disable_swarm has one thread of a process at a time, which owns the lock, and a
\* lock is never left behind: no call waits for ever.
LockHeld ==
    \A p \in Procs : \A t \in CtrlThreads :
        lock[p] = t <=> ProcOf[t] = p /\ pc[t] \in Inside

Idle(p) == up[p] /\ lock[p] = NoCaller

\* In a controller that shares the store with no other process, whenever its lock is
\* free the mode it answers is the stored one, unless a write between the two
\* transactions and the assignment of _enabled has failed; and the status file that
\* the UI, the shell and the agents read says the same, unless a process ended
\* before it wrote the file.  A restart repairs the former and not the latter.
StoredAndShown ==
    \A p \in Procs : Idle(p) /\ ctrlFaults = 0 =>
        /\ enabled[p] = db
        /\ crashes = 0 => (status = "on" <=> enabled[p])

----------------------------------------------------------------------------
\* One process: the daemon.
TheProc == CHOOSE p \in Procs : TRUE

\* Before _enabled is assigned a call has not taken effect; after it, it has.
ModeView == IF up[TheProc] THEN enabled[TheProc] ELSE db
DoubtView ==
    IF up[TheProc] /\ (\A t \in CtrlThreads : pc[t] \notin {"log", "mem"})
      THEN {db} \ {enabled[TheProc]} ELSE {}
CallView == [t \in CtrlThreads |->
    IF pc[t] = "idle" THEN "none"
    ELSE IF pc[t] \in {"status", "listen"} THEN "done"
    ELSE op[t]]

Atomic == INSTANCE AtomicMode
            WITH Clients <- CtrlThreads, mode <- ModeView, doubt <- DoubtView,
                 call <- CallView, reply <- reply

\* The controller of one process, with its lock, its two transactions, failing
\* writes and crashes, is an atomic controller.
ImplementsAtomicMode == Atomic!Spec
============================================================================
