----------------------- MODULE SwarmController_proofs ---------------------
(***************************************************************************)
(* The controller's lock, and that a controller alone in its process pool  *)
(* implements AtomicMode, for any number of callers, failing writes and    *)
(* crashes.                                                                *)
(***************************************************************************)
EXTENDS SwarmController, TLAPS

LEMMA CtrlTypeInit == CtrlInit => CtrlTypeOK
  BY ControllerAssumption DEF CtrlInit, CtrlTypeOK, Commands, Steps

LEMMA CtrlTypeNext == CtrlTypeOK /\ [CtrlNext]_ctrlVars => CtrlTypeOK'
<1> SUFFICES ASSUME CtrlTypeOK, [CtrlNext]_ctrlVars PROVE CtrlTypeOK'
  OBVIOUS
<1> USE ControllerAssumption DEF CtrlTypeOK, Commands, Steps
<1>1. ASSUME NEW t \in CtrlThreads,
             \/ Dispatch(t) \/ GetStatus(t) \/ Acquire(t) \/ DbSet(t) \/ DbLogEvent(t)
             \/ SetEnabled(t) \/ WriteStatus(t) \/ StartComputeListener(t) \/ Fail(t)
      PROVE  CtrlTypeOK'
  <2>1. CASE Dispatch(t)
    BY <2>1 DEF Dispatch, CtrlGoto
  <2>2. CASE GetStatus(t)
    BY <2>2 DEF GetStatus
  <2>3. CASE Acquire(t)
    BY <2>3 DEF Acquire, CtrlGoto
  <2>4. CASE DbSet(t)
    BY <2>4 DEF DbSet, CtrlGoto, Wanted
  <2>5. CASE DbLogEvent(t)
    BY <2>5 DEF DbLogEvent, CtrlGoto
  <2>6. CASE SetEnabled(t)
    BY <2>6 DEF SetEnabled, CtrlGoto, Wanted
  <2>7. CASE WriteStatus(t)
    BY <2>7 DEF WriteStatus, CtrlGoto, Return, Wanted
  <2>8. CASE StartComputeListener(t)
    BY <2>8 DEF StartComputeListener, Return
  <2>9. CASE Fail(t)
    BY <2>9 DEF Fail, Return
  <2> QED
    BY <1>1, <2>1, <2>2, <2>3, <2>4, <2>5, <2>6, <2>7, <2>8, <2>9
<1>2. ASSUME NEW p \in Procs, Crash(p) PROVE CtrlTypeOK'
  BY <1>2 DEF Crash
<1>3. ASSUME NEW p \in Procs, StartProc(p) PROVE CtrlTypeOK'
  BY <1>3 DEF StartProc
<1>4. CASE UNCHANGED ctrlVars
  BY <1>4 DEF ctrlVars
<1> QED
  BY <1>1, <1>2, <1>3, <1>4 DEF CtrlNext

\* Type correctness of the controller.
THEOREM CtrlTypeCorrect == CtrlSpec => []CtrlTypeOK
  BY CtrlTypeInit, CtrlTypeNext, PTL DEF CtrlSpec

----------------------------------------------------------------------------
LEMMA LockInit == CtrlInit => LockHeld
  BY ControllerAssumption DEF CtrlInit, LockHeld, Inside

LEMMA LockNext == CtrlTypeOK /\ LockHeld /\ [CtrlNext]_ctrlVars => LockHeld'
<1> SUFFICES ASSUME CtrlTypeOK, LockHeld, [CtrlNext]_ctrlVars PROVE LockHeld'
  OBVIOUS
<1> USE ControllerAssumption DEF CtrlTypeOK, LockHeld, Inside
<1>1. ASSUME NEW t \in CtrlThreads, Dispatch(t) \/ GetStatus(t) PROVE LockHeld'
  BY <1>1 DEF Dispatch, GetStatus, CtrlGoto
<1>2. ASSUME NEW t \in CtrlThreads, Acquire(t) PROVE LockHeld'
  BY <1>2 DEF Acquire, CtrlGoto
<1>3. ASSUME NEW t \in CtrlThreads, DbSet(t) \/ DbLogEvent(t) \/ SetEnabled(t) PROVE LockHeld'
  BY <1>3 DEF DbSet, DbLogEvent, SetEnabled, CtrlGoto
<1>4. ASSUME NEW t \in CtrlThreads, WriteStatus(t) PROVE LockHeld'
  BY <1>4 DEF WriteStatus, CtrlGoto, Return
<1>5. ASSUME NEW t \in CtrlThreads, StartComputeListener(t) \/ Fail(t) PROVE LockHeld'
  BY <1>5 DEF StartComputeListener, Fail, Return
<1>6. ASSUME NEW p \in Procs, Crash(p) PROVE LockHeld'
  BY <1>6 DEF Crash
<1>7. ASSUME NEW p \in Procs, StartProc(p) PROVE LockHeld'
  BY <1>7 DEF StartProc
<1>8. CASE UNCHANGED ctrlVars
  BY <1>8 DEF ctrlVars
<1> QED
  BY <1>1, <1>2, <1>3, <1>4, <1>5, <1>6, <1>7, <1>8 DEF CtrlNext

\* In every process one thread at a time is inside enable_swarm or disable_swarm,
\* and neither an exception nor a crash leaves the lock behind.
THEOREM LockIsExclusive == CtrlSpec => []LockHeld
  BY CtrlTypeInit, CtrlTypeNext, LockInit, LockNext, PTL DEF CtrlSpec
----------------------------------------------------------------------------
\* The daemon's controller is the only one.
OneController == \E p : Procs = {p}

LEMMA TheOnlyProc ==
  ASSUME OneController
  PROVE  TheProc \in Procs /\ \A p \in Procs : p = TheProc
<1>1. TheProc \in Procs
  BY Zenon DEF OneController, TheProc
<1> QED
  BY <1>1 DEF OneController

LEMMA WantsValues ==
  /\ DOMAIN Atomic!Wants = {"enable_swarm", "disable_swarm"}
  /\ Atomic!Wants["enable_swarm"] = TRUE
  /\ Atomic!Wants["disable_swarm"] = FALSE
  BY DEF Atomic!Wants

\* What the views below need to know of the state: a process that does not run has
\* no callers, only enable and disable get inside, and between the commit and the
\* assignment of _enabled the database holds what the caller wants.
ViewInv ==
    /\ \A t \in CtrlThreads : pc[t] # "idle" => up[TheProc]
    /\ \A t \in CtrlThreads : pc[t] \in Inside => op[t] \in {"enable_swarm", "disable_swarm"}
    /\ \A t \in CtrlThreads : pc[t] \in {"log", "mem"} => db = Wanted(t)

\* Inside the lock there is nobody else.
LEMMA Alone ==
  ASSUME OneController, CtrlTypeOK, LockHeld, NEW t \in CtrlThreads, NEW u \in CtrlThreads,
         pc[t] \in Inside, pc[u] \in Inside
  PROVE  t = u
<1>1. ProcOf[t] = TheProc /\ ProcOf[u] = TheProc /\ TheProc \in Procs
  BY TheOnlyProc, ControllerAssumption
<1> QED
  BY <1>1 DEF LockHeld

LEMMA ViewInit == CtrlInit => ViewInv
  BY DEF CtrlInit, ViewInv, Inside

LEMMA ViewNext ==
  ASSUME OneController, CtrlTypeOK, LockHeld, ViewInv, [CtrlNext]_ctrlVars
  PROVE  ViewInv'
<1>0. \A t \in CtrlThreads : ProcOf[t] = TheProc
  BY TheOnlyProc, ControllerAssumption
<1> USE <1>0 DEF CtrlTypeOK, ViewInv, Inside
<1>1. ASSUME NEW t \in CtrlThreads, Dispatch(t) \/ GetStatus(t) PROVE ViewInv'
  BY <1>1 DEF Dispatch, GetStatus, CtrlGoto, Wanted
<1>2. ASSUME NEW t \in CtrlThreads, Acquire(t) PROVE ViewInv'
  BY <1>2 DEF Acquire, CtrlGoto, Wanted, Commands
<1>3. ASSUME NEW t \in CtrlThreads, DbSet(t) PROVE ViewInv'
  <2>1. \A u \in CtrlThreads : pc'[u] \in {"log", "mem"} => u = t
    BY <1>3, Alone DEF DbSet, CtrlGoto
  <2> QED
    BY <1>3, <2>1 DEF DbSet, CtrlGoto, Wanted
<1>4. ASSUME NEW t \in CtrlThreads, DbLogEvent(t) \/ SetEnabled(t) PROVE ViewInv'
  BY <1>4 DEF DbLogEvent, SetEnabled, CtrlGoto, Wanted
<1>5. ASSUME NEW t \in CtrlThreads, WriteStatus(t) \/ StartComputeListener(t) \/ Fail(t)
      PROVE  ViewInv'
  BY <1>5 DEF WriteStatus, StartComputeListener, Fail, Return, CtrlGoto, Wanted
<1>6. ASSUME NEW p \in Procs, Crash(p) PROVE ViewInv'
  BY <1>6, TheOnlyProc DEF Crash, Wanted
<1>7. ASSUME NEW p \in Procs, StartProc(p) PROVE ViewInv'
  BY <1>7, TheOnlyProc DEF StartProc, Wanted
<1>8. CASE UNCHANGED ctrlVars
  BY <1>8 DEF ctrlVars, Wanted
<1> QED
  BY <1>1, <1>2, <1>3, <1>4, <1>5, <1>6, <1>7, <1>8 DEF CtrlNext

\* While no write has failed, the copy in memory lags behind the database only
\* between the commit and its assignment, and the status file lags behind the copy
\* only until it is written; a crash can make the latter lag for good.
ShownInv ==
    ctrlFaults = 0 =>
        /\ up[TheProc] /\ (\A t \in CtrlThreads : pc[t] \notin {"log", "mem"})
             => enabled[TheProc] = db
        /\ crashes = 0 =>
             /\ ~up[TheProc] => (status = "on" <=> db)
             /\ up[TheProc] /\ (\A t \in CtrlThreads : pc[t] \notin {"log", "mem", "status"})
                  => (status = "on" <=> enabled[TheProc])
             /\ \A t \in CtrlThreads : pc[t] = "status" => enabled[TheProc] = Wanted(t)

LEMMA ShownInit ==
  ASSUME OneController, CtrlInit
  PROVE  ShownInv
BY TheOnlyProc DEF CtrlInit, ShownInv

LEMMA ShownNext ==
  ASSUME OneController, CtrlTypeOK, LockHeld, ViewInv, ShownInv, [CtrlNext]_ctrlVars
  PROVE  ShownInv'
<1>0. \A t \in CtrlThreads : ProcOf[t] = TheProc
  BY TheOnlyProc, ControllerAssumption
<1> USE <1>0 DEF CtrlTypeOK, ShownInv
<1>1. ASSUME NEW t \in CtrlThreads, Dispatch(t) \/ GetStatus(t) \/ Acquire(t) PROVE ShownInv'
  BY <1>1 DEF Dispatch, GetStatus, Acquire, CtrlGoto, Wanted
<1>2. ASSUME NEW t \in CtrlThreads, DbSet(t) PROVE ShownInv'
  <2>1. \A u \in CtrlThreads : pc'[u] # "status"
    BY <1>2, Alone DEF DbSet, CtrlGoto, Inside
  <2> QED
    BY <1>2, <2>1, TheOnlyProc DEF DbSet, CtrlGoto, ViewInv, Wanted
<1>3. ASSUME NEW t \in CtrlThreads, DbLogEvent(t) PROVE ShownInv'
  BY <1>3 DEF DbLogEvent, CtrlGoto, Wanted
<1>4. ASSUME NEW t \in CtrlThreads, SetEnabled(t) PROVE ShownInv'
  <2>1. \A u \in CtrlThreads : pc'[u] = "status" => u = t
    BY <1>4, Alone DEF SetEnabled, CtrlGoto, Inside
  <2>2. db = Wanted(t) /\ up[TheProc]
    BY <1>4 DEF SetEnabled, CtrlGoto, ViewInv
  <2> QED
    BY <1>4, <2>1, <2>2, TheOnlyProc DEF SetEnabled, CtrlGoto, Wanted
<1>5. ASSUME NEW t \in CtrlThreads, WriteStatus(t) PROVE ShownInv'
  <2>1. \A u \in CtrlThreads : pc[u] \in Inside => u = t
    BY <1>5, Alone DEF WriteStatus, Inside
  <2>2. up[TheProc] /\ \A u \in CtrlThreads : pc'[u] \notin {"log", "mem", "status"}
    BY <1>5, <2>1 DEF WriteStatus, CtrlGoto, Return, ViewInv, Inside
  <2>3. status' = "on" <=> Wanted(t)
    BY <1>5 DEF WriteStatus
  <2> QED
    BY <1>5, <2>1, <2>2, <2>3 DEF WriteStatus, Wanted, Inside
<1>6. ASSUME NEW t \in CtrlThreads, StartComputeListener(t) PROVE ShownInv'
  BY <1>6 DEF StartComputeListener, Return, Wanted
<1>7. ASSUME NEW t \in CtrlThreads, Fail(t) PROVE ShownInv'
  BY <1>7, ControllerAssumption DEF Fail
<1>8. ASSUME NEW p \in Procs, Crash(p) PROVE ShownInv'
  <2>1. ~up'[TheProc] /\ crashes' # 0
    BY <1>8, TheOnlyProc, ControllerAssumption DEF Crash
  <2> QED
    BY <2>1
<1>9. ASSUME NEW p \in Procs, StartProc(p) PROVE ShownInv'
  BY <1>9, TheOnlyProc DEF StartProc, ViewInv, Wanted
<1>10. CASE UNCHANGED ctrlVars
  BY <1>10 DEF ctrlVars, Wanted
<1> QED
  BY <1>1, <1>2, <1>3, <1>4, <1>5, <1>6, <1>7, <1>8, <1>9, <1>10 DEF CtrlNext

\* Whenever the lock of the only controller is free, the stored mode, the mode in
\* memory and the status file agree, up to a write that failed or a crash.
THEOREM StoreAgrees ==
  ASSUME OneController
  PROVE  CtrlSpec => []StoredAndShown
<1>1. ASSUME LockHeld, ShownInv PROVE StoredAndShown
  <2> SUFFICES ASSUME NEW p \in Procs, Idle(p), ctrlFaults = 0
               PROVE  enabled[p] = db /\ (crashes = 0 => (status = "on" <=> enabled[p]))
    BY DEF StoredAndShown
  <2>1. p = TheProc
    BY TheOnlyProc
  <2>2. \A t \in CtrlThreads : pc[t] \notin Inside
    <3> SUFFICES ASSUME NEW t \in CtrlThreads, pc[t] \in Inside PROVE FALSE
      OBVIOUS
    <3>1. ProcOf[t] = p
      BY <2>1, TheOnlyProc, ControllerAssumption
    <3>2. lock[p] = t
      BY <1>1, <3>1 DEF LockHeld
    <3> QED
      BY <3>2, ControllerAssumption DEF Idle
  <2> QED
    BY <1>1, <2>1, <2>2 DEF ShownInv, Idle, Inside
<1>2. ASSUME CtrlTypeOK, LockHeld, ViewInv, ShownInv, [CtrlNext]_ctrlVars PROVE ShownInv'
  BY <1>2, ShownNext
<1>3. ASSUME CtrlTypeOK, LockHeld, ViewInv, [CtrlNext]_ctrlVars PROVE ViewInv'
  BY <1>3, ViewNext
<1>4. CtrlInit => ShownInv
  BY ShownInit
<1> QED
  BY <1>1, <1>2, <1>3, <1>4, ViewInit, CtrlTypeCorrect, LockIsExclusive, PTL DEF CtrlSpec

----------------------------------------------------------------------------
LEMMA RefinesInit ==
  ASSUME OneController, CtrlInit
  PROVE  Atomic!Init
<1>1. ~up[TheProc]
  BY TheOnlyProc DEF CtrlInit
<1> QED
  BY <1>1 DEF CtrlInit, Atomic!Init, ModeView, DoubtView, CallView

\* Every step of the controller is a step of AtomicMode or changes nothing there:
\* a command takes effect when _enabled is assigned.
LEMMA RefinesNext ==
  ASSUME OneController, CtrlTypeOK, LockHeld, ViewInv, ViewInv', [CtrlNext]_ctrlVars
  PROVE  [Atomic!Next]_(Atomic!vars)
<1>0. /\ \A t \in CtrlThreads : ProcOf[t] = TheProc
      /\ TheProc \in Procs
      /\ \A p \in Procs : p = TheProc
  BY TheOnlyProc, ControllerAssumption
<1> DEFINE Busy == \E t \in CtrlThreads : pc[t] \in {"log", "mem"}
<1>V. /\ ModeView = IF up[TheProc] THEN enabled[TheProc] ELSE db
      /\ DoubtView = IF up[TheProc] /\ ~Busy THEN {db} \ {enabled[TheProc]} ELSE {}
  BY DEF ModeView, DoubtView
<1>W. /\ ModeView' = IF up'[TheProc] THEN enabled'[TheProc] ELSE db'
      /\ DoubtView' = IF up'[TheProc] /\ ~Busy' THEN {db'} \ {enabled'[TheProc]} ELSE {}
  BY DEF ModeView, DoubtView
<1> HIDE DEF Busy
<1>1. ASSUME NEW t \in CtrlThreads, Dispatch(t) PROVE Atomic!Call(t)
  <2>1. Busy' = Busy
    BY <1>1 DEF Busy, Dispatch, CtrlGoto, CtrlTypeOK
  <2>2. ModeView' = ModeView /\ DoubtView' = DoubtView
    BY <1>1, <1>V, <1>W, <2>1 DEF Dispatch
  <2>3. CallView[t] = "none"
    BY <1>1 DEF CallView, Dispatch, CtrlGoto
  <2>4. PICK o \in Commands : op' = [op EXCEPT ![t] = o]
    BY <1>1 DEF Dispatch
  <2>5. CallView' = [CallView EXCEPT ![t] = o]
    BY <1>1, <2>4 DEF CallView, Dispatch, CtrlGoto, CtrlTypeOK
  <2> QED
    BY <1>1, <2>2, <2>3, <2>5 DEF Atomic!Call, Dispatch, Commands
<1>2. ASSUME NEW t \in CtrlThreads, GetStatus(t) PROVE Atomic!Answers(t)
  <2>1. Busy' = Busy
    BY <1>2 DEF Busy, GetStatus, CtrlTypeOK
  <2>2. ModeView' = ModeView /\ DoubtView' = DoubtView
    BY <1>2, <1>V, <1>W, <2>1 DEF GetStatus
  <2>3. CallView[t] = "status" /\ CallView' = [CallView EXCEPT ![t] = "none"]
    BY <1>2 DEF CallView, GetStatus, CtrlTypeOK
  <2>4. ModeView = enabled[ProcOf[t]]
    BY <1>0, <1>2, <1>V DEF GetStatus, ViewInv
  <2> QED
    BY <1>2, <2>2, <2>3, <2>4 DEF Atomic!Answers, GetStatus
<1>3. ASSUME NEW t \in CtrlThreads, Acquire(t) \/ DbLogEvent(t) PROVE UNCHANGED Atomic!vars
  <2>1. Busy' = Busy
    BY <1>3 DEF Busy, Acquire, DbLogEvent, CtrlGoto, CtrlTypeOK
  <2>2. ModeView' = ModeView /\ DoubtView' = DoubtView
    BY <1>3, <1>V, <1>W, <2>1 DEF Acquire, DbLogEvent
  <2>3. CallView' = CallView
    BY <1>3 DEF CallView, Acquire, DbLogEvent, CtrlGoto, CtrlTypeOK
  <2> QED
    BY <1>3, <2>2, <2>3 DEF Atomic!vars, Acquire, DbLogEvent
<1>4. ASSUME NEW t \in CtrlThreads, DbSet(t) PROVE Atomic!Settles
  <2>1. Busy' /\ up[TheProc]
    BY <1>4 DEF Busy, DbSet, CtrlGoto, CtrlTypeOK, ViewInv
  <2>2. ModeView' = ModeView /\ DoubtView' = {}
    BY <1>4, <1>V, <1>W, <2>1 DEF DbSet
  <2>3. CallView' = CallView
    BY <1>4 DEF CallView, DbSet, CtrlGoto, CtrlTypeOK
  <2> QED
    BY <1>4, <2>2, <2>3 DEF Atomic!Settles, DbSet
<1>5. ASSUME NEW t \in CtrlThreads, SetEnabled(t) PROVE Atomic!TakesEffect(t)
  <2>1. /\ op[t] \in {"enable_swarm", "disable_swarm"}
        /\ db = Wanted(t)
        /\ up[TheProc]
    BY <1>5 DEF SetEnabled, CtrlGoto, ViewInv, Inside
  <2>2. ~Busy'
    BY <1>5, Alone DEF Busy, SetEnabled, CtrlGoto, CtrlTypeOK, Inside
  <2>3. ModeView' = Wanted(t) /\ DoubtView' = {}
    BY <1>0, <1>5, <1>W, <2>1, <2>2 DEF SetEnabled, CtrlTypeOK
  <2>4. CallView[t] = op[t] /\ CallView' = [CallView EXCEPT ![t] = "done"]
    BY <1>5 DEF CallView, SetEnabled, CtrlGoto, CtrlTypeOK
  <2>5. Wanted(t) = Atomic!Wants[op[t]]
    BY <2>1, WantsValues DEF Wanted
  <2> QED
    BY <1>5, <2>1, <2>3, <2>4, <2>5, WantsValues DEF Atomic!TakesEffect, SetEnabled
<1>6. ASSUME NEW t \in CtrlThreads, WriteStatus(t) \/ StartComputeListener(t)
      PROVE  Atomic!Answers(t) \/ UNCHANGED Atomic!vars
  <2>1. Busy' = Busy
    BY <1>6 DEF Busy, WriteStatus, StartComputeListener, Return, CtrlGoto, CtrlTypeOK
  <2>2. ModeView' = ModeView /\ DoubtView' = DoubtView
    BY <1>6, <1>V, <1>W, <2>1 DEF WriteStatus, StartComputeListener
  <2>3. CallView[t] = "done"
    BY <1>6 DEF CallView, WriteStatus, StartComputeListener, Return, CtrlGoto
  <2>4. CASE Return(t, "ok")
    <3>1. CallView' = [CallView EXCEPT ![t] = "none"]
      BY <1>6, <2>4 DEF CallView, Return, CtrlTypeOK, WriteStatus, StartComputeListener
    <3> QED
      BY <2>2, <2>3, <2>4, <3>1 DEF Atomic!Answers, Return
  <2>5. CASE ~Return(t, "ok")
    <3>1. CtrlGoto(t, "status", "listen") /\ UNCHANGED reply /\ UNCHANGED op
      BY <1>6, <2>5 DEF WriteStatus, StartComputeListener
    <3>2. CallView' = CallView
      BY <3>1 DEF CallView, CtrlGoto, CtrlTypeOK
    <3> QED
      BY <2>2, <3>1, <3>2 DEF Atomic!vars
  <2> QED
    BY <2>4, <2>5
<1>7. ASSUME NEW t \in CtrlThreads, Fail(t) PROVE Atomic!Fails(t)
  <2>1. /\ op[t] \in {"enable_swarm", "disable_swarm"}
        /\ up[TheProc] /\ UNCHANGED <<up, enabled, db>>
    BY <1>7 DEF Fail, ViewInv, Inside
  <2>2. CallView' = [CallView EXCEPT ![t] = "none"]
    BY <1>7 DEF CallView, Fail, Return, CtrlTypeOK
  <2>3. ModeView' = ModeView
    BY <1>V, <1>W, <2>1
  <2>4. CallView[t] = IF pc[t] = "status" THEN "done" ELSE op[t]
    BY <1>7 DEF CallView, Fail
  <2>5. CASE pc[t] = "log"
    <3>1. DoubtView' \subseteq {db}
      BY <1>W, <2>1
    <3>2. db = Atomic!Wants[op[t]]
      BY <2>1, <2>5, WantsValues DEF ViewInv, Wanted
    <3> QED
      BY <1>7, <2>1, <2>2, <2>3, <2>4, <2>5, <3>1, <3>2, WantsValues
      DEF Atomic!Fails, Fail, Return
  <2>6. CASE pc[t] # "log"
    <3>1. Busy' = Busy
      BY <1>7, <2>6 DEF Busy, Fail, Return, CtrlTypeOK
    <3>2. DoubtView' = DoubtView
      BY <1>V, <1>W, <2>1, <3>1
    <3> QED
      BY <1>7, <2>1, <2>2, <2>3, <2>4, <3>2, WantsValues DEF Atomic!Fails, Fail, Return
  <2> QED
    BY <2>5, <2>6
<1>8. ASSUME NEW p \in Procs, Crash(p) PROVE Atomic!Restarts
  <2>1. up[TheProc] /\ ~up'[TheProc] /\ UNCHANGED db
    BY <1>0, <1>8 DEF Crash, CtrlTypeOK
  <2>2. ModeView' = db /\ DoubtView' = {}
    BY <1>W, <2>1
  <2>3. CallView' = [t \in CtrlThreads |-> "none"] /\ reply' = [t \in CtrlThreads |-> "none"]
    BY <1>0, <1>8 DEF CallView, Crash, CtrlTypeOK
  <2>4. CASE Busy
    <3>1. PICK t \in CtrlThreads : pc[t] \in {"log", "mem"}
      BY <2>4 DEF Busy
    <3>2. CallView[t] = op[t] /\ op[t] \in {"enable_swarm", "disable_swarm"} /\ db = Wanted(t)
      BY <3>1 DEF CallView, ViewInv, Inside
    <3>3. db = Atomic!Wants[CallView[t]] /\ CallView[t] \in DOMAIN Atomic!Wants
      BY <3>2, WantsValues DEF Wanted
    <3> QED
      BY <2>2, <2>3, <3>3 DEF Atomic!Restarts
  <2>5. CASE ~Busy
    <3>1. db \in {ModeView} \cup DoubtView
      BY <1>V, <2>1, <2>5
    <3> QED
      BY <2>2, <2>3, <3>1 DEF Atomic!Restarts
  <2> QED
    BY <2>4, <2>5
<1>9. ASSUME NEW p \in Procs, StartProc(p) PROVE UNCHANGED Atomic!vars
  <2>1. ~up[TheProc] /\ up'[TheProc] /\ enabled'[TheProc] = db /\ UNCHANGED <<db, pc, op, reply>>
    BY <1>0, <1>9 DEF StartProc, CtrlTypeOK
  <2>2. ModeView' = ModeView /\ DoubtView' = DoubtView
    BY <1>V, <1>W, <2>1
  <2>3. CallView' = CallView
    BY <2>1 DEF CallView
  <2> QED
    BY <2>1, <2>2, <2>3 DEF Atomic!vars
<1>10. CASE UNCHANGED ctrlVars
  BY <1>10 DEF ctrlVars, Atomic!vars, ModeView, DoubtView, CallView
<1> QED
  BY <1>1, <1>2, <1>3, <1>4, <1>5, <1>6, <1>7, <1>8, <1>9, <1>10 DEF CtrlNext, Atomic!Next

\* A controller that is alone implements the atomic controller: with two separate
\* transactions, a copy in memory, failing writes and crashes in between, every
\* call still looks as if it took effect at one moment.
THEOREM Linearizable ==
  ASSUME OneController
  PROVE  CtrlSpec => ImplementsAtomicMode
<1>1. CtrlInit => Atomic!Init
  BY RefinesInit
<1>2. CtrlTypeOK /\ LockHeld /\ ViewInv /\ [CtrlNext]_ctrlVars => ViewInv'
  BY ViewNext
<1>3. CtrlTypeOK /\ LockHeld /\ ViewInv /\ ViewInv' /\ [CtrlNext]_ctrlVars => [Atomic!Next]_(Atomic!vars)
  BY RefinesNext
<1> QED
  BY <1>1, <1>2, <1>3, ViewInit, CtrlTypeCorrect, LockIsExclusive, PTL
  DEF CtrlSpec, ImplementsAtomicMode, Atomic!Spec
===========================================================================
