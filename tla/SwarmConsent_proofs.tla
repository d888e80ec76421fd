----------------------- MODULE SwarmConsent_proofs ------------------------
(***************************************************************************)
(* Proofs about the consent file, for every set of threads and processes.  *)
(* What holds whoever writes the file comes first; what needs one process  *)
(* is proved under the assumption OneProcess, up to the first shell that   *)
(* writes without the lock.                                                *)
(***************************************************************************)
EXTENDS SwarmConsent, TLAPS

\* Every variable of the module keeps its type, whatever the actors do.
THEOREM ConsentTypeCorrect == Spec => []TypeOK
<1>1. ASSUME Init PROVE TypeOK
  <2> USE <1>1 DEF Init
  <2>1. file \in Contents
    BY ConsentAssumption DEF Contents, Decisions, Unreadable
  <2>2. lock \in [Procs -> Threads \cup {NoThread}]
    OBVIOUS
  <2>3. pc \in [Actors -> Steps] /\ op \in [Actors -> Ops]
    BY DEF Steps, Ops
  <2>4. during \in [Actors -> SUBSET Contents]
    OBVIOUS
  <2>5. answer \in [Actors -> {"none", "yes", "no"}]
    OBVIOUS
  <2>6. QED
    BY <2>1, <2>2, <2>3, <2>4, <2>5 DEF TypeOK
<1>2. TypeOK /\ [Next]_vars => TypeOK'
  <2> SUFFICES ASSUME TypeOK, [Next]_vars PROVE TypeOK'
    OBVIOUS
  <2> USE ConsentAssumption
          DEF TypeOK, Contents, Decisions, Unreadable, Steps, Ops, Actors, Goto
  <2>1. ASSUME NEW a \in Actors, NEW o \in Ops, NEW s \in Steps, Begin(a, o, s)
        PROVE TypeOK'
    BY <2>1 DEF Begin
  <2>2. ASSUME NEW t \in Threads, CheckReads(t) PROVE TypeOK'
    BY <2>2 DEF CheckReads, Answers
  <2>3. ASSUME NEW t \in Threads, Audit(t) PROVE TypeOK'
    BY <2>3 DEF Audit, Stored
  <2>4. ASSUME NEW t \in Threads, Purge(t) PROVE TypeOK'
    BY <2>4 DEF Purge
  <2>5. ASSUME NEW g \in Gates, GateReads(g) PROVE TypeOK'
    BY <2>5 DEF GateReads, Answers
  <2>6. ASSUME NEW a \in Threads \cup Shells, Truncate(a) PROVE TypeOK'
    BY <2>6 DEF Truncate, Take, Put
  <2>7. ASSUME NEW a \in Threads \cup Shells, Fill(a) PROVE TypeOK'
    <3>1. Stored(a) \in Contents
      BY DEF Stored
    <3>2. Put(Stored(a)) \/ Put("mixed")
      BY <2>7 DEF Fill
    <3>3. file' \in Contents /\ during' \in [Actors -> SUBSET Contents]
      BY <3>1, <3>2 DEF Put
    <3>4. QED
      BY <2>7, <3>3 DEF Fill, Release
  <2>8. CASE PersistFrame
    BY <2>8 DEF PersistFrame
  <2>9. CASE UNCHANGED vars
    BY <2>9 DEF vars
  <2>10. QED
    BY <2>1, <2>2, <2>3, <2>4, <2>5, <2>6, <2>7, <2>8, <2>9
       DEF Next, BeginCheck, BeginGrant, BeginRevoke, BeginToggle, BeginGate
<1>3. QED
  BY <1>1, <1>2, PTL DEF Spec

----------------------------------------------------------------------------
\* The history of a call in progress holds what the file says now, and a call
\* that is past its truncate has seen the file empty.
HistoryInv ==
    /\ \A a \in Actors : pc[a] # "idle" => file \in during[a]
    /\ \A t \in Threads : op[t] = "auto" /\ pc[t] # "idle" => during[t] # {"revoked"}

\* A check answers what was on file at some moment of the check (has_consent,
\* the compute gate), with any number of processes writing the file.
THEOREM AnswersStored == Spec => []AnswerWasStored
<1> DEFINE Inv == HistoryInv /\ AnswerWasStored
<1>1. Init => Inv
  BY ConsentAssumption DEF Init, HistoryInv, AnswerWasStored, Actors
<1>2. TypeOK /\ Inv /\ [Next]_vars => Inv'
  <2> SUFFICES ASSUME TypeOK, Inv, [Next]_vars PROVE Inv'
    OBVIOUS
  <2> USE ConsentAssumption
          DEF TypeOK, HistoryInv, AnswerWasStored, Actors, Goto
  <2>1. ASSUME NEW a \in Actors, NEW o \in Ops \ {"auto"}, NEW s \in Steps, Begin(a, o, s)
        PROVE Inv'
    BY <2>1 DEF Begin
  <2>2. ASSUME NEW t \in Threads, CheckReads(t) PROVE Inv'
    BY <2>2 DEF CheckReads, Answers, Decisions, Unreadable
  <2>3. ASSUME NEW t \in Threads, Audit(t) PROVE Inv'
    BY <2>3 DEF Audit
  <2>4. ASSUME NEW t \in Threads, Purge(t) PROVE Inv'
    BY <2>4 DEF Purge
  <2>5. ASSUME NEW g \in Gates, GateReads(g) PROVE Inv'
    BY <2>5 DEF GateReads, Answers
  <2>6. ASSUME NEW a \in Threads \cup Shells, NEW content \in Contents, Put(content),
               pc[a] # "idle", \A b \in Actors \ {a} : pc'[b] = pc[b],
               UNCHANGED <<op, answer>>
        PROVE Inv'
    <3>1. \A b \in Actors : during[b] \subseteq during'[b]
      BY <2>6 DEF Put
    <3>2. \A b \in Actors : pc[b] # "idle" => during'[b] = during[b] \cup {file'}
      BY <2>6 DEF Put
    <3>3. \A b \in Actors : pc'[b] # "idle" => pc[b] # "idle"
      BY <2>6
    <3>4. HistoryInv'
      BY <2>6, <3>1, <3>2, <3>3
    <3>5. ASSUME NEW b \in Threads \cup Gates PROVE AnswerWasStored!(b)'
      <4>1. CASE pc[b] = "idle"
        BY <2>6, <4>1 DEF Put
      <4>2. CASE pc[b] # "idle"
        <5>1. during[b] # {"revoked"} => \E c \in during[b] : c # "revoked"
          BY <4>2
        <5>2. QED
          BY <2>6, <3>1, <5>1
      <4>3. QED
        BY <4>1, <4>2
    <3>6. QED
      BY <3>4, <3>5
  <2>7. ASSUME NEW a \in Threads \cup Shells, Truncate(a) PROVE Inv'
    BY <2>6, <2>7 DEF Truncate, Contents, Unreadable
  <2>8. ASSUME NEW a \in Threads \cup Shells, Fill(a) PROVE Inv'
    BY <2>6, <2>8 DEF Fill, Stored, Contents, Decisions, Unreadable
  <2>9. CASE PersistFrame
    BY <2>9 DEF PersistFrame
  <2>10. CASE UNCHANGED vars
    BY <2>10 DEF vars
  <2>11. QED
    BY <2>1, <2>2, <2>3, <2>4, <2>5, <2>7, <2>8, <2>9, <2>10
       DEF Next, BeginCheck, BeginGrant, BeginRevoke, BeginToggle, BeginGate, Ops, Steps
<1>3. QED
  BY <1>1, <1>2, ConsentTypeCorrect, PTL DEF Spec

----------------------------------------------------------------------------
\* The lock's holder is the thread between its truncate and its fill.
LockInv == \A t \in Threads : pc[t] = "fill" <=> lock[ProcOf[t]] = t

\* A shell that is writing has begun to.
ShellInv == \A s \in Shells : op[s] = "none" => pc[s] = "idle"

WholeInv == HistoryInv /\ LockInv /\ ShellInv /\ FileWhole /\ OptInOnlyUndecided

\* When the Python threads belong to one process, _consent_lock keeps the file whole
\* until a shell writes it, and the default consent is stored only over a missing file.
THEOREM WholeInOneProcess ==
  ASSUME OneProcess PROVE Spec => [](FileWhole /\ OptInOnlyUndecided)
<1>1. ASSUME Init PROVE WholeInv
  <2> USE <1>1, ConsentAssumption
          DEF Init, HistoryInv, LockInv, FileWhole, OptInOnlyUndecided, Actors
  <2>1. file \notin {"empty", "mixed"}
    OBVIOUS
  <2>2. HistoryInv /\ LockInv /\ ShellInv /\ OptInOnlyUndecided
    BY DEF ShellInv
  <2>3. FileWhole
    BY <2>1
  <2>4. QED
    BY <2>2, <2>3 DEF WholeInv
<1>2. TypeOK /\ WholeInv /\ [Next]_vars => WholeInv'
  <2> SUFFICES ASSUME TypeOK, WholeInv, [Next]_vars PROVE WholeInv'
    OBVIOUS
  <2> USE ConsentAssumption, OneProcess
          DEF TypeOK, WholeInv, HistoryInv, LockInv, ShellInv, FileWhole, OptInOnlyUndecided,
              Actors, Goto, OneProcess, NoShellYet
  <2>1. ASSUME NEW a \in Actors, NEW o \in Ops \ {"auto", "none"},
               NEW s \in Steps \ {"fill"}, Begin(a, o, s)
        PROVE WholeInv'
    <3>1. HistoryInv' /\ LockInv' /\ ShellInv' /\ OptInOnlyUndecided'
      BY <2>1 DEF Begin
    <3>2. FileWhole'
      BY <2>1 DEF Begin
    <3>3. QED
      BY <3>1, <3>2
  <2>2. ASSUME NEW t \in Threads, CheckReads(t) PROVE WholeInv'
    <3>1. NoShellYet /\ file \in Unreadable => file = "absent"
      BY <2>2 DEF CheckReads, LockFree, Unreadable
    <3>2. QED
      BY <2>2, <3>1 DEF CheckReads, Decisions, Unreadable
  <2>3. ASSUME NEW t \in Threads, Audit(t) PROVE WholeInv'
    BY <2>3 DEF Audit
  <2>4. ASSUME NEW t \in Threads, Purge(t) PROVE WholeInv'
    BY <2>4 DEF Purge
  <2>5. ASSUME NEW g \in Gates, GateReads(g) PROVE WholeInv'
    BY <2>5 DEF GateReads, Answers
  <2>6. ASSUME NEW t \in Threads, Truncate(t) PROVE WholeInv'
    <3> USE <2>6 DEF Truncate, LockFree, Take, Put
    <3>1. \A u \in Threads : pc[u] # "fill"
      OBVIOUS
    <3>2. LockInv' /\ ShellInv' /\ FileWhole'
      BY <3>1
    <3>3. HistoryInv' /\ OptInOnlyUndecided'
      OBVIOUS
    <3>4. QED
      BY <3>2, <3>3
  <2>7. ASSUME NEW t \in Threads, Fill(t) PROVE WholeInv'
    <3> USE <2>7 DEF Fill, Release, Put
    <3>1. NoShellYet => file = "empty" /\ file' = Stored(t) /\ file' \in Decisions
      BY DEF Stored, Decisions
    <3>2. \A u \in Threads : pc'[u] # "fill" /\ lock'[ProcOf[u]] # u
      OBVIOUS
    <3>3. LockInv' /\ ShellInv' /\ FileWhole'
      BY <3>1, <3>2 DEF Decisions
    <3>4. HistoryInv' /\ OptInOnlyUndecided'
      BY <3>1
    <3>5. QED
      BY <3>3, <3>4
  <2>11. ASSUME NEW s \in Shells, Truncate(s) \/ Fill(s) PROVE WholeInv'
    <3>1. ~NoShellYet /\ ~NoShellYet'
      BY <2>11 DEF Truncate, Fill
    <3>2. \E content : Put(content)
      BY <2>11 DEF Truncate, Fill
    <3>3. HistoryInv'
      BY <2>11, <3>2 DEF Truncate, Fill, Put
    <3>4. LockInv' /\ ShellInv'
      BY <2>11 DEF Truncate, Fill, Take, Release
    <3>5. QED
      BY <3>1, <3>3, <3>4
  <2>8. CASE PersistFrame
    BY <2>8 DEF PersistFrame
  <2>9. CASE UNCHANGED vars
    BY <2>9 DEF vars
  <2>10. QED
    BY <2>1, <2>2, <2>3, <2>4, <2>5, <2>6, <2>7, <2>8, <2>9, <2>11
       DEF Next, BeginCheck, BeginGrant, BeginRevoke, BeginToggle, BeginGate, Ops, Steps
<1>3. WholeInv => FileWhole /\ OptInOnlyUndecided
  BY DEF WholeInv
<1>4. QED
  BY <1>1, <1>2, <1>3, ConsentTypeCorrect, PTL DEF Spec

\* The default consent is stored only when there was no file during the call.
THEOREM DefaultOnlyUndecided ==
  ASSUME OneProcess PROVE Spec => []OptInOnlyUndecided
<1>1. Spec => [](FileWhole /\ OptInOnlyUndecided)
  BY WholeInOneProcess
<1>2. QED
  BY <1>1, PTL
=============================================================================
