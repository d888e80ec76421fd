--------------------------- MODULE SwarmConsent ---------------------------
(***************************************************************************)
(* The consent file data/swarm_consent.json and everyone who reads or      *)
(* writes it: the Python threads that go through modules/swarm_consent.py, *)
(* the compute listener's gate in modules/swarm_controller.py and the P2P  *)
(* layer's start check, which read it without the module's lock, and the   *)
(* desktop shell (src/iced_shell.rs), which reads and writes it from a     *)
(* process of its own.                                                     *)
(*                                                                         *)
(* What the file says is abstracted to the value has_consent() derives     *)
(* from it.  Path.write_text and fs::write both truncate the file and then *)
(* fill it, so a writer is two steps with an unreadable file in between;   *)
(* _consent_lock excludes the other threads of the SAME process only.      *)
(***************************************************************************)
EXTENDS Naturals

CONSTANTS
    Threads,      \* Python threads that call modules/swarm_consent.py
    Shells,       \* desktop shells (Rust), each a process of its own
    Gates,        \* readers that open the file without _consent_lock
    Procs,        \* the Python processes
    ProcOf,       \* the process each Python thread runs in
    InitialFiles, \* what the file may hold when the system is started
    NoThread      \* nobody: the lock is free

Actors == Threads \cup Shells \cup Gates

ASSUME ConsentAssumption ==
    /\ ProcOf \in [Threads -> Procs]
    /\ InitialFiles \subseteq {"absent", "granted", "revoked"}
    /\ NoThread \notin Actors
    /\ Threads \cap Shells = {}
    /\ Threads \cap Gates = {}
    /\ Shells \cap Gates = {}

VARIABLES
    file,      \* no file, a decision, "empty" (truncated) or "mixed" (not JSON)
    lock,      \* lock[p]: the thread of process p inside _consent_lock
    pc,        \* where each actor is in the function it is executing
    op,        \* which function that is
    answer,    \* what its last check of the consent returned
    during,    \* history: every content the file had since the call began
    audit,     \* the last consent event of logs/swarm_audit.jsonl
    metrics    \* whether swarm_metrics.db holds frame metrics

vars == <<file, lock, pc, op, answer, during, audit, metrics>>

Decisions == {"granted", "revoked"}
Unreadable == {"absent", "empty", "mixed"}   \* _read_consent returns {}
Contents == Decisions \cup Unreadable
Steps == {"idle", "read", "truncate", "fill", "audit", "purge"}
Ops == {"none", "check", "auto", "grant", "revoke", "gate", "shell_on", "shell_off"}

TypeOK ==
    /\ file \in Contents
    /\ lock \in [Procs -> Threads \cup {NoThread}]
    /\ pc \in [Actors -> Steps]
    /\ op \in [Actors -> Ops]
    /\ answer \in [Actors -> {"none", "yes", "no"}]
    /\ during \in [Actors -> SUBSET Contents]
    /\ audit \in {"none", "granted", "revoked"}
    /\ metrics \in BOOLEAN

Init ==
    /\ file \in InitialFiles
    /\ lock = [p \in Procs |-> NoThread]
    /\ pc = [a \in Actors |-> "idle"]
    /\ op = [a \in Actors |-> "none"]
    /\ answer = [a \in Actors |-> "none"]
    /\ during = [a \in Actors |-> {}]
    /\ audit = "none"
    /\ metrics = FALSE

----------------------------------------------------------------------------
\* The value a call stores.
Stored(a) == IF op[a] \in {"revoke", "shell_off"} THEN "revoked" ELSE "granted"

\* Mutant: _consent_lock is not taken.
LockIgnored(a) == TRUE

\* A process's lock lets one of its threads at a time into the file.
LockFree(a) == a \in Threads => lock[ProcOf[a]] = NoThread

Take(a) == lock' = IF a \in Threads THEN [lock EXCEPT ![ProcOf[a]] = a] ELSE lock
Release(a) == lock' = IF a \in Threads THEN [lock EXCEPT ![ProcOf[a]] = NoThread] ELSE lock

\* The new content enters the history of every call in progress.
Put(content) ==
    /\ file' = content
    /\ during' = [a \in Actors |-> IF pc[a] = "idle" THEN during[a]
                                   ELSE during[a] \cup {content}]

Goto(a, step) == pc' = [pc EXCEPT ![a] = step]

\* A call begins: its history starts with what the file holds now.
Begin(a, o, step) ==
    /\ pc[a] = "idle"
    /\ Goto(a, step)
    /\ op' = [op EXCEPT ![a] = o]
    /\ during' = [during EXCEPT ![a] = {file}]
    /\ answer' = [answer EXCEPT ![a] = "none"]
    /\ UNCHANGED <<file, lock, audit, metrics>>

\* has_consent() (also reached from get_consent_state, gated_enable_swarm,
\* request_help_from_peers and detect_and_publish_overlaps).
BeginCheck(t) == Begin(t, "check", "read")

\* record_consent() and revoke_consent() read the file before they write it, but
\* overwrite both keys the consent is derived from, whatever they read.
BeginGrant(t) == Begin(t, "grant", "truncate")
BeginRevoke(t) == Begin(t, "revoke", "truncate")

\* SwarmConsentToggled in the desktop shell; it takes no lock, appends no audit
\* entry and purges nothing.
BeginToggle(s) == Begin(s, "shell_on", "truncate") \/ Begin(s, "shell_off", "truncate")

BeginGate(g) == Begin(g, "gate", "read")

\* Mutant: the key being there counts as consent, whatever its value.
AnswersKey(content) == IF content \in Decisions THEN "yes" ELSE "no"

\* What a content of the file means to those who ask: anything but a revocation is
\* consent.
Answers(content) == IF content = "revoked" THEN "no" ELSE "yes"

\* has_consent: an explicit decision is answered, an empty state is consented to.
CheckReads(t) ==
    /\ pc[t] = "read" /\ t \in Threads
    /\ LockFree(t)
    /\ \/ /\ file \in {"granted", "revoked"}
          /\ answer' = [answer EXCEPT ![t] = Answers(file)]
          /\ Goto(t, "idle")
          /\ UNCHANGED op
       \/ /\ file \in Unreadable
          /\ op' = [op EXCEPT ![t] = "auto"]
          /\ Goto(t, "truncate")
          /\ UNCHANGED answer
    /\ UNCHANGED <<file, lock, during, audit, metrics>>

\* The compute gate and P2PLayer._is_consented: no lock, and an absent or
\* unreadable file counts as consent.
GateReads(g) ==
    /\ pc[g] = "read" /\ g \in Gates
    /\ answer' = [answer EXCEPT ![g] = Answers(file)]
    /\ Goto(g, "idle")
    /\ UNCHANGED <<file, lock, op, during, audit, metrics>>

\* write_text / fs::write opens the file for writing: its old content is gone.
Truncate(a) ==
    /\ pc[a] = "truncate"
    /\ LockFree(a)
    /\ Take(a)
    /\ Put("empty")
    /\ Goto(a, "fill")
    /\ UNCHANGED <<op, answer, audit, metrics>>

\* Two writers of different processes that both truncated before either filled
\* write over each other from offset 0: a longer first text leaves its tail
\* behind the second one, which no longer parses.
Fill(a) ==
    /\ pc[a] = "fill"
    /\ \/ Put(Stored(a))
       \/ file # "empty" /\ Put("mixed")
    /\ Release(a)
    /\ Goto(a, IF a \in Threads THEN "audit" ELSE "idle")
    /\ UNCHANGED <<op, answer, audit, metrics>>

\* append_audit_event after the file is written.
Audit(t) ==
    /\ pc[t] = "audit"
    /\ audit' = Stored(t)
    /\ Goto(t, IF op[t] = "revoke" THEN "purge" ELSE "idle")
    /\ answer' = [answer EXCEPT ![t] = IF op[t] = "auto" THEN "yes" ELSE @]
    /\ UNCHANGED <<file, lock, op, during, metrics>>

\* _purge_frame_metrics: both metric tables are emptied.
Purge(t) ==
    /\ pc[t] = "purge"
    /\ metrics' = FALSE
    /\ Goto(t, "idle")
    /\ UNCHANGED <<file, lock, op, answer, during, audit>>

\* The capture agent stores the metrics of a frame; it does not look at the file.
PersistFrame ==
    /\ metrics' = TRUE
    /\ UNCHANGED <<file, lock, pc, op, answer, during, audit>>

Next ==
    \/ \E t \in Threads : \/ BeginCheck(t) \/ BeginGrant(t) \/ BeginRevoke(t)
                          \/ CheckReads(t) \/ Audit(t) \/ Purge(t)
    \/ \E s \in Shells : BeginToggle(s)
    \/ \E g \in Gates : BeginGate(g) \/ GateReads(g)
    \/ \E a \in Threads \cup Shells : Truncate(a) \/ Fill(a)
    \/ PersistFrame

Spec == Init /\ [][Next]_vars

----------------------------------------------------------------------------
\* All Python threads belong to one process: _consent_lock is seen by all of them.
OneProcess == \A t, u \in Threads : ProcOf[t] = ProcOf[u]

\* No shell has written the file yet: the shell knows nothing of the lock.
NoShellYet == \A s \in Shells : op[s] = "none"

\* As long as no shell has written, the file is only ever seen half-written by somebody
\* who ignores the lock: it is empty exactly while the one thread that holds the lock is
\* between its truncate and its fill, and no two texts are ever mixed (_write_consent).
FileWhole ==
    NoShellYet =>
        /\ file # "mixed"
        /\ file = "empty" <=> \E t \in Threads : pc[t] = "fill"
        /\ \A t, u \in Threads : pc[t] = "fill" /\ pc[u] = "fill" => t = u
        /\ \A t \in Threads : pc[t] = "fill" => lock[ProcOf[t]] = t

\* has_consent() stores the default consent only when the file did not exist at some
\* moment of that call (before any shell writes, which truncates the file without the
\* lock): no decision that was on file throughout the call, however often it was
\* rewritten meanwhile, is replaced by the default.
OptInOnlyUndecided ==
    NoShellYet =>
        \A t \in Threads : op[t] = "auto" /\ pc[t] = "truncate" => "absent" \in during[t]

\* What a check of the consent answers was true at some moment of the check: a
\* refusal means a revocation was on file, and a revocation that stood alone
\* from the call to the answer is never answered with consent.
AnswerWasStored ==
    \A a \in Threads \cup Gates :
        /\ answer[a] = "no" => "revoked" \in during[a]
        /\ answer[a] = "yes" => during[a] # {"revoked"}

\* has_consent: "Explizites Revoke immer respektieren".  The default consent is
\* never about to be stored over a revocation.
RevokeRespected ==
    \A t \in Threads : op[t] = "auto" /\ pc[t] = "truncate" => file # "revoked"

=============================================================================
