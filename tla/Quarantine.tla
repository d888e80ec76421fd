----------------------------- MODULE Quarantine ----------------------------
(***************************************************************************)
(* The quarantine of dangerous signals (src/observation.rs): records.json  *)
(* with what has been stored, manifest.json with a root over it.           *)
(* classify() answers only when the two agree; observe() takes an error    *)
(* for "unknown", and store_anchor() writes first one file, then the other.*)
(*                                                                         *)
(* A write may be refused, or broken off, which leaves an unreadable file; *)
(* the process may end between any two steps.                              *)
(***************************************************************************)
EXTENDS Naturals, FiniteSets

CONSTANTS
    Signals,    \* what is observed
    Dangerous,  \* those for which engines_suggest_danger()
    Alike,      \* pairs of signals whose features have a similarity of 0.85 or more
    Nil,        \* no file
    Unparsable, \* a file that does not parse
    MaxQFaults  \* bound: writes that fail and crashes

ASSUME QuarantineAssumption ==
    /\ Dangerous \subseteq Signals /\ MaxQFaults \in Nat
    /\ Nil # Unparsable /\ \A S \in SUBSET Signals : S # Nil /\ S # Unparsable
    /\ \A s \in Signals : <<s, s>> \in Alike

VARIABLES
    qRecords,   \* records.json: the signals stored
    qManifest,  \* manifest.json: the records it was computed from
    qPc,        \* "idle", "store" or "manifest": the step store_anchor() is at
    observed,   \* the signal in observe()
    acked,      \* signals a store_anchor() has answered Ok for
    verdict,     \* the last action: "none", "known", "new", "pass"
    missed,     \* an acknowledged signal was not recognised
    interrupted, qFaults

qVars == <<qRecords, qManifest, qPc, observed, acked, verdict, missed, interrupted, qFaults>>
files == <<qRecords, qManifest>>

QuarantineInit ==
    /\ qRecords = Nil /\ qManifest = Nil /\ qPc = "idle" /\ observed = {} /\ acked = {}
    /\ verdict = "none" /\ missed = FALSE /\ interrupted = FALSE /\ qFaults = 0

\* Mutant: what cannot be read counts as nothing.
ForgetfulRecords == IF qRecords \in {Nil, Unparsable} THEN {} ELSE qRecords

\* load_records(): no file is no records, an unreadable one is an error
LoadRecords == IF qRecords = Nil THEN {} ELSE qRecords

\* the outcomes of writing v to a file that held old
Written(old, v) == {[file |-> v, ok |-> TRUE, fault |-> 0]} \cup
    IF qFaults < MaxQFaults
    THEN {[file |-> old, ok |-> FALSE, fault |-> 1], [file |-> Unparsable, ok |-> FALSE, fault |-> 1]}
    ELSE {}

\* whether the records hold a signal like s
Matches(s) == \E r \in LoadRecords : <<s, r>> \in Alike

\* what observe() does once it has its classification
Decide(s, known) ==
    /\ verdict' = IF known THEN "known" ELSE IF s \in Dangerous THEN "new" ELSE "pass"
    /\ qPc' = IF ~known /\ s \in Dangerous THEN "store" ELSE "idle"
    /\ missed' = (missed \/ (s \in acked /\ ~known))

\* observe(): classify() checks the manifest, or writes the first one
Observe(s) ==
    /\ qPc = "idle" /\ observed' = {s} /\ UNCHANGED <<qRecords, acked>>
    /\ \/ /\ qManifest = Nil /\ LoadRecords # Unparsable
          /\ \E w \in Written(Nil, LoadRecords) :
               /\ qManifest' = w.file /\ qFaults' = qFaults + w.fault
               /\ interrupted' = (interrupted \/ ~w.ok)
               /\ Decide(s, w.ok /\ Matches(s))
       \/ /\ qManifest # Nil \/ LoadRecords = Unparsable
          /\ Decide(s, LoadRecords # Unparsable /\ qManifest = LoadRecords /\ Matches(s))
          /\ UNCHANGED <<qManifest, interrupted, qFaults>>

Finish == qPc' = "idle" /\ UNCHANGED <<files, observed, verdict, missed, interrupted, qFaults>>

\* store_anchor(): an unreadable file is an error nobody looks at, a known hash is Ok
StoreAnchor(s) ==
    /\ qPc = "store" /\ observed = {s}
    /\ \/ LoadRecords = Unparsable /\ Finish /\ UNCHANGED acked
       \/ LoadRecords # Unparsable /\ s \in LoadRecords /\ Finish /\ acked' = acked \cup {s}
       \/ /\ LoadRecords # Unparsable /\ s \notin LoadRecords
          /\ \E w \in Written(qRecords, LoadRecords \cup {s}) :
               /\ qRecords' = w.file /\ qFaults' = qFaults + w.fault
               /\ qPc' = IF w.ok THEN "manifest" ELSE "idle"
               /\ interrupted' = (interrupted \/ w.file = Unparsable)
          /\ UNCHANGED <<qManifest, observed, acked, verdict, missed>>

\* Mutant: the manifest is computed before the record joins.
SaveOldManifest(s) ==
    /\ qPc = "manifest" /\ observed = {s} /\ qPc' = "idle"
    /\ \E w \in Written(qManifest, LoadRecords \ {s}) :
         /\ qManifest' = w.file /\ qFaults' = qFaults + w.fault
         /\ interrupted' = (interrupted \/ ~w.ok)
         /\ acked' = IF w.ok THEN acked \cup {s} ELSE acked
    /\ UNCHANGED <<qRecords, observed, verdict, missed>>

\* save_records(): the manifest
SaveManifest(s) ==
    /\ qPc = "manifest" /\ observed = {s} /\ qPc' = "idle"
    /\ \E w \in Written(qManifest, LoadRecords) :
         /\ qManifest' = w.file /\ qFaults' = qFaults + w.fault
         /\ interrupted' = (interrupted \/ ~w.ok)
         /\ acked' = IF w.ok THEN acked \cup {s} ELSE acked
    /\ UNCHANGED <<qRecords, observed, verdict, missed>>

\* the process ends and is started again
CrashStore ==
    /\ qFaults < MaxQFaults /\ qFaults' = qFaults + 1
    /\ qPc # "idle" /\ qPc' = "idle"
    /\ interrupted' = (interrupted \/ qPc = "manifest")
    /\ UNCHANGED <<files, observed, acked, verdict, missed>>

QuarantineNext ==
    \/ \E s \in Signals : Observe(s) \/ StoreAnchor(s) \/ SaveManifest(s)
    \/ CrashStore

QuarantineSpec == QuarantineInit /\ [][QuarantineNext]_qVars

---------------------------------------------------------------------------

\* Every variable keeps its type.
QuarantineTypeOK ==
    /\ \A f \in {qRecords, qManifest} : f \in {Nil, Unparsable} \/ f \subseteq Signals
    /\ qPc \in {"idle", "store", "manifest"} /\ observed \subseteq Signals
    /\ acked \subseteq Signals /\ verdict \in {"none", "known", "new", "pass"}
    /\ missed \in BOOLEAN /\ interrupted \in BOOLEAN /\ qFaults \in 0..MaxQFaults

\* A record that was acknowledged is in the file, or the file cannot be read: no later store,
\* however its writes end, replaces the quarantine by a smaller one.
NoSilentLoss == qRecords # Unparsable => acked \subseteq LoadRecords

\* A signal whose record was acknowledged is recognised again, as long as no write of the two
\* files has been broken off between them.
StoredIsRecognised == missed => interrupted
=============================================================================
