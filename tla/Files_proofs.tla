---------------------------- MODULE Files_proofs ----------------------------
(***************************************************************************)
(* What the files of a node keep when writes fail and programs end in      *)
(* between: the quarantine, the chats and groups, the packs, the account   *)
(* and the number of the overlay, for any number of signals, messages,     *)
(* members, packs, accounts, processes and failures; and that the types    *)
(* hold in the specification in which each of them is checked.             *)
(***************************************************************************)
EXTENDS MCFiles, SwarmConsent_proofs, DataInduction, FiniteSetTheorems, SequenceTheorems, TLAPS

-----------------------------------------------------------------------------
(* The quarantine.                                                         *)

FileType(f) == f \in {Nil, Unparsable} \/ f \subseteq Signals

QuarantineTypes ==
    /\ FileType(qRecords) /\ FileType(qManifest)
    /\ qPc \in {"idle", "store", "manifest"} /\ observed \subseteq Signals
    /\ acked \subseteq Signals /\ verdict \in {"none", "known", "new", "pass"}
    /\ missed \in BOOLEAN /\ interrupted \in BOOLEAN /\ qFaults \in 0..MaxQFaults

LEMMA WrittenCases ==
  ASSUME NEW old, NEW v, NEW w \in Written(old, v)
  PROVE  \/ w.file = v /\ w.ok /\ w.fault = 0
         \/ w.file = old /\ ~w.ok /\ w.fault = 1 /\ qFaults < MaxQFaults
         \/ w.file = Unparsable /\ ~w.ok /\ w.fault = 1 /\ qFaults < MaxQFaults
<1>1. \/ w = [file |-> v, ok |-> TRUE, fault |-> 0]
      \/ w = [file |-> old, ok |-> FALSE, fault |-> 1] /\ qFaults < MaxQFaults
      \/ w = [file |-> Unparsable, ok |-> FALSE, fault |-> 1] /\ qFaults < MaxQFaults
  BY DEF Written
<1> QED
  BY <1>1

\* The types of what every step assigns; the counter is bounded where it grows.
LEMMA QuarantineTypesNext == QuarantineTypes /\ [QuarantineNext]_qVars => QuarantineTypes'
<1> SUFFICES ASSUME QuarantineTypes, [QuarantineNext]_qVars PROVE QuarantineTypes'
  OBVIOUS
<1>a. qFaults \in Nat /\ MaxQFaults \in Nat
  BY QuarantineAssumption DEF QuarantineTypes, QuarantineAssumption
<1>l. LoadRecords # Unparsable => LoadRecords \subseteq Signals
  BY QuarantineAssumption DEF LoadRecords, QuarantineTypes, FileType, QuarantineAssumption
<1>d. ASSUME NEW s \in Signals, NEW known, Decide(s, known)
      PROVE  /\ verdict' \in {"none", "known", "new", "pass"}
             /\ qPc' \in {"idle", "store", "manifest"} /\ missed' \in BOOLEAN
  BY <1>d DEF Decide
<1>1. ASSUME NEW s \in Signals, Observe(s) PROVE QuarantineTypes'
  <2>1. observed' = {s} /\ UNCHANGED <<qRecords, acked>>
    BY <1>1 DEF Observe
  <2>2. CASE /\ qManifest = Nil /\ LoadRecords # Unparsable
             /\ \E w \in Written(Nil, LoadRecords) :
                  /\ qManifest' = w.file /\ qFaults' = qFaults + w.fault
                  /\ interrupted' = (interrupted \/ ~w.ok)
                  /\ Decide(s, w.ok /\ Matches(s))
    <3>1. PICK w \in Written(Nil, LoadRecords) :
                  /\ qManifest' = w.file /\ qFaults' = qFaults + w.fault
                  /\ interrupted' = (interrupted \/ ~w.ok)
                  /\ Decide(s, w.ok /\ Matches(s))
      BY <2>2
    <3>2. interrupted' \in BOOLEAN
      BY <3>1
    <3>3. FileType(qManifest') /\ qFaults' \in 0..MaxQFaults
      BY <1>a, <1>l, <2>2, <3>1, WrittenCases DEF QuarantineTypes, FileType
    <3>4. /\ verdict' \in {"none", "known", "new", "pass"}
          /\ qPc' \in {"idle", "store", "manifest"} /\ missed' \in BOOLEAN
      BY <3>1, <1>d
    <3> QED
      BY <2>1, <3>2, <3>3, <3>4 DEF QuarantineTypes, FileType
  <2>3. CASE /\ Decide(s, LoadRecords # Unparsable /\ qManifest = LoadRecords /\ Matches(s))
             /\ UNCHANGED <<qManifest, interrupted, qFaults>>
    <3>1. /\ verdict' \in {"none", "known", "new", "pass"}
          /\ qPc' \in {"idle", "store", "manifest"} /\ missed' \in BOOLEAN
      BY <2>3, <1>d
    <3> QED
      BY <2>1, <2>3, <3>1 DEF QuarantineTypes, FileType
  <2> QED
    BY <1>1, <2>2, <2>3 DEF Observe
<1>2. ASSUME NEW s \in Signals, StoreAnchor(s) PROVE QuarantineTypes'
  <2>1. CASE Finish /\ acked' \in {acked, acked \cup {s}}
    BY <2>1 DEF Finish, files, QuarantineTypes, FileType
  <2>2. CASE /\ LoadRecords # Unparsable /\ s \notin LoadRecords
             /\ \E w \in Written(qRecords, LoadRecords \cup {s}) :
                  /\ qRecords' = w.file /\ qFaults' = qFaults + w.fault
                  /\ qPc' = IF w.ok THEN "manifest" ELSE "idle"
                  /\ interrupted' = (interrupted \/ w.file = Unparsable)
             /\ UNCHANGED <<qManifest, observed, acked, verdict, missed>>
    <3>1. PICK w \in Written(qRecords, LoadRecords \cup {s}) :
                  /\ qRecords' = w.file /\ qFaults' = qFaults + w.fault
                  /\ qPc' = IF w.ok THEN "manifest" ELSE "idle"
                  /\ interrupted' = (interrupted \/ w.file = Unparsable)
      BY <2>2
    <3>2. interrupted' \in BOOLEAN /\ qPc' \in {"idle", "store", "manifest"}
      BY <3>1
    <3>3. FileType(qRecords') /\ qFaults' \in 0..MaxQFaults
      BY <1>a, <1>l, <2>2, <3>1, WrittenCases DEF QuarantineTypes, FileType
    <3> QED
      BY <2>2, <3>2, <3>3 DEF QuarantineTypes, FileType
  <2> QED
    BY <1>2, <2>1, <2>2 DEF StoreAnchor
<1>3. ASSUME NEW s \in Signals, SaveManifest(s) PROVE QuarantineTypes'
  <2>1. PICK w \in Written(qManifest, LoadRecords) :
           /\ qManifest' = w.file /\ qFaults' = qFaults + w.fault
           /\ interrupted' = (interrupted \/ ~w.ok)
           /\ acked' = IF w.ok THEN acked \cup {s} ELSE acked
    BY <1>3 DEF SaveManifest
  <2>2. interrupted' \in BOOLEAN /\ acked' \subseteq Signals
    BY <2>1 DEF QuarantineTypes
  <2>3. FileType(qManifest') /\ qFaults' \in 0..MaxQFaults
    <3>1. FileType(LoadRecords)
      BY <1>l DEF FileType
    <3> QED
      BY <1>a, <3>1, <2>1, WrittenCases DEF QuarantineTypes, FileType
  <2>4. qPc' = "idle" /\ UNCHANGED <<qRecords, observed, verdict, missed>>
    BY <1>3 DEF SaveManifest
  <2> QED
    BY <2>2, <2>3, <2>4 DEF QuarantineTypes, FileType
<1>4. CASE CrashStore
  <2>1. interrupted' \in BOOLEAN
    BY <1>4 DEF CrashStore
  <2> QED
    BY <1>4, <1>a, <2>1 DEF CrashStore, files, QuarantineTypes, FileType
<1>5. CASE UNCHANGED qVars
  BY <1>5 DEF qVars, QuarantineTypes, FileType
<1> QED
  BY <1>1, <1>2, <1>3, <1>4, <1>5 DEF QuarantineNext

LEMMA QuarantineTypesInit == QuarantineInit => QuarantineTypes
<1> SUFFICES ASSUME QuarantineInit PROVE QuarantineTypes
  OBVIOUS
<1>1. missed \in BOOLEAN /\ interrupted \in BOOLEAN
  BY Zenon DEF QuarantineInit
<1>2. qFaults \in 0..MaxQFaults
  BY QuarantineAssumption DEF QuarantineInit, QuarantineAssumption
<1> QED
  BY <1>1, <1>2 DEF QuarantineInit, QuarantineTypes, FileType

\* The type of the quarantine's variables, whatever writes fail.
THEOREM QuarantineTypeCorrect == QuarantineSpec => []QuarantineTypeOK
<1>1. QuarantineTypes => QuarantineTypeOK
  BY DEF QuarantineTypes, QuarantineTypeOK, FileType
<1> QED
  BY <1>1, QuarantineTypesInit, QuarantineTypesNext, PTL DEF QuarantineSpec

\* A record whose manifest is still to be written is in the file already.
LossInv ==
    /\ QuarantineTypes /\ NoSilentLoss
    /\ qPc = "manifest" /\ qRecords # Unparsable => observed \subseteq LoadRecords

LEMMA LossInvNext == LossInv /\ [QuarantineNext]_qVars => LossInv'
<1> SUFFICES ASSUME LossInv, [QuarantineNext]_qVars PROVE LossInv'
  OBVIOUS
<1>t. QuarantineTypes'
  BY QuarantineTypesNext DEF LossInv
<1>n. \A v : v \subseteq Signals => v # Nil /\ v # Unparsable
  BY QuarantineAssumption DEF QuarantineAssumption
<1>1. ASSUME NEW s \in Signals, Observe(s) PROVE LossInv'
  <2>1. UNCHANGED <<qRecords, acked>> /\ qPc' # "manifest"
    BY <1>1 DEF Observe, Decide
  <2> QED
    BY <1>t, <2>1 DEF LossInv, NoSilentLoss, LoadRecords
<1>2. ASSUME NEW s \in Signals, StoreAnchor(s) PROVE LossInv'
  <2>1. CASE LoadRecords = Unparsable /\ Finish /\ UNCHANGED acked
    BY <1>t, <2>1 DEF Finish, files, LossInv, NoSilentLoss, LoadRecords
  <2>2. CASE s \in LoadRecords /\ Finish /\ acked' = acked \cup {s}
    BY <1>t, <2>2 DEF Finish, files, LossInv, NoSilentLoss, LoadRecords
  <2>3. CASE /\ LoadRecords # Unparsable /\ s \notin LoadRecords
             /\ \E w \in Written(qRecords, LoadRecords \cup {s}) :
                  /\ qRecords' = w.file /\ qFaults' = qFaults + w.fault
                  /\ qPc' = IF w.ok THEN "manifest" ELSE "idle"
                  /\ interrupted' = (interrupted \/ w.file = Unparsable)
             /\ UNCHANGED <<qManifest, observed, acked, verdict, missed>>
    <3>1. PICK w \in Written(qRecords, LoadRecords \cup {s}) :
                  qRecords' = w.file /\ qPc' = IF w.ok THEN "manifest" ELSE "idle"
      BY <2>3
    <3>2. LoadRecords \subseteq Signals /\ qRecords # Unparsable /\ observed = {s}
      BY <1>2, <2>3, <1>n, QuarantineAssumption
         DEF StoreAnchor, LossInv, QuarantineTypes, FileType, LoadRecords, QuarantineAssumption
    <3>3. CASE w.file = LoadRecords \cup {s}
      <4>1. LoadRecords' = LoadRecords \cup {s}
        BY <1>n, <3>1, <3>2, <3>3 DEF LoadRecords
      <4> QED
        BY <1>t, <2>3, <3>2, <4>1 DEF LossInv, NoSilentLoss
    <3>4. CASE w.file = qRecords /\ ~w.ok
      BY <1>t, <2>3, <3>1, <3>4 DEF LossInv, NoSilentLoss, LoadRecords
    <3>5. CASE w.file = Unparsable /\ ~w.ok
      BY <1>t, <2>3, <3>1, <3>5 DEF LossInv, NoSilentLoss, LoadRecords
    <3> QED
      BY <3>3, <3>4, <3>5, WrittenCases
  <2> QED
    BY <1>2, <2>1, <2>2, <2>3 DEF StoreAnchor
<1>3. ASSUME NEW s \in Signals, SaveManifest(s) PROVE LossInv'
  <2>1. /\ qPc = "manifest" /\ observed = {s} /\ qPc' = "idle" /\ qRecords' = qRecords
        /\ acked' \in {acked, acked \cup {s}}
    BY <1>3 DEF SaveManifest
  <2> QED
    BY <1>t, <2>1 DEF LossInv, NoSilentLoss, LoadRecords
<1>4. CASE CrashStore \/ UNCHANGED qVars
  BY <1>t, <1>4 DEF CrashStore, files, qVars, LossInv, NoSilentLoss, LoadRecords
<1> QED
  BY <1>1, <1>2, <1>3, <1>4 DEF QuarantineNext

\* A record that was acknowledged stays in the quarantine for as long as its file can be
\* read, whatever store_anchor() writes later and wherever it breaks off.
THEOREM NothingLostSilently == QuarantineSpec => []NoSilentLoss
<1>1. QuarantineInit => LossInv
  BY QuarantineTypesInit DEF QuarantineInit, LossInv, NoSilentLoss
<1>2. LossInv => NoSilentLoss
  BY DEF LossInv
<1> QED
  BY <1>1, <1>2, LossInvNext, PTL DEF QuarantineSpec

\* Without an interruption between the two files the manifest fits the records, except
\* while store_anchor() is about to write it.
FitInv ==
    /\ LossInv /\ StoredIsRecognised
    /\ ~interrupted => /\ qRecords # Unparsable
                       /\ qPc # "manifest" => qManifest \in {Nil, LoadRecords}

LEMMA FitInvNext == FitInv /\ [QuarantineNext]_qVars => FitInv'
<1> SUFFICES ASSUME FitInv, [QuarantineNext]_qVars PROVE FitInv'
  OBVIOUS
<1>t. LossInv'
  BY LossInvNext DEF FitInv
<1>n. \A v : v \subseteq Signals => v # Nil /\ v # Unparsable
  BY QuarantineAssumption DEF QuarantineAssumption
<1>l. qRecords # Unparsable => LoadRecords \subseteq Signals /\ acked \subseteq LoadRecords
  BY <1>n DEF FitInv, LossInv, NoSilentLoss, QuarantineTypes, FileType, LoadRecords
\* an acknowledged signal matches itself
<1>m. ASSUME NEW s \in Signals, qRecords # Unparsable, s \in acked PROVE Matches(s)
  BY <1>l, <1>m, QuarantineAssumption DEF Matches, QuarantineAssumption
<1>1. ASSUME NEW s \in Signals, Observe(s) PROVE FitInv'
  <2>1. qRecords' = qRecords /\ qPc \in {"idle"} /\ qPc' # "manifest"
    BY <1>1 DEF Observe, Decide
  <2>2. CASE /\ qManifest = Nil /\ LoadRecords # Unparsable
             /\ \E w \in Written(Nil, LoadRecords) :
                  /\ qManifest' = w.file /\ qFaults' = qFaults + w.fault
                  /\ interrupted' = (interrupted \/ ~w.ok)
                  /\ Decide(s, w.ok /\ Matches(s))
    <3>1. PICK w \in Written(Nil, LoadRecords) :
                  /\ qManifest' = w.file
                  /\ interrupted' = (interrupted \/ ~w.ok)
                  /\ Decide(s, w.ok /\ Matches(s))
      BY <2>2
    <3>2. missed' <=> missed \/ (s \in acked /\ ~(w.ok /\ Matches(s)))
      BY <3>1 DEF Decide
    <3>3. ~interrupted' => ~interrupted /\ w.ok /\ w.file = LoadRecords
      BY <3>1, WrittenCases
    <3>4. ~interrupted' => ~missed'
      BY <1>m, <3>2, <3>3 DEF FitInv, StoredIsRecognised
    <3>5. LoadRecords' = LoadRecords
      BY <2>1 DEF LoadRecords
    <3>6. ~interrupted' => qRecords' # Unparsable /\ qManifest' = LoadRecords'
      BY <2>1, <3>1, <3>3, <3>5 DEF FitInv
    <3> QED
      BY <1>t, <3>4, <3>6 DEF FitInv, StoredIsRecognised
  <2>3. CASE /\ qManifest # Nil \/ LoadRecords = Unparsable
             /\ Decide(s, LoadRecords # Unparsable /\ qManifest = LoadRecords /\ Matches(s))
             /\ UNCHANGED <<qManifest, interrupted, qFaults>>
    <3>1. missed' <=> \/ missed
                      \/ s \in acked /\ ~(LoadRecords # Unparsable /\ qManifest = LoadRecords
                                            /\ Matches(s))
      BY <2>3 DEF Decide
    <3>2. ~interrupted => LoadRecords # Unparsable /\ qManifest = LoadRecords
      BY <1>l, <1>n, <2>1, <2>3 DEF FitInv
    <3>3. ~interrupted' => ~missed'
      BY <1>m, <2>3, <3>1, <3>2 DEF FitInv, StoredIsRecognised
    <3>4. ~interrupted' => qRecords' # Unparsable /\ qManifest' = LoadRecords'
      BY <2>1, <2>3, <3>2 DEF FitInv, LoadRecords
    <3> QED
      BY <1>t, <3>3, <3>4 DEF FitInv, StoredIsRecognised
  <2> QED
    BY <1>1, <2>2, <2>3 DEF Observe
<1>2. ASSUME NEW s \in Signals, StoreAnchor(s) PROVE FitInv'
  <2>1. CASE Finish
    BY <1>2, <1>t, <2>1 DEF StoreAnchor, Finish, files, FitInv, StoredIsRecognised, LoadRecords
  <2>2. CASE /\ LoadRecords # Unparsable /\ s \notin LoadRecords
             /\ \E w \in Written(qRecords, LoadRecords \cup {s}) :
                  /\ qRecords' = w.file /\ qFaults' = qFaults + w.fault
                  /\ qPc' = IF w.ok THEN "manifest" ELSE "idle"
                  /\ interrupted' = (interrupted \/ w.file = Unparsable)
             /\ UNCHANGED <<qManifest, observed, acked, verdict, missed>>
    <3>1. PICK w \in Written(qRecords, LoadRecords \cup {s}) :
                  /\ qRecords' = w.file
                  /\ qPc' = IF w.ok THEN "manifest" ELSE "idle"
                  /\ interrupted' = (interrupted \/ w.file = Unparsable)
      BY <2>2
    <3>2. missed' = missed /\ (~interrupted' => ~interrupted /\ qRecords' # Unparsable)
      BY <2>2, <3>1
    <3>3. ~w.ok /\ ~interrupted' => qRecords' = qRecords
      BY <3>1, WrittenCases
    <3>4. ~interrupted' /\ qPc' # "manifest" => qManifest' \in {Nil, LoadRecords'}
      BY <1>2, <2>2, <3>1, <3>2, <3>3 DEF StoreAnchor, FitInv, LoadRecords
    <3> QED
      BY <1>t, <3>2, <3>4 DEF FitInv, StoredIsRecognised
  <2> QED
    BY <1>2, <2>1, <2>2 DEF StoreAnchor
<1>3. ASSUME NEW s \in Signals, SaveManifest(s) PROVE FitInv'
  <2>1. PICK w \in Written(qManifest, LoadRecords) :
           qManifest' = w.file /\ interrupted' = (interrupted \/ ~w.ok)
    BY <1>3 DEF SaveManifest
  <2>2. UNCHANGED <<qRecords, missed>>
    BY <1>3 DEF SaveManifest
  <2>3. ~interrupted' => ~interrupted /\ qManifest' = LoadRecords
    BY <2>1, WrittenCases
  <2> QED
    BY <1>t, <2>2, <2>3 DEF FitInv, StoredIsRecognised, LoadRecords
<1>4. CASE CrashStore
  <2>1. /\ UNCHANGED <<qRecords, qManifest, missed>>
        /\ interrupted' = (interrupted \/ qPc = "manifest")
    BY <1>4 DEF CrashStore, files
  <2> QED
    BY <1>t, <2>1 DEF FitInv, StoredIsRecognised, LoadRecords
<1>5. CASE UNCHANGED qVars
  BY <1>t, <1>5 DEF qVars, FitInv, StoredIsRecognised, LoadRecords
<1> QED
  BY <1>1, <1>2, <1>3, <1>4, <1>5 DEF QuarantineNext

\* An acknowledged signal is recognised again, unless a write of the two files or the
\* process between them has been broken off.
THEOREM StoredRecognised == QuarantineSpec => []StoredIsRecognised
<1>1. QuarantineInit => FitInv
  <2> SUFFICES ASSUME QuarantineInit PROVE FitInv
    OBVIOUS
  <2>1. LossInv
    BY QuarantineTypesInit DEF QuarantineInit, LossInv, NoSilentLoss
  <2> QED
    BY <2>1, QuarantineAssumption
       DEF QuarantineInit, FitInv, StoredIsRecognised, QuarantineAssumption
<1>2. FitInv => StoredIsRecognised
  BY DEF FitInv
<1> QED
  BY <1>1, <1>2, FitInvNext, PTL DEF QuarantineSpec

(* The chats.                                                              *)

IsState(s) ==
    /\ s = [x \in {"rooms", "threads", "blocked", "entries", "next"} |-> s[x]]
    /\ s.threads \in [ThreadKeys -> [own : Nat, theirs : Nat]]

\* No thread of a partner holds more copies than the sender's own thread holds messages.
ChatState(s) ==
    /\ IsState(s)
    /\ \A t \in ThreadKeys : s.threads[<<t[2], t[1]>>].theirs <= s.threads[t].own

LEMMA EmptyChats == ChatState(EmptyState)
<1>1. IsState(EmptyState)
  BY DEF EmptyState, IsState
<1>2. ASSUME NEW t \in ThreadKeys
      PROVE  EmptyState.threads[<<t[2], t[1]>>].theirs <= EmptyState.threads[t].own
  <2>1. <<t[2], t[1]>> \in ThreadKeys
    BY DEF ThreadKeys
  <2> QED
    BY <2>1 DEF EmptyState
<1> QED
  BY <1>1, <1>2 DEF ChatState

LEMMA StoredChats ==
  ASSUME NEW s, NEW out \in Outcomes, ChatState(s), ChatState(gsDisk.state), Store(s, out)
  PROVE  gsMem' = s /\ ChatState(gsDisk.state)'
<1>1. \/ gsDisk' = [readable |-> TRUE, state |-> s]
      \/ gsDisk' = gsDisk
      \/ gsDisk' = [readable |-> FALSE, state |-> EmptyState]
  BY DEF Store, Outcomes
<1>2. gsDisk'.state \in {s, gsDisk.state, EmptyState}
  BY <1>1
<1>3. ChatState(gsDisk'.state)
  BY <1>2, EmptyChats
<1> QED
  BY <1>3 DEF Store, ChatState, IsState

\* A message in the sender's own thread leaves room for its copy.
LEMMA OneSent ==
  ASSUME NEW s, ChatState(s), NEW u \in Accounts, NEW p \in Accounts, u # p
  PROVE  LET r == [s EXCEPT !.threads[<<u, p>>].own = @ + 1]
         IN  ChatState(r) /\ r.threads[<<p, u>>].theirs < r.threads[<<u, p>>].own
<1> DEFINE r == [s EXCEPT !.threads[<<u, p>>].own = @ + 1]
<1>k. <<u, p>> \in ThreadKeys /\ <<p, u>> \in ThreadKeys /\ <<u, p>> # <<p, u>>
  BY DEF ThreadKeys
<1>1. r.threads = [s.threads EXCEPT ![<<u, p>>].own = @ + 1]
  BY DEF ChatState, IsState
<1>2. IsState(r)
  <2>1. r = [x \in {"rooms", "threads", "blocked", "entries", "next"} |-> r[x]]
    BY DEF ChatState, IsState
  <2>2. s.threads \in [ThreadKeys -> [own : Nat, theirs : Nat]]
    BY DEF ChatState, IsState
  <2>3. r.threads \in [ThreadKeys -> [own : Nat, theirs : Nat]]
    BY <1>1, <1>k, <2>2
  <2> HIDE DEF r
  <2> QED
    BY <2>1, <2>3 DEF IsState
<1>3. /\ r.threads[<<u, p>>].own = s.threads[<<u, p>>].own + 1
      /\ r.threads[<<u, p>>].theirs = s.threads[<<u, p>>].theirs
      /\ \A t \in ThreadKeys : t # <<u, p>> => r.threads[t] = s.threads[t]
  BY <1>1, <1>k DEF ChatState, IsState
<1>4. \A t \in ThreadKeys : s.threads[t].own \in Nat /\ s.threads[t].theirs \in Nat
  BY DEF ChatState, IsState
<1>5. \A t \in ThreadKeys : /\ r.threads[t].theirs = s.threads[t].theirs
                            /\ s.threads[t].own <= r.threads[t].own
  BY <1>3, <1>4, <1>k
<1> HIDE DEF r
<1>6. ASSUME NEW t \in ThreadKeys PROVE r.threads[<<t[2], t[1]>>].theirs <= r.threads[t].own
  <2>1. <<t[2], t[1]>> \in ThreadKeys
    BY DEF ThreadKeys
  <2>2. s.threads[<<t[2], t[1]>>].theirs <= s.threads[t].own
    BY DEF ChatState
  <2>3. r.threads[t].own \in Nat
    BY <1>2 DEF IsState
  <2> QED
    BY <2>1, <2>2, <2>3, <1>4, <1>5
<1>7. r.threads[<<p, u>>].theirs < r.threads[<<u, p>>].own
  <2>1. s.threads[<<p, u>>].theirs <= s.threads[<<u, p>>].own
    BY <1>k DEF ChatState
  <2> QED
    BY <2>1, <1>3, <1>4, <1>5, <1>k
<1> QED
  BY <1>2, <1>6, <1>7 DEF ChatState, r

\* The copy of a message that the sender's thread has.
LEMMA OneCopied ==
  ASSUME NEW s, ChatState(s), NEW u \in Accounts, NEW p \in Accounts, u # p,
         s.threads[<<p, u>>].theirs < s.threads[<<u, p>>].own
  PROVE  ChatState([s EXCEPT !.threads[<<p, u>>].theirs = @ + 1])
<1> DEFINE r == [s EXCEPT !.threads[<<p, u>>].theirs = @ + 1]
<1>k. <<u, p>> \in ThreadKeys /\ <<p, u>> \in ThreadKeys /\ <<u, p>> # <<p, u>>
  BY DEF ThreadKeys
<1>1. r.threads = [s.threads EXCEPT ![<<p, u>>].theirs = @ + 1]
  BY DEF ChatState, IsState
<1>2. IsState(r)
  <2>1. r = [x \in {"rooms", "threads", "blocked", "entries", "next"} |-> r[x]]
    BY DEF ChatState, IsState
  <2>2. s.threads \in [ThreadKeys -> [own : Nat, theirs : Nat]]
    BY DEF ChatState, IsState
  <2>3. r.threads \in [ThreadKeys -> [own : Nat, theirs : Nat]]
    BY <1>1, <1>k, <2>2
  <2> HIDE DEF r
  <2> QED
    BY <2>1, <2>3 DEF IsState
<1>3. /\ r.threads[<<p, u>>].theirs = s.threads[<<p, u>>].theirs + 1
      /\ r.threads[<<p, u>>].own = s.threads[<<p, u>>].own
      /\ \A t \in ThreadKeys : t # <<p, u>> => r.threads[t] = s.threads[t]
  BY <1>1, <1>k DEF ChatState, IsState
<1>4. \A t \in ThreadKeys : s.threads[t].own \in Nat /\ s.threads[t].theirs \in Nat
  BY DEF ChatState, IsState
<1>5. \A t \in ThreadKeys : r.threads[t].own = s.threads[t].own
  BY <1>3
<1> HIDE DEF r
<1>6. ASSUME NEW t \in ThreadKeys PROVE r.threads[<<t[2], t[1]>>].theirs <= r.threads[t].own
  <2>1. <<t[2], t[1]>> \in ThreadKeys
    BY DEF ThreadKeys
  <2>2. s.threads[<<t[2], t[1]>>].theirs <= s.threads[t].own
    BY DEF ChatState
  <2>3. <<t[2], t[1]>> = <<p, u>> => t = <<u, p>>
    BY DEF ThreadKeys
  <2>4. CASE <<t[2], t[1]>> = <<p, u>>
    BY <2>3, <2>4, <1>3, <1>4, <1>5, <1>k
  <2>5. CASE <<t[2], t[1]>> # <<p, u>>
    BY <2>1, <2>2, <2>5, <1>3, <1>5
  <2> QED
    BY <2>4, <2>5
<1> QED
  BY <1>2, <1>6 DEF ChatState, r

\* What leaves the threads alone leaves the chats as they are.
LEMMA SameThreads ==
  ASSUME NEW s, NEW r, ChatState(s), r.threads = s.threads,
         r = [x \in {"rooms", "threads", "blocked", "entries", "next"} |-> r[x]]
  PROVE  ChatState(r)
  BY DEF ChatState, IsState

LEMMA LoadedChats ==
  ASSUME ChatState(gsDisk.state)
  PROVE  ChatState(Loaded)
<1> DEFINE s == IF gsDisk.readable THEN gsDisk.state ELSE EmptyState
<1>1. ChatState(s)
  BY EmptyChats
<1> HIDE DEF s
<1>2. PICK f : Loaded = [s EXCEPT !.rooms = f]
  BY DEF Loaded, s
<1>3. Loaded.threads = s.threads
  BY <1>1, <1>2 DEF ChatState, IsState
<1>4. Loaded = [x \in {"rooms", "threads", "blocked", "entries", "next"} |-> Loaded[x]]
  BY <1>1, <1>2 DEF ChatState, IsState
<1> QED
  BY <1>1, <1>3, <1>4, SameThreads

\* A pending copy is one that the sender's thread already has.
CopyPending ==
    /\ user = {} => copying = {}
    /\ \A u, p \in Accounts : user = {u} /\ copying = {p} =>
          u # p /\ gsMem.threads[<<p, u>>].theirs < gsMem.threads[<<u, p>>].own

\* The result of an analysis never goes into a chat of the user with themselves.
ShareInv ==
    /\ share \in Targets \cup {<<"entered", t>> : t \in Targets}
    /\ user = {} => share = <<"nowhere">>
    /\ \A u \in Accounts : user = {u} =>
          share # <<"partner", u>> /\ share # <<"entered", <<"partner", u>>>>

CopyInv ==
    /\ ChatState(gsMem) /\ ChatState(gsDisk.state)
    /\ CopyPending /\ ShareInv

\* An operation that leaves the threads alone.
LEMMA QuietOperation ==
  ASSUME CopyInv, NEW s, ChatState(s), s.threads = gsMem.threads, Operation(s), share' = share
  PROVE  CopyInv'
<1>1. PICK out \in Outcomes : Store(s, out)
  BY DEF Operation
<1>2. gsMem' = s /\ ChatState(gsDisk.state)' /\ user' = user /\ copying' = copying
  BY <1>1, StoredChats DEF CopyInv, Operation
<1>3. ChatState(gsMem)'
  BY <1>2 DEF ChatState, IsState
<1>4. CopyPending'
  BY <1>2 DEF CopyInv, CopyPending
<1>5. ShareInv'
  BY <1>2 DEF CopyInv, ShareInv, Targets
<1> QED
  BY <1>2, <1>3, <1>4, <1>5 DEF CopyInv

\* A message is stored in the sender's own thread.
LEMMA OwnStored ==
  ASSUME CopyInv, NEW u \in Accounts, NEW p \in Accounts, u # p, user = {u}, user' = user,
         NEW out \in Outcomes, Store([gsMem EXCEPT !.threads[<<u, p>>].own = @ + 1], out),
         copying' = IF out = "ok" THEN {p} ELSE {}, ShareInv'
  PROVE  CopyInv'
<1>1. PICK s : s = [gsMem EXCEPT !.threads[<<u, p>>].own = @ + 1]
  OBVIOUS
<1>2. ChatState(s) /\ s.threads[<<p, u>>].theirs < s.threads[<<u, p>>].own
  BY <1>1, OneSent DEF CopyInv
<1>3. gsMem' = s /\ ChatState(gsDisk.state)'
  BY <1>1, <1>2, StoredChats DEF CopyInv
<1>4. ChatState(gsMem)'
  BY <1>2, <1>3 DEF ChatState, IsState
<1>5. CopyPending'
  <2>1. copying' \in {{}, {p}}
    OBVIOUS
  <2>2. ASSUME NEW v \in Accounts, NEW q \in Accounts, user' = {v}, copying' = {q}
        PROVE  v = u /\ q = p
    BY <2>1, <2>2
  <2> QED
    BY <2>2, <1>2, <1>3 DEF CopyPending
<1> QED
  BY <1>3, <1>4, <1>5 DEF CopyInv

LEMMA CopyInvNext == CopyInv /\ [GroupStateNext]_gsVars => CopyInv'
<1> SUFFICES ASSUME CopyInv, [GroupStateNext]_gsVars PROVE CopyInv'
  OBVIOUS
<1> USE DEF CopyInv
<1>r. ASSUME NEW f, NEW s, s = [gsMem EXCEPT !.rooms = f]
      PROVE  ChatState(s) /\ s.threads = gsMem.threads
  <2>1. s.threads = gsMem.threads
           /\ s = [x \in {"rooms", "threads", "blocked", "entries", "next"} |-> s[x]]
    BY <1>r DEF ChatState, IsState
  <2> QED
    BY <2>1, SameThreads
<1>b. ASSUME NEW f, NEW s, s = [gsMem EXCEPT !.blocked = f]
      PROVE  ChatState(s) /\ s.threads = gsMem.threads
  <2>1. s.threads = gsMem.threads
           /\ s = [x \in {"rooms", "threads", "blocked", "entries", "next"} |-> s[x]]
    BY <1>b DEF ChatState, IsState
  <2> QED
    BY <2>1, SameThreads
<1>1. CASE UNCHANGED gsVars
  BY <1>1 DEF gsVars, CopyPending, ShareInv, ChatState, IsState
<1>2. CASE Restart
  <2>1. ChatState(gsMem)' /\ ChatState(gsDisk.state)'
    BY <1>2, LoadedChats DEF Restart, ChatState, IsState
  <2>2. CopyPending' /\ ShareInv'
    BY <1>2 DEF Restart, CopyPending, ShareInv, Targets
  <2> QED
    BY <2>1, <2>2
<1>3. ASSUME NEW u \in Accounts, SignIn(u) PROVE CopyInv'
  <2>1. CopyPending'
    BY <1>3 DEF SignIn, CopyPending
  <2>2. ShareInv'
    BY <1>3 DEF SignIn, ShareInv, Targets
  <2> QED
    BY <1>3, <2>1, <2>2 DEF SignIn
<1>4. ASSUME NEW u \in Accounts, RegisterEntry(u) PROVE CopyInv'
  <2>s. PICK s : s = [gsMem EXCEPT !.entries = @ \cup {gsMem.next}, !.next = @ + 1]
    OBVIOUS
  <2>1. PICK out \in Outcomes :
          /\ s = [gsMem EXCEPT !.entries = @ \cup {gsMem.next}, !.next = @ + 1]
          /\ Store(s, out)
    BY <1>4, <2>s DEF RegisterEntry
  <2>2. s.threads = gsMem.threads
           /\ s = [x \in {"rooms", "threads", "blocked", "entries", "next"} |-> s[x]]
    BY <2>1 DEF ChatState, IsState
  <2>3. ChatState(s)
    BY <2>2, SameThreads
  <2>4. gsMem' = s /\ ChatState(gsDisk.state)'
    BY <2>1, <2>3, StoredChats
  <2>5. ChatState(gsMem)'
    BY <2>3, <2>4 DEF ChatState, IsState
  <2>6. CopyPending'
    BY <1>4, <2>2, <2>4 DEF RegisterEntry, CopyPending
  <2>7. share \in Targets
    BY <1>4 DEF RegisterEntry, ShellIdle, ShareInv
  <2>8. share' = <<"entered", share>> \/ share' = <<"nowhere">>
    BY <1>4 DEF RegisterEntry
  <2>9. ShareInv'
    BY <1>4, <2>7, <2>8 DEF RegisterEntry, ShareInv, Targets
  <2> QED
    BY <2>4, <2>5, <2>6, <2>9
<1>5. ASSUME NEW u \in Accounts, PublishShare(u) PROVE CopyInv'
  <2>1. share' = <<"nowhere">> /\ user' = user /\ user = {u}
    BY <1>5 DEF PublishShare
  <2>2. ShareInv'
    BY <2>1 DEF ShareInv, Targets
  <2>3. PICK t \in Targets : share = <<"entered", t>>
    BY <1>5 DEF PublishShare, ShareInv, Targets
  <2>4. CASE t[1] = "partner" /\ ~BlockedBetween(u, t[2])
    <3>1. PICK p \in Accounts : t = <<"partner", p>>
      BY <2>4 DEF Targets
    <3>2. p # u
      BY <2>1, <2>3, <3>1 DEF ShareInv
    <3>3. \E out \in Outcomes :
             /\ Store([gsMem EXCEPT !.threads[<<u, p>>].own = @ + 1], out)
             /\ copying' = IF out = "ok" THEN {p} ELSE {}
      BY <1>5, <2>3, <2>4, <3>1 DEF PublishShare
    <3> QED
      BY <3>2, <3>3, <2>1, <2>2, OwnStored
  <2>5. CASE t[1] = "room" /\ IsMember(gsMem.rooms[t[2]], u)
    <3>s. PICK s : s = [gsMem EXCEPT !.rooms[t[2]].authors = @ \cup {u}]
      OBVIOUS
    <3>1. PICK out \in Outcomes :
            /\ s = [gsMem EXCEPT !.rooms[t[2]].authors = @ \cup {u}]
            /\ Store(s, out) /\ copying' = copying
      BY <1>5, <2>3, <2>5, <3>s DEF PublishShare
    <3>2. ChatState(s) /\ s.threads = gsMem.threads
      BY <3>1, <1>r
    <3>3. gsMem' = s /\ ChatState(gsDisk.state)'
      BY <3>1, <3>2, StoredChats
    <3>4. ChatState(gsMem)'
      BY <3>2, <3>3 DEF ChatState, IsState
    <3>5. CopyPending'
      BY <2>1, <3>1, <3>2, <3>3 DEF CopyPending
    <3> QED
      BY <2>2, <3>3, <3>4, <3>5
  <2>6. CASE UNCHANGED <<gsMem, gsDisk, copying>>
    BY <2>1, <2>2, <2>6 DEF CopyPending, ChatState, IsState
  <2> QED
    BY <1>5, <2>3, <2>4, <2>5, <2>6 DEF PublishShare, Targets
<1>6. ASSUME NEW u \in Accounts, NEW name \in Slugs, CreateGroup(u, name) PROVE CopyInv'
  <2>1. PICK s : s = SetRoom(<<u, name>>, [owner |-> {u}, members |-> <<u>>, authors |-> {}])
    OBVIOUS
  <2>2. ChatState(s) /\ s.threads = gsMem.threads
    BY <2>1, <1>r DEF SetRoom
  <2> QED
    BY <1>6, <2>1, <2>2, QuietOperation DEF CreateGroup
<1>7. ASSUME NEW u \in Accounts, NEW r \in RoomIds, Leave(u, r) PROVE CopyInv'
  <2>1. PICK room : Operation(SetRoom(r, room)) /\ share' = share
    BY <1>7 DEF Leave
  <2>2. PICK s : s = SetRoom(r, room)
    OBVIOUS
  <2>3. ChatState(s) /\ s.threads = gsMem.threads
    BY <2>2, <1>r DEF SetRoom
  <2> QED
    BY <2>1, <2>2, <2>3, QuietOperation
<1>8. ASSUME NEW u \in Accounts, NEW r \in RoomIds, GroupMessage(u, r) PROVE CopyInv'
  <2>1. PICK s : s = [gsMem EXCEPT !.rooms[r].authors = @ \cup {u}]
    OBVIOUS
  <2>2. ChatState(s) /\ s.threads = gsMem.threads
    BY <2>1, <1>r
  <2> QED
    BY <1>8, <2>1, <2>2, QuietOperation DEF GroupMessage
<1>9. ASSUME NEW u \in Accounts, NEW r \in RoomIds, NEW m \in Accounts,
             AddMember(u, r, m) \/ RemoveMember(u, r, m)
      PROVE  CopyInv'
  <2>1. PICK room : Operation(SetRoom(r, room)) /\ share' = share
    BY <1>9 DEF AddMember, RemoveMember
  <2>2. PICK s : s = SetRoom(r, room)
    OBVIOUS
  <2>3. ChatState(s) /\ s.threads = gsMem.threads
    BY <2>2, <1>r DEF SetRoom
  <2> QED
    BY <2>1, <2>2, <2>3, QuietOperation
<1>10. ASSUME NEW u \in Accounts, NEW p \in Accounts, Block(u, p) \/ Unblock(u, p) PROVE CopyInv'
  <2>1. PICK f, s : s = [gsMem EXCEPT !.blocked = f] /\ Operation(s) /\ share' = share
    BY <1>10 DEF Block, Unblock
  <2>2. ChatState(s) /\ s.threads = gsMem.threads
    BY <2>1, <1>b
  <2> QED
    BY <2>1, <2>2, QuietOperation
<1>11. ASSUME NEW u \in Accounts, NEW p \in Accounts, SendPrivate(u, p) PROVE CopyInv'
  <2>1. user = {u} /\ u # p /\ user' = user /\ share' = share
    BY <1>11 DEF SendPrivate
  <2>2. ShareInv'
    BY <2>1 DEF ShareInv, Targets
  <2>3. \E out \in Outcomes :
           /\ Store([gsMem EXCEPT !.threads[<<u, p>>].own = @ + 1], out)
           /\ copying' = IF out = "ok" THEN {p} ELSE {}
    BY <1>11 DEF SendPrivate
  <2> QED
    BY <2>1, <2>2, <2>3, OwnStored
<1>12. ASSUME NEW u \in Accounts, NEW p \in Accounts, CopyToPartner(u, p) PROVE CopyInv'
  <2>s. PICK s : s = [gsMem EXCEPT !.threads[<<p, u>>].theirs = @ + 1]
    OBVIOUS
  <2>1. PICK out \in Outcomes :
          /\ s = [gsMem EXCEPT !.threads[<<p, u>>].theirs = @ + 1]
          /\ Store(s, out)
    BY <1>12, <2>s DEF CopyToPartner
  <2>2. u # p /\ gsMem.threads[<<p, u>>].theirs < gsMem.threads[<<u, p>>].own
    BY <1>12 DEF CopyToPartner, CopyPending
  <2>3. ChatState(s)
    BY <2>1, <2>2, OneCopied
  <2>4. gsMem' = s /\ ChatState(gsDisk.state)'
    BY <2>1, <2>3, StoredChats
  <2>5. ChatState(gsMem)'
    BY <2>3, <2>4 DEF ChatState, IsState
  <2>6. CopyPending'
    BY <1>12 DEF CopyToPartner, CopyPending
  <2>7. ShareInv'
    BY <1>12 DEF CopyToPartner, ShareInv, Targets
  <2> QED
    BY <2>4, <2>5, <2>6, <2>7
<1>13. ASSUME NEW u \in Accounts, NEW target \in Targets, DropFile(u, target) PROVE CopyInv'
  <2>1. ChatState(gsMem)' /\ ChatState(gsDisk.state)'
    BY <1>13 DEF DropFile, ChatState, IsState
  <2>2. CopyPending'
    BY <1>13 DEF DropFile, CopyPending
  <2>3. target # <<"partner", u>> /\ user = {u} /\ user' = user /\ share' = target
    BY <1>13 DEF DropFile
  <2>4. \A t : target # <<"entered", t>>
    BY DEF Targets
  <2>5. ShareInv'
    BY <2>3, <2>4 DEF ShareInv
  <2> QED
    BY <2>1, <2>2, <2>5
<1> QED
  BY <1>1, <1>2, <1>3, <1>4, <1>5, <1>6, <1>7, <1>8, <1>9, <1>10, <1>11, <1>12, <1>13
     DEF GroupStateNext

LEMMA CopyInvInit == GroupStateInit => CopyInv
<1> SUFFICES ASSUME GroupStateInit PROVE CopyInv
  OBVIOUS
<1>1. gsMem = EmptyState /\ gsDisk.state = EmptyState
  BY DEF GroupStateInit
<1>2. CopyPending /\ ShareInv
  BY DEF GroupStateInit, CopyPending, ShareInv, Targets
<1> QED
  BY <1>1, <1>2, EmptyChats DEF CopyInv

\* The partner's thread never holds a message that the sender's own thread lacks: the copy is
\* only made after the original was stored (iced_shell.rs, send_private_message()).
THEOREM CopiesHaveOriginals == GroupStateSpec => []CopyHasOriginal
<1>1. CopyInv => CopyHasOriginal
  BY DEF CopyInv, CopyHasOriginal, ChatState
<1> QED
  BY <1>1, CopyInvInit, CopyInvNext, PTL DEF GroupStateSpec

-----------------------------------------------------------------------------
(* The groups.                                                             *)

Members == Seq(Accounts)

LEMMA AddOnceType ==
  ASSUME NEW seen \in Members, NEW m \in Accounts
  PROVE  AddOnce(seen, m) \in Members
  BY DEF AddOnce, Members

\* Adding members one after the other.
LEMMA AddSteps ==
  ASSUME NEW base \in Members, NEW seq \in Members
  PROVE  \E h \in [0..Len(seq) -> Members] :
           /\ h[0] = base /\ FoldLeft(AddOnce, base, seq) = h[Len(seq)]
           /\ \A i \in 1..Len(seq) : h[i] = AddOnce(h[i - 1], seq[i])
<1> DEFINE n == Len(seq)
           D == 1..n
           F(f) == [s \in SUBSET D |-> IF s = {} THEN base ELSE AddOnce(f[s \ {Max(s)}], seq[Max(s)])]
           iter == CHOOSE f : f = F(f)
           g == [p \in Members \X D |-> AddOnce(p[1], seq[p[2]])]
<1>1. n \in Nat /\ D = DOMAIN seq /\ \A i \in D : seq[i] \in Accounts
  BY DEF Members
<1>2. FoldLeft(AddOnce, base, seq) = iter[D]
  BY <1>1, Zenon DEF FoldLeft, MapThenFoldSet
<1>3. g \in [Members \X D -> Members]
  BY <1>1, AddOnceType
<1>4. PICK f : IsFold(f, n, Members, base, g)
  <2> HIDE DEF g, n
  <2> QED
    BY <1>1, <1>3, FoldExists
<1>a. /\ f[{}] = base /\ f = [s \in SUBSET D |-> f[s]]
      /\ \A s \in SUBSET D : f[s] \in Members
      /\ \A s \in SUBSET D : s # {} => f[s] = g[<<f[s \ {Max(s)}], Max(s)>>]
  BY <1>4 DEF IsFold
<1>5. \A s \in SUBSET D : s # {} => Max(s) \in D
  BY <1>1, Greatest
<1>6. f = F(f)
  <2>1. ASSUME NEW s \in SUBSET D PROVE f[s] = F(f)[s]
    <3>1. CASE s = {}
      BY <3>1, <1>a
    <3>2. CASE s # {}
      <4> HIDE DEF g
      <4>1. f[s] = g[<<f[s \ {Max(s)}], Max(s)>>]
        BY <3>2, <1>a
      <4>2. <<f[s \ {Max(s)}], Max(s)>> \in Members \X D
        BY <3>2, <1>5, <1>a
      <4>3. f[s] = AddOnce(f[s \ {Max(s)}], seq[Max(s)])
        BY <4>1, <4>2 DEF g
      <4> QED
        BY <4>3, <3>2
    <3> QED
      BY <3>1, <3>2
  <2> HIDE DEF g
  <2> QED
    BY <2>1, <1>a
<1>7. iter = F(iter)
  <2> HIDE DEF F
  <2> QED
    BY <1>6
<1> HIDE DEF iter
<1>8. iter[{}] = base
  <2>1. F(iter)[{}] = base
    OBVIOUS
  <2> HIDE DEF F
  <2> QED
    BY <2>1, <1>7
<1>9. ASSUME NEW s \in SUBSET D, s # {}, iter[s \ {Max(s)}] \in Members
      PROVE  iter[s] = g[<<iter[s \ {Max(s)}], Max(s)>>]
  <2>1. F(iter)[s] = AddOnce(iter[s \ {Max(s)}], seq[Max(s)])
    BY <1>9
  <2>2. iter[s] = F(iter)[s]
    <3> HIDE DEF F
    <3> QED
      BY <1>7
  <2>3. <<iter[s \ {Max(s)}], Max(s)>> \in Members \X D
    BY <1>9, <1>5
  <2> HIDE DEF F
  <2> QED
    BY <2>1, <2>2, <2>3
<1>b. Folds(iter, n, Members, base, g)
  <2> HIDE DEF F, g
  <2> QED
    BY <1>8, <1>9 DEF Folds
<1>10. PICK h : IsWay(h, n, Members, base, g, iter[D])
  <2> HIDE DEF F, g, n
  <2> QED
    BY <1>1, <1>3, <1>b, FoldSteps
<1>c. /\ h \in [0..n -> Members] /\ h[0] = base /\ h[n] = iter[D]
      /\ \A i \in D : h[i] = g[<<h[i - 1], i>>]
  BY <1>10 DEF IsWay
<1>11. \A i \in D : h[i] = AddOnce(h[i - 1], seq[i])
  <2> SUFFICES ASSUME NEW i \in D PROVE h[i] = AddOnce(h[i - 1], seq[i])
    OBVIOUS
  <2>1. i - 1 \in 0..n /\ h[i - 1] \in Members
    BY <1>1, <1>c
  <2>2. <<h[i - 1], i>> \in Members \X D
    BY <2>1
  <2> QED
    BY <2>2, <1>c
<1> QED
  BY <1>2, <1>c, <1>11

\* Leaving one account out, member by member.
Keep(kept, m, who) == IF m = who THEN kept ELSE Append(kept, m)

LEMMA AllButSteps ==
  ASSUME NEW seq \in Members, NEW who
  PROVE  \E h \in [0..Len(seq) -> Members] :
           /\ h[0] = <<>> /\ AllBut(seq, who) = h[Len(seq)]
           /\ \A i \in 1..Len(seq) : h[i] = Keep(h[i - 1], seq[i], who)
<1> DEFINE n == Len(seq)
           D == 1..n
           F(f) == [s \in SUBSET D |-> IF s = {} THEN <<>> ELSE Keep(f[s \ {Max(s)}], seq[Max(s)], who)]
           iter == CHOOSE f : f = F(f)
           g == [p \in Members \X D |-> Keep(p[1], seq[p[2]], who)]
<1>e. <<>> \in Members
  BY DEF Members
<1>1. n \in Nat /\ D = DOMAIN seq /\ \A i \in D : seq[i] \in Accounts
  BY DEF Members
<1>2. AllBut(seq, who) = iter[D]
  BY <1>1, Zenon DEF AllBut, Keep, FoldLeft, MapThenFoldSet
<1>3. g \in [Members \X D -> Members]
  BY <1>1 DEF Keep, Members
<1>4. PICK f : IsFold(f, n, Members, <<>>, g)
  <2> HIDE DEF g, n
  <2> QED
    BY <1>1, <1>3, <1>e, FoldExists
<1>a. /\ f[{}] = <<>> /\ f = [s \in SUBSET D |-> f[s]]
      /\ \A s \in SUBSET D : f[s] \in Members
      /\ \A s \in SUBSET D : s # {} => f[s] = g[<<f[s \ {Max(s)}], Max(s)>>]
  BY <1>4 DEF IsFold
<1>5. \A s \in SUBSET D : s # {} => Max(s) \in D
  BY <1>1, Greatest
<1>6. f = F(f)
  <2>1. ASSUME NEW s \in SUBSET D PROVE f[s] = F(f)[s]
    <3>1. CASE s = {}
      BY <3>1, <1>a
    <3>2. CASE s # {}
      <4> HIDE DEF g
      <4>1. f[s] = g[<<f[s \ {Max(s)}], Max(s)>>]
        BY <3>2, <1>a
      <4>2. <<f[s \ {Max(s)}], Max(s)>> \in Members \X D
        BY <3>2, <1>5, <1>a
      <4>3. f[s] = Keep(f[s \ {Max(s)}], seq[Max(s)], who)
        BY <4>1, <4>2 DEF g
      <4> QED
        BY <4>3, <3>2
    <3> QED
      BY <3>1, <3>2
  <2> HIDE DEF g
  <2> QED
    BY <2>1, <1>a
<1>7. iter = F(iter)
  <2> HIDE DEF F
  <2> QED
    BY <1>6
<1> HIDE DEF iter
<1>8. iter[{}] = <<>>
  <2>1. F(iter)[{}] = <<>>
    OBVIOUS
  <2> HIDE DEF F
  <2> QED
    BY <2>1, <1>7
<1>9. ASSUME NEW s \in SUBSET D, s # {}, iter[s \ {Max(s)}] \in Members
      PROVE  iter[s] = g[<<iter[s \ {Max(s)}], Max(s)>>]
  <2>1. F(iter)[s] = Keep(iter[s \ {Max(s)}], seq[Max(s)], who)
    BY <1>9
  <2>2. iter[s] = F(iter)[s]
    <3> HIDE DEF F
    <3> QED
      BY <1>7
  <2>3. <<iter[s \ {Max(s)}], Max(s)>> \in Members \X D
    BY <1>9, <1>5
  <2> HIDE DEF F
  <2> QED
    BY <2>1, <2>2, <2>3
<1>b. Folds(iter, n, Members, <<>>, g)
  <2> HIDE DEF F, g
  <2> QED
    BY <1>8, <1>9 DEF Folds
<1>10. PICK h : IsWay(h, n, Members, <<>>, g, iter[D])
  <2> HIDE DEF F, g, n
  <2> QED
    BY <1>1, <1>3, <1>b, <1>e, FoldSteps
<1>c. /\ h \in [0..n -> Members] /\ h[0] = <<>> /\ h[n] = iter[D]
      /\ \A i \in D : h[i] = g[<<h[i - 1], i>>]
  BY <1>10 DEF IsWay
<1>11. \A i \in D : h[i] = Keep(h[i - 1], seq[i], who)
  <2> SUFFICES ASSUME NEW i \in D PROVE h[i] = Keep(h[i - 1], seq[i], who)
    OBVIOUS
  <2>1. i - 1 \in 0..n /\ h[i - 1] \in Members
    BY <1>1, <1>c
  <2>2. <<h[i - 1], i>> \in Members \X D
    BY <2>1
  <2> QED
    BY <2>2, <1>c
<1> QED
  BY <1>2, <1>c, <1>11

\* Adding members keeps everybody in their place and brings nobody in twice.
LEMMA Added ==
  ASSUME NEW base \in Members, IsInjective(base), base # <<>>, NEW seq \in Members
  PROVE  LET all == FoldLeft(AddOnce, base, seq)
         IN  all \in Members /\ IsInjective(all) /\ all # <<>> /\ Head(all) = Head(base)
<1> DEFINE Good(s) == s \in Members /\ IsInjective(s) /\ Len(s) > 0 /\ s[1] = base[1]
           n == Len(seq)
<1>1. PICK h \in [0..n -> Members] :
         /\ h[0] = base /\ FoldLeft(AddOnce, base, seq) = h[n]
         /\ \A i \in 1..n : h[i] = AddOnce(h[i - 1], seq[i])
  BY AddSteps
<1>2. n \in Nat /\ \A i \in 1..n : seq[i] \in Accounts
  BY DEF Members
<1>3. ASSUME NEW s, NEW m \in Accounts, Good(s) PROVE Good(AddOnce(s, m))
  <2>1. CASE m \in Range(s)
    BY <1>3, <2>1 DEF AddOnce
  <2>2. CASE m \notin Range(s)
    <3>1. AddOnce(s, m) = Append(s, m) /\ Len(s) \in Nat
      BY <1>3, <2>2 DEF AddOnce, Members
    <3>2. Len(Append(s, m)) = Len(s) + 1 /\ Append(s, m) \in Members
      BY <1>3 DEF Members
    <3>3. /\ \A i \in 1..Len(s) : Append(s, m)[i] = s[i] /\ s[i] # m
          /\ Append(s, m)[Len(s) + 1] = m
      BY <1>3, <2>2 DEF Members, Range
    <3>4. \A i, j \in 1..Len(s) : s[i] = s[j] => i = j
      BY <1>3 DEF IsInjective, Members
    <3>5. \A i, j \in 1..(Len(s) + 1) : Append(s, m)[i] = Append(s, m)[j] => i = j
      BY <3>1, <3>3, <3>4
    <3>6. DOMAIN Append(s, m) = 1..(Len(s) + 1)
      BY <3>2 DEF Members
    <3>7. IsInjective(Append(s, m))
      BY <3>5, <3>6, Zenon DEF IsInjective
    <3>8. 1 \in 1..Len(s)
      BY <1>3, <3>1
    <3> QED
      BY <1>3, <3>1, <3>2, <3>3, <3>7, <3>8
  <2> QED
    BY <2>1, <2>2
<1> DEFINE T == {k \in Nat : k <= n => Good(h[k])}
<1>4. 0 \in T
  BY <1>1 DEF Members
<1>5. ASSUME NEW k \in Nat, k \in T PROVE k + 1 \in T
  <2> SUFFICES ASSUME k + 1 <= n PROVE Good(h[k + 1])
    BY DEF Good
  <2>1. k + 1 \in 1..n /\ k <= n /\ (k + 1) - 1 = k
    BY <1>2
  <2>2. h[k + 1] = AddOnce(h[k], seq[k + 1]) /\ seq[k + 1] \in Accounts
    BY <1>1, <1>2, <2>1
  <2>3. Good(h[k])
    BY <1>5, <2>1
  <2> HIDE DEF Good
  <2> QED
    BY <1>3, <2>2, <2>3
<1>6. Nat \subseteq T
  <2> HIDE DEF T
  <2> QED
    BY <1>4, <1>5, Induction
<1>7. Good(h[n])
  BY <1>2, <1>6
<1> QED
  BY <1>1, <1>7 DEF Members

\* Leaving one account out brings nobody in twice, and the first stays first unless it goes.
LEMMA LeftOut ==
  ASSUME NEW seq \in Members, IsInjective(seq), NEW who
  PROVE  LET rest == AllBut(seq, who)
         IN  /\ rest \in Members /\ IsInjective(rest)
             /\ seq # <<>> /\ Head(seq) # who => rest # <<>> /\ Head(rest) = Head(seq)
<1> DEFINE n == Len(seq)
           Good(k, s) == /\ s \in Members /\ IsInjective(s)
                         /\ \A x \in Range(s) : \E i \in 1..k : seq[i] = x
                         /\ k > 0 /\ seq[1] # who => Len(s) > 0 /\ s[1] = seq[1]
<1>1. PICK h \in [0..n -> Members] :
         /\ h[0] = <<>> /\ AllBut(seq, who) = h[n]
         /\ \A i \in 1..n : h[i] = Keep(h[i - 1], seq[i], who)
  BY AllButSteps
<1>2. n \in Nat /\ \A i \in 1..n : seq[i] \in Accounts
  BY DEF Members
<1>e. <<>> \in Members /\ IsInjective(<<>>) /\ Range(<<>>) = {}
  BY DEF Members, IsInjective, Range
<1>i. \A i, j \in 1..n : seq[i] = seq[j] => i = j
  BY DEF IsInjective, Members
<1>3. ASSUME NEW k \in Nat, k + 1 <= n, NEW s, Good(k, s)
      PROVE  Good(k + 1, Keep(s, seq[k + 1], who))
  <2> DEFINE m == seq[k + 1]
  <2>k. k + 1 \in 1..n /\ m \in Accounts /\ \A i \in 1..k : i \in 1..(k + 1) /\ i \in 1..n /\ i # k + 1
    BY <1>2, <1>3
  <2>1. CASE m = who
    <3>1. Keep(s, m, who) = s
      BY <2>1 DEF Keep
    <3>2. \A x \in Range(s) : \E i \in 1..(k + 1) : seq[i] = x
      BY <1>3, <2>k
    <3>3. seq[1] # who => k > 0
      BY <2>1
    <3> HIDE DEF m
    <3> QED
      BY <1>3, <3>1, <3>2, <3>3 DEF m
  <2>2. CASE m # who
    <3>1. Keep(s, m, who) = Append(s, m) /\ Len(s) \in Nat /\ s \in Members
      BY <1>3, <2>2 DEF Keep, Members
    <3>2. Len(Append(s, m)) = Len(s) + 1 /\ Append(s, m) \in Members
      BY <3>1, <2>k DEF Members
    <3>n. m \notin Range(s)
      BY <1>3, <1>i, <2>k
    <3>3. /\ \A i \in 1..Len(s) : Append(s, m)[i] = s[i] /\ s[i] \in Range(s)
          /\ Append(s, m)[Len(s) + 1] = m
      BY <3>1, <2>k DEF Members, Range
    <3>4. \A i, j \in 1..Len(s) : s[i] = s[j] => i = j
      BY <1>3 DEF IsInjective, Members
    <3> HIDE DEF m
    <3>5. \A i, j \in 1..(Len(s) + 1) : Append(s, m)[i] = Append(s, m)[j] => i = j
      BY <3>1, <3>3, <3>4, <3>n
    <3>6. DOMAIN Append(s, m) = 1..(Len(s) + 1)
      BY <3>2 DEF Members
    <3>7. IsInjective(Append(s, m))
      BY <3>5, <3>6, Zenon DEF IsInjective
    <3>8. \A x \in Range(Append(s, m)) : \E i \in 1..(k + 1) : seq[i] = x
      <4> SUFFICES ASSUME NEW j \in 1..(Len(s) + 1)
                   PROVE  \E i \in 1..(k + 1) : seq[i] = Append(s, m)[j]
        BY <3>6 DEF Range
      <4>1. CASE j = Len(s) + 1
        BY <4>1, <3>3, <2>k DEF m
      <4>2. CASE j \in 1..Len(s)
        BY <4>2, <3>3, <2>k, <1>3
      <4> QED
        BY <4>1, <4>2, <3>1
    <3>9. seq[1] # who => Append(s, m)[1] = seq[1]
      <4>1. CASE k = 0
        <5>1. Range(s) = {}
          BY <4>1, <1>3
        <5>2. Len(s) = 0
          BY <5>1, <3>1, <3>3
        <5> QED
          BY <4>1, <5>2, <3>3 DEF m
      <4>2. CASE k > 0
        <5> SUFFICES ASSUME seq[1] # who PROVE Append(s, m)[1] = seq[1]
          OBVIOUS
        <5>1. Len(s) > 0 /\ s[1] = seq[1]
          BY <1>3, <4>2
        <5> QED
          BY <5>1, <3>1, <3>3
      <4> QED
        BY <4>1, <4>2
    <3>10. Good(k + 1, Append(s, m))
      BY <3>1, <3>2, <3>7, <3>8, <3>9
    <3> QED
      BY <3>1, <3>10 DEF m
  <2> QED
    BY <2>1, <2>2
<1> DEFINE T == {k \in Nat : k <= n => Good(k, h[k])}
<1>4. 0 \in T
  BY <1>1, <1>e
<1>5. ASSUME NEW k \in Nat, k \in T PROVE k + 1 \in T
  <2> HIDE DEF Good
  <2> SUFFICES ASSUME k + 1 <= n PROVE Good(k + 1, h[k + 1])
    OBVIOUS
  <2>1. k + 1 \in 1..n /\ k <= n /\ (k + 1) - 1 = k
    BY <1>2
  <2>2. h[k + 1] = Keep(h[k], seq[k + 1], who)
    BY <1>1, <2>1
  <2>3. Good(k, h[k])
    BY <1>5, <2>1
  <2> QED
    BY <1>3, <2>2, <2>3
<1>6. Nat \subseteq T
  <2> HIDE DEF T
  <2> QED
    BY <1>4, <1>5, Induction
<1>7. Good(n, h[n])
  BY <1>2, <1>6
<1> QED
  BY <1>1, <1>7 DEF Members

LEMMA OwnerFirst ==
  ASSUME NEW o
  PROVE  SetToSeq({o}) = <<o>>
<1>1. Cardinality({o}) = 1
  BY FS_Singleton
<1>2. \A f : f \in [1..1 -> {o}] <=> f = <<o>>
  OBVIOUS
<1>3. IsInjective(<<o>>)
  BY DEF IsInjective
<1> QED
  BY <1>1, <1>2, <1>3 DEF SetToSeq

\* A room that exists: its owner comes first among its members, each of whom is there once.
OwnerIsFirst(room) ==
    /\ room.members # <<>> /\ room.owner = {Head(room.members)}
    /\ IsInjective(room.members)

Rooms == {room \in [owner : SUBSET Accounts, members : Members, authors : SUBSET Accounts] :
            room # NoRoom => OwnerIsFirst(room)}

GroupsState(s) ==
    /\ s = [x \in {"rooms", "threads", "blocked", "entries", "next"} |-> s[x]]
    /\ s.rooms \in [RoomIds -> Rooms]
    /\ s.blocked \subseteq ThreadKeys
    /\ s.next \in Nat \ {0} /\ s.entries \subseteq 1..(s.next - 1)

Nobody == {{}} \cup {{a} : a \in Accounts}

GroupsInv ==
    /\ GroupsState(gsMem) /\ GroupsState(gsDisk.state)
    /\ gsDisk.readable \in BOOLEAN
    /\ user \in Nobody /\ copying \in Nobody
    /\ gsOps \in 0..MaxStateOps /\ gsFaults \in 0..MaxStateFaults

LEMMA NoRoomIsRoom == NoRoom \in Rooms
  BY DEF NoRoom, Rooms, Members

LEMMA EmptyGroups == GroupsState(EmptyState)
  BY NoRoomIsRoom DEF EmptyState, GroupsState

\* A room of a state, and its parts.
LEMMA RoomParts ==
  ASSUME NEW room \in Rooms
  PROVE  /\ room.owner \subseteq Accounts /\ room.members \in Members
         /\ room.authors \subseteq Accounts
         /\ room.owner # {} => room # NoRoom
         /\ room # NoRoom => OwnerIsFirst(room)
         /\ room = [owner |-> room.owner, members |-> room.members, authors |-> room.authors]
  BY DEF Rooms, NoRoom

LEMMA IsRoom ==
  ASSUME NEW owner, NEW members \in Members, NEW authors \in SUBSET Accounts,
         members # <<>>, owner = {Head(members)}, IsInjective(members)
  PROVE  [owner |-> owner, members |-> members, authors |-> authors] \in Rooms
<1>1. Head(members) \in Accounts
  BY DEF Members
<1> QED
  BY <1>1 DEF Rooms, OwnerIsFirst

\* dedupe_members() on a room whose owner is known: the owner is put first.
LEMMA DedupedIsRoom ==
  ASSUME NEW room, NEW o \in Accounts, NEW members \in Members, NEW authors \in SUBSET Accounts,
         room = [owner |-> {o}, members |-> members, authors |-> authors]
  PROVE  Deduped(room) \in Rooms
<1> DEFINE all == FoldLeft(AddOnce, <<o>>, members)
<1>1. Deduped(room) = [owner |-> {o}, members |-> all, authors |-> authors]
  <2>1. SetToSeq(room.owner) = <<o>>
    BY OwnerFirst
  <2>2. Deduped(room) = [room EXCEPT !.members = FoldLeft(AddOnce, <<o>>, room.members)]
    BY <2>1 DEF Deduped
  <2> QED
    BY <2>2
<1>2. <<o>> \in Members /\ IsInjective(<<o>>) /\ <<o>> # <<>> /\ Head(<<o>>) = o
  BY DEF Members, IsInjective
<1>3. all \in Members /\ IsInjective(all) /\ all # <<>> /\ Head(all) = o
  BY <1>2, Added
<1> HIDE DEF all
<1> QED
  BY <1>1, <1>3, IsRoom

LEMMA LoadedGroups ==
  ASSUME GroupsState(gsDisk.state)
  PROVE  GroupsState(Loaded)
<1> DEFINE s == IF gsDisk.readable THEN gsDisk.state ELSE EmptyState
           rooms == [r \in RoomIds |-> IF s.rooms[r] = NoRoom THEN NoRoom ELSE Deduped(s.rooms[r])]
<1>1. GroupsState(s)
  BY EmptyGroups
<1>2. Loaded = [s EXCEPT !.rooms = rooms]
  BY DEF Loaded
<1> HIDE DEF s
<1>3. ASSUME NEW r \in RoomIds, s.rooms[r] # NoRoom PROVE Deduped(s.rooms[r]) \in Rooms
  <2> DEFINE room == s.rooms[r]
  <2>1. room \in Rooms /\ room # NoRoom
    BY <1>1, <1>3 DEF GroupsState
  <2> HIDE DEF room
  <2>2. OwnerIsFirst(room) /\ room.members \in Members /\ room.authors \in SUBSET Accounts
    BY <2>1, RoomParts
  <2>3. room.owner = {Head(room.members)} /\ Head(room.members) \in Accounts
    BY <2>2 DEF OwnerIsFirst, Members
  <2>4. room = [owner |-> {Head(room.members)}, members |-> room.members, authors |-> room.authors]
    BY <2>1, <2>3, RoomParts
  <2>5. Deduped(room) \in Rooms
    BY <2>2, <2>3, <2>4, DedupedIsRoom
  <2> QED
    BY <2>5 DEF room
<1>4. rooms \in [RoomIds -> Rooms]
  BY <1>3, NoRoomIsRoom
<1> HIDE DEF rooms
<1>5. Loaded = [x \in {"rooms", "threads", "blocked", "entries", "next"} |-> Loaded[x]]
      /\ Loaded.rooms = rooms /\ Loaded.blocked = s.blocked
      /\ Loaded.entries = s.entries /\ Loaded.next = s.next
  BY <1>1, <1>2 DEF GroupsState
<1> QED
  BY <1>1, <1>4, <1>5 DEF GroupsState

LEMMA StoredGroups ==
  ASSUME GroupsInv, NEW s, GroupsState(s), NEW out \in Outcomes, Store(s, out)
  PROVE  /\ GroupsState(gsMem)' /\ GroupsState(gsDisk.state)'
         /\ gsDisk'.readable \in BOOLEAN /\ gsFaults' \in 0..MaxStateFaults
<1>1. \/ gsDisk' = [readable |-> TRUE, state |-> s]
      \/ gsDisk' = gsDisk
      \/ gsDisk' = [readable |-> FALSE, state |-> EmptyState]
  BY DEF Store, Outcomes
<1>2. GroupsState(gsDisk'.state) /\ gsDisk'.readable \in BOOLEAN
  <2>1. gsDisk'.state \in {s, gsDisk.state, EmptyState}
    BY <1>1
  <2>2. gsDisk' = gsDisk => gsDisk'.readable \in BOOLEAN
    BY Zenon DEF GroupsInv
  <2>3. GroupsState(gsDisk'.state)
    BY <2>1, EmptyGroups DEF GroupsInv
  <2>4. ASSUME NEW st, NEW b \in BOOLEAN, gsDisk' = [readable |-> b, state |-> st]
        PROVE  gsDisk'.readable \in BOOLEAN
    BY <2>4
  <2>5. gsDisk'.readable \in BOOLEAN
    BY <1>1, <2>2, <2>4, Zenon
  <2> QED
    BY <2>3, <2>5
<1>3. gsMem' = s
  BY DEF Store
<1>4. gsFaults' \in 0..MaxStateFaults
  <2>1. MaxStateFaults \in Nat /\ gsFaults \in 0..MaxStateFaults
    BY GroupStateAssumption DEF GroupsInv, GroupStateAssumption
  <2>2. CASE out = "ok"
    BY <2>1, <2>2 DEF Store
  <2>3. CASE out # "ok"
    <3>1. gsFaults < MaxStateFaults
      BY <2>3 DEF Outcomes
    <3>2. gsFaults' = gsFaults + 1
      BY <2>3 DEF Store
    <3> QED
      BY <2>1, <3>1, <3>2
  <2> QED
    BY <2>2, <2>3
<1> QED
  BY <1>2, <1>3, <1>4 DEF GroupsState

\* An operation that stores one room.
LEMMA RoomStored ==
  ASSUME GroupsInv, NEW r \in RoomIds, NEW room \in Rooms
  PROVE  GroupsState(SetRoom(r, room))
<1> DEFINE s == SetRoom(r, room)
           rooms == [gsMem.rooms EXCEPT ![r] = room]
<1>1. /\ s = [x \in {"rooms", "threads", "blocked", "entries", "next"} |-> s[x]]
      /\ s.rooms = rooms /\ s.blocked = gsMem.blocked
      /\ s.entries = gsMem.entries /\ s.next = gsMem.next
  BY DEF SetRoom, GroupsInv, GroupsState
<1>2. rooms \in [RoomIds -> Rooms]
  BY DEF GroupsInv, GroupsState
<1> HIDE DEF s, rooms
<1>3. GroupsState(s)
  BY <1>1, <1>2 DEF GroupsInv, GroupsState
<1> QED
  BY <1>3 DEF s

\* An author is noted in a room.
LEMMA Authored ==
  ASSUME GroupsInv, NEW r \in RoomIds, NEW u \in Accounts, gsMem.rooms[r] # NoRoom
  PROVE  GroupsState([gsMem EXCEPT !.rooms[r].authors = @ \cup {u}])
<1> DEFINE room == gsMem.rooms[r]
           new == [owner |-> room.owner, members |-> room.members,
                   authors |-> room.authors \cup {u}]
<1>1. room \in Rooms
  BY DEF GroupsInv, GroupsState
<1>2. new \in Rooms
  <2> HIDE DEF room
  <2>1. /\ room.members \in Members /\ room.authors \cup {u} \in SUBSET Accounts
        /\ OwnerIsFirst(room)
    BY <1>1, RoomParts DEF room
  <2> QED
    BY <2>1, IsRoom DEF OwnerIsFirst
<1>3. [room EXCEPT !.authors = @ \cup {u}] = new
  <2> HIDE DEF room
  <2>1. room = [owner |-> room.owner, members |-> room.members, authors |-> room.authors]
    BY <1>1, RoomParts
  <2> QED
    BY <2>1
<1>4. [gsMem EXCEPT !.rooms[r].authors = @ \cup {u}] = SetRoom(r, [room EXCEPT !.authors = @ \cup {u}])
  BY DEF SetRoom, GroupsInv, GroupsState
<1> HIDE DEF new
<1>5. GroupsState(SetRoom(r, new))
  BY <1>2, RoomStored
<1> QED
  BY <1>3, <1>4, <1>5

\* A message in a thread changes nothing else.
LEMMA OtherParts ==
  ASSUME GroupsInv, NEW f, NEW b \in SUBSET ThreadKeys
  PROVE  /\ GroupsState([gsMem EXCEPT !.threads = f])
         /\ GroupsState([gsMem EXCEPT !.blocked = b])
<1>1. ASSUME NEW s, s = [gsMem EXCEPT !.threads = f] PROVE GroupsState(s)
  <2>1. /\ s = [x \in {"rooms", "threads", "blocked", "entries", "next"} |-> s[x]]
        /\ s.rooms = gsMem.rooms /\ s.blocked = gsMem.blocked
        /\ s.entries = gsMem.entries /\ s.next = gsMem.next
    BY <1>1 DEF GroupsInv, GroupsState
  <2> QED
    BY <2>1 DEF GroupsInv, GroupsState
<1>2. ASSUME NEW s, s = [gsMem EXCEPT !.blocked = b] PROVE GroupsState(s)
  <2>1. /\ s = [x \in {"rooms", "threads", "blocked", "entries", "next"} |-> s[x]]
        /\ s.rooms = gsMem.rooms /\ s.blocked = b
        /\ s.entries = gsMem.entries /\ s.next = gsMem.next
    BY <1>2 DEF GroupsInv, GroupsState
  <2> QED
    BY <2>1 DEF GroupsInv, GroupsState
<1> QED
  BY <1>1, <1>2

LEMMA OperationKeepsGroups ==
  ASSUME GroupsInv, NEW s, GroupsState(s), Operation(s)
  PROVE  GroupsInv'
<1>1. PICK out \in Outcomes : Store(s, out)
  BY DEF Operation
<1>2. /\ GroupsState(gsMem)' /\ GroupsState(gsDisk.state)'
      /\ gsDisk'.readable \in BOOLEAN /\ gsFaults' \in 0..MaxStateFaults
  BY <1>1, StoredGroups
<1>3. gsOps' \in 0..MaxStateOps /\ user' = user /\ copying' = copying
  BY GroupStateAssumption DEF Operation, GroupsInv, GroupStateAssumption
<1> QED
  BY <1>2, <1>3 DEF GroupsInv

\* A message in a thread, whose copy is still to be made or not.
LEMMA ThreadKeepsGroups ==
  ASSUME GroupsInv, NEW f, NEW out \in Outcomes, Store([gsMem EXCEPT !.threads = f], out),
         user' = user, copying' \in Nobody, gsOps' \in 0..MaxStateOps
  PROVE  GroupsInv'
<1>1. PICK s : s = [gsMem EXCEPT !.threads = f]
  OBVIOUS
<1>2. GroupsState(s) /\ Store(s, out)
  BY <1>1, OtherParts
<1> QED
  BY <1>2, StoredGroups DEF GroupsInv

LEMMA OneOperation ==
  ASSUME GroupsInv, gsOps < MaxStateOps, gsOps' = gsOps + 1
  PROVE  gsOps' \in 0..MaxStateOps
  BY GroupStateAssumption DEF GroupsInv, GroupStateAssumption

LEMMA GroupsNext == GroupsInv /\ ShareInv /\ [GroupStateNext]_gsVars => GroupsInv'
<1> SUFFICES ASSUME GroupsInv, ShareInv, [GroupStateNext]_gsVars PROVE GroupsInv'
  OBVIOUS
<1>m. ASSUME NEW r \in RoomIds PROVE gsMem.rooms[r] \in Rooms
  BY <1>m DEF GroupsInv, GroupsState
<1>1. CASE UNCHANGED gsVars
  BY <1>1 DEF gsVars, GroupsInv, GroupsState
<1>2. CASE Restart
  <2>1. gsMem' = Loaded /\ gsDisk' = gsDisk /\ gsOps' = gsOps /\ user' = {} /\ copying' = {}
    BY <1>2 DEF Restart
  <2>2. GroupsState(Loaded)
    BY LoadedGroups DEF GroupsInv
  <2>3. gsFaults' \in 0..MaxStateFaults
    BY <1>2, GroupStateAssumption DEF Restart, GroupsInv, GroupStateAssumption
  <2>4. GroupsState(gsMem)' /\ GroupsState(gsDisk.state)'
    BY <2>1, <2>2 DEF GroupsInv, GroupsState
  <2>5. gsDisk'.readable \in BOOLEAN
    BY <2>1, Zenon DEF GroupsInv
  <2> QED
    BY <2>1, <2>3, <2>4, <2>5 DEF GroupsInv, Nobody
<1>3. ASSUME NEW u \in Accounts, SignIn(u) PROVE GroupsInv'
  BY <1>3 DEF SignIn, GroupsInv, GroupsState, Nobody
<1>4. ASSUME NEW u \in Accounts, RegisterEntry(u) PROVE GroupsInv'
  <2>s. PICK s : s = [gsMem EXCEPT !.entries = @ \cup {gsMem.next}, !.next = @ + 1]
    OBVIOUS
  <2>1. PICK out \in Outcomes : Store(s, out)
    BY <1>4, <2>s DEF RegisterEntry
  <2>2. /\ s = [x \in {"rooms", "threads", "blocked", "entries", "next"} |-> s[x]]
        /\ s.rooms = gsMem.rooms /\ s.blocked = gsMem.blocked
        /\ s.entries = gsMem.entries \cup {gsMem.next} /\ s.next = gsMem.next + 1
    BY <2>s DEF GroupsInv, GroupsState
  <2>3. GroupsState(s)
    BY <2>2 DEF GroupsInv, GroupsState
  <2>4. gsOps' \in 0..MaxStateOps /\ user' = user /\ copying' = copying
    BY <1>4, OneOperation DEF RegisterEntry
  <2> QED
    BY <2>1, <2>3, <2>4, StoredGroups DEF GroupsInv
<1>5. ASSUME NEW u \in Accounts, PublishShare(u) PROVE GroupsInv'
  <2>1. PICK t \in Targets : share = <<"entered", t>>
    BY <1>5 DEF PublishShare, ShareInv, Targets
  <2>2. user' = user /\ gsOps' \in 0..MaxStateOps
    BY <1>5 DEF PublishShare, GroupsInv
  <2>3. CASE t[1] = "partner" /\ ~BlockedBetween(u, t[2])
    <3>1. PICK p \in Accounts : t = <<"partner", p>>
      BY <2>3 DEF Targets
    <3>2. PICK out \in Outcomes :
             /\ Store([gsMem EXCEPT !.threads[<<u, p>>].own = @ + 1], out)
             /\ copying' = IF out = "ok" THEN {p} ELSE {}
      BY <1>5, <2>1, <2>3, <3>1 DEF PublishShare
    <3>3. copying' \in Nobody
      BY <3>2 DEF Nobody
    <3>4. PICK f : [gsMem EXCEPT !.threads[<<u, p>>].own = @ + 1] = [gsMem EXCEPT !.threads = f]
      OBVIOUS
    <3> QED
      BY <2>2, <3>2, <3>3, <3>4, ThreadKeepsGroups
  <2>4. CASE t[1] = "room" /\ gsMem.rooms[t[2]] # NoRoom /\ IsMember(gsMem.rooms[t[2]], u)
    <3>1. PICK r \in RoomIds : t = <<"room", r>>
      BY <2>4 DEF Targets
    <3>2. PICK s : s = [gsMem EXCEPT !.rooms[r].authors = @ \cup {u}]
      OBVIOUS
    <3>3. PICK out \in Outcomes : Store(s, out) /\ copying' = copying
      BY <1>5, <2>1, <2>4, <3>1, <3>2 DEF PublishShare
    <3>4. GroupsState(s)
      BY <2>4, <3>1, <3>2, Authored
    <3> QED
      BY <2>2, <3>3, <3>4, StoredGroups DEF GroupsInv
  <2>5. CASE UNCHANGED <<gsMem, gsDisk, copying, gsFaults>>
    BY <2>2, <2>5 DEF GroupsInv, GroupsState
  <2> QED
    BY <1>5, <2>1, <2>3, <2>4, <2>5 DEF PublishShare, Targets
<1>6. ASSUME NEW u \in Accounts, NEW name \in Slugs, CreateGroup(u, name) PROVE GroupsInv'
  <2> DEFINE room == [owner |-> {u}, members |-> <<u>>, authors |-> {}]
  <2>1. <<u>> \in Members /\ <<u>> # <<>> /\ Head(<<u>>) = u /\ IsInjective(<<u>>)
    BY DEF Members, IsInjective
  <2>2. room \in Rooms /\ <<u, name>> \in RoomIds
    BY <2>1, IsRoom DEF RoomIds
  <2>3. Operation(SetRoom(<<u, name>>, room))
    BY <1>6 DEF CreateGroup
  <2> HIDE DEF room
  <2> QED
    BY <2>2, <2>3, RoomStored, OperationKeepsGroups
<1>7. ASSUME NEW u \in Accounts, NEW r \in RoomIds, Leave(u, r) PROVE GroupsInv'
  <2> DEFINE room == gsMem.rooms[r]
             remaining == AllBut(room.members, u)
             left == [owner |-> room.owner, members |-> remaining, authors |-> room.authors]
             handed == [owner |-> {Head(remaining)}, members |-> remaining, authors |-> room.authors]
  <2>1. room \in Rooms /\ room # NoRoom
    BY <1>7, <1>m DEF Leave
  <2>2. /\ room.members \in Members /\ room.authors \in SUBSET Accounts /\ OwnerIsFirst(room)
        /\ room = [owner |-> room.owner, members |-> room.members, authors |-> room.authors]
    <3> HIDE DEF room
    <3> QED
      BY <2>1, RoomParts
  <2>3. /\ remaining \in Members /\ IsInjective(remaining)
        /\ Head(room.members) # u => remaining # <<>> /\ Head(remaining) = Head(room.members)
    <3> HIDE DEF room
    <3> QED
      BY <2>2, LeftOut DEF OwnerIsFirst
  <2>4. PICK new : Operation(SetRoom(r, new)) /\
           new = IF room.owner # {u} THEN [room EXCEPT !.members = remaining]
                 ELSE IF remaining = <<>> THEN NoRoom
                 ELSE [room EXCEPT !.owner = {Head(remaining)}, !.members = remaining]
    BY <1>7 DEF Leave
  <2>5. new \in Rooms
    <3>1. CASE room.owner # {u}
      <4>1. room.owner = {Head(room.members)} /\ Head(room.members) # u
        BY <2>2, <3>1 DEF OwnerIsFirst
      <4>2. left \in Rooms
        <5> HIDE DEF room, remaining
        <5> QED
          BY <4>1, <2>2, <2>3, IsRoom
      <4>3. new = left
        <5> HIDE DEF room, remaining
        <5> QED
          BY <2>2, <2>4, <3>1
      <4> QED
        BY <4>2, <4>3
    <3>2. CASE room.owner = {u} /\ remaining # <<>>
      <4>1. handed \in Rooms
        <5> HIDE DEF room, remaining
        <5> QED
          BY <3>2, <2>2, <2>3, IsRoom
      <4>2. new = handed
        <5> HIDE DEF room, remaining
        <5> QED
          BY <2>2, <2>4, <3>2
      <4> QED
        BY <4>1, <4>2
    <3>3. CASE room.owner = {u} /\ remaining = <<>>
      BY <2>4, <3>3, NoRoomIsRoom
    <3> QED
      BY <3>1, <3>2, <3>3
  <2> HIDE DEF room, remaining, left, handed
  <2> QED
    BY <2>4, <2>5, RoomStored, OperationKeepsGroups
<1>8. ASSUME NEW u \in Accounts, NEW r \in RoomIds, GroupMessage(u, r) PROVE GroupsInv'
  <2>1. GroupsState([gsMem EXCEPT !.rooms[r].authors = @ \cup {u}])
    BY <1>8, Authored DEF GroupMessage
  <2> QED
    BY <1>8, <2>1, OperationKeepsGroups DEF GroupMessage
<1>9. ASSUME NEW u \in Accounts, NEW r \in RoomIds, NEW m \in Accounts, AddMember(u, r, m)
      PROVE  GroupsInv'
  <2> DEFINE room == gsMem.rooms[r]
             more == Append(room.members, m)
             longer == [owner |-> {u}, members |-> more, authors |-> room.authors]
  <2>1. room \in Rooms /\ room.owner = {u}
    BY <1>9, <1>m DEF AddMember
  <2>2. /\ room.members \in Members /\ room.authors \in SUBSET Accounts
        /\ room = [owner |-> {u}, members |-> room.members, authors |-> room.authors]
    <3> HIDE DEF room
    <3> QED
      BY <2>1, RoomParts
  <2>3. [room EXCEPT !.members = Append(@, m)] = longer
    <3> HIDE DEF room, more
    <3>1. [room EXCEPT !.members = more] = longer
      BY <2>2
    <3> QED
      BY <3>1 DEF more
  <2>4. Append(room.members, m) \in Members
    <3> HIDE DEF room
    <3> QED
      BY <2>2 DEF Members
  <2>5. Deduped([room EXCEPT !.members = Append(@, m)]) \in Rooms
    <3> HIDE DEF room
    <3> QED
      BY <2>2, <2>3, <2>4, DedupedIsRoom
  <2>6. Operation(SetRoom(r, Deduped([room EXCEPT !.members = Append(@, m)])))
    BY <1>9 DEF AddMember
  <2> HIDE DEF room
  <2> QED
    BY <2>5, <2>6, RoomStored, OperationKeepsGroups
<1>10. ASSUME NEW u \in Accounts, NEW r \in RoomIds, NEW m \in Accounts, RemoveMember(u, r, m)
       PROVE  GroupsInv'
  <2> DEFINE room == gsMem.rooms[r]
             fewer == [owner |-> {u}, members |-> AllBut(room.members, m), authors |-> room.authors]
  <2>1. room \in Rooms /\ room.owner = {u} /\ m # u
    BY <1>10, <1>m DEF RemoveMember
  <2>2. /\ room.members \in Members /\ room.authors \in SUBSET Accounts /\ OwnerIsFirst(room)
        /\ room = [owner |-> {u}, members |-> room.members, authors |-> room.authors]
    <3> HIDE DEF room
    <3> QED
      BY <2>1, RoomParts
  <2>3. Head(room.members) = u
    BY <2>1, <2>2 DEF OwnerIsFirst
  <2>4. fewer \in Rooms
    <3> HIDE DEF room
    <3>1. /\ AllBut(room.members, m) \in Members /\ IsInjective(AllBut(room.members, m))
          /\ AllBut(room.members, m) # <<>> /\ Head(AllBut(room.members, m)) = u
      BY <2>1, <2>2, <2>3, LeftOut DEF OwnerIsFirst
    <3> QED
      BY <3>1, <2>2, IsRoom
  <2>5. [room EXCEPT !.members = AllBut(@, m)] = fewer
    <3> HIDE DEF room
    <3> QED
      BY <2>2
  <2>6. Operation(SetRoom(r, [room EXCEPT !.members = AllBut(@, m)]))
    BY <1>10 DEF RemoveMember
  <2> HIDE DEF room, fewer
  <2> QED
    BY <2>4, <2>5, <2>6, RoomStored, OperationKeepsGroups
<1>11. ASSUME NEW u \in Accounts, NEW p \in Accounts, Block(u, p) \/ Unblock(u, p) PROVE GroupsInv'
  <2>1. PICK b \in SUBSET ThreadKeys : Operation([gsMem EXCEPT !.blocked = b])
    <3>1. gsMem.blocked \ {<<u, p>>} \in SUBSET ThreadKeys
      BY DEF GroupsInv, GroupsState
    <3>2. p # u => gsMem.blocked \cup {<<u, p>>} \in SUBSET ThreadKeys
      BY DEF GroupsInv, GroupsState, ThreadKeys
    <3> QED
      BY <1>11, <3>1, <3>2 DEF Block, Unblock
  <2> QED
    BY <2>1, OtherParts, OperationKeepsGroups
<1>12. ASSUME NEW u \in Accounts, NEW p \in Accounts, SendPrivate(u, p) PROVE GroupsInv'
  <2>1. PICK out \in Outcomes :
           /\ Store([gsMem EXCEPT !.threads[<<u, p>>].own = @ + 1], out)
           /\ copying' = IF out = "ok" THEN {p} ELSE {}
    BY <1>12 DEF SendPrivate
  <2>2. user' = user /\ copying' \in Nobody /\ gsOps' \in 0..MaxStateOps
    BY <1>12, <2>1, OneOperation DEF SendPrivate, Nobody
  <2>3. PICK f : [gsMem EXCEPT !.threads[<<u, p>>].own = @ + 1] = [gsMem EXCEPT !.threads = f]
    OBVIOUS
  <2> QED
    BY <2>1, <2>2, <2>3, ThreadKeepsGroups
<1>13. ASSUME NEW u \in Accounts, NEW p \in Accounts, CopyToPartner(u, p) PROVE GroupsInv'
  <2>1. PICK out \in Outcomes : Store([gsMem EXCEPT !.threads[<<p, u>>].theirs = @ + 1], out)
    BY <1>13 DEF CopyToPartner
  <2>2. user' = user /\ copying' \in Nobody /\ gsOps' \in 0..MaxStateOps
    BY <1>13 DEF CopyToPartner, Nobody, GroupsInv
  <2>3. PICK f : [gsMem EXCEPT !.threads[<<p, u>>].theirs = @ + 1] = [gsMem EXCEPT !.threads = f]
    OBVIOUS
  <2> QED
    BY <2>1, <2>2, <2>3, ThreadKeepsGroups
<1>14. ASSUME NEW u \in Accounts, NEW target \in Targets, DropFile(u, target) PROVE GroupsInv'
  BY <1>14 DEF DropFile, GroupsInv, GroupsState
<1> QED
  BY <1>1, <1>2, <1>3, <1>4, <1>5, <1>6, <1>7, <1>8, <1>9, <1>10, <1>11, <1>12, <1>13, <1>14
     DEF GroupStateNext

LEMMA GroupsInit == GroupStateInit => GroupsInv
<1> SUFFICES ASSUME GroupStateInit PROVE GroupsInv
  OBVIOUS
<1>1. gsMem = EmptyState /\ gsDisk.state = EmptyState /\ gsDisk.readable = TRUE
  BY DEF GroupStateInit
<1>2. user \in Nobody /\ copying \in Nobody
  BY DEF GroupStateInit, Nobody
<1>3. gsOps \in 0..MaxStateOps /\ gsFaults \in 0..MaxStateFaults
  BY GroupStateAssumption DEF GroupStateInit, GroupStateAssumption
<1>4. gsDisk.readable \in BOOLEAN
  BY <1>1
<1>5. GroupsState(gsMem) /\ GroupsState(gsDisk.state)
  BY <1>1, EmptyGroups
<1> QED
  BY <1>2, <1>3, <1>4, <1>5 DEF GroupsInv

\* The owner of a group is the member who has been in it longest, whatever was added, removed
\* and handed over, and whichever state a restart has read (state.rs, dedupe_members() and
\* leave_group()).
THEOREM OwnerIsLongestMember == GroupStateSpec => []OwnerLeads
<1>1. GroupsInv => OwnerLeads
  <2> SUFFICES ASSUME GroupsInv, NEW s \in {gsMem, gsDisk.state}, NEW r \in RoomsOf(s)
               PROVE  OwnerIsFirst(s.rooms[r])
    BY DEF OwnerLeads, OwnerIsFirst
  <2>1. GroupsState(s) /\ r \in RoomIds /\ s.rooms[r] # NoRoom
    BY DEF GroupsInv, RoomsOf
  <2> QED
    BY <2>1 DEF GroupsState, Rooms
<1> QED
  BY <1>1, GroupsInit, GroupsNext, CopyInvInit, CopyInvNext, PTL DEF GroupStateSpec, CopyInv

\* Every variable of the groups and chats keeps its type, and the number of a register entry is
\* below the next one, in memory and in the file.
THEOREM GroupsTypeCorrect == GroupStateSpec => []GroupStateTypeOK
<1>1. GroupsInv /\ ShareInv => GroupStateTypeOK
  <2> SUFFICES ASSUME GroupsInv, ShareInv PROVE GroupStateTypeOK
    OBVIOUS
  <2>1. ASSUME NEW s \in {gsMem, gsDisk.state}
        PROVE  /\ s.blocked \subseteq ThreadKeys /\ s.entries \subseteq 1..(s.next - 1)
               /\ \A r \in RoomIds : s.rooms[r].authors \subseteq Accounts
    <3>1. GroupsState(s)
      BY DEF GroupsInv
    <3>2. ASSUME NEW r \in RoomIds PROVE s.rooms[r].authors \subseteq Accounts
      <4>1. s.rooms[r] \in Rooms
        BY <3>1 DEF GroupsState
      <4> QED
        BY <4>1, RoomParts
    <3> QED
      BY <3>1, <3>2 DEF GroupsState
  <2>2. user \in {{}} \cup {{a} : a \in Accounts} /\ copying \in {{}} \cup {{a} : a \in Accounts}
    BY DEF GroupsInv, Nobody
  <2> QED
    BY <2>1, <2>2 DEF GroupsInv, ShareInv, GroupStateTypeOK
<1> QED
  BY <1>1, GroupsInit, GroupsNext, CopyInvInit, CopyInvNext, PTL DEF GroupStateSpec, CopyInv

-----------------------------------------------------------------------------
(* The vault and its packs.                                                *)

Entry == [key : {"commit"} \X Anchors \X Nat, ref : {"anchor"} \X Anchors, anchor : Anchors]
States == [Packs -> Seq(Anchors) \cup {NotInstalled}]

\* What is installed, or as far as it is, has been saved with the vault, which fits its bound.
Fits(s) == s \in Seq(Entry) /\ Len(s) <= MaxEntries
Kept == Held(IF vaultFile.whole THEN vaultFile.entries ELSE entries)
Saved(packs) ==
    ~emptied => \A p \in Packs : packs[p] # NotInstalled => Range(packs[p]) \subseteq Kept
JobInv ==
    \/ job = NoJob
    \/ /\ job \in [kind : {"install"}, pack : Packs, left : Seq(Anchors), all : Seq(Anchors)]
       /\ Len(entries) + Len(job.left) <= MaxEntries
       /\ Range(job.all) \subseteq Range(job.left) \cup Kept
    \/ job \in [kind : {"uninstall"}, pack : Packs, left : Seq(Anchors), all : Seq(Anchors)]
VaultTypes ==
    /\ Fits(entries) /\ version \in Nat \ {0}
    /\ vaultFile.version \in Nat \ {0} /\ Fits(vaultFile.entries)
    /\ vaultFile.whole \in BOOLEAN /\ emptied \in BOOLEAN
    /\ pvFaults \in 0..MaxVaultFaults /\ pushed \subseteq Trusted
    /\ installed \in States /\ installFile \in States
VaultInv ==
    /\ VaultTypes /\ JobInv
    /\ Held(vaultFile.entries) \subseteq Held(entries)
    /\ Saved(installed) /\ Saved(installFile)

\* The reference in a record is not the key of an entry.
LEMMA RefIsNoKey ==
  ASSUME NEW d \in Entry, NEW e \in Entry
  PROVE  d.ref # e.key
<1>1. PICK a \in Anchors : d.ref = <<"anchor", a>>
  BY DEF Entry
<1>2. PICK b \in Anchors, n \in Nat : e.key = <<"commit", b, n>>
  BY DEF Entry
<1> QED
  BY <1>1, <1>2

\* The vault after the commit of an anchor, whatever becomes of its file.
LEMMA Upserted ==
  ASSUME VaultTypes, NEW a \in Anchors, NEW out \in SaveOutcomes, Upsert(a, out),
         Held(vaultFile.entries) \subseteq Held(entries),
         Len(entries) < MaxEntries
  PROVE  /\ Fits(entries)' /\ version' \in Nat \ {0} /\ Len(entries') = Len(entries) + 1
         /\ vaultFile'.version \in Nat \ {0} /\ Fits(vaultFile'.entries)
         /\ vaultFile'.whole \in BOOLEAN
         /\ pvFaults' \in 0..MaxVaultFaults
         /\ Held(vaultFile'.entries) \subseteq Held(entries')
         /\ Kept \subseteq Kept'
         /\ out = "ok" => a \in Kept'
<1> DEFINE e == [key |-> CommitKey(a), ref |-> RecordRef(a), anchor |-> a]
<1>1. e \in Entry
  BY DEF Entry, CommitKey, RecordRef, VaultTypes
<1>2. entries' = Append(entries, e) /\ entries \in Seq(Entry)
  BY DEF Upsert, VaultTypes, Fits
<1>3. e.anchor = a
  OBVIOUS
<1> HIDE DEF e
<1>4. entries' \in Seq(Entry) /\ Len(entries') = Len(entries) + 1
  BY <1>1, <1>2
<1>5. /\ \A i \in 1..Len(entries) : entries'[i] = entries[i]
      /\ entries'[Len(entries) + 1] = e
      /\ Len(entries) \in Nat
  BY <1>1, <1>2
<1>6. Held(entries) \subseteq Held(entries') /\ a \in Held(entries')
  BY <1>2, <1>3, <1>4, <1>5 DEF Held
<1>7. Fits(entries)'
  BY <1>4, <1>5, PackVaultAssumption DEF Fits, PackVaultAssumption
<1>8. version' \in Nat \ {0} /\ pvFaults' \in 0..MaxVaultFaults
  BY PackVaultAssumption DEF Upsert, SaveVault, VaultTypes, PackVaultAssumption, MayFail
<1>9. CASE out = "ok"
  <2>1. vaultFile' = VaultOf(TRUE, entries', version')
    BY <1>9 DEF Upsert, SaveVault
  <2>2. vaultFile'.entries = entries' /\ vaultFile'.version = version' /\ vaultFile'.whole = TRUE
    BY <2>1 DEF VaultOf
  <2>3. Kept \subseteq Held(entries)
    BY DEF Kept
  <2>4. Kept' = Held(entries')
    BY <2>2 DEF Kept
  <2> QED
    BY <1>4, <1>6, <1>7, <1>8, <1>9, <2>2, <2>3, <2>4 DEF Fits
<1>10. CASE out = "refused"
  <2>1. vaultFile' = vaultFile
    BY <1>10 DEF Upsert, SaveVault
  <2>2. Kept \subseteq Kept'
    <3>1. CASE vaultFile.whole
      BY <2>1, <3>1 DEF Kept
    <3>2. CASE ~vaultFile.whole
      BY <1>6, <2>1, <3>2 DEF Kept
    <3> QED
      BY <3>1, <3>2
  <2> QED
    BY <1>4, <1>6, <1>7, <1>8, <1>10, <2>1, <2>2 DEF VaultTypes
<1>11. CASE out = "broken"
  <2>1. vaultFile' = VaultOf(FALSE, <<>>, 1)
    BY <1>11 DEF Upsert, SaveVault
  <2>2. vaultFile'.entries = <<>> /\ vaultFile'.version = 1 /\ vaultFile'.whole = FALSE
    BY <2>1 DEF VaultOf
  <2>3. Kept \subseteq Held(entries)
    BY DEF Kept
  <2>4. Kept' = Held(entries')
    BY <2>2 DEF Kept
  <2>5. Fits(<<>>) /\ Held(<<>>) = {}
    BY PackVaultAssumption DEF Fits, Held, PackVaultAssumption
  <2>6. Fits(vaultFile'.entries) /\ Held(vaultFile'.entries) \subseteq Held(entries')
    BY <2>2, <2>5
  <2>7. Kept \subseteq Kept'
    BY <1>6, <2>3, <2>4
  <2>8. vaultFile'.whole \in BOOLEAN
    BY <2>2, Zenon
  <2>v. vaultFile'.version \in Nat \ {0}
    BY <2>2
  <2>9. a \in Kept'
    BY <1>6, <2>4
  <2> QED
    BY <1>4, <1>7, <1>8, <2>6, <2>7, <2>8, <2>v, <2>9
<1> QED
  BY <1>9, <1>10, <1>11 DEF SaveOutcomes

\* A pack entered or taken out, and the list saved, refused or broken off.
LEMMA ListSaved ==
  ASSUME VaultInv, NEW packs \in States, Saved(packs), SaveInstalled(packs),
         installed' = packs, job' = NoJob,
         UNCHANGED <<entries, version, vaultFile, emptied, pushed>>
  PROVE  VaultInv'
<1>1. PICK out \in SaveOutcomes :
        /\ out = "ok" \/ MayFail
        /\ installFile' = CASE out = "ok" -> packs [] out = "refused" -> installFile
                            [] out = "broken" -> NothingInstalled
        /\ pvFaults' = IF out = "ok" THEN pvFaults ELSE pvFaults + 1
  BY DEF SaveInstalled
<1>2. pvFaults' \in 0..MaxVaultFaults
  BY <1>1, PackVaultAssumption DEF VaultInv, VaultTypes, MayFail, PackVaultAssumption
<1>3. installFile' \in {packs, installFile, NothingInstalled}
  BY <1>1 DEF SaveOutcomes
<1>4. NothingInstalled \in States /\ Saved(NothingInstalled)
  BY DEF NothingInstalled, States, Saved
<1>5. installFile' \in States /\ Saved(installFile')
  BY <1>3, <1>4 DEF VaultInv, VaultTypes
<1>6. Kept' = Kept /\ emptied' = emptied
  BY DEF Kept
<1>7. Saved(installed)' /\ Saved(installFile)'
  BY <1>5, <1>6 DEF Saved
<1>8. VaultTypes' /\ JobInv'
  BY <1>2, <1>5 DEF VaultInv, VaultTypes, JobInv, Fits
<1> QED
  BY <1>7, <1>8 DEF VaultInv

LEMMA VaultInvNext == VaultInv /\ [PackVaultNext]_pvVars => VaultInv'
<1> SUFFICES ASSUME VaultInv, [PackVaultNext]_pvVars PROVE VaultInv'
  OBVIOUS
<1>1. CASE UNCHANGED pvVars
  BY <1>1 DEF pvVars, VaultInv, VaultTypes, JobInv, Saved, Kept, Fits
<1>2. ASSUME NEW a \in Anchors, SubmitLocal(a) PROVE VaultInv'
  <2>1. PICK out \in SaveOutcomes :
          Upsert(a, out) /\ pushed' \in {pushed, pushed \cup {a}}
    BY <1>2 DEF SubmitLocal
  <2>2. /\ Len(entries) < MaxEntries /\ a \in Trusted /\ job' = NoJob
        /\ UNCHANGED <<emptied, installed, installFile>>
    BY <1>2, PackVaultAssumption
       DEF SubmitLocal, NoJobRuns, VaultInv, VaultTypes, Fits, PackVaultAssumption
  <2>3. /\ Fits(entries)' /\ version' \in Nat \ {0}
        /\ vaultFile'.version \in Nat \ {0} /\ Fits(vaultFile'.entries)
        /\ vaultFile'.whole \in BOOLEAN
        /\ pvFaults' \in 0..MaxVaultFaults
        /\ Held(vaultFile'.entries) \subseteq Held(entries')
        /\ Kept \subseteq Kept'
    BY <2>1, <2>2, Upserted DEF VaultInv
  <2> QED
    BY <2>1, <2>2, <2>3 DEF VaultInv, VaultTypes, JobInv, Saved, Fits
<1>3. ASSUME NEW p \in Packs, Install(p) PROVE VaultInv'
  <2>1. PICK s \in PackAnchors(p) :
          /\ Len(entries) + Len(s) <= MaxEntries
          /\ job' = [kind |-> "install", pack |-> p, left |-> s, all |-> s]
          /\ UNCHANGED <<entries, version, vaultFile, emptied, installed, installFile, pushed, pvFaults>>
    BY <1>3 DEF Install
  <2>2. s \in Seq(Anchors)
    <3>1. CASE AnchorsOf[p] = <<>>
      <4>1. PICK f \in Places(p) : s = [i \in DOMAIN f |-> entries[f[i]].anchor]
        BY <2>1, <3>1 DEF PackAnchors
      <4>2. PICK n \in 0..Len(entries), ours \in SUBSET DOMAIN entries : f \in [1..n -> ours]
        BY <4>1 DEF Places
      <4>3. entries \in Seq(Entry)
        BY DEF VaultInv, VaultTypes, Fits
      <4>4. n \in Nat
        BY <4>2, <4>3
      <4>5. \A i \in 1..n : f[i] \in DOMAIN entries
        BY <4>2
      <4>6. \A i \in 1..n : entries[f[i]] \in Entry
        BY <4>3, <4>5
      <4>7. \A i \in 1..n : entries[f[i]].anchor \in Anchors
        BY <4>6 DEF Entry
      <4>8. s = [i \in 1..n |-> entries[f[i]].anchor]
        BY <4>1, <4>2
      <4>9. s \in [1..n -> Anchors]
        BY <4>7, <4>8, Zenon
      <4> QED
        BY <4>4, <4>9
    <3>2. CASE AnchorsOf[p] # <<>>
      BY <2>1, <3>2, PackVaultAssumption DEF PackAnchors, PackVaultAssumption
    <3> QED
      BY <3>1, <3>2
  <2>3. JobInv'
    BY <2>1, <2>2 DEF JobInv
  <2> QED
    BY <2>1, <2>3 DEF VaultInv, VaultTypes, Saved, Kept, Fits
<1>4. ASSUME NEW p \in Packs, Uninstall(p) PROVE VaultInv'
  <2>1. installed[p] \in Seq(Anchors)
    BY <1>4 DEF Uninstall, VaultInv, VaultTypes, States
  <2>2. JobInv'
    BY <1>4, <2>1 DEF Uninstall, JobInv
  <2>3. installed' \in States /\ Saved(installed')
    BY <1>4 DEF Uninstall, VaultInv, VaultTypes, States, Saved, Kept
  <2> QED
    BY <1>4, <2>2, <2>3 DEF Uninstall, VaultInv, VaultTypes, Saved, Kept, Fits
<1>5. CASE InstallAnchor
  <2>1. /\ job \in [kind : {"install"}, pack : Packs, left : Seq(Anchors), all : Seq(Anchors)]
        /\ Len(entries) + Len(job.left) <= MaxEntries
        /\ Range(job.all) \subseteq Range(job.left) \cup Kept
        /\ job.left # <<>>
    BY <1>5 DEF InstallAnchor, VaultInv, JobInv, NoJob
  <2>2. CASE Head(job.left) \notin Trusted
    BY <1>5, <2>2 DEF InstallAnchor, VaultInv, VaultTypes, JobInv, Saved, Kept, Fits
  <2>3. CASE Head(job.left) \in Trusted
    <3>1. PICK out \in SaveOutcomes :
            /\ Upsert(Head(job.left), out)
            /\ job' = IF out = "ok" THEN [job EXCEPT !.left = Tail(@)] ELSE NoJob
      BY <1>5, <2>3 DEF InstallAnchor
    <3>2. /\ Head(job.left) \in Anchors /\ Tail(job.left) \in Seq(Anchors)
          /\ Len(Tail(job.left)) = Len(job.left) - 1 /\ Len(job.left) \in Nat \ {0}
          /\ Range(job.left) \subseteq {Head(job.left)} \cup Range(Tail(job.left))
      <4>1. PICK s \in Seq(Anchors) : s = job.left /\ s # <<>>
        BY <2>1
      <4>2. \A i \in 1..Len(s) : i = 1 \/ (i - 1 \in 1..Len(Tail(s)) /\ s[i] = Tail(s)[i - 1])
        BY <4>1
      <4>3. ASSUME NEW x \in Range(s) PROVE x = Head(s) \/ x \in Range(Tail(s))
        <5>1. PICK i \in 1..Len(s) : x = s[i]
          BY DEF Range
        <5>2. CASE i = 1
          BY <4>1, <5>1, <5>2
        <5>3. CASE i - 1 \in 1..Len(Tail(s)) /\ s[i] = Tail(s)[i - 1]
          <6>1. Tail(s) \in Seq(Anchors)
            BY <4>1
          <6>2. PICK r \in Seq(Anchors) : r = Tail(s)
            BY <6>1
          <6>d. DOMAIN r = 1..Len(r)
            OBVIOUS
          <6>3. \A k \in 1..Len(r) : r[k] \in Range(r)
            BY <6>d DEF Range
          <6>4. i - 1 \in 1..Len(r) /\ x = r[i - 1]
            BY <5>1, <5>3, <6>2
          <6>5. x \in Range(r)
            BY <6>3, <6>4
          <6> QED
            BY <6>2, <6>5
        <5> QED
          BY <4>2, <5>2, <5>3
      <4>4. Range(s) \subseteq {Head(s)} \cup Range(Tail(s))
        BY <4>3
      <4> QED
        BY <4>1, <4>4
    <3>3. Len(entries) < MaxEntries /\ Len(entries) \in Nat
      BY <2>1, <3>2, PackVaultAssumption DEF VaultInv, VaultTypes, Fits, PackVaultAssumption
    <3>4. /\ Fits(entries)' /\ version' \in Nat \ {0} /\ Len(entries') = Len(entries) + 1
          /\ vaultFile'.version \in Nat \ {0} /\ Fits(vaultFile'.entries)
          /\ vaultFile'.whole \in BOOLEAN
          /\ pvFaults' \in 0..MaxVaultFaults
          /\ Held(vaultFile'.entries) \subseteq Held(entries')
          /\ Kept \subseteq Kept'
          /\ out = "ok" => Head(job.left) \in Kept'
      BY <3>1, <3>2, <3>3, Upserted DEF VaultInv
    <3>5. UNCHANGED <<emptied, installed, installFile, pushed>>
      BY <1>5 DEF InstallAnchor
    <3>6. JobInv'
      <4>1. CASE out # "ok"
        BY <3>1, <4>1 DEF JobInv
      <4>2. CASE out = "ok"
        <5>1. /\ job' = [job EXCEPT !.left = Tail(job.left)]
              /\ job' \in [kind : {"install"}, pack : Packs, left : Seq(Anchors), all : Seq(Anchors)]
              /\ job'.left = Tail(job.left) /\ job'.all = job.all
          BY <2>1, <3>1, <3>2, <4>2
        <5>2. Range(job'.all) \subseteq Range(job'.left) \cup Kept'
          BY <2>1, <3>2, <3>4, <4>2, <5>1
        <5>3. Len(entries') + Len(job'.left) <= MaxEntries
          BY <2>1, <3>2, <3>3, <3>4, <5>1
        <5> QED
          BY <5>1, <5>2, <5>3 DEF JobInv
      <4> QED
        BY <4>1, <4>2
    <3> QED
      BY <3>4, <3>5, <3>6 DEF VaultInv, VaultTypes, Saved, Fits
  <2> QED
    BY <2>2, <2>3
<1>6. CASE InstallDone
  <2>1. /\ job.pack \in Packs /\ job.all \in Seq(Anchors)
        /\ Range(job.all) \subseteq Kept
    BY <1>6 DEF InstallDone, VaultInv, JobInv, NoJob, Range
  <2>2. PICK packs : packs = [installed EXCEPT ![job.pack] = job.all]
    OBVIOUS
  <2>3. packs \in States /\ Saved(packs)
    BY <2>1, <2>2 DEF VaultInv, VaultTypes, States, Saved
  <2>4. /\ installed' = packs /\ SaveInstalled(packs) /\ job' = NoJob
        /\ UNCHANGED <<entries, version, vaultFile, emptied, pushed>>
    BY <1>6, <2>2 DEF InstallDone
  <2> QED
    BY <2>3, <2>4, ListSaved
<1>7. CASE UninstallAnchor
  <2>1. /\ job \in [kind : {"uninstall"}, pack : Packs, left : Seq(Anchors), all : Seq(Anchors)]
        /\ job.left # <<>>
    BY <1>7 DEF UninstallAnchor, VaultInv, JobInv, NoJob
  <2>2. \A i, k \in DOMAIN entries : entries[k].ref # entries[i].key
    BY RefIsNoKey DEF VaultInv, VaultTypes, Fits
  <2>3. /\ job' = [job EXCEPT !.left = Tail(@)]
        /\ UNCHANGED <<entries, version, vaultFile, emptied, installed, installFile, pushed, pvFaults>>
    BY <1>7, <2>2 DEF UninstallAnchor, RemovedKey
  <2>4. Tail(job.left) \in Seq(Anchors)
    BY <2>1
  <2>5. JobInv'
    BY <2>1, <2>3, <2>4 DEF JobInv
  <2> QED
    BY <2>3, <2>5 DEF VaultInv, VaultTypes, Saved, Kept, Fits
<1>8. CASE UninstallDone
  <2>1. /\ installed' = installed /\ SaveInstalled(installed) /\ job' = NoJob
        /\ UNCHANGED <<entries, version, vaultFile, emptied, pushed>>
    BY <1>8 DEF UninstallDone
  <2>2. installed \in States /\ Saved(installed)
    BY DEF VaultInv, VaultTypes
  <2> QED
    BY <2>1, <2>2, ListSaved
<1>9. CASE RestartVault
  <2>1. pvFaults' \in 0..MaxVaultFaults
    BY <1>9, PackVaultAssumption DEF RestartVault, MayFail, VaultInv, VaultTypes, PackVaultAssumption
  <2>2. /\ entries' = vaultFile.entries /\ version' = vaultFile.version
        /\ emptied' = (emptied \/ ~vaultFile.whole) /\ installed' = installFile
        /\ job' = NoJob /\ UNCHANGED <<vaultFile, installFile, pushed>>
    BY <1>9 DEF RestartVault
  <2>3. emptied' \in BOOLEAN
    BY <2>2
  <2>4. Saved(installFile)'
    <3>1. CASE emptied \/ ~vaultFile.whole
      BY <2>2, <3>1 DEF Saved
    <3>2. CASE ~emptied /\ vaultFile.whole
      <4>1. Kept' = Kept
        BY <2>2, <3>2 DEF Kept
      <4> QED
        BY <2>2, <3>2, <4>1 DEF Saved, VaultInv
    <3> QED
      BY <3>1, <3>2
  <2>5. Saved(installed)'
    BY <2>2, <2>4 DEF Saved
  <2>6. VaultTypes' /\ JobInv' /\ Held(vaultFile'.entries) \subseteq Held(entries')
    BY <2>1, <2>2, <2>3 DEF VaultInv, VaultTypes, JobInv, Fits
  <2> QED
    BY <2>4, <2>5, <2>6 DEF VaultInv
<1> QED
  BY <1>1, <1>2, <1>3, <1>4, <1>5, <1>6, <1>7, <1>8, <1>9 DEF PackVaultNext

LEMMA VaultInvInit == PackVaultInit => VaultInv
<1> SUFFICES ASSUME PackVaultInit PROVE VaultInv
  OBVIOUS
<1>1. Fits(<<>>)
  BY PackVaultAssumption DEF Fits, PackVaultAssumption
<1>2. NothingInstalled \in States
  BY DEF NothingInstalled, States
<1>3. pvFaults \in 0..MaxVaultFaults
  BY PackVaultAssumption DEF PackVaultInit, PackVaultAssumption
<1>4. vaultFile.whole = TRUE /\ vaultFile.entries = <<>> /\ vaultFile.version = 1
  BY DEF PackVaultInit, VaultOf
<1>w. vaultFile.whole \in BOOLEAN
  BY <1>4, Zenon
<1>e. emptied \in BOOLEAN
  BY Zenon DEF PackVaultInit
<1>f. Fits(entries) /\ Fits(vaultFile.entries) /\ installed \in States /\ installFile \in States
  BY <1>1, <1>2, <1>4 DEF PackVaultInit
<1>g. version \in Nat \ {0} /\ pushed \subseteq Trusted
  BY DEF PackVaultInit
<1>h. vaultFile.version \in Nat \ {0}
  BY <1>4
<1>5. VaultTypes
  BY <1>3, <1>h, <1>w, <1>e, <1>f, <1>g DEF VaultTypes
<1>6. Saved(NothingInstalled)
  BY DEF Saved, NothingInstalled
<1>7. JobInv /\ entries = vaultFile.entries
  BY <1>4 DEF PackVaultInit, JobInv
<1>8. Saved(installed) /\ Saved(installFile)
  BY <1>6 DEF PackVaultInit
<1> QED
  BY <1>5, <1>7, <1>8 DEF VaultInv

\* Every reachable state of the vault and its packs is well typed.
THEOREM VaultTypeCorrect == PackVaultSpec => []PackVaultTypeOK
<1>1. VaultInv => PackVaultTypeOK
  BY DEF VaultInv, VaultTypes, JobInv, PackVaultTypeOK, NoJob, States, Fits
<1> QED
  BY <1>1, VaultInvInit, VaultInvNext, PTL DEF PackVaultSpec

\* What counts as installed is in the vault, in memory and in the two files (pack.rs,
\* install(): every anchor is saved before the pack is entered), until a start takes a broken
\* vault file for an empty vault.
THEOREM InstalledPresent == PackVaultSpec => []InstalledIsPresent
<1>1. VaultInv => InstalledIsPresent
  <2> SUFFICES ASSUME VaultInv, ~emptied PROVE InstalledIsPresent
    BY DEF InstalledIsPresent
  <2>1. Kept \subseteq Held(entries)
    BY DEF Kept, VaultInv
  <2> QED
    BY <2>1 DEF VaultInv, Saved, Kept, InstalledIsPresent
<1> QED
  BY <1>1, VaultInvInit, VaultInvNext, PTL DEF PackVaultSpec

-----------------------------------------------------------------------------
(* The local account.                                                      *)

IsAccount(a) == a = [x \in {"name", "lock", "native", "addr"} |-> a[x]]

Records ==
    /\ \A a \in accounts : IsAccount(a)
    /\ users # Broken => \A a \in users : IsAccount(a)

\* One name for the device: the file has held no name that memory does not know, and what it
\* holds now, if it can be read, still has it.
OneName ==
    /\ \A a, b \in accounts : a.name = b.name
    /\ accounts = {} => users \in {{}, Broken} /\ named = {}
    /\ \A n \in named : \E a \in accounts : n = a.name
    /\ users # Broken => /\ \A a \in users : \E b \in accounts : a.name = b.name
                         /\ \A n \in named : \E a \in users : n = a.name

AccountInv == Records /\ lost \in BOOLEAN /\ (~lost => OneName)

LEMMA UsersWritten ==
  ASSUME NEW v, WriteUsers(v)
  PROVE  users' \in {v, users, Broken} /\ named' = named \cup NamesIn(users')
<1>1. PICK w \in Writes(users, v, Broken) : users' = w.file /\ named' = named \cup NamesIn(w.file)
  BY DEF WriteUsers
<1>2. w.file \in {v, users, Broken}
  BY DEF Writes
<1> QED
  BY <1>1, <1>2

\* Nothing of the account changes.
LEMMA AccountKept ==
  ASSUME AccountInv, UNCHANGED <<users, accounts, named, lost>>
  PROVE  AccountInv'
  BY DEF AccountInv, Records, OneName, IsAccount

\* The accounts in memory are saved, or others with the names of the file.
LEMMA AccountSaved ==
  ASSUME AccountInv, UNCHANGED <<accounts, lost>>, NEW v, WriteUsers(v),
         \A a \in v : IsAccount(a),
         v = accounts \/ /\ users # Broken
                         /\ \A a \in v : \E b \in users : a.name = b.name
                         /\ \A b \in users : \E a \in v : a.name = b.name
  PROVE  AccountInv'
<1>1. users' \in {v, users, Broken} /\ named' = named \cup NamesIn(users')
  BY UsersWritten
<1>2. Records'
  BY <1>1 DEF AccountInv, Records, IsAccount
<1>3. ASSUME ~lost PROVE OneName'
  <2>1. OneName
    BY <1>3 DEF AccountInv
  <2>2. CASE users' = Broken
    BY <2>1, <2>2, <1>1 DEF OneName, NamesIn
  <2>3. CASE users' = users /\ users # Broken
    BY <2>1, <2>3, <1>1 DEF OneName, NamesIn
  <2>4. CASE users' = v /\ v # Broken
    <3>1. named' = named \cup {a.name : a \in v}
      BY <2>4, <1>1 DEF NamesIn
    <3>2. \A a \in v : \E b \in accounts : a.name = b.name
      BY <2>1 DEF OneName
    <3>3. \A n \in named : \E a \in v : n = a.name
      BY <2>1 DEF OneName
    <3>4. accounts = {} => v = {} /\ named = {}
      BY <2>1, <3>2 DEF OneName
    <3>5. \A n \in named' : \E a \in v : n = a.name
      BY <3>1, <3>3
    <3>6. \A n \in named' : \E a \in accounts : n = a.name
      BY <3>2, <3>5
    <3>7. accounts = {} => named' = {}
      BY <3>1, <3>4
    <3> QED
      BY <2>1, <2>4, <3>2, <3>4, <3>5, <3>6, <3>7 DEF OneName
  <2> QED
    BY <1>1, <2>2, <2>3, <2>4
<1> QED
  BY <1>2, <1>3 DEF AccountInv

LEMMA AccountInvNext == AccountInv /\ [BindingNext]_abVars => AccountInv'
<1> SUFFICES ASSUME AccountInv, [BindingNext]_abVars PROVE AccountInv'
  OBVIOUS
<1>1. CASE UNCHANGED abVars
  BY <1>1, AccountKept DEF abVars
<1>2. ASSUME NEW u \in Names, Register(u) PROVE AccountInv'
  <2>1. PICK a : /\ a = [name |-> u, lock |-> Lock(u, Address), native |-> Capable, addr |-> Address]
                 /\ accounts = {} /\ accounts' = {a} /\ WriteUsers(accounts') /\ lost' = lost
    BY <1>2 DEF Register
  <2>2. users' \in {{a}, users, Broken} /\ named' = named \cup NamesIn(users')
    BY <2>1, UsersWritten
  <2>3. IsAccount(a) /\ a.name = u
    BY <2>1 DEF IsAccount
  <2>4. Records'
    BY <2>1, <2>2, <2>3 DEF AccountInv, Records, IsAccount
  <2>5. ASSUME ~lost PROVE OneName'
    <3>1. users \in {{}, Broken} /\ named = {}
      BY <2>1, <2>5 DEF AccountInv, OneName
    <3>2. CASE users' = Broken
      BY <2>1, <2>2, <3>1, <3>2 DEF OneName, NamesIn
    <3>3. CASE users' # Broken /\ users' = {}
      BY <2>1, <2>2, <3>1, <3>3 DEF OneName, NamesIn
    <3>4. CASE users' # Broken /\ users' = {a}
      <4>1. named' = {u}
        BY <2>2, <2>3, <3>1, <3>4 DEF NamesIn
      <4> QED
        BY <2>1, <2>3, <3>4, <4>1 DEF OneName
    <3> QED
      BY <2>2, <3>1, <3>2, <3>3, <3>4
  <2> QED
    BY <2>1, <2>4, <2>5 DEF AccountInv
<1>3. ASSUME NEW a \in accounts, Login(a) PROVE AccountInv'
  BY <1>3, AccountKept DEF Login
<1>4. CASE SyncClaim
  BY <1>4, AccountKept DEF SyncClaim
<1>5. CASE SyncDone
  BY <1>5, AccountKept DEF SyncDone
<1>6. CASE SaveSetting
  <2>1. \A a \in accounts : IsAccount(a)
    BY DEF AccountInv, Records
  <2> QED
    BY <1>6, <2>1, AccountSaved DEF SaveSetting
<1>7. CASE RestartShell
  <2>1. /\ accounts' = IF users = Broken THEN {} ELSE users
        /\ users' = users /\ named' = named
        /\ lost' = (lost \/ users = Broken)
    BY <1>7 DEF RestartShell
  <2>b. lost \in BOOLEAN /\ lost' \in BOOLEAN
    BY <2>1 DEF AccountInv
  <2>2. Records'
    BY <2>1 DEF AccountInv, Records, IsAccount
  <2>3. ASSUME ~lost' PROVE OneName'
    <3>1. ~lost /\ users # Broken
      BY <2>1, <2>3
    <3> QED
      BY <2>1, <3>1 DEF AccountInv, OneName
  <2> QED
    BY <2>2, <2>b, <2>3 DEF AccountInv
<1>8. CASE StartPy
  BY <1>8, AccountKept DEF StartPy, StarterGoes
<1>9. CASE CopyNode
  BY <1>9, AccountKept DEF CopyNode, StarterGoes
<1>10. CASE ReadMetadata
  BY <1>10, AccountKept DEF ReadMetadata, StarterGoes
<1>11. CASE WriteMetadata
  BY <1>11, AccountKept DEF WriteMetadata, StarterGoes
<1>12. CASE WriteAccount
  <2>1. UNCHANGED <<accounts, lost>>
    BY <1>12 DEF WriteAccount, StarterGoes
  <2>2. CASE UNCHANGED <<users, named>>
    BY <2>1, <2>2, AccountKept
  <2>3. CASE ~UNCHANGED <<users, named>>
    <3>1. PICK v : /\ v = {[a EXCEPT !.lock = starter.claim.lock, !.native = starter.claim.native,
                                     !.addr = starter.claim.addr] : a \in users}
                   /\ users # Broken /\ WriteUsers(v)
      BY <1>12, <2>3 DEF WriteAccount
    <3>2. \A a \in users : IsAccount(a)
      BY <3>1 DEF AccountInv, Records
    <3>3. ASSUME NEW a \in users, NEW b,
                 b = [a EXCEPT !.lock = starter.claim.lock, !.native = starter.claim.native,
                               !.addr = starter.claim.addr]
          PROVE  IsAccount(b) /\ b.name = a.name
      BY <3>2, <3>3 DEF IsAccount
    <3>4. /\ \A a \in v : IsAccount(a) /\ \E b \in users : a.name = b.name
          /\ \A b \in users : \E a \in v : a.name = b.name
      <4>1. ASSUME NEW b \in v PROVE IsAccount(b) /\ \E a \in users : b.name = a.name
        <5>1. PICK a \in users :
                b = [a EXCEPT !.lock = starter.claim.lock, !.native = starter.claim.native,
                              !.addr = starter.claim.addr]
          BY <3>1
        <5> QED
          BY <5>1, <3>3
      <4>2. ASSUME NEW a \in users PROVE \E b \in v : b.name = a.name
        <5>1. PICK b \in v :
                b = [a EXCEPT !.lock = starter.claim.lock, !.native = starter.claim.native,
                              !.addr = starter.claim.addr]
          BY <3>1
        <5> QED
          BY <5>1, <3>3
      <4> QED
        BY <4>1, <4>2
    <3> QED
      BY <2>1, <3>1, <3>4, AccountSaved
  <2> QED
    BY <2>2, <2>3
<1> QED
  BY <1>1, <1>2, <1>3, <1>4, <1>5, <1>6, <1>7, <1>8, <1>9, <1>10, <1>11, <1>12 DEF BindingNext

\* users.json names a second account only after the shell has been started on a file it could
\* not read (auth.rs, register(): one account for each device).
THEOREM OneAccount == BindingSpec => []AccountStays
<1>1. BindingInit => AccountInv
  BY DEF BindingInit, AccountInv, Records, OneName
<1>2. ASSUME AccountInv, ~lost PROVE ~(Cardinality(named) > 1)
  <2>1. \A m, n \in named : m = n
    BY <1>2 DEF AccountInv, OneName
  <2>2. CASE named = {}
    BY <2>2, FS_EmptySet
  <2>3. CASE named # {}
    <3>1. PICK n : named = {n}
      BY <2>1, <2>3
    <3>2. Cardinality(named) = 1
      BY <3>1, FS_Singleton
    <3> QED
      BY <3>2
  <2> QED
    BY <2>2, <2>3
<1>3. AccountInv => AccountStays
  BY <1>2 DEF AccountStays
<1> QED
  BY <1>1, <1>3, AccountInvNext, PTL DEF BindingSpec

-----------------------------------------------------------------------------
(* The account and the session guard.                                      *)

\* The files the shell, and start.py, have still to write.
Lefts == {<<"node", "copy", "settings">>, <<"copy", "settings">>, <<"settings">>, <<>>}
Rests == {<<"settings", "node", "copy">>, <<"node", "copy">>, <<"copy">>, <<>>}
StepTypes ==
    /\ \/ sync = NotSyncing
       \/ sync \in [kind : {"login", "register"}, name : Names, addr : BOOLEAN, left : Lefts]
    /\ \/ starter \in [at : {"off", "reads"}]
       \/ starter \in [at : {"copies"}, node : Claims]
       \/ starter \in [at : {"writes"}, bound : NameSets, claim : Claims, kept : NameSets,
                       left : Rests]

LEMMA LeftsShrink ==
  /\ \A s \in Lefts : s # <<>> =>
        /\ Head(s) \in Files /\ Tail(s) \in Lefts
        /\ Files \ ToSet(Tail(s)) \subseteq (Files \ ToSet(s)) \cup {Head(s)}
  /\ Files \ ToSet(<<"node", "copy", "settings">>) = {}
  /\ Files \ ToSet(<< >>) = Files
<1>1. /\ ToSet(<<"node", "copy", "settings">>) = {"node", "copy", "settings"}
      /\ ToSet(<<"copy", "settings">>) = {"copy", "settings"}
      /\ ToSet(<<"settings">>) = {"settings"} /\ ToSet(<< >>) = {}
  BY DEF ToSet
<1>2. /\ Head(<<"node", "copy", "settings">>) = "node"
      /\ Tail(<<"node", "copy", "settings">>) = <<"copy", "settings">>
      /\ Head(<<"copy", "settings">>) = "copy" /\ Tail(<<"copy", "settings">>) = <<"settings">>
      /\ Head(<<"settings">>) = "settings" /\ Tail(<<"settings">>) = << >>
  OBVIOUS
<1>3. ASSUME NEW s \in Lefts, s # <<>>
      PROVE  /\ Head(s) \in Files /\ Tail(s) \in Lefts
             /\ Files \ ToSet(Tail(s)) \subseteq (Files \ ToSet(s)) \cup {Head(s)}
  <2>1. CASE s = <<"node", "copy", "settings">>
    BY <1>1, <1>2, <2>1 DEF Lefts, Files
  <2>2. CASE s = <<"copy", "settings">>
    BY <1>1, <1>2, <2>2 DEF Lefts, Files
  <2>3. CASE s = <<"settings">>
    BY <1>1, <1>2, <2>3 DEF Lefts, Files
  <2> QED
    BY <1>3, <2>1, <2>2, <2>3 DEF Lefts
<1> QED
  BY <1>1, <1>3 DEF Files

LEMMA RestsShrink == \A s \in Rests : s # <<>> => Head(s) \in Files /\ Tail(s) \in Rests
<1>2. /\ Head(<<"settings", "node", "copy">>) = "settings"
      /\ Tail(<<"settings", "node", "copy">>) = <<"node", "copy">>
      /\ Head(<<"node", "copy">>) = "node" /\ Tail(<<"node", "copy">>) = <<"copy">>
      /\ Head(<<"copy">>) = "copy" /\ Tail(<<"copy">>) = << >>
  OBVIOUS
<1> QED
  BY <1>2 DEF Rests, Files

\* A write is whole, or it fails.
LEMMA WriteOutcomes ==
  ASSUME NEW old, NEW v, NEW empty, NEW w \in Writes(old, v, empty)
  PROVE  \/ w.ok = TRUE /\ w.file = v
         \/ w.ok = FALSE /\ MayBreak /\ w.file \in {old, empty, Broken}
<1>1. CASE w = [file |-> v, ok |-> TRUE]
  BY <1>1
<1>2. CASE w \in {[file |-> x, ok |-> FALSE] : x \in {old, empty, Broken}} /\ MayBreak
  BY <1>2
<1> QED
  BY <1>1, <1>2 DEF Writes

\* A claim is written, or the write fails and the file is another one of its kind.
LEMMA ClaimWritten ==
  ASSUME BindingTypeOK, NEW f \in Files, NEW v \in Claims, WriteClaim(f, v)
  PROVE  /\ claims' \in [Files -> Claims \cup {Broken}]
         /\ abFaults' \in 0..MaxBindingFaults
         /\ \A g \in Files \ {f} : claims'[g] = claims[g]
         /\ abFaults' = abFaults => claims'[f] = v
<1>1. PICK w \in Writes(claims[f], v, NoClaim) : claims' = [claims EXCEPT ![f] = w.file] /\ Faulty(w)
  BY DEF WriteClaim
<1>2. NoClaim \in Claims
  BY DEF NoClaim, NoLock, Claims, Locks, NameSets
<1>o. claims[f] \in Claims \cup {Broken}
  BY DEF BindingTypeOK
<1>w. \/ w.ok = TRUE /\ w.file = v
      \/ w.ok = FALSE /\ MayBreak /\ w.file \in {claims[f], NoClaim, Broken}
  BY <1>1, WriteOutcomes
<1>3. /\ w.file \in Claims \cup {Broken} /\ w.ok \in BOOLEAN
      /\ w.ok => w.file = v
      /\ ~w.ok => MayBreak
  BY <1>o, <1>w, <1>2
<1>4. abFaults' \in 0..MaxBindingFaults /\ (abFaults' = abFaults => w.ok)
  BY <1>1, <1>3, AccountBindingAssumption
     DEF Faulty, MayBreak, BindingTypeOK, AccountBindingAssumption
<1> QED
  BY <1>1, <1>3, <1>4 DEF BindingTypeOK

\* There is at most one account.
Single(S) == \A a, b \in S : a = b

\* The accounts are written, or the write fails.
LEMMA UsersTyped ==
  ASSUME BindingTypeOK, users # Broken => Single(users),
         NEW v, v \subseteq LocalAccount, Single(v), WriteUsers(v)
  PROVE  /\ users' = Broken \/ users' \subseteq LocalAccount
         /\ users' # Broken => Single(users')
         /\ named' \subseteq Names /\ abFaults' \in 0..MaxBindingFaults
<1>1. users' \in {v, users, Broken} /\ named' = named \cup NamesIn(users')
  BY UsersWritten
<1>2. users' = Broken \/ users' \subseteq LocalAccount
  BY <1>1 DEF BindingTypeOK
<1>s. users' # Broken => Single(users')
  BY <1>1
<1>3. NamesIn(users') \subseteq Names
  BY <1>2 DEF NamesIn, LocalAccount
<1>4. abFaults' \in 0..MaxBindingFaults
  <2>1. PICK w \in Writes(users, v, Broken) : Faulty(w)
    BY DEF WriteUsers
  <2>2. w.ok \in BOOLEAN /\ (~w.ok => MayBreak)
    BY <2>1, WriteOutcomes
  <2> QED
    BY <2>1, <2>2, AccountBindingAssumption
       DEF Faulty, MayBreak, BindingTypeOK, AccountBindingAssumption
<1> QED
  BY <1>1, <1>2, <1>s, <1>3, <1>4 DEF BindingTypeOK

\* What is read off the files has its type.
LEMMA ReadTypes ==
  ASSUME BindingTypeOK
  PROVE  /\ Capable \in BOOLEAN
         /\ Identity => claims["node"] \in Claims /\ Address \in BOOLEAN
         /\ \A u \in Names, addr \in BOOLEAN : Lock(u, addr) \in Locks
         /\ \A addr \in BOOLEAN : Native(addr) \in BOOLEAN
         /\ \A n \in NameSets, addr \in BOOLEAN : PyLock(n, addr) \in Locks
<1>1. Capable \in BOOLEAN
  BY DEF Capable
<1>2. Identity => claims["node"] \in Claims /\ Address \in BOOLEAN
  BY DEF Identity, Address, BindingTypeOK, Files, Claims
<1>3. \A u \in Names, addr \in BOOLEAN : Lock(u, addr) \in Locks
  BY DEF Lock, Locks, NoLock
<1>4. \A addr \in BOOLEAN : Native(addr) \in BOOLEAN
  BY <1>1 DEF Native
<1>5. ASSUME NEW n \in NameSets, NEW addr \in BOOLEAN PROVE PyLock(n, addr) \in Locks
  <2>1. CASE n = {}
    BY <2>1 DEF PyLock, Locks, NoLock
  <2>2. CASE n # {}
    <3>1. (CHOOSE u \in n : TRUE) \in Names
      BY <2>2 DEF NameSets
    <3> QED
      BY <3>1 DEF PyLock, Locks, NoLock
  <2> QED
    BY <2>1, <2>2
<1> QED
  BY <1>1, <1>2, <1>3, <1>4, <1>5

BindingTypes ==
    /\ BindingTypeOK /\ StepTypes
    /\ Single(accounts) /\ (users # Broken => Single(users))

\* What the shell writes into a claim is one.
LEMMA ClaimOfTyped ==
  ASSUME BindingTypeOK, NEW c \in Claims, NEW u \in Names, NEW addr \in BOOLEAN, NEW f \in Files
  PROVE  ClaimOf(c, u, addr, f) \in Claims
<1>1. Capable \in BOOLEAN /\ Lock(u, addr) \in Locks /\ {u} \in NameSets
  BY ReadTypes DEF NameSets
<1>2. c.lock \in Locks /\ c.addr \in BOOLEAN
  BY DEF Claims
<1>3. (f # "settings" /\ (c.addr \/ addr)) \in BOOLEAN
  BY <1>2
<1> QED
  BY <1>1, <1>2, <1>3 DEF ClaimOf, Claims

LEMMA BindingTypesInit == BindingInit => BindingTypes
<1> SUFFICES ASSUME BindingInit PROVE BindingTypes
  OBVIOUS
<1>1. Bootstrapped \in Claims
  BY DEF Bootstrapped, NoClaim, NoLock, Claims, Locks, NameSets
<1>e. /\ claims \in [Files -> Claims \cup {Broken}] /\ {} \in NameSets
      /\ 0 \in 0..MaxBindingFaults
  BY <1>1, AccountBindingAssumption DEF BindingInit, AccountBindingAssumption, NameSets
<1>2. BindingTypeOK
  BY <1>e DEF BindingInit, BindingTypeOK
<1>3. StepTypes
  BY DEF BindingInit, StepTypes
<1> QED
  BY <1>2, <1>3 DEF BindingInit, BindingTypes, Single

LEMMA BindingTypesNext == BindingTypes /\ [BindingNext]_abVars => BindingTypes'
<1> SUFFICES ASSUME BindingTypes, [BindingNext]_abVars PROVE BindingTypes'
  OBVIOUS
<1> USE DEF BindingTypes
<1>1. CASE UNCHANGED abVars
  BY <1>1 DEF abVars, BindingTypeOK, StepTypes
<1>2. ASSUME NEW u \in Names, Register(u) PROVE BindingTypes'
  <2>1. PICK a : a = [name |-> u, lock |-> Lock(u, Address), native |-> Capable, addr |-> Address]
    OBVIOUS
  <2>2. a \in LocalAccount /\ Address \in BOOLEAN
    BY <1>2, <2>1, ReadTypes DEF Register, LocalAccount
  <2>3. /\ accounts' = {a} /\ WriteUsers({a}) /\ signedIn' = {} /\ intact' = FALSE
        /\ UNCHANGED <<claims, starter, lost>>
        /\ \/ sync' = NotSyncing
           \/ sync' = [kind |-> "register", name |-> u, addr |-> Address,
                       left |-> <<"node", "copy", "settings">>]
    BY <1>2, <2>1 DEF Register
  <2>s. {a} \subseteq LocalAccount /\ Single({a})
    BY <2>2 DEF Single
  <2>4. /\ users' = Broken \/ users' \subseteq LocalAccount
        /\ users' # Broken => Single(users')
        /\ named' \subseteq Names /\ abFaults' \in 0..MaxBindingFaults
    BY <2>s, <2>3, UsersTyped
  <2>5. StepTypes'
    BY <2>2, <2>3 DEF StepTypes, Lefts
  <2>6. BindingTypeOK'
    BY <2>s, <2>3, <2>4 DEF BindingTypeOK, NameSets
  <2>7. Single(accounts')
    BY <2>s, <2>3
  <2> QED
    BY <2>4, <2>5, <2>6, <2>7 DEF Single
<1>3. ASSUME NEW a \in accounts, Login(a) PROVE BindingTypes'
  <2>1. a.name \in Names /\ Address \in BOOLEAN
    BY <1>3, ReadTypes DEF Login, BindingTypeOK, LocalAccount
  <2>2. StepTypes'
    BY <1>3, <2>1 DEF Login, StepTypes, Lefts
  <2> QED
    BY <1>3, <2>2 DEF Login, BindingTypeOK, NameSets
<1>4. CASE SyncClaim
  <2>1. /\ sync \in [kind : {"login", "register"}, name : Names, addr : BOOLEAN, left : Lefts]
        /\ sync.left # <<>>
    BY <1>4 DEF SyncClaim, StepTypes, NotSyncing
  <2>2. Head(sync.left) \in Files /\ Tail(sync.left) \in Lefts
    BY <2>1, LeftsShrink
  <2>3. CASE claims[Head(sync.left)] = Broken
    BY <1>4, <2>3 DEF SyncClaim, BindingTypeOK, StepTypes
  <2>4. CASE claims[Head(sync.left)] # Broken
    <3>1. PICK f \in Files : f = Head(sync.left)
      BY <2>2
    <3>2. claims[f] \in Claims
      BY <2>4, <3>1 DEF BindingTypeOK
    <3>3. PICK v \in Claims : v = ClaimOf(claims[f], sync.name, sync.addr, f)
      BY <2>1, <3>2, ClaimOfTyped
    <3>4. /\ WriteClaim(f, v)
          /\ sync' = IF abFaults' = abFaults THEN [sync EXCEPT !.left = Tail(@)] ELSE NotSyncing
          /\ UNCHANGED <<users, accounts, signedIn, starter, named, lost, intact>>
      BY <1>4, <2>4, <3>1, <3>3 DEF SyncClaim
    <3>5. /\ claims' \in [Files -> Claims \cup {Broken}]
          /\ abFaults' \in 0..MaxBindingFaults
      BY <3>4, ClaimWritten
    <3>6. StepTypes'
      BY <2>1, <2>2, <3>4 DEF StepTypes
    <3> QED
      BY <3>4, <3>5, <3>6 DEF BindingTypeOK
  <2> QED
    BY <2>3, <2>4
<1>5. CASE SyncDone
  <2>1. sync \in [kind : {"login", "register"}, name : Names, addr : BOOLEAN, left : Lefts]
    BY <1>5 DEF SyncDone, StepTypes, NotSyncing
  <2>2. CASE sync.kind = "login"
    BY <1>5, <2>1, <2>2 DEF SyncDone, BindingTypeOK, StepTypes, NameSets
  <2>3. CASE sync.kind = "register"
    <3>1. \/ sync' = NotSyncing
          \/ /\ Identity
             /\ sync' = [kind |-> "login", name |-> sync.name, addr |-> Address,
                         left |-> <<"node", "copy", "settings">>]
      BY <1>5, <2>3 DEF SyncDone
    <3>2. StepTypes'
      BY <1>5, <2>1, <3>1, ReadTypes DEF SyncDone, StepTypes, Lefts
    <3> QED
      BY <1>5, <2>3, <3>2 DEF SyncDone, BindingTypeOK
  <2> QED
    BY <2>1, <2>2, <2>3
<1>6. CASE SaveSetting
  <2>1. /\ users' = Broken \/ users' \subseteq LocalAccount
        /\ users' # Broken => Single(users')
        /\ named' \subseteq Names /\ abFaults' \in 0..MaxBindingFaults
    BY <1>6, UsersTyped DEF SaveSetting, BindingTypeOK
  <2>2. BindingTypeOK'
    BY <1>6, <2>1 DEF SaveSetting, BindingTypeOK
  <2>3. StepTypes'
    BY <1>6 DEF SaveSetting, StepTypes
  <2> QED
    BY <1>6, <2>1, <2>2, <2>3 DEF SaveSetting, Single
<1>7. CASE RestartShell
  <2>1. abFaults' \in 0..MaxBindingFaults
    BY <1>7, AccountBindingAssumption
       DEF RestartShell, BindingTypeOK, MayBreak, AccountBindingAssumption
  <2>2. accounts' \subseteq LocalAccount /\ lost' \in BOOLEAN
    BY <1>7 DEF RestartShell, BindingTypeOK
  <2>3. BindingTypeOK'
    BY <1>7, <2>1, <2>2 DEF RestartShell, BindingTypeOK, NameSets
  <2>4. StepTypes'
    BY <1>7 DEF RestartShell, StepTypes
  <2>5. Single(accounts') /\ (users' # Broken => Single(users'))
    BY <1>7 DEF RestartShell, Single
  <2> QED
    BY <2>3, <2>4, <2>5 DEF Single
<1>8. CASE StartPy
  <2>1. CASE UNCHANGED <<claims, abFaults>> /\ starter' = [at |-> "reads"]
    BY <1>8, <2>1 DEF StartPy, StarterGoes, BindingTypeOK, StepTypes
  <2>2. CASE ~(UNCHANGED <<claims, abFaults>> /\ starter' = [at |-> "reads"])
    <3>1. PICK v : v = [claims["node"] EXCEPT !.addr = TRUE]
      OBVIOUS
    <3>2. /\ Identity /\ WriteClaim("node", v)
          /\ starter' \in {[at |-> "copies", node |-> v], [at |-> "off"]}
          /\ UNCHANGED <<users, accounts, sync, signedIn, named, lost>> /\ intact' = FALSE
      BY <1>8, <2>2, <3>1 DEF StartPy, StarterGoes
    <3>3. v \in Claims
      BY <3>1, <3>2, ReadTypes DEF Claims
    <3>4. /\ claims' \in [Files -> Claims \cup {Broken}]
          /\ abFaults' \in 0..MaxBindingFaults
      BY <3>2, <3>3, ClaimWritten DEF Files
    <3>5. StepTypes'
      BY <3>2, <3>3 DEF StepTypes
    <3> QED
      BY <3>2, <3>4, <3>5 DEF BindingTypeOK
  <2> QED
    BY <2>1, <2>2
<1>9. CASE CopyNode
  <2>1. starter.node \in Claims
    BY <1>9 DEF CopyNode, StepTypes
  <2>2. /\ claims' \in [Files -> Claims \cup {Broken}]
        /\ abFaults' \in 0..MaxBindingFaults
    BY <1>9, <2>1, ClaimWritten DEF CopyNode, Files
  <2>3. StepTypes'
    BY <1>9 DEF CopyNode, StarterGoes, StepTypes
  <2> QED
    BY <1>9, <2>2, <2>3 DEF CopyNode, StarterGoes, BindingTypeOK
<1>10. CASE ReadMetadata
  <2>1. CASE starter' = [at |-> "off"]
    BY <1>10, <2>1 DEF ReadMetadata, StarterGoes, BindingTypeOK, StepTypes
  <2>2. CASE starter' # [at |-> "off"]
    <3>1. PICK bound, name, kept :
            /\ bound = IF users # Broken /\ Cardinality(users) = 1 THEN NamesIn(users) ELSE {}
            /\ name = IF claims["node"].name # {} THEN claims["node"].name ELSE bound
            /\ kept = IF claims["settings"] = Broken THEN {} ELSE claims["settings"].name
      OBVIOUS
    <3>2. /\ Identity
          /\ starter' = [at |-> "writes", bound |-> bound,
                         claim |-> [name |-> name, lock |-> PyLock(name, Address), node |-> TRUE,
                                    native |-> Native(Address), addr |-> Address],
                         kept |-> kept, left |-> <<"settings", "node", "copy">>]
      BY <1>10, <2>2, <3>1 DEF ReadMetadata, StarterGoes
    <3>3. bound \in NameSets
      <4>1. CASE users # Broken /\ Cardinality(users) = 1
        <5>0. users # {}
          BY <4>1, FS_EmptySet
        <5>p. PICK a : a \in users
          BY <5>0
        <5>1. users = {a}
          BY <4>1, <5>p DEF Single
        <5>2. a.name \in Names /\ NamesIn(users) = {a.name}
          BY <4>1, <5>1 DEF NamesIn, BindingTypeOK, LocalAccount
        <5> QED
          BY <3>1, <4>1, <5>2 DEF NameSets
      <4> QED
        BY <3>1, <4>1 DEF NameSets
    <3>4. name \in NameSets /\ kept \in NameSets
      BY <3>1, <3>2, <3>3, ReadTypes DEF BindingTypeOK, Files, Claims, NameSets
    <3>5. PyLock(name, Address) \in Locks /\ Native(Address) \in BOOLEAN /\ Address \in BOOLEAN
      BY <3>2, <3>4, ReadTypes
    <3>6. [name |-> name, lock |-> PyLock(name, Address), node |-> TRUE,
           native |-> Native(Address), addr |-> Address] \in Claims
      BY <3>4, <3>5 DEF Claims
    <3>7. StepTypes'
      BY <1>10, <3>2, <3>3, <3>4, <3>6 DEF ReadMetadata, StarterGoes, StepTypes, Rests
    <3> QED
      BY <1>10, <3>7 DEF ReadMetadata, StarterGoes, BindingTypeOK
  <2> QED
    BY <2>1, <2>2
<1>11. CASE WriteMetadata
  <2>1. /\ starter \in [at : {"writes"}, bound : NameSets, claim : Claims, kept : NameSets,
                        left : Rests]
        /\ starter.left # <<>>
    BY <1>11 DEF WriteMetadata, StepTypes
  <2>2. Head(starter.left) \in Files /\ Tail(starter.left) \in Rests
    BY <2>1, RestsShrink
  <2>f. PICK f \in Files : f = Head(starter.left)
    BY <2>2
  <2>3. PICK v :
             v = IF f # "settings" THEN starter.claim
                 ELSE [starter.claim EXCEPT !.addr = FALSE,
                                            !.name = IF @ = {} THEN starter.kept ELSE @]
    OBVIOUS
  <2>4. v \in Claims
    BY <2>1, <2>3 DEF Claims
  <2>5. /\ WriteClaim(f, v)
        /\ starter' = [starter EXCEPT !.left = Tail(@)] \/ starter' = [at |-> "off"]
        /\ UNCHANGED <<users, accounts, sync, signedIn, named, lost>> /\ intact' = FALSE
    BY <1>11, <2>f, <2>3 DEF WriteMetadata, StarterGoes
  <2>6. /\ claims' \in [Files -> Claims \cup {Broken}]
        /\ abFaults' \in 0..MaxBindingFaults
    BY <2>4, <2>5, ClaimWritten
  <2>7. StepTypes'
    <3>1. CASE starter' = [starter EXCEPT !.left = Tail(@)]
      <4>1. starter' \in [at : {"writes"}, bound : NameSets, claim : Claims, kept : NameSets,
                          left : Rests]
        BY <2>1, <2>2, <3>1
      <4> QED
        BY <2>5, <4>1 DEF StepTypes
    <3>2. CASE starter' = [at |-> "off"]
      BY <2>5, <3>2 DEF StepTypes
    <3> QED
      BY <2>5, <3>1, <3>2
  <2> QED
    BY <2>5, <2>6, <2>7 DEF BindingTypeOK
<1>12. CASE WriteAccount
  <2>1. /\ UNCHANGED <<claims, accounts, sync, signedIn, lost>> /\ intact' = FALSE
        /\ starter' = [at |-> "off"]
    BY <1>12 DEF WriteAccount, StarterGoes
  <2>2. CASE UNCHANGED <<users, named, abFaults>>
    BY <2>1, <2>2 DEF BindingTypeOK, StepTypes
  <2>3. CASE ~UNCHANGED <<users, named, abFaults>>
    <3>1. PICK v :
            /\ v = {[a EXCEPT !.lock = starter.claim.lock, !.native = starter.claim.native,
                              !.addr = starter.claim.addr] : a \in users}
            /\ users # Broken /\ WriteUsers(v)
      BY <1>12, <2>3 DEF WriteAccount
    <3>2. /\ starter.claim.lock \in Locks /\ starter.claim.native \in BOOLEAN
          /\ starter.claim.addr \in BOOLEAN
      BY <1>12 DEF WriteAccount, StepTypes, Claims
    <3>a. ASSUME NEW a \in users
          PROVE  [a EXCEPT !.lock = starter.claim.lock, !.native = starter.claim.native,
                           !.addr = starter.claim.addr] \in LocalAccount
      <4>1. a \in LocalAccount
        BY <3>1 DEF BindingTypeOK
      <4>2. PICK l \in Locks : l = starter.claim.lock
        BY <3>2
      <4>3. PICK n \in BOOLEAN : n = starter.claim.native
        BY <3>2
      <4>4. PICK d \in BOOLEAN : d = starter.claim.addr
        BY <3>2
      <4>5. [a EXCEPT !.lock = l, !.native = n, !.addr = d] \in LocalAccount
        BY <4>1 DEF LocalAccount
      <4> QED
        BY <4>2, <4>3, <4>4, <4>5
    <3>3. v \subseteq LocalAccount
      <4> HIDE DEF BindingTypes
      <4> QED
        BY <3>1, <3>a
    <3>s. Single(v)
      BY <3>1 DEF Single
    <3>4. /\ users' = Broken \/ users' \subseteq LocalAccount
          /\ users' # Broken => Single(users')
          /\ named' \subseteq Names /\ abFaults' \in 0..MaxBindingFaults
      BY <3>1, <3>3, <3>s, UsersTyped
    <3>5. BindingTypeOK'
      BY <2>1, <3>4 DEF BindingTypeOK
    <3>6. StepTypes'
      BY <2>1 DEF StepTypes
    <3> QED
      BY <2>1, <3>4, <3>5, <3>6 DEF Single
  <2> QED
    BY <2>2, <2>3
<1> QED
  BY <1>1, <1>2, <1>3, <1>4, <1>5, <1>6, <1>7, <1>8, <1>9, <1>10, <1>11, <1>12 DEF BindingNext

\* On a node of the overlay network every account says so, and so does what start.py writes.
Declared ==
    Capable => /\ \A a \in accounts : a.native = TRUE
               /\ users # Broken => \A a \in users : a.native = TRUE
               /\ starter.at = "writes" => starter.claim.native = TRUE

\* A registration or login goes on for an account, and nobody is signed in meanwhile.
ForAccount == sync.kind # "none" => signedIn = {} /\ \E a \in accounts : a.name = sync.name

\* A claim says what the account says that has signed in.
Synced(f, u) ==
    claims[f] # Broken /\ claims[f].name = {u} /\ (Capable => claims[f].lock = Lock(u, Address))

\* The account is accepted with the address of node.json.
Accepting == Identity /\ \A a \in accounts : Accepted(a, Address)

\* A login that no other step has come between has written the claims it has behind it.
Following ==
    /\ sync.kind = "login" /\ intact =>
         /\ Accepting /\ sync.addr = Address
         /\ \A f \in Files \ ToSet(sync.left) : Synced(f, sync.name)
    /\ signedIn # {} /\ intact =>
         Accepting /\ \E a \in accounts : signedIn = {a.name} /\ \A f \in Files : Synced(f, a.name)

GuardInv == BindingTypes /\ Declared /\ ForAccount /\ Following

LEMMA DeclaredNext ==
  ASSUME BindingTypes, Declared, BindingNext
  PROVE  Declared'
<1>1. CASE ~Capable'
  BY <1>1 DEF Declared
<1>2. CASE Capable'
  <2>0. hw' = hw
    BY DEF BindingNext, Register, Login, SyncClaim, SyncDone, SaveSetting, RestartShell, StartPy,
           CopyNode, ReadMetadata, WriteMetadata, WriteAccount, StarterGoes
  <2>1. /\ Capable /\ \A a \in accounts : a.native = TRUE
        /\ users # Broken => \A a \in users : a.native = TRUE
        /\ starter.at = "writes" => starter.claim.native = TRUE
    BY <2>0, <1>2 DEF Declared, Capable
  <2> SUFFICES /\ \A a \in accounts' : a.native = TRUE
               /\ users' # Broken => \A a \in users' : a.native = TRUE
               /\ starter'.at = "writes" => starter'.claim.native = TRUE
    BY DEF Declared
  <2>2. ASSUME NEW u \in Names, Register(u)
        PROVE  /\ \A a \in accounts' : a.native = TRUE
               /\ users' # Broken => \A a \in users' : a.native = TRUE
               /\ starter' = starter
    <3>c. Capable = TRUE
      BY <2>1 DEF Capable
    <3>a. PICK a : a = [name |-> u, lock |-> Lock(u, Address), native |-> TRUE, addr |-> Address]
      OBVIOUS
    <3>1. accounts' = {a} /\ WriteUsers(accounts') /\ starter' = starter
      BY <2>2, <3>a, <3>c, Zenon DEF Register
    <3>2. \A b \in accounts' : b.native = TRUE
      BY <3>a, <3>1
    <3>3. users' \in {accounts', users, Broken}
      BY <3>1, UsersWritten
    <3> QED
      BY <2>1, <3>1, <3>2, <3>3
  <2>3. ASSUME NEW a \in accounts, Login(a) PROVE UNCHANGED <<accounts, users, starter>>
    BY <2>3 DEF Login
  <2>4. CASE SyncClaim
    BY <2>1, <2>4 DEF SyncClaim
  <2>5. CASE SyncDone
    BY <2>1, <2>5 DEF SyncDone
  <2>6. CASE SaveSetting
    <3>1. users' \in {accounts, users, Broken}
      BY <2>6, UsersWritten DEF SaveSetting
    <3> QED
      BY <2>1, <2>6, <3>1 DEF SaveSetting
  <2>7. CASE RestartShell
    BY <2>1, <2>7 DEF RestartShell
  <2>8. CASE StartPy
    <3>1. starter'.at # "writes"
      BY <2>8 DEF StartPy, StarterGoes
    <3> QED
      BY <2>1, <2>8, <3>1 DEF StartPy, StarterGoes
  <2>9. CASE CopyNode
    <3>1. starter'.at # "writes"
      BY <2>9 DEF CopyNode, StarterGoes
    <3> QED
      BY <2>1, <2>9, <3>1 DEF CopyNode, StarterGoes
  <2>10. CASE ReadMetadata
    <3>1. Native(Address) = TRUE
      BY <2>1 DEF Native, Capable
    <3>r. \/ starter' = [at |-> "off"]
          \/ \E bound, name, bolt, addr, kept :
               starter' = [at |-> "writes", bound |-> bound,
                           claim |-> [name |-> name, lock |-> bolt, node |-> TRUE,
                                      native |-> TRUE, addr |-> addr],
                           kept |-> kept, left |-> <<"settings", "node", "copy">>]
      BY <2>10, <3>1, Zenon DEF ReadMetadata, StarterGoes
    <3>2. starter'.at = "writes" => starter'.claim.native = TRUE
      BY <3>r
    <3> QED
      BY <2>1, <2>10, <3>2 DEF ReadMetadata, StarterGoes
  <2>11. CASE WriteMetadata
    <3>1. starter.at = "writes"
      BY <2>11 DEF WriteMetadata
    <3>t. starter \in [at : {"writes"}, bound : NameSets, claim : Claims, kept : NameSets,
                       left : Rests]
      BY <3>1 DEF BindingTypes, StepTypes
    <3>2. starter' = [starter EXCEPT !.left = Tail(@)] \/ starter' = [at |-> "off"]
      BY <2>11 DEF WriteMetadata, StarterGoes
    <3>3. starter'.at = "writes" => starter'.claim = starter.claim
      BY <3>t, <3>2
    <3> QED
      BY <2>1, <2>11, <3>1, <3>3 DEF WriteMetadata, StarterGoes
  <2>12. CASE WriteAccount
    <3>1. starter'.at # "writes" /\ accounts' = accounts
      BY <2>12 DEF WriteAccount, StarterGoes
    <3>2. CASE users' = users
      BY <2>1, <3>1, <3>2
    <3>3. CASE users' # users
      <4>1. PICK v :
              /\ v = {[a EXCEPT !.lock = starter.claim.lock, !.native = starter.claim.native,
                                !.addr = starter.claim.addr] : a \in users}
              /\ users # Broken /\ WriteUsers(v) /\ starter.at = "writes"
        BY <2>12, <3>3 DEF WriteAccount
      <4>2. users' \in {v, users, Broken}
        BY <4>1, UsersWritten
      <4>3. \A a \in users : a \in LocalAccount
        BY <4>1 DEF BindingTypes, BindingTypeOK
      <4>4. \A a \in v : a.native = TRUE
        BY <2>1, <4>1, <4>3 DEF LocalAccount
      <4> QED
        BY <2>1, <3>1, <4>2, <4>4
    <3> QED
      BY <3>2, <3>3
  <2> QED
    BY <2>1, <2>2, <2>3, <2>4, <2>5, <2>6, <2>7, <2>8, <2>9, <2>10, <2>11, <2>12 DEF BindingNext
<1> QED
  BY <1>1, <1>2

\* Nothing that the login relies on changes.
LEMMA GuardKept ==
  ASSUME GuardInv, BindingTypes', Declared', UNCHANGED <<accounts, sync, signedIn, hw>>,
         intact' = FALSE \/ UNCHANGED <<claims, intact>>
  PROVE  GuardInv'
<1>1. ForAccount'
  BY DEF GuardInv, ForAccount
<1>2. CASE intact' = FALSE
  BY <1>1, <1>2 DEF GuardInv, Following
<1>3. CASE UNCHANGED <<claims, intact>>
  <2>1. Following'
    BY <1>3 DEF GuardInv, Following, Accepting, Accepted, Synced, Identity, Address, Lock, Capable
  <2> QED
    BY <1>1, <2>1 DEF GuardInv
<1> QED
  BY <1>2, <1>3

\* A claim of a login is written: the claims it has behind it say what it says.
LEMMA FollowingWritten ==
  ASSUME GuardInv, BindingTypes', SyncClaim, sync.kind = "login", intact = TRUE, sync' # NotSyncing
  PROVE  /\ Accepting' /\ sync' = [sync EXCEPT !.left = Tail(@)] /\ sync.addr = Address'
         /\ \A f \in Files \ ToSet(Tail(sync.left)) : Synced(f, sync.name)'
<1>1. /\ sync \in [kind : {"login", "register"}, name : Names, addr : BOOLEAN, left : Lefts]
      /\ sync.left # <<>>
  BY DEF SyncClaim, GuardInv, BindingTypes, StepTypes, NotSyncing
<1>2. PICK f \in Files : f = Head(sync.left) /\ claims[f] # Broken
  BY <1>1, LeftsShrink DEF SyncClaim
<1>3. claims[f] \in Claims
  BY <1>2 DEF GuardInv, BindingTypes, BindingTypeOK
<1>4. PICK v \in Claims : v = ClaimOf(claims[f], sync.name, sync.addr, f)
  BY <1>1, <1>3, ClaimOfTyped DEF GuardInv, BindingTypes
<1>5. /\ WriteClaim(f, v) /\ abFaults' = abFaults /\ sync' = [sync EXCEPT !.left = Tail(@)]
      /\ accounts' = accounts /\ hw' = hw
  BY <1>2, <1>4 DEF SyncClaim
<1>6. claims'[f] = v /\ \A g \in Files \ {f} : claims'[g] = claims[g]
  BY <1>4, <1>5, ClaimWritten DEF GuardInv, BindingTypes
<1>7. v # Broken
  BY AccountBindingAssumption DEF AccountBindingAssumption
<1>8. Accepting /\ sync.addr = Address /\ \A g \in Files \ ToSet(sync.left) : Synced(g, sync.name)
  BY DEF GuardInv, Following
<1>a. claims["node"] \in Claims
  BY <1>8, ReadTypes DEF Accepting, GuardInv, BindingTypes
<1>9. Identity' /\ Address' = Address
  <2>1. CASE f = "node"
    <3>1. v.addr = (claims["node"].addr \/ sync.addr)
      BY <1>4, <2>1 DEF ClaimOf
    <3>2. v.addr = Address
      BY <1>8, <1>a, <3>1 DEF Address, Claims
    <3> QED
      BY <1>6, <1>7, <2>1, <3>2 DEF Identity, Address
  <2>2. CASE f # "node"
    BY <1>6, <1>8, <2>2 DEF Identity, Address, Files, Accepting
  <2> QED
    BY <2>1, <2>2
<1>10. Accepting'
  BY <1>5, <1>8, <1>9 DEF Accepting, Accepted, Lock, Capable
<1>11. Synced(f, sync.name)'
  <2>1. v.name = {sync.name}
    BY <1>4 DEF ClaimOf
  <2>2. Capable => v.lock = Lock(sync.name, sync.addr)
    BY <1>4 DEF ClaimOf, Lock, NoLock
  <2>3. Capable' = Capable /\ \A u : Lock(u, Address)' = Lock(u, Address)
    BY <1>5, <1>9 DEF Lock, Capable
  <2> QED
    BY <1>5, <1>6, <1>7, <1>8, <2>1, <2>2, <2>3 DEF Synced
<1>12. \A g \in Files \ ToSet(sync.left) : g # f => Synced(g, sync.name)'
  BY <1>5, <1>6, <1>8, <1>9 DEF Synced, Lock, Capable
<1>13. \A g \in Files \ ToSet(Tail(sync.left)) : g \in Files \ ToSet(sync.left) \/ g = f
  BY <1>1, <1>2, LeftsShrink
<1> QED
  BY <1>5, <1>8, <1>9, <1>10, <1>11, <1>12, <1>13

LEMMA GuardInvNext == GuardInv /\ [BindingNext]_abVars => GuardInv'
<1> SUFFICES ASSUME GuardInv, [BindingNext]_abVars PROVE GuardInv'
  OBVIOUS
<1>t. BindingTypes'
  BY BindingTypesNext DEF GuardInv
<1>d. Declared'
  <2>1. CASE UNCHANGED abVars
    BY <2>1 DEF abVars, GuardInv, Declared, Capable
  <2> QED
    BY <2>1, DeclaredNext DEF GuardInv
<1>1. CASE UNCHANGED abVars
  BY <1>1, <1>t, <1>d, GuardKept DEF abVars
<1>2. ASSUME NEW u \in Names, Register(u) PROVE GuardInv'
  <2>1. /\ accounts' = {[name |-> u, lock |-> Lock(u, Address), native |-> Capable, addr |-> Address]}
        /\ signedIn' = {} /\ intact' = FALSE
        /\ \/ sync' = NotSyncing
           \/ sync' = [kind |-> "register", name |-> u, addr |-> Address,
                       left |-> <<"node", "copy", "settings">>]
    BY <1>2 DEF Register
  <2>2. ForAccount'
    BY <2>1 DEF ForAccount, NotSyncing
  <2> QED
    BY <1>t, <1>d, <2>1, <2>2 DEF GuardInv, Following
<1>3. ASSUME NEW a \in accounts, Login(a) PROVE GuardInv'
  <2>1. /\ sync' = [kind |-> "login", name |-> a.name, addr |-> Address,
                    left |-> <<"node", "copy", "settings">>]
        /\ signedIn' = {} /\ UNCHANGED <<accounts, claims, hw>>
        /\ Identity /\ Accepted(a, Address)
    BY <1>3 DEF Login
  <2>2. Accepting
    BY <2>1 DEF Accepting, GuardInv, BindingTypes, Single
  <2>3. Accepting' /\ Address' = Address
    BY <2>1, <2>2 DEF Accepting, Accepted, Identity, Address, Lock, Capable
  <2>4. ForAccount'
    BY <2>1 DEF ForAccount
  <2>5. Following'
    BY <2>1, <2>3, LeftsShrink DEF Following
  <2> QED
    BY <1>t, <1>d, <2>4, <2>5 DEF GuardInv
<1>4. CASE SyncClaim
  <2>1. sync \in [kind : {"login", "register"}, name : Names, addr : BOOLEAN, left : Lefts]
    BY <1>4 DEF SyncClaim, GuardInv, BindingTypes, StepTypes, NotSyncing
  <2>2. /\ sync' = NotSyncing \/ sync' = [sync EXCEPT !.left = Tail(@)]
        /\ UNCHANGED <<accounts, signedIn, intact>>
    BY <1>4 DEF SyncClaim
  <2>3. signedIn' = {} /\ \E a \in accounts : a.name = sync.name
    BY <2>1, <2>2 DEF GuardInv, ForAccount
  <2>4. CASE sync' = NotSyncing
    BY <1>t, <1>d, <2>3, <2>4 DEF GuardInv, ForAccount, Following, NotSyncing
  <2>5. CASE sync' # NotSyncing
    <3>1. sync'.kind = sync.kind /\ sync'.name = sync.name
      BY <2>1, <2>2, <2>5
    <3>2. ForAccount'
      BY <2>2, <2>3, <3>1 DEF ForAccount
    <3>3. CASE sync.kind = "login" /\ intact
      <4>1. /\ Accepting' /\ sync' = [sync EXCEPT !.left = Tail(@)] /\ sync.addr = Address'
            /\ \A f \in Files \ ToSet(Tail(sync.left)) : Synced(f, sync.name)'
        BY <1>t, <1>4, <2>5, <3>3, FollowingWritten DEF GuardInv, BindingTypes, BindingTypeOK
      <4>2. sync'.addr = sync.addr /\ sync'.left = Tail(sync.left)
        BY <2>1, <4>1
      <4>3. Following'
        BY <2>3, <3>1, <4>1, <4>2 DEF Following, Synced
      <4> QED
        BY <1>t, <1>d, <3>2, <4>3 DEF GuardInv
    <3>4. CASE ~(sync.kind = "login" /\ intact)
      BY <1>t, <1>d, <2>2, <2>3, <3>1, <3>2, <3>4 DEF GuardInv, Following
    <3> QED
      BY <3>3, <3>4
  <2> QED
    BY <2>4, <2>5
<1>5. CASE SyncDone
  <2>1. /\ sync \in [kind : {"login", "register"}, name : Names, addr : BOOLEAN, left : Lefts]
        /\ sync.left = << >>
    BY <1>5 DEF SyncDone, GuardInv, BindingTypes, StepTypes, NotSyncing
  <2>2. UNCHANGED <<accounts, claims, hw>>
    BY <1>5 DEF SyncDone
  <2>3. signedIn = {} /\ \E a \in accounts : a.name = sync.name
    BY <2>1 DEF GuardInv, ForAccount
  <2>4. /\ Accepting => Accepting' /\ Address' = Address
        /\ \A f, u : Synced(f, u) => Synced(f, u)'
    BY <2>2 DEF Accepting, Accepted, Synced, Identity, Address, Lock, Capable
  <2>5. CASE sync.kind = "login"
    <3>1. sync' = NotSyncing /\ signedIn' = {sync.name} /\ intact' = intact
      BY <1>5, <2>5 DEF SyncDone
    <3>2. ForAccount'
      BY <3>1 DEF ForAccount, NotSyncing
    <3>3. intact => Accepting /\ \A f \in Files : Synced(f, sync.name)
      BY <2>1, <2>5, LeftsShrink DEF GuardInv, Following
    <3>4. Following'
      BY <2>2, <2>3, <2>4, <3>1, <3>3 DEF Following, NotSyncing
    <3> QED
      BY <1>t, <1>d, <3>2, <3>4 DEF GuardInv
  <2>6. CASE sync.kind = "register"
    <3>1. CASE sync' = NotSyncing /\ signedIn' = {}
      BY <1>t, <1>d, <3>1 DEF GuardInv, ForAccount, Following, NotSyncing
    <3>2. CASE ~(sync' = NotSyncing /\ signedIn' = {})
      <4>1. /\ Identity /\ \A a \in accounts : Accepted(a, Address)
            /\ sync' = [kind |-> "login", name |-> sync.name, addr |-> Address,
                        left |-> <<"node", "copy", "settings">>]
            /\ signedIn' = {}
        BY <1>5, <2>3, <2>6, <3>2 DEF SyncDone
      <4>2. Accepting' /\ Address' = Address
        BY <2>4, <4>1 DEF Accepting
      <4>3. ForAccount'
        BY <2>2, <2>3, <4>1 DEF ForAccount
      <4>4. Following'
        BY <4>1, <4>2, LeftsShrink DEF Following
      <4> QED
        BY <1>t, <1>d, <4>3, <4>4 DEF GuardInv
    <3> QED
      BY <3>1, <3>2
  <2> QED
    BY <2>1, <2>5, <2>6
<1>6. CASE SaveSetting
  BY <1>6, <1>t, <1>d, GuardKept DEF SaveSetting
<1>7. CASE RestartShell
  BY <1>7, <1>t, <1>d DEF RestartShell, GuardInv, ForAccount, Following, NotSyncing
<1>8. CASE StartPy
  BY <1>8, <1>t, <1>d, GuardKept DEF StartPy, StarterGoes
<1>9. CASE CopyNode
  BY <1>9, <1>t, <1>d, GuardKept DEF CopyNode, StarterGoes
<1>10. CASE ReadMetadata
  BY <1>10, <1>t, <1>d, GuardKept DEF ReadMetadata, StarterGoes
<1>11. CASE WriteMetadata
  BY <1>11, <1>t, <1>d, GuardKept DEF WriteMetadata, StarterGoes
<1>12. CASE WriteAccount
  BY <1>12, <1>t, <1>d, GuardKept DEF WriteAccount, StarterGoes
<1> QED
  BY <1>1, <1>2, <1>3, <1>4, <1>5, <1>6, <1>7, <1>8, <1>9, <1>10, <1>11, <1>12 DEF BindingNext

LEMMA GuardInvInit == BindingInit => GuardInv
  BY BindingTypesInit
     DEF BindingInit, GuardInv, Declared, ForAccount, Following, NotSyncing

\* users.json, the claims and what start.py carries keep their types.
THEOREM BindingTypeCorrect == BindingSpec => []BindingTypeOK
<1>1. BindingTypes => BindingTypeOK
  BY DEF BindingTypes
<1> QED
  BY <1>1, BindingTypesInit, BindingTypesNext, PTL DEF BindingSpec

\* Whoever has signed in at the shell on a node with an address passes the session guard
\* (auth.rs authenticate() and session_guard.py validate_registered_runtime()).
THEOREM GuardAcceptsSignedIn == BindingSpec => []SignedInPassesGuard
<1>1. ASSUME GuardInv, signedIn # {}, intact, Capable, Address, users # Broken, users = accounts
      PROVE  GuardAccepts
  <2>1. /\ Accepting
        /\ \E a \in accounts : signedIn = {a.name} /\ \A f \in Files : Synced(f, a.name)
    BY <1>1 DEF GuardInv, Following
  <2>2. PICK a \in accounts : \A f \in Files : Synced(f, a.name)
    BY <2>1
  <2>3. users = {a}
    BY <1>1, <2>2 DEF GuardInv, BindingTypes, Single
  <2>4. Cardinality(users) = 1 /\ (CHOOSE x \in users : TRUE) = a
    BY <2>3, FS_Singleton
  <2>5. Address = TRUE
    BY <1>1, <2>1, ReadTypes DEF Accepting, GuardInv, BindingTypes
  <2>6. Lock(a.name, Address) = <<"ygg", a.name>>
    BY <1>1, <2>5 DEF Lock
  <2>7. \A f \in {"node", "settings"} : /\ claims[f] # Broken /\ claims[f].name = {a.name}
                                        /\ claims[f].lock = <<"ygg", a.name>>
    BY <1>1, <2>2, <2>6 DEF Synced, Files
  <2>8. a.lock = <<"ygg", a.name>>
    BY <1>1, <2>1, <2>2, <2>6 DEF Accepting, Accepted, GuardInv, Declared
  <2> QED
    BY <1>1, <2>4, <2>5, <2>7, <2>8 DEF GuardAccepts, Address
<1>2. GuardInv => SignedInPassesGuard
  BY <1>1 DEF SignedInPassesGuard
<1> QED
  BY <1>2, GuardInvInit, GuardInvNext, PTL DEF BindingSpec

-----------------------------------------------------------------------------
(* The overlay and the file with its number.                               *)

Lone(S) == \A a, b \in S : a = b
Known == [there : BOOLEAN, pid : SUBSET Overlays]

\* What a program knows of the overlay is true, while nothing is disturbed: none runs when it
\* is about to start one or to unlink the file, and none but its own, or the one it is about
\* to stop, runs when it writes the number, or stops.
OverlayInv ==
    /\ OverlayTypeOK
    /\ Lone(pidFile.pid) /\ \A q \in Slots : Lone(prog[q].pid)
    /\ ~disturbed =>
         /\ ~Crossed(prog)
         /\ Up \subseteq pidFile.pid \/ \E q \in Slots : Writing(prog[q])
         /\ \A q \in Slots :
              /\ prog[q].step \in {"forget", "spawn", "unlink"} => Up = {}
              /\ prog[q].step \in {"empty", "fill", "kill"} => Up \subseteq prog[q].pid
              /\ prog[q].step # "lost"

\* The records a program is set to.
LEMMA WhereTypes ==
  /\ Off \in Where
  /\ \A k \in {"none", "bridge", "daemon"}, c \in {"try", "ensure", "start", "stop"} :
        Program(k, c) \in Where
  /\ {"off", "look", "forget", "spawn", "empty", "fill", "lost", "up", "kill", "unlink"}
        = OverlaySteps
  /\ {} \in SUBSET Overlays
  BY SMT DEF Off, Program, Where, OverlaySteps

LEMMA WhereSteps ==
  ASSUME NEW p \in Where
  PROVE  /\ FoundRunning(p) \in Where /\ FoundNone(p) \in Where /\ Started(p) \in Where
         /\ Without(p) \in Where
         /\ \A s \in OverlaySteps, S \in SUBSET Overlays : At(p, s, S) \in Where
         /\ \A s \in OverlaySteps : [p EXCEPT !.step = s] \in Where
  <1>1. p.kind \in {"none", "bridge", "daemon"} /\ Program(p.kind, "ensure") \in Where
    <2>1. p.kind \in {"none", "bridge", "daemon"} BY SMT DEF Where
    <2>2. QED BY <2>1, WhereTypes
  <1>2. \A s \in OverlaySteps : [p EXCEPT !.step = s] \in Where BY SMT DEF Where
  <1>3. ASSUME NEW r \in Where, NEW s \in OverlaySteps, NEW S \in SUBSET Overlays
        PROVE  At(r, s, S) \in Where
    BY SMT DEF Where, At
  <1>4. "up" \in OverlaySteps /\ "spawn" \in OverlaySteps /\ {} \in SUBSET Overlays
    BY DEF OverlaySteps
  <1>5. FoundNone(p) \in Where BY <1>1, <1>2, <1>4, WhereTypes DEF FoundNone
  <1>6. Started(p) \in Where BY <1>1, <1>3, <1>4 DEF Started
  <1>7. FoundRunning(p) \in Where BY <1>1, <1>2, <1>4 DEF FoundRunning
  <1>8. Without(p) \in Where BY <1>1, <1>3, <1>4 DEF Without
  <1>9. QED BY <1>2, <1>3, <1>5, <1>6, <1>7, <1>8

\* What is left of the overlays lives as it did.
LEMMA OrphanedTypes ==
  ASSUME overlay \in [Overlays -> Living], NEW Q
  PROVE  /\ Orphaned(Q) \in [Overlays -> Living]
         /\ \A o \in Overlays : Orphaned(Q)[o].state = "alive" <=> overlay[o].state = "alive"
  BY SMT DEF Orphaned, Living

LEMMA BecomesTypes ==
  ASSUME OverlayTypeOK, NEW p \in [Slots -> Where], NEW broken \in BOOLEAN, Becomes(p, broken)
  PROVE  prog' \in [Slots -> Where] /\ disturbed' \in BOOLEAN
  BY DEF Becomes, OverlayTypeOK

LEMMA MovesTypes ==
  ASSUME OverlayTypeOK, NEW q \in Slots, NEW p \in Where
  PROVE  /\ [prog EXCEPT ![q] = p] \in [Slots -> Where]
         /\ Moves(q, p) => prog' \in [Slots -> Where] /\ disturbed' \in BOOLEAN
  <1>1. [prog EXCEPT ![q] = p] \in [Slots -> Where] BY DEF OverlayTypeOK
  <1>2. QED BY <1>1, BecomesTypes DEF Moves

LEMMA EndsTypes ==
  ASSUME OverlayTypeOK, NEW q \in Slots, Ends(q)
  PROVE  prog' \in [Slots -> Where] /\ disturbed' \in BOOLEAN /\ overlay' \in [Overlays -> Living]
  BY MovesTypes, WhereTypes, OrphanedTypes DEF Ends, OverlayTypeOK

LEMMA UnlinkedTypes ==
  ASSUME OverlayTypeOK, NEW q \in Slots, NEW p \in Where, Unlinked(q, p)
  PROVE  prog' \in [Slots -> Where] /\ disturbed' \in BOOLEAN /\ pidFile' \in Known
  <1> DEFINE f == [r \in Slots |-> IF r = q THEN p
                                   ELSE IF prog[r].step = "fill" THEN [prog[r] EXCEPT !.step = "lost"]
                                   ELSE prog[r]]
  <1>1. \A r \in Slots : prog[r] \in Where /\ [prog[r] EXCEPT !.step = "lost"] \in Where
    BY WhereSteps, WhereTypes DEF OverlayTypeOK
  <1>2. f \in [Slots -> Where] BY <1>1
  <1>3. Becomes(f, FALSE) /\ pidFile' = NoFile BY Zenon DEF Unlinked
  <1>4. pidFile' \in Known BY <1>3 DEF NoFile, Known
  <1> HIDE DEF f
  <1>5. QED BY <1>2, <1>3, <1>4, BecomesTypes

LEMMA CountTypes ==
  ASSUME opMishaps \in 0..MaxOpMishaps, NEW b \in BOOLEAN, OpMishap(b), b => OpMayFail
  PROVE  opMishaps' \in 0..MaxOpMishaps
  BY OverlayAssumption, SMT DEF OpMishap, OpMayFail

LEMMA DiesTypes ==
  ASSUME OverlayTypeOK, NEW o \in Overlays, Dies(o)
  PROVE  /\ overlay' \in [Overlays -> Living]
         /\ Up' = Up \ {o}
  BY SMT DEF Dies, OverlayTypeOK, Living, Up

\* A bridge that is started or not.
LEMMA BridgeTypes ==
  ASSUME OverlayTypeOK, NEW p \in [Slots -> Where], NEW held \in SUBSET Slots,
         NEW broken \in BOOLEAN, BridgeGoes(p, held, broken)
  PROVE  prog' \in [Slots -> Where] /\ disturbed' \in BOOLEAN /\ bridge' \in SUBSET Slots
  <1>1. CASE Becomes(p, broken) /\ bridge' \subseteq held
    BY <1>1, BecomesTypes
  <1>2. ASSUME NEW q \in Free(p) \cup held, NEW call \in {"try", "ensure"}, bridge' = {q},
               Becomes([p EXCEPT ![q] = Program("bridge", call)], broken)
        PROVE  prog' \in [Slots -> Where] /\ disturbed' \in BOOLEAN /\ bridge' \in SUBSET Slots
    <2>1. q \in Slots BY DEF Free
    <2>2. Program("bridge", call) \in Where BY WhereTypes
    <2>3. [p EXCEPT ![q] = Program("bridge", call)] \in [Slots -> Where] BY <2>1, <2>2
    <2>4. QED BY <1>2, <2>1, <2>3, BecomesTypes
  <1>3. QED BY <1>1, <1>2, Zenon DEF BridgeGoes

LEMMA KillTypes ==
  ASSUME OverlayTypeOK, NEW q \in Slots, NEW ok \in BOOLEAN, KillChild(q, ok)
  PROVE  /\ overlay' \in [Overlays -> Living] /\ opMishaps' \in 0..MaxOpMishaps
         /\ After(q, ok) \in [Slots -> Where]
  <1>1. overlay' \in [Overlays -> Living]
    BY OrphanedTypes DEF KillChild, OverlayTypeOK
  <1>2. opMishaps' \in 0..MaxOpMishaps
    <2>1. OpMishap(~ok) /\ (~ok => OpMayFail) BY DEF KillChild
    <2>2. QED BY <2>1, CountTypes DEF OverlayTypeOK
  <1>3. After(q, ok) \in [Slots -> Where]
    BY MovesTypes, WhereTypes DEF After, OverlayTypeOK
  <1>4. QED BY <1>1, <1>2, <1>3

\* Every step of a program or an overlay keeps the types.
LEMMA OverlayTypesProgram ==
  ASSUME OverlayTypeOK, NEW q \in Slots,
         \/ Look(q) \/ LayerWithout(q) \/ Forget(q) \/ Spawn(q) \/ EmptyPid(q) \/ FillPid(q)
         \/ StartOverlayFails(q) \/ BridgeEnds(q) \/ ProgramCrash(q)
         \/ StopDaemon(q) \/ LookToStop(q) \/ KillOverlay(q) \/ UnlinkPid(q)
  PROVE  OverlayTypeOK'
  <1> DEFINE p == prog[q]
  <1>p. /\ p \in Where /\ p.pid \in SUBSET Overlays
        /\ FoundRunning(p) \in Where /\ FoundNone(p) \in Where /\ Started(p) \in Where
        /\ Without(p) \in Where /\ \A s \in OverlaySteps : [p EXCEPT !.step = s] \in Where
        /\ \A s \in OverlaySteps, S \in SUBSET Overlays : At(p, s, S) \in Where
        /\ Program(p.kind, "ensure") \in Where
    <2>1. p \in Where BY DEF OverlayTypeOK
    <2>2. p.pid \in SUBSET Overlays /\ p.kind \in {"none", "bridge", "daemon"}
      BY <2>1, SMT DEF Where
    <2> HIDE DEF p
    <2>3. QED BY <2>1, <2>2, WhereSteps, WhereTypes
  <1>t. /\ \A r \in Where : Moves(q, r) => prog' \in [Slots -> Where] /\ disturbed' \in BOOLEAN
        /\ pidFile.there \in BOOLEAN /\ pidFile.pid \in SUBSET Overlays
        /\ Program("daemon", "stop") \in Where /\ Off \in Where
    BY MovesTypes, WhereTypes DEF OverlayTypeOK
  <1>1. CASE Look(q)
    <2>1. PICK r \in {FoundRunning(p), [p EXCEPT !.step = "forget"], FoundNone(p)} : Moves(q, r)
      BY <1>1, Zenon DEF Look
    <2>2. r \in Where BY <1>p, WhereTypes
    <2>3. QED BY <1>1, <1>t, <2>1, <2>2 DEF Look, OverlayTypeOK, shellSide
  <1>2. CASE LayerWithout(q)
    BY <1>2, <1>p, <1>t DEF LayerWithout, OverlayTypeOK, shellSide
  <1>3. CASE Forget(q)
    BY <1>3, <1>p, UnlinkedTypes DEF Forget, OverlayTypeOK, shellSide, Known
  <1>4. CASE Spawn(q)
    <2>1. PICK o \in Overlays :
            /\ overlay' = [overlay EXCEPT ![o] = [state |-> "alive", parent |-> {q}]]
            /\ Moves(q, At(p, "empty", {o}))
      BY <1>4, Zenon DEF Spawn
    <2>2. overlay' \in [Overlays -> Living] BY <2>1, SMT DEF OverlayTypeOK, Living
    <2>3. At(p, "empty", {o}) \in Where BY <1>p, WhereTypes
    <2>4. QED BY <1>4, <1>t, <2>1, <2>2, <2>3 DEF Spawn, OverlayTypeOK, shellSide
  <1>5. CASE EmptyPid(q)
    <2>1. [p EXCEPT !.step = "fill"] \in Where BY <1>p, WhereTypes
    <2>2. prog' \in [Slots -> Where] /\ disturbed' \in BOOLEAN
      BY <1>5, <1>t, <2>1 DEF EmptyPid
    <2>3. pidFile' \in Known BY <1>5 DEF EmptyPid, Known
    <2>4. QED BY <1>5, <2>2, <2>3 DEF EmptyPid, OverlayTypeOK, shellSide, Known
  <1>6. CASE FillPid(q)
    <2>1. prog' \in [Slots -> Where] /\ disturbed' \in BOOLEAN
      BY <1>6, <1>p, <1>t, Zenon DEF FillPid
    <2>2. pidFile' \in Known
      <3>1. CASE pidFile' = pidFile BY <3>1 DEF OverlayTypeOK, Known
      <3>2. CASE pidFile' = [there |-> TRUE, pid |-> p.pid] BY <3>2, <1>p DEF Known
      <3>3. QED BY <1>6, <3>1, <3>2, Zenon DEF FillPid
    <2>3. QED BY <1>6, <2>1, <2>2 DEF FillPid, OverlayTypeOK, shellSide, Known
  <1>7. CASE StartOverlayFails(q)
    <2>1. PICK r \in {Program(p.kind, "ensure"), Without(p)} :
            Becomes([prog EXCEPT ![q] = r], Writing(p))
      BY <1>7, Zenon DEF StartOverlayFails
    <2>2. r \in Where BY <1>p
    <2>3. Writing(p) \in BOOLEAN BY DEF Writing
    <2>4. prog' \in [Slots -> Where] /\ disturbed' \in BOOLEAN
      BY <2>1, <2>2, <2>3, MovesTypes, BecomesTypes
    <2>5. opMishaps' \in 0..MaxOpMishaps
      BY <1>7, CountTypes DEF StartOverlayFails, OverlayTypeOK
    <2>6. QED BY <1>7, <2>4, <2>5 DEF StartOverlayFails, OverlayTypeOK, shellSide
  <1>8. CASE BridgeEnds(q)
    BY <1>8, EndsTypes DEF BridgeEnds, OverlayTypeOK, shellSide
  <1>9. CASE ProgramCrash(q)
    <2>1. Writing(p) \in BOOLEAN BY DEF Writing
    <2>2. prog' \in [Slots -> Where] /\ disturbed' \in BOOLEAN
      BY <1>9, <1>t, <2>1, MovesTypes, BecomesTypes DEF ProgramCrash
    <2>3. opMishaps' \in 0..MaxOpMishaps
      BY <1>9, CountTypes DEF ProgramCrash, OverlayTypeOK
    <2>4. overlay' \in [Overlays -> Living]
      BY <1>9, OrphanedTypes DEF ProgramCrash, OverlayTypeOK
    <2>5. QED BY <1>9, <2>2, <2>3, <2>4 DEF ProgramCrash, OverlayTypeOK, shellSide
  <1>10. CASE StopDaemon(q)
    <2>1. CASE Moves(q, Program("daemon", "stop")) /\ UNCHANGED overlay
      BY <1>10, <1>t, <2>1 DEF StopDaemon, OverlayTypeOK, shellSide
    <2>2. CASE Ends(q)
      BY <1>10, <2>2, EndsTypes DEF StopDaemon, OverlayTypeOK, shellSide
    <2>3. QED BY <1>10, <2>1, <2>2, Zenon DEF StopDaemon
  <1>11. CASE LookToStop(q)
    <2>1. ASSUME NEW s \in {"unlink", "kill"}, Moves(q, At(p, s, pidFile.pid)), UNCHANGED overlay
          PROVE  OverlayTypeOK'
      <3>1. At(p, s, pidFile.pid) \in Where BY <1>p, <1>t, WhereTypes
      <3>2. QED BY <1>11, <1>t, <2>1, <3>1 DEF LookToStop, OverlayTypeOK, shellSide
    <2>2. CASE Ends(q)
      BY <1>11, <2>2, EndsTypes DEF LookToStop, OverlayTypeOK, shellSide
    <2>3. QED BY <1>11, <2>1, <2>2, Zenon DEF LookToStop
  <1>12. CASE KillOverlay(q)
    <2>1. PICK o \in p.pid : IF o \in Up THEN Dies(o) ELSE UNCHANGED overlay
      BY <1>12 DEF KillOverlay
    <2>2. overlay' \in [Overlays -> Living]
      BY <2>1, <1>p, DiesTypes DEF OverlayTypeOK
    <2>3. [p EXCEPT !.step = "unlink"] \in Where BY <1>p, WhereTypes
    <2>4. QED BY <1>12, <1>t, <2>2, <2>3 DEF KillOverlay, OverlayTypeOK, shellSide
  <1>13. CASE UnlinkPid(q)
    <2>1. overlay' \in [Overlays -> Living]
      BY <1>13, OrphanedTypes DEF UnlinkPid, OverlayTypeOK
    <2>2. QED BY <1>13, <1>t, <2>1, UnlinkedTypes DEF UnlinkPid, OverlayTypeOK, shellSide, Known
  <1>14. QED BY <1>1, <1>2, <1>3, <1>4, <1>5, <1>6, <1>7, <1>8, <1>9, <1>10, <1>11, <1>12, <1>13

\* Every step of the shell, or of an overlay, keeps the types.
LEMMA OverlayTypesShell ==
  ASSUME OverlayTypeOK,
         \/ StartBridge \/ StopBridge \/ RestartBridge \/ StartService \/ StopService
         \/ StartByHand \/ NextShell \/ \E o \in Overlays : OverlayCrash(o)
  PROVE  OverlayTypeOK'
  <1>t. /\ prog \in [Slots -> Where] /\ bridge \in SUBSET Slots /\ tracked \in SUBSET Slots
        /\ \A k \in {"bridge", "daemon"}, c \in {"try", "ensure"} : Program(k, c) \in Where
        /\ \A q \in Slots : Writing(prog[q]) \in BOOLEAN
    BY WhereTypes DEF OverlayTypeOK, Writing
  <1>1. CASE StartBridge
    BY <1>1, <1>t, BridgeTypes DEF StartBridge, OverlayTypeOK
  <1>2. CASE StopBridge
    <2>1. PICK q \in bridge : \E ok \in BOOLEAN :
            KillChild(q, ok) /\ Becomes(After(q, ok), ok /\ Writing(prog[q]))
      BY <1>2, Zenon DEF StopBridge
    <2>2. PICK ok \in BOOLEAN :
            KillChild(q, ok) /\ Becomes(After(q, ok), ok /\ Writing(prog[q]))
      BY <2>1
    <2>3. q \in Slots BY <1>t
    <2>4. /\ overlay' \in [Overlays -> Living] /\ opMishaps' \in 0..MaxOpMishaps
          /\ After(q, ok) \in [Slots -> Where]
      BY <2>2, <2>3, KillTypes
    <2>5. prog' \in [Slots -> Where] /\ disturbed' \in BOOLEAN
      <3>1. (ok /\ Writing(prog[q])) \in BOOLEAN BY <2>3
      <3>2. QED BY <2>2, <2>4, <3>1, BecomesTypes
    <2>6. QED BY <1>2, <2>4, <2>5 DEF StopBridge, OverlayTypeOK
  <1>3. CASE RestartBridge
    <2>1. PICK q \in bridge : \E ok \in BOOLEAN :
            /\ KillChild(q, ok)
            /\ IF ok THEN BridgeGoes(After(q, TRUE), {q}, Writing(prog[q]))
               ELSE bridge' = {} /\ Becomes(prog, FALSE)
      BY <1>3, Zenon DEF RestartBridge
    <2>2. PICK ok \in BOOLEAN :
            /\ KillChild(q, ok)
            /\ IF ok THEN BridgeGoes(After(q, TRUE), {q}, Writing(prog[q]))
               ELSE bridge' = {} /\ Becomes(prog, FALSE)
      BY <2>1, Zenon
    <2>3. q \in Slots BY <1>t
    <2>4. /\ overlay' \in [Overlays -> Living] /\ opMishaps' \in 0..MaxOpMishaps
          /\ After(q, ok) \in [Slots -> Where]
      BY <2>2, <2>3, KillTypes
    <2>5. prog' \in [Slots -> Where] /\ disturbed' \in BOOLEAN /\ bridge' \in SUBSET Slots
      <3>1. CASE ok = TRUE
        BY <2>2, <2>3, <2>4, <1>t, <3>1, BridgeTypes
      <3>2. CASE ok = FALSE
        BY <2>2, <1>t, <3>2, BecomesTypes
      <3>3. QED BY <3>1, <3>2
    <2>6. QED BY <1>3, <2>4, <2>5 DEF RestartBridge, OverlayTypeOK
  <1>4. CASE StartService
    <2>1. CASE tracked' = Polled /\ Becomes(prog, FALSE)
      BY <1>4, <1>t, <2>1, BecomesTypes DEF StartService, OverlayTypeOK, Polled
    <2>2. ASSUME NEW q \in Free(prog) \cup tracked, tracked' = {q},
                 Becomes([prog EXCEPT ![q] = Program("daemon", "ensure")], FALSE)
          PROVE  OverlayTypeOK'
      <3>1. q \in Slots BY <1>t DEF Free
      <3>2. prog' \in [Slots -> Where] /\ disturbed' \in BOOLEAN
        BY <1>t, <2>2, <3>1, MovesTypes, BecomesTypes
      <3>3. QED BY <1>4, <2>2, <3>1, <3>2 DEF StartService, OverlayTypeOK
    <2>3. QED BY <1>4, <2>1, <2>2, Zenon DEF StartService
  <1>5. CASE StopService
    <2>1. PICK q \in Polled : \E ok \in BOOLEAN :
            KillChild(q, ok) /\ Becomes(After(q, ok), ok /\ Writing(prog[q]))
      BY <1>5, Zenon DEF StopService
    <2>2. PICK ok \in BOOLEAN :
            KillChild(q, ok) /\ Becomes(After(q, ok), ok /\ Writing(prog[q]))
      BY <2>1
    <2>3. q \in Slots BY <1>t DEF Polled
    <2>4. /\ overlay' \in [Overlays -> Living] /\ opMishaps' \in 0..MaxOpMishaps
          /\ After(q, ok) \in [Slots -> Where]
      BY <2>2, <2>3, KillTypes
    <2>5. prog' \in [Slots -> Where] /\ disturbed' \in BOOLEAN
      <3>1. (ok /\ Writing(prog[q])) \in BOOLEAN BY <2>3
      <3>2. QED BY <2>2, <2>4, <3>1, BecomesTypes
    <2>6. QED BY <1>5, <2>4, <2>5 DEF StopService, OverlayTypeOK
  <1>6. CASE StartByHand
    <2>1. PICK q \in Free(prog) : Moves(q, Program("daemon", "ensure"))
      BY <1>6 DEF StartByHand
    <2>2. q \in Slots BY DEF Free
    <2>3. QED BY <1>6, <1>t, <2>1, <2>2, MovesTypes DEF StartByHand, OverlayTypeOK, shellSide
  <1>7. CASE NextShell
    <2>1. opMishaps' \in 0..MaxOpMishaps
      BY <1>7, CountTypes DEF NextShell, OverlayTypeOK
    <2>2. CASE Becomes(prog, FALSE) /\ bridge' = {}
      BY <1>7, <1>t, <2>1, <2>2, BecomesTypes DEF NextShell, OverlayTypeOK
    <2>3. ASSUME NEW q \in Slots, NEW call \in {"try", "ensure"}, bridge' = {q},
                 Becomes([prog EXCEPT ![q] = Program("bridge", call)], FALSE)
          PROVE  OverlayTypeOK'
      <3>1. prog' \in [Slots -> Where] /\ disturbed' \in BOOLEAN
        BY <1>t, <2>3, MovesTypes, BecomesTypes
      <3>2. QED BY <1>7, <2>1, <2>3, <3>1 DEF NextShell, OverlayTypeOK
    <2>4. QED BY <1>7, <2>2, <2>3, Zenon DEF NextShell
  <1>8. ASSUME NEW o \in Overlays, OverlayCrash(o) PROVE OverlayTypeOK'
    BY <1>8, DiesTypes DEF OverlayCrash, OverlayTypeOK, shellSide
  <1>9. QED BY <1>1, <1>2, <1>3, <1>4, <1>5, <1>6, <1>7, <1>8

LEMMA OverlayStarts ==
  ASSUME OverlayInit PROVE OverlayTypeOK
  <1>1. prog \in [Slots -> Where] BY WhereTypes DEF OverlayInit
  <1>2. overlay \in [Overlays -> Living] BY DEF OverlayInit, Living
  <1>3. pidFile \in Known BY DEF OverlayInit, NoFile, Known
  <1>4. opMishaps \in 0..MaxOpMishaps BY OverlayAssumption DEF OverlayInit
  <1>5. QED BY <1>1, <1>2, <1>3, <1>4 DEF OverlayInit, OverlayTypeOK, Known

\* Every variable of the overlay keeps its type.
THEOREM OverlayTypeCorrect == OverlaySpec => []OverlayTypeOK
  <1>1. OverlayInit => OverlayTypeOK BY OverlayStarts
  <1>2. OverlayTypeOK /\ [OverlayNext]_opVars => OverlayTypeOK'
    <2>1. OverlayTypeOK /\ UNCHANGED opVars => OverlayTypeOK'
      BY DEF OverlayTypeOK, opVars
    <2>2. OverlayTypeOK /\ OverlayNext => OverlayTypeOK'
      BY OverlayTypesProgram, OverlayTypesShell, Zenon DEF OverlayNext
    <2>3. QED BY <2>1, <2>2
  <1>3. QED BY <1>1, <1>2, PTL DEF OverlaySpec

\* A step that puts programs where they have nothing to do with the overlay, and leaves the
\* file alone: what the others know stays true.
LEMMA Calm ==
  ASSUME OverlayInv, OverlayTypeOK', NEW p \in [Slots -> Where], NEW broken \in BOOLEAN,
         Becomes(p, broken), UNCHANGED pidFile, Up' \subseteq Up,
         \A q \in Slots : \/ p[q] = prog[q]
                          \/ ~Busy(p[q]) /\ Lone(p[q].pid) /\ (Writing(prog[q]) => broken)
  PROVE  OverlayInv'
  <1>1. prog' = p /\ (~disturbed' => ~disturbed /\ ~broken /\ ~Crossed(p))
    BY DEF Becomes, OverlayInv, OverlayTypeOK
  <1>2. Lone(pidFile'.pid) /\ \A q \in Slots : Lone(p[q].pid)
    BY DEF OverlayInv
  <1>3. ASSUME ~disturbed'
        PROVE  /\ ~Crossed(p)
               /\ Up' \subseteq pidFile'.pid \/ \E q \in Slots : Writing(p[q])
               /\ \A q \in Slots :
                    /\ p[q].step \in {"forget", "spawn", "unlink"} => Up' = {}
                    /\ p[q].step \in {"empty", "fill", "kill"} => Up' \subseteq p[q].pid
                    /\ p[q].step # "lost"
    <2>1. ~disturbed /\ ~broken /\ ~Crossed(p) BY <1>1, <1>3
    <2>2. Up' \subseteq pidFile'.pid \/ \E q \in Slots : Writing(p[q])
      <3>1. CASE Up \subseteq pidFile.pid BY <3>1
      <3>2. CASE \E q \in Slots : Writing(prog[q]) BY <2>1, <3>2
      <3>3. QED BY <2>1, <3>1, <3>2 DEF OverlayInv
    <2>3. ASSUME NEW q \in Slots
          PROVE  /\ p[q].step \in {"forget", "spawn", "unlink"} => Up' = {}
                 /\ p[q].step \in {"empty", "fill", "kill"} => Up' \subseteq p[q].pid
                 /\ p[q].step # "lost"
      <3>1. CASE p[q] = prog[q]
        <4>1. /\ prog[q].step \in {"forget", "spawn", "unlink"} => Up = {}
              /\ prog[q].step \in {"empty", "fill", "kill"} => Up \subseteq prog[q].pid
              /\ prog[q].step # "lost"
          BY <2>1 DEF OverlayInv
        <4>2. QED BY <3>1, <4>1
      <3>2. CASE ~Busy(p[q]) BY <3>2 DEF Busy
      <3>3. QED BY <3>1, <3>2
    <2>4. QED BY <2>1, <2>2, <2>3
  <1>4. QED BY <1>1, <1>2, <1>3 DEF OverlayInv

\* A step of the one program that is at the overlay before it or after it.
LEMMA AtWork ==
  ASSUME OverlayInv, OverlayTypeOK', NEW q \in Slots, NEW f \in [Slots -> Where],
         Becomes(f, FALSE), Busy(prog[q]) \/ Busy(f[q]),
         Lone(pidFile'.pid), \A r \in Slots : Lone(f[r].pid),
         \A r \in Slots \ {q} : Busy(f[r]) <=> Busy(prog[r]),
         ~disturbed /\ (\A r \in Slots \ {q} : ~Busy(prog[r])) =>
            /\ Up' \subseteq pidFile'.pid \/ Writing(f[q])
            /\ f[q].step \in {"forget", "spawn", "unlink"} => Up' = {}
            /\ f[q].step \in {"empty", "fill", "kill"} => Up' \subseteq f[q].pid
            /\ f[q].step # "lost"
  PROVE  OverlayInv'
  <1>1. prog' = f /\ (~disturbed' => ~disturbed /\ ~Crossed(f))
    BY DEF Becomes, OverlayInv, OverlayTypeOK
  <1>2. ASSUME ~disturbed'
        PROVE  /\ ~Crossed(f)
               /\ Up' \subseteq pidFile'.pid \/ \E r \in Slots : Writing(f[r])
               /\ \A r \in Slots :
                    /\ f[r].step \in {"forget", "spawn", "unlink"} => Up' = {}
                    /\ f[r].step \in {"empty", "fill", "kill"} => Up' \subseteq f[r].pid
                    /\ f[r].step # "lost"
    <2>1. ~disturbed /\ ~Crossed(f) /\ ~Crossed(prog) BY <1>1, <1>2 DEF OverlayInv
    <2>2. \A r \in Slots \ {q} : ~Busy(prog[r]) /\ ~Busy(f[r])
      BY <2>1 DEF Crossed
    <2>3. /\ Up' \subseteq pidFile'.pid \/ Writing(f[q])
          /\ f[q].step \in {"forget", "spawn", "unlink"} => Up' = {}
          /\ f[q].step \in {"empty", "fill", "kill"} => Up' \subseteq f[q].pid
          /\ f[q].step # "lost"
      BY <2>1, <2>2
    <2>4. \A r \in Slots \ {q} :
            f[r].step \notin {"forget", "spawn", "unlink", "empty", "fill", "kill", "lost"}
      BY <2>2 DEF Busy
    <2>5. QED BY <2>1, <2>3, <2>4
  <1>3. QED BY <1>1, <1>2 DEF OverlayInv

LEMMA OrphanedUp ==
  ASSUME OverlayTypeOK, NEW Q, overlay' = Orphaned(Q)
  PROVE  Up' = Up
  BY OrphanedTypes DEF OverlayTypeOK, Up

\* What the steps of a program leave it with.
LEMMA StepsAt ==
  ASSUME NEW p \in Where, Lone(p.pid)
  PROVE  /\ Lone(FoundRunning(p).pid) /\ Lone(FoundNone(p).pid) /\ Lone(Started(p).pid)
         /\ Lone(Without(p).pid) /\ Lone(Off.pid) /\ Lone({})
         /\ \A k, c : Lone(Program(k, c).pid) /\ ~Busy(Program(k, c))
         /\ ~Busy(FoundRunning(p)) /\ ~Busy(Started(p)) /\ ~Busy(Without(p)) /\ ~Busy(Off)
         /\ FoundNone(p).step \in {"look", "spawn"}
         /\ \A s : [p EXCEPT !.step = s].pid = p.pid /\ [p EXCEPT !.step = s].step = s
         /\ \A s, S : At(p, s, S).pid = S /\ At(p, s, S).step = s
  <1>1. Lone({}) /\ Lone(Off.pid) /\ ~Busy(Off) BY DEF Lone, Off, Busy
  <1>2. \A k, c : Lone(Program(k, c).pid) /\ ~Busy(Program(k, c)) /\ Program(k, c).step = "look"
    BY <1>1 DEF Program, Busy
  <1>3. \A s : [p EXCEPT !.step = s].pid = p.pid /\ [p EXCEPT !.step = s].step = s
    BY SMT DEF Where
  <1>4. \A r, s, S : At(r, s, S).pid = S /\ At(r, s, S).step = s BY DEF At
  <1>5. Lone(FoundRunning(p).pid) /\ ~Busy(FoundRunning(p))
    BY <1>2, <1>3 DEF FoundRunning, Busy
  <1>6. Lone(FoundNone(p).pid) /\ FoundNone(p).step \in {"look", "spawn"}
    BY <1>2, <1>3 DEF FoundNone
  <1>7. Lone(Started(p).pid) /\ ~Busy(Started(p))
    BY <1>1, <1>2, <1>4 DEF Started, Busy
  <1>8. Lone(Without(p).pid) /\ ~Busy(Without(p))
    BY <1>1, <1>4 DEF Without, Busy
  <1>9. QED BY <1>1, <1>2, <1>3, <1>4, <1>5, <1>6, <1>7, <1>8

\* A program that moves to where it has nothing to do with the overlay.
LEMMA CalmMove ==
  ASSUME OverlayInv, OverlayTypeOK', NEW q \in Slots, NEW r \in Where, NEW broken \in BOOLEAN,
         Becomes([prog EXCEPT ![q] = r], broken), UNCHANGED pidFile, Up' \subseteq Up,
         r = prog[q] \/ (~Busy(r) /\ Lone(r.pid) /\ (Writing(prog[q]) => broken))
  PROVE  OverlayInv'
  <1> DEFINE f == [prog EXCEPT ![q] = r]
  <1>1. prog \in [Slots -> Where] BY DEF OverlayInv, OverlayTypeOK
  <1>2. f \in [Slots -> Where] /\ f[q] = r /\ \A n \in Slots \ {q} : f[n] = prog[n]
    BY <1>1
  <1>3. Becomes(f, broken) OBVIOUS
  <1> HIDE DEF f
  <1>4. QED BY <1>2, <1>3, Calm

\* A program that is at the overlay before its move or after it.
LEMMA WorkMove ==
  ASSUME OverlayInv, OverlayTypeOK', NEW q \in Slots, NEW r \in Where, Moves(q, r),
         Busy(prog[q]) \/ Busy(r), Lone(pidFile'.pid), Lone(r.pid),
         ~disturbed /\ (\A n \in Slots \ {q} : ~Busy(prog[n])) =>
            /\ Up' \subseteq pidFile'.pid \/ Writing(r)
            /\ r.step \in {"forget", "spawn", "unlink"} => Up' = {}
            /\ r.step \in {"empty", "fill", "kill"} => Up' \subseteq r.pid
            /\ r.step # "lost"
  PROVE  OverlayInv'
  <1> DEFINE f == [prog EXCEPT ![q] = r]
  <1>1. prog \in [Slots -> Where] /\ \A n \in Slots : Lone(prog[n].pid)
    BY DEF OverlayInv, OverlayTypeOK
  <1>2. f \in [Slots -> Where] /\ f[q] = r /\ \A n \in Slots \ {q} : f[n] = prog[n]
    BY <1>1
  <1>3. Becomes(f, FALSE) BY DEF Moves
  <1> HIDE DEF f
  <1>4. \A n \in Slots : Lone(f[n].pid) BY <1>1, <1>2
  <1>5. QED BY <1>2, <1>3, <1>4, AtWork

\* The file goes while no overlay runs.
LEMMA UnlinkedKeeps ==
  ASSUME OverlayInv, OverlayTypeOK', NEW q \in Slots, NEW r \in Where, Unlinked(q, r),
         Busy(prog[q]), Lone(r.pid), ~disturbed => Up' = {}, r.step \in {"off", "look", "spawn"}
  PROVE  OverlayInv'
  <1> DEFINE f == [n \in Slots |-> IF n = q THEN r
                                   ELSE IF prog[n].step = "fill" THEN [prog[n] EXCEPT !.step = "lost"]
                                   ELSE prog[n]]
  <1>1. \A n \in Slots : /\ prog[n] \in Where /\ Lone(prog[n].pid)
                         /\ [prog[n] EXCEPT !.step = "lost"] \in Where
                         /\ [prog[n] EXCEPT !.step = "lost"].pid = prog[n].pid
                         /\ [prog[n] EXCEPT !.step = "lost"].step = "lost"
    <2>1. \A n \in Slots : prog[n] \in Where /\ Lone(prog[n].pid)
      BY DEF OverlayInv, OverlayTypeOK
    <2>2. ASSUME NEW m \in Where
          PROVE  /\ [m EXCEPT !.step = "lost"] \in Where
                 /\ [m EXCEPT !.step = "lost"].pid = m.pid
                 /\ [m EXCEPT !.step = "lost"].step = "lost"
      BY SMT DEF Where, OverlaySteps
    <2>3. QED BY <2>1, <2>2
  <1>2. f \in [Slots -> Where] /\ f[q] = r /\ \A n \in Slots : Lone(f[n].pid) BY <1>1
  <1>3. \A n \in Slots \ {q} : Busy(f[n]) <=> Busy(prog[n]) BY <1>1 DEF Busy
  <1>4. Becomes(f, FALSE) /\ pidFile' = NoFile BY Zenon DEF Unlinked
  <1>5. Lone(pidFile'.pid) BY <1>4 DEF NoFile, Lone
  <1> HIDE DEF f
  <1>6. QED BY <1>2, <1>3, <1>4, <1>5, AtWork

LEMMA OverlayKeptProgram ==
  ASSUME OverlayInv, OverlayTypeOK', NEW q \in Slots,
         \/ Look(q) \/ LayerWithout(q) \/ Forget(q) \/ Spawn(q) \/ EmptyPid(q) \/ FillPid(q)
         \/ StartOverlayFails(q) \/ BridgeEnds(q) \/ ProgramCrash(q)
         \/ StopDaemon(q) \/ LookToStop(q) \/ KillOverlay(q) \/ UnlinkPid(q)
  PROVE  OverlayInv'
  <1> DEFINE p == prog[q]
  <1>t. OverlayTypeOK /\ p \in Where /\ Lone(p.pid) /\ Lone(pidFile.pid)
        /\ p.pid \in SUBSET Overlays /\ pidFile.pid \in SUBSET Overlays
    <2>1. OverlayTypeOK /\ p \in Where /\ Lone(p.pid) /\ Lone(pidFile.pid)
      BY DEF OverlayInv, OverlayTypeOK
    <2>2. p.pid \in SUBSET Overlays BY <2>1, SMT DEF Where
    <2>3. QED BY <2>1, <2>2 DEF OverlayTypeOK
  <1>p. /\ FoundRunning(p) \in Where /\ FoundNone(p) \in Where /\ Started(p) \in Where
        /\ Without(p) \in Where /\ Off \in Where
        /\ \A s \in OverlaySteps : [p EXCEPT !.step = s] \in Where
        /\ \A s \in OverlaySteps, S \in SUBSET Overlays : At(p, s, S) \in Where
        /\ Program(p.kind, "ensure") \in Where /\ Program("daemon", "stop") \in Where
    <2>1. p.kind \in {"none", "bridge", "daemon"} BY <1>t, SMT DEF Where
    <2> HIDE DEF p
    <2>2. QED BY <1>t, <2>1, WhereSteps, WhereTypes
  <1>s. /\ Lone(FoundRunning(p).pid) /\ Lone(FoundNone(p).pid) /\ Lone(Started(p).pid)
        /\ Lone(Without(p).pid) /\ Lone(Off.pid) /\ Lone({})
        /\ \A k, c : Lone(Program(k, c).pid) /\ ~Busy(Program(k, c))
        /\ ~Busy(FoundRunning(p)) /\ ~Busy(Started(p)) /\ ~Busy(Without(p)) /\ ~Busy(Off)
        /\ FoundNone(p).step \in {"look", "spawn"}
        /\ \A s : [p EXCEPT !.step = s].pid = p.pid /\ [p EXCEPT !.step = s].step = s
        /\ \A s, S : At(p, s, S).pid = S /\ At(p, s, S).step = s
    BY <1>t, StepsAt
  <1>k. ~disturbed =>
          /\ Up \subseteq pidFile.pid \/ \E n \in Slots : Writing(prog[n])
          /\ p.step \in {"forget", "spawn", "unlink"} => Up = {}
          /\ p.step \in {"empty", "fill", "kill"} => Up \subseteq p.pid
          /\ p.step # "lost"
    BY DEF OverlayInv
  \* no other at work, and this one not at the number: the file names what runs
  <1>n. ~disturbed /\ (\A n \in Slots \ {q} : ~Busy(prog[n])) /\ ~Writing(p) =>
          Up \subseteq pidFile.pid
    BY <1>k DEF Writing, Busy
  <1>m. /\ Writing(p) => Busy(p)
        /\ OverlaySteps = {"off", "look", "forget", "spawn", "empty", "fill", "lost", "up",
                           "kill", "unlink"}
    BY DEF Writing, Busy, OverlaySteps
  <1>u. UNCHANGED overlay => Up' = Up BY DEF Up
  <1>1. CASE Look(q)
    <2>0. p.step = "look" /\ ~Writing(p) /\ UNCHANGED <<overlay, pidFile>>
      BY <1>1 DEF Look, Writing
    <2>1. CASE Moves(q, FoundRunning(p))
      BY <1>p, <1>s, <1>u, <2>0, <2>1, CalmMove DEF Moves
    <2>2. CASE /\ ~\E o \in pidFile.pid : overlay[o].state \in {"alive", "zombie"}
               /\ \/ Moves(q, [p EXCEPT !.step = "forget"]) \/ Moves(q, FoundNone(p))
      <3>1. Up \subseteq pidFile.pid => Up' = {} BY <1>u, <2>0, <2>2 DEF Up
      <3>2. ASSUME NEW r \in Where, Moves(q, r), r.step \in {"forget", "spawn"}, Lone(r.pid)
            PROVE  OverlayInv'
        <4>1. Busy(r) /\ ~Writing(r) BY <3>2 DEF Busy, Writing
        <4>2. Lone(pidFile'.pid) BY <1>t, <2>0
        <4>3. r.step \notin {"empty", "fill", "kill", "lost"} BY <3>2
        <4>4. QED BY <1>n, <2>0, <3>1, <3>2, <4>1, <4>2, <4>3, WorkMove
      <3>3. CASE Moves(q, [p EXCEPT !.step = "forget"])
        <4>1. [p EXCEPT !.step = "forget"] \in Where BY <1>p, <1>m
        <4>2. QED BY <1>s, <1>t, <3>2, <3>3, <4>1
      <3>4. CASE Moves(q, FoundNone(p)) /\ FoundNone(p).step = "spawn"
        BY <1>p, <1>s, <3>2, <3>4
      <3>5. CASE Moves(q, FoundNone(p)) /\ FoundNone(p).step = "look"
        <4>1. ~Busy(FoundNone(p)) BY <3>5 DEF Busy
        <4>2. QED BY <1>p, <1>s, <1>u, <2>0, <3>5, <4>1, CalmMove DEF Moves
      <3>6. QED BY <1>s, <2>2, <3>3, <3>4, <3>5
    <2>3. QED BY <1>1, <2>1, <2>2, Zenon DEF Look
  <1>2. CASE LayerWithout(q)
    <2>1. ~Writing(p) BY <1>2 DEF LayerWithout, Writing
    <2>2. QED BY <1>2, <1>p, <1>s, <1>u, <2>1, CalmMove DEF LayerWithout, Moves
  <1>3. CASE Forget(q)
    <2>1. Busy(p) /\ (~disturbed => Up' = {})
      BY <1>3, <1>k, <1>u DEF Forget, Busy
    <2>2. QED BY <1>3, <1>p, <1>s, <2>1, UnlinkedKeeps DEF Forget
  <1>4. CASE Spawn(q)
    <2>1. PICK o \in Overlays :
            /\ overlay' = [overlay EXCEPT ![o] = [state |-> "alive", parent |-> {q}]]
            /\ Moves(q, At(p, "empty", {o}))
      BY <1>4, Zenon DEF Spawn
    <2>2. ~disturbed => Up' \subseteq {o}
      BY <1>4, <1>t, <1>k, <2>1 DEF Spawn, Up, OverlayTypeOK
    <2>3. At(p, "empty", {o}) \in Where BY <1>p, <1>m
    <2>4. At(p, "empty", {o}).pid = {o} /\ At(p, "empty", {o}).step = "empty" BY <1>s
    <2>5. Busy(At(p, "empty", {o})) /\ Writing(At(p, "empty", {o}))
      BY <2>4 DEF Busy, Writing
    <2>6. Lone(At(p, "empty", {o}).pid) BY <2>4 DEF Lone
    <2>7. UNCHANGED pidFile BY <1>4 DEF Spawn
    <2>8. QED BY <1>t, <2>1, <2>2, <2>3, <2>4, <2>5, <2>6, <2>7, WorkMove
  <1>5. CASE EmptyPid(q)
    <2> DEFINE r == [p EXCEPT !.step = "fill"]
    <2>1. r \in Where /\ r.pid = p.pid /\ r.step = "fill" BY <1>p, <1>m, <1>s
    <2>2. Moves(q, r) /\ pidFile'.pid = {} /\ UNCHANGED overlay /\ p.step = "empty"
      BY <1>5 DEF EmptyPid
    <2> HIDE DEF r
    <2>3. Busy(r) /\ Writing(r) /\ Lone(r.pid) /\ Lone(pidFile'.pid)
      BY <1>t, <1>s, <2>1, <2>2 DEF Busy, Writing
    <2>4. ~disturbed => Up' \subseteq r.pid BY <1>k, <1>u, <2>1, <2>2
    <2>5. QED BY <2>1, <2>2, <2>3, <2>4, WorkMove
  <1>6. CASE FillPid(q)
    <2>1. Moves(q, Started(p)) /\ UNCHANGED overlay /\ p.step \in {"fill", "lost"} /\ Busy(p)
      BY <1>6, Zenon DEF FillPid, Busy
    <2>2. Lone(pidFile'.pid) BY <1>6, <1>t DEF FillPid
    <2>3. ~disturbed => Up' \subseteq pidFile'.pid
      BY <1>6, <1>k, <1>u DEF FillPid
    <2>4. Started(p).step \notin {"forget", "spawn", "unlink", "empty", "fill", "kill", "lost"}
      BY <1>s DEF Busy
    <2>5. QED BY <1>p, <1>s, <2>1, <2>2, <2>3, <2>4, WorkMove
  <1>7. CASE StartOverlayFails(q)
    <2>1. PICK r \in {Program(p.kind, "ensure"), Without(p)} :
            Becomes([prog EXCEPT ![q] = r], Writing(p))
      BY <1>7, Zenon DEF StartOverlayFails
    <2>2. r \in Where /\ ~Busy(r) /\ Lone(r.pid) BY <1>p, <1>s
    <2>3. Writing(p) \in BOOLEAN BY DEF Writing
    <2>4. UNCHANGED <<overlay, pidFile>> BY <1>7 DEF StartOverlayFails
    <2>5. QED BY <1>u, <2>1, <2>2, <2>3, <2>4, CalmMove
  <1>e. ASSUME Ends(q), ~Writing(p), UNCHANGED pidFile
        PROVE  OverlayInv'
    BY <1>e, <1>p, <1>s, <1>t, OrphanedUp, CalmMove DEF Ends, Moves
  <1>8. CASE BridgeEnds(q)
    BY <1>8, <1>e DEF BridgeEnds, Writing
  <1>9. CASE ProgramCrash(q)
    <2>1. Writing(p) \in BOOLEAN BY DEF Writing
    <2>2. QED BY <1>9, <1>p, <1>s, <1>t, <2>1, OrphanedUp, CalmMove DEF ProgramCrash
  <1>10. CASE StopDaemon(q)
    <2>1. ~Writing(p) /\ UNCHANGED pidFile BY <1>10 DEF StopDaemon, Writing
    <2>2. CASE Moves(q, Program("daemon", "stop")) /\ UNCHANGED overlay
      BY <1>p, <1>s, <1>u, <2>1, <2>2, CalmMove DEF Moves
    <2>3. CASE Ends(q)
      BY <1>e, <2>1, <2>3
    <2>4. QED BY <1>10, <2>2, <2>3, Zenon DEF StopDaemon
  <1>11. CASE LookToStop(q)
    <2>1. ~Writing(p) /\ UNCHANGED pidFile BY <1>11 DEF LookToStop, Writing
    <2>2. ASSUME NEW s \in {"unlink", "kill"}, Moves(q, At(p, s, pidFile.pid)), UNCHANGED overlay,
                 s = "unlink" => pidFile.pid = {}
          PROVE  OverlayInv'
      <3> DEFINE r == At(p, s, pidFile.pid)
      <3>1. r \in Where /\ r.step = s /\ r.pid = pidFile.pid BY <1>p, <1>t, <1>s, <1>m
      <3>2. Moves(q, r) BY <2>2
      <3> HIDE DEF r
      <3>3. Busy(r) /\ Lone(r.pid) /\ Lone(pidFile'.pid) BY <1>t, <2>1, <3>1 DEF Busy
      <3>4. r.step \notin {"forget", "spawn", "empty", "fill", "lost"} BY <3>1
      <3>5. QED BY <1>n, <1>u, <2>1, <2>2, <3>1, <3>2, <3>3, <3>4, WorkMove
    <2>3. CASE Ends(q)
      BY <1>e, <2>1, <2>3
    <2>4. QED BY <1>11, <2>2, <2>3, Zenon DEF LookToStop
  <1>12. CASE KillOverlay(q)
    <2>1. PICK o \in p.pid : IF o \in Up THEN Dies(o) ELSE UNCHANGED overlay
      BY <1>12 DEF KillOverlay
    <2> DEFINE r == [p EXCEPT !.step = "unlink"]
    <2>2. r \in Where /\ r.pid = p.pid /\ r.step = "unlink" BY <1>p, <1>m, <1>s
    <2>3. Moves(q, r) /\ UNCHANGED pidFile /\ p.step = "kill" BY <1>12 DEF KillOverlay
    <2> HIDE DEF r
    <2>4. Busy(r) /\ Lone(r.pid) /\ Lone(pidFile'.pid) BY <1>t, <2>2, <2>3 DEF Busy
    <2>5. ~disturbed => Up' = {}
      <3>1. ~disturbed => Up \subseteq p.pid BY <1>k, <2>3
      <3>2. ~disturbed => Up \subseteq {o} BY <1>t, <2>1, <3>1 DEF Lone
      <3>3. CASE o \in Up
        <4>1. Up' = Up \ {o} BY <1>t, <2>1, <3>3, DiesTypes
        <4>2. QED BY <3>2, <4>1
      <3>4. CASE o \notin Up BY <1>u, <2>1, <3>2, <3>4
      <3>5. QED BY <3>3, <3>4
    <2>6. QED BY <2>2, <2>3, <2>4, <2>5, WorkMove
  <1>13. CASE UnlinkPid(q)
    <2>1. Busy(p) /\ (~disturbed => Up' = {})
      BY <1>13, <1>k, <1>t, OrphanedUp DEF UnlinkPid, Busy
    <2>2. Off.step = "off" BY DEF Off
    <2>3. QED BY <1>13, <1>p, <1>s, <2>1, <2>2, UnlinkedKeeps DEF UnlinkPid
  <1>14. QED BY <1>1, <1>2, <1>3, <1>4, <1>5, <1>6, <1>7, <1>8, <1>9, <1>10, <1>11, <1>12, <1>13

\* A slot without a program, or with one that begins.
LEMMA IdleSlots ==
  /\ ~Busy(Off) /\ ~Writing(Off) /\ Lone(Off.pid)
  /\ \A k, c : ~Busy(Program(k, c)) /\ Lone(Program(k, c).pid)
  BY DEF Off, Program, Busy, Writing, Lone

LEMMA BridgeKeeps ==
  ASSUME OverlayInv, OverlayTypeOK', NEW p \in [Slots -> Where], NEW held \in SUBSET Slots,
         NEW broken \in BOOLEAN, BridgeGoes(p, held, broken), UNCHANGED pidFile, Up' \subseteq Up,
         \A q \in Slots : p[q] = prog[q] \/ (p[q] = Off /\ (Writing(prog[q]) => broken))
  PROVE  OverlayInv'
  <1>1. CASE Becomes(p, broken)
    BY <1>1, IdleSlots, Calm
  <1>2. ASSUME {n \in held : p[n] # Off} = {},
               NEW q \in Free(p) \cup held, NEW call \in {"try", "ensure"},
               Becomes([p EXCEPT ![q] = Program("bridge", call)], broken)
        PROVE  OverlayInv'
    <2> DEFINE f == [p EXCEPT ![q] = Program("bridge", call)]
    <2>1. q \in Slots /\ p[q] = Off BY <1>2 DEF Free
    <2>2. Program("bridge", call) \in Where BY WhereTypes
    <2>3. /\ f \in [Slots -> Where] /\ f[q] = Program("bridge", call)
          /\ \A n \in Slots \ {q} : f[n] = p[n]
      BY <2>1, <2>2
    <2>4. Becomes(f, broken) BY <1>2
    <2> HIDE DEF f
    <2>5. Writing(prog[q]) => broken BY <2>1, IdleSlots
    <2>6. QED BY <2>1, <2>3, <2>4, <2>5, IdleSlots, Calm
  <1>3. QED BY <1>1, <1>2, Zenon DEF BridgeGoes

\* A child that is killed or not.
LEMMA KillKeeps ==
  ASSUME OverlayInv, NEW q \in Slots, NEW ok \in BOOLEAN, KillChild(q, ok)
  PROVE  /\ Up' = Up /\ After(q, ok) \in [Slots -> Where]
         /\ \A n \in Slots : \/ After(q, ok)[n] = prog[n]
                             \/ /\ After(q, ok)[n] = Off
                                /\ n = q /\ ok
  <1>1. OverlayTypeOK /\ prog \in [Slots -> Where] BY DEF OverlayInv, OverlayTypeOK
  <1>2. Up' = Up
    <2>1. CASE overlay' = Orphaned({q}) BY <1>1, <2>1, OrphanedUp
    <2>2. CASE UNCHANGED overlay BY <2>2 DEF Up
    <2>3. QED BY <2>1, <2>2 DEF KillChild
  <1>3. QED BY <1>1, <1>2, KillTypes DEF After

LEMMA StopKeeps ==
  ASSUME OverlayInv, OverlayTypeOK', NEW q \in Slots, NEW ok \in BOOLEAN, KillChild(q, ok),
         Becomes(After(q, ok), ok /\ Writing(prog[q])), UNCHANGED pidFile
  PROVE  OverlayInv'
  <1> DEFINE f == After(q, ok)
  <1>1. /\ Up' = Up /\ f \in [Slots -> Where]
        /\ \A n \in Slots : f[n] = prog[n] \/ (f[n] = Off /\ n = q /\ ok)
    BY KillKeeps
  <1>2. (ok /\ Writing(prog[q])) \in BOOLEAN BY DEF Writing
  <1> HIDE DEF f
  <1>3. \A n \in Slots : \/ f[n] = prog[n]
                         \/ ~Busy(f[n]) /\ Lone(f[n].pid)
                            /\ (Writing(prog[n]) => (ok /\ Writing(prog[q])))
    BY <1>1, IdleSlots
  <1>4. Becomes(f, ok /\ Writing(prog[q])) BY DEF f
  <1>5. QED BY <1>1, <1>2, <1>3, <1>4, Calm

LEMMA OverlayKeptShell ==
  ASSUME OverlayInv, OverlayTypeOK',
         \/ StartBridge \/ StopBridge \/ RestartBridge \/ StartService \/ StopService
         \/ StartByHand \/ NextShell \/ \E o \in Overlays : OverlayCrash(o)
  PROVE  OverlayInv'
  <1>t. /\ OverlayTypeOK /\ prog \in [Slots -> Where]
        /\ bridge \in SUBSET Slots /\ tracked \in SUBSET Slots
        /\ \A k \in {"bridge", "daemon"}, c \in {"try", "ensure"} : Program(k, c) \in Where
        /\ \A q \in Slots : Writing(prog[q]) \in BOOLEAN
    BY WhereTypes DEF OverlayInv, OverlayTypeOK, Writing
  <1>u. UNCHANGED overlay => Up' = Up BY DEF Up
  <1>s. ASSUME Becomes(prog, FALSE), UNCHANGED <<overlay, pidFile>>
        PROVE  OverlayInv'
    BY <1>s, <1>t, <1>u, Calm
  <1>b. ASSUME NEW q \in Slots, prog[q] = Off, NEW k \in {"bridge", "daemon"},
               NEW c \in {"try", "ensure"}, UNCHANGED <<overlay, pidFile>>,
               Becomes([prog EXCEPT ![q] = Program(k, c)], FALSE)
        PROVE  OverlayInv'
    <2>1. Program(k, c) \in Where BY <1>t
    <2>2. ~Writing(prog[q]) BY <1>b, IdleSlots
    <2>3. QED BY <1>b, <1>u, <2>1, <2>2, IdleSlots, CalmMove
  <1>1. CASE StartBridge
    <2>1. BridgeGoes(prog, bridge, FALSE) /\ UNCHANGED <<overlay, pidFile>>
      BY <1>1 DEF StartBridge
    <2>2. QED BY <1>t, <1>u, <2>1, BridgeKeeps
  <1>2. CASE StopBridge
    <2>1. PICK q \in bridge : \E ok \in BOOLEAN :
            KillChild(q, ok) /\ Becomes(After(q, ok), ok /\ Writing(prog[q]))
      BY <1>2, Zenon DEF StopBridge
    <2>2. UNCHANGED pidFile BY <1>2 DEF StopBridge
    <2>3. QED BY <1>t, <2>1, <2>2, StopKeeps
  <1>3. CASE RestartBridge
    <2>1. PICK q \in bridge : \E ok \in BOOLEAN :
            /\ KillChild(q, ok)
            /\ IF ok THEN BridgeGoes(After(q, TRUE), {q}, Writing(prog[q]))
               ELSE bridge' = {} /\ Becomes(prog, FALSE)
      BY <1>3, Zenon DEF RestartBridge
    <2>2. PICK ok \in BOOLEAN :
            /\ KillChild(q, ok)
            /\ IF ok THEN BridgeGoes(After(q, TRUE), {q}, Writing(prog[q]))
               ELSE bridge' = {} /\ Becomes(prog, FALSE)
      BY <2>1, Zenon
    <2>3. UNCHANGED pidFile /\ q \in Slots BY <1>3, <1>t DEF RestartBridge
    <2>4. /\ Up' = Up /\ After(q, ok) \in [Slots -> Where]
          /\ \A n \in Slots : \/ After(q, ok)[n] = prog[n]
                              \/ After(q, ok)[n] = Off /\ n = q /\ ok
      BY <2>2, <2>3, KillKeeps
    <2>5. CASE ok = TRUE
      <3> DEFINE f == After(q, TRUE)
      <3>1. /\ f \in [Slots -> Where]
            /\ \A n \in Slots : f[n] = prog[n] \/ (f[n] = Off /\ n = q)
        BY <2>4, <2>5
      <3>2. BridgeGoes(f, {q}, Writing(prog[q])) BY <2>2, <2>5
      <3> HIDE DEF f
      <3>3. \A n \in Slots : \/ f[n] = prog[n]
                             \/ f[n] = Off /\ (Writing(prog[n]) => Writing(prog[q]))
        BY <3>1
      <3>4. QED BY <1>t, <2>3, <2>4, <3>1, <3>2, <3>3, BridgeKeeps
    <2>6. CASE ok = FALSE
      <3>1. Becomes(prog, FALSE) BY <2>2, <2>6
      <3>2. QED BY <1>t, <2>3, <2>4, <3>1, Calm
    <2>7. QED BY <2>5, <2>6
  <1>4. CASE StartService
    <2>1. UNCHANGED <<overlay, pidFile>> BY <1>4 DEF StartService
    <2>2. ASSUME Polled = {}, NEW q \in Free(prog) \cup tracked,
                 Becomes([prog EXCEPT ![q] = Program("daemon", "ensure")], FALSE)
          PROVE  OverlayInv'
      <3>1. q \in Slots /\ prog[q] = Off BY <1>t, <2>2 DEF Free, Polled, Runs
      <3>2. QED BY <1>b, <2>1, <2>2, <3>1
    <2>3. QED BY <1>4, <1>s, <2>1, <2>2, Zenon DEF StartService
  <1>5. CASE StopService
    <2>1. PICK q \in Polled : \E ok \in BOOLEAN :
            KillChild(q, ok) /\ Becomes(After(q, ok), ok /\ Writing(prog[q]))
      BY <1>5, Zenon DEF StopService
    <2>2. UNCHANGED pidFile /\ q \in Slots BY <1>5, <1>t DEF StopService, Polled
    <2>3. QED BY <2>1, <2>2, StopKeeps
  <1>6. CASE StartByHand
    <2>1. PICK q \in Free(prog) : Moves(q, Program("daemon", "ensure"))
      BY <1>6 DEF StartByHand
    <2>2. q \in Slots /\ prog[q] = Off BY DEF Free
    <2>3. UNCHANGED <<overlay, pidFile>> BY <1>6 DEF StartByHand
    <2>4. QED BY <1>b, <2>1, <2>2, <2>3 DEF Moves
  <1>7. CASE NextShell
    <2>1. UNCHANGED <<overlay, pidFile>> BY <1>7 DEF NextShell
    <2>2. ASSUME NEW q \in Slots, NEW call \in {"try", "ensure"}, ~Runs(q),
                 Becomes([prog EXCEPT ![q] = Program("bridge", call)], FALSE)
          PROVE  OverlayInv'
      BY <1>b, <2>1, <2>2 DEF Runs
    <2>3. QED BY <1>7, <1>s, <2>1, <2>2, Zenon DEF NextShell
  <1>8. ASSUME NEW o \in Overlays, OverlayCrash(o) PROVE OverlayInv'
    <2>1. Up' \subseteq Up BY <1>8, <1>t, DiesTypes DEF OverlayCrash
    <2>2. UNCHANGED <<prog, pidFile, disturbed>> BY <1>8 DEF OverlayCrash
    <2>3. Becomes(prog, FALSE)
      BY <2>2 DEF Becomes, OverlayInv, OverlayTypeOK
    <2>4. QED BY <1>t, <2>1, <2>2, <2>3, Calm
  <1>9. QED BY <1>1, <1>2, <1>3, <1>4, <1>5, <1>6, <1>7, <1>8

\* What the programs know of the overlay is true, as long as nothing is disturbed.
THEOREM OverlayKnown == OverlaySpec => []OverlayInv
  <1>1. OverlayInit => OverlayInv
    <2> SUFFICES ASSUME OverlayInit PROVE OverlayInv
      OBVIOUS
    <2>1. OverlayTypeOK BY OverlayStarts
    <2>2. \A q \in Slots : prog[q] = Off BY DEF OverlayInit
    <2>3. Lone(pidFile.pid) /\ Up = {} BY DEF OverlayInit, NoFile, Lone, Up
    <2>4. ~Crossed(prog) BY <2>2, IdleSlots DEF Crossed
    <2>5. Off.step = "off" BY DEF Off
    <2>6. QED BY <2>1, <2>2, <2>3, <2>4, <2>5, IdleSlots DEF OverlayInv
  <1>2. OverlayInv /\ OverlayTypeOK' /\ [OverlayNext]_opVars => OverlayInv'
    <2>1. OverlayInv /\ UNCHANGED opVars => OverlayInv'
      BY DEF OverlayInv, OverlayTypeOK, opVars, Up, Crossed
    <2>2. OverlayInv /\ OverlayTypeOK' /\ OverlayNext => OverlayInv'
      BY OverlayKeptProgram, OverlayKeptShell, Zenon DEF OverlayNext
    <2>3. QED BY <2>1, <2>2
  <1>3. QED BY <1>1, <1>2, OverlayTypeCorrect, PTL DEF OverlaySpec

\* One overlay runs at most, and the file names it as soon as its start is through.
THEOREM OverlayAlone == OverlaySpec => []OneOverlay
  <1>1. ASSUME OverlayInv PROVE OneOverlay
    <2> SUFFICES ASSUME ~disturbed PROVE OneOverlay
      BY DEF OneOverlay
    <2>1. Lone(Up)
      <3>1. CASE Up \subseteq pidFile.pid BY <1>1, <3>1 DEF OverlayInv, Lone
      <3>2. ASSUME NEW q \in Slots, Writing(prog[q]) PROVE Lone(Up)
        <4>1. Up \subseteq prog[q].pid BY <1>1, <3>2 DEF OverlayInv, Writing
        <4>2. QED BY <1>1, <4>1 DEF OverlayInv, Lone
      <3>3. QED BY <1>1, <3>1, <3>2 DEF OverlayInv
    <2>2. \A o \in Up : o \in pidFile.pid => pidFile.pid = {o}
      BY <1>1 DEF OverlayInv, Lone
    <2>3. QED BY <1>1, <2>1, <2>2 DEF OverlayInv, OneOverlay, Lone
  <1>2. QED BY <1>1, OverlayKnown, PTL

-----------------------------------------------------------------------------
(* The specification in which each part is checked.                        *)

\* Whatever part a behaviour of the run has picked, it is a behaviour of every component: what
\* is proved of a component holds in the run.
THEOREM FilesImplementsParts ==
  FilesSpec => /\ Spec /\ GroupStateSpec /\ QuarantineSpec
               /\ PackVaultSpec /\ BindingSpec /\ OverlaySpec
<1>1. FilesInit => /\ Init /\ GroupStateInit /\ QuarantineInit
                   /\ PackVaultInit /\ BindingInit /\ OverlayInit
  BY DEF FilesInit
<1>2. [FilesNext]_filesVars =>
         /\ [Next]_vars /\ [GroupStateNext]_gsVars /\ [QuarantineNext]_qVars
         /\ [PackVaultNext]_pvVars /\ [BindingNext]_abVars /\ [OverlayNext]_opVars
  <2> SUFFICES ASSUME [FilesNext]_filesVars
               PROVE  /\ [Next]_vars /\ [GroupStateNext]_gsVars /\ [QuarantineNext]_qVars
                      /\ [PackVaultNext]_pvVars /\ [BindingNext]_abVars /\ [OverlayNext]_opVars
    OBVIOUS
  <2>1. CASE UNCHANGED filesVars
    BY <2>1 DEF filesVars, consentVars
  <2>2. ASSUME Others
        PROVE  /\ part # "consent" => UNCHANGED vars
               /\ part # "groups" => UNCHANGED gsVars
               /\ part # "quarantine" => UNCHANGED qVars
               /\ part # "vault" => UNCHANGED pvVars
               /\ part # "account" => UNCHANGED abVars
               /\ part # "overlay" => UNCHANGED opVars
    BY <2>2, Zenon DEF Others, consentVars
  <2>3. CASE part = "consent" /\ ConsentNext /\ Others
    BY <2>2, <2>3 DEF ConsentNext
  <2>4. CASE part = "groups" /\ GroupStateNext /\ Others
    BY <2>2, <2>4
  <2>5. CASE part = "quarantine" /\ QuarantineNext /\ Others
    BY <2>2, <2>5
  <2>6. CASE part = "vault" /\ PackVaultNext /\ Others
    BY <2>2, <2>6
  <2>7. CASE part = "account" /\ BindingNext /\ Others
    BY <2>2, <2>7
  <2>8. CASE part = "overlay" /\ OverlayNext /\ Others
    BY <2>2, <2>8
  <2> QED
    BY <2>1, <2>3, <2>4, <2>5, <2>6, <2>7, <2>8 DEF FilesNext
<1> QED
  BY <1>1, <1>2, PTL
     DEF FilesSpec, Spec, GroupStateSpec, QuarantineSpec, PackVaultSpec, BindingSpec, OverlaySpec

\* Every variable of the part that runs keeps its type.
THEOREM FilesTypeCorrect == FilesSpec => []FilesTypeOK
<1> DEFINE PartOK == part \in {"consent", "groups", "quarantine", "vault", "account", "overlay"}
<1>1. FilesInit => PartOK
  BY DEF FilesInit
<1>2. PartOK /\ [FilesNext]_filesVars => PartOK'
  BY DEF FilesNext, filesVars, Others
<1>3. PartOK /\ TypeOK /\ GroupStateTypeOK /\ QuarantineTypeOK
         /\ PackVaultTypeOK /\ BindingTypeOK /\ OverlayTypeOK => FilesTypeOK
  <2> SUFFICES ASSUME PartOK, TypeOK, GroupStateTypeOK, QuarantineTypeOK,
                      PackVaultTypeOK, BindingTypeOK, OverlayTypeOK
               PROVE  FilesTypeOK
    OBVIOUS
  <2>1. CASE part = "consent"
    BY <2>1 DEF FilesTypeOK
  <2>2. CASE part = "groups"
    BY <2>2 DEF FilesTypeOK
  <2>3. CASE part = "quarantine"
    BY <2>3 DEF FilesTypeOK
  <2>4. CASE part = "vault"
    BY <2>4 DEF FilesTypeOK
  <2>5. CASE part = "account"
    BY <2>5 DEF FilesTypeOK
  <2>6. CASE part = "overlay"
    BY <2>6 DEF FilesTypeOK
  <2> QED
    BY <2>1, <2>2, <2>3, <2>4, <2>5, <2>6
<1> HIDE DEF PartOK
<1>4. FilesSpec => []PartOK
  BY <1>1, <1>2, PTL DEF FilesSpec
<1> QED
  BY <1>3, <1>4, FilesImplementsParts, ConsentTypeCorrect, GroupsTypeCorrect,
     QuarantineTypeCorrect, VaultTypeCorrect, BindingTypeCorrect, OverlayTypeCorrect, PTL
=============================================================================
