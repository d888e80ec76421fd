----------------------------- MODULE AnchorPool ----------------------------
(***************************************************************************)
(* The local pool of public TTD anchors (append_public_ttd_anchor_bundle   *)
(* and load_public_ttd_anchor_bundle of modules/vault_chain.py, the        *)
(* records of modules/p2p_anchor_pool.py): every bundle is a file of its   *)
(* own under history/, latest.json the summary of all of them.  Several    *)
(* processes append and load without any lock.                             *)
(*                                                                         *)
(* Bundles are numbered in the order of their file names, which is the     *)
(* order in which their records are merged.  Metrics, labels and scores    *)
(* are left out; the bundles are of one ttd_hash, as records of different  *)
(* hashes do not meet.                                                     *)
(***************************************************************************)
EXTENDS Naturals, Sequences, SequencesExt

CONSTANTS
    PoolProcs,     \* processes that append and load
    Bundles,       \* 1..n: the bundles built, in file name order
    BuilderOf,     \* the process that appends each bundle
    PseudonymOf,   \* its validator
    MaxValidators, \* validators a record keeps: 32 in the code
    MaxPoolCrashes \* bound: processes that die

ASSUME PoolAssumption ==
    /\ IsFiniteSet(Bundles) /\ Bundles = 1..Cardinality(Bundles)
    /\ BuilderOf \in [Bundles -> PoolProcs]
    /\ MaxValidators \in Nat \ {0} /\ MaxPoolCrashes \in Nat

VARIABLES
    historyFile, \* of each bundle: "none", "partial" or "whole"
    latestFile,  \* the bundles latest.json was computed from
    appc,        \* where each process is
    adding,      \* the bundle it appends, 0 when it only loads
    poolSeen,    \* the bundles its last read of the history found
    confirmed,    \* history: bundles whose append confirmed stored = True
    poolCrashes

apVars == <<historyFile, latestFile, appc, adding, poolSeen, confirmed, poolCrashes>>

PoolInit ==
    /\ historyFile = [b \in Bundles |-> "none"]
    /\ latestFile = {}
    /\ appc = [p \in PoolProcs |-> "idle"] /\ adding = [p \in PoolProcs |-> 0]
    /\ poolSeen = [p \in PoolProcs |-> {}]
    /\ confirmed = {} /\ poolCrashes = 0

Whole == {b \in Bundles : historyFile[b] = "whole"}

\* build_public_ttd_anchor_record() and merge_public_ttd_anchor_record(): a new
\* validator is appended, the last MaxValidators are kept
Merge(validators, b) ==
    LET more == IF PseudonymOf[b] \in ToSet(validators) THEN validators
                ELSE Append(validators, PseudonymOf[b]) IN
    IF Len(more) <= MaxValidators THEN more ELSE Tail(more)
\* the validation_pseudonyms of the record made from a set of bundles, in file name order
Validators(bundles) ==
    MapThenFoldSet(LAMBDA b, validators : Merge(validators, b), <<>>, LAMBDA b : b, Max, bundles)

PoolGoto(p, where) == appc' = [appc EXCEPT ![p] = where]

\* append_public_ttd_anchor_bundle(), of the same bundle again after a failure too
BeginAppend(p, b) ==
    /\ appc[p] = "idle" /\ BuilderOf[b] = p
    /\ adding' = [adding EXCEPT ![p] = b]
    /\ PoolGoto(p, "scan")
    /\ UNCHANGED <<historyFile, latestFile, poolSeen, confirmed, poolCrashes>>

\* load_public_ttd_anchor_bundle() of an observer
BeginLoad(p) ==
    /\ appc[p] = "idle"
    /\ adding' = [adding EXCEPT ![p] = 0]
    /\ PoolGoto(p, "scan")
    /\ UNCHANGED <<historyFile, latestFile, poolSeen, confirmed, poolCrashes>>

\* Mutant: the summary is trusted, the history is not read.
ScansLatest(p) ==
    /\ appc[p] \in {"scan", "rescan"}
    /\ poolSeen' = [poolSeen EXCEPT ![p] = latestFile \cup
                      (IF appc[p] = "rescan" THEN {adding[p]} ELSE {})]
    /\ PoolGoto(p, IF appc[p] = "scan" THEN "summary" ELSE "answer")
    /\ UNCHANGED <<historyFile, latestFile, adding, confirmed, poolCrashes>>

\* every history file is read, one that does not parse is skipped
ScansHistory(p) ==
    /\ appc[p] \in {"scan", "rescan"}
    /\ poolSeen' = [poolSeen EXCEPT ![p] = Whole]
    /\ PoolGoto(p, IF appc[p] = "scan" THEN "summary" ELSE "answer")
    /\ UNCHANGED <<historyFile, latestFile, adding, confirmed, poolCrashes>>

\* the load writes latest.json, unless there is no history; an append then asks
\* whether its pseudonym is among the validators
WritesSummary(p) ==
    /\ appc[p] = "summary"
    /\ latestFile' = IF poolSeen[p] = {} THEN latestFile ELSE poolSeen[p]
    /\ LET present == adding[p] # 0 /\ PseudonymOf[adding[p]] \in ToSet(Validators(poolSeen[p]))
       IN PoolGoto(p, IF adding[p] = 0 \/ present THEN "idle" ELSE "file")
    /\ UNCHANGED <<historyFile, adding, poolSeen, confirmed, poolCrashes>>

\* write_text() of the history file creates it and then fills it
CreatesFile(p) ==
    /\ appc[p] = "file"
    /\ historyFile' = [historyFile EXCEPT ![adding[p]] = "partial"]
    /\ PoolGoto(p, "fill")
    /\ UNCHANGED <<latestFile, adding, poolSeen, confirmed, poolCrashes>>

\* Mutant: a write that fails is not noticed.
FillFails(p) ==
    /\ appc[p] = "fill"
    /\ PoolGoto(p, "rescan")
    /\ UNCHANGED <<historyFile, latestFile, adding, poolSeen, confirmed, poolCrashes>>

FillsFile(p) ==
    /\ appc[p] = "fill"
    /\ historyFile' = [historyFile EXCEPT ![adding[p]] = "whole"]
    /\ PoolGoto(p, "rescan")
    /\ UNCHANGED <<latestFile, adding, poolSeen, confirmed, poolCrashes>>

\* the second load's summary is written and the append confirmed
AnswersStored(p) ==
    /\ appc[p] = "answer"
    /\ latestFile' = poolSeen[p]
    /\ confirmed' = confirmed \cup {adding[p]}
    /\ PoolGoto(p, "idle")
    /\ UNCHANGED <<historyFile, adding, poolSeen, poolCrashes>>

\* the process dies and is started again
PoolCrash(p) ==
    /\ appc[p] # "idle" /\ poolCrashes < MaxPoolCrashes
    /\ poolCrashes' = poolCrashes + 1
    /\ PoolGoto(p, "idle")
    /\ UNCHANGED <<historyFile, latestFile, adding, poolSeen, confirmed>>

PoolNext ==
    \E p \in PoolProcs :
        \/ \E b \in Bundles : BeginAppend(p, b)
        \/ BeginLoad(p) \/ ScansHistory(p) \/ WritesSummary(p) \/ CreatesFile(p)
        \/ FillsFile(p) \/ AnswersStored(p) \/ PoolCrash(p)

PoolSpec == PoolInit /\ [][PoolNext]_apVars

-----------------------------------------------------------------------------
PoolTypeOK ==
    /\ historyFile \in [Bundles -> {"none", "partial", "whole"}]
    /\ latestFile \subseteq Bundles /\ confirmed \subseteq Bundles
    /\ appc \in [PoolProcs -> {"idle", "scan", "summary", "file", "fill", "rescan", "answer"}]
    /\ adding \in [PoolProcs -> Bundles \cup {0}]
    /\ poolSeen \in [PoolProcs -> SUBSET Bundles]
    /\ poolCrashes \in 0..MaxPoolCrashes

\* No record has more validators than it keeps.
NothingDropped == Cardinality({PseudonymOf[b] : b \in Bundles}) <= MaxValidators

\* append-only files make the unlocked pool safe: a bundle that was confirmed as stored
\* is found by everybody from then on and its validator is in the record, as long as
\* no validator is dropped.  (A dropped one may append its bundle again, and the file
\* is truncated meanwhile.)
StoredCounts ==
    NothingDropped => \A b \in confirmed :
        b \in Whole /\ PseudonymOf[b] \in ToSet(Validators(Whole))

\* public_ttd_validator_present(): a pseudonym used by one process validates an anchor
\* once, although check and write are separate and a process may die in between -
\* as long as no validator is dropped.
ValidatesOnce ==
    NothingDropped => \A b, c \in Whole :
        PseudonymOf[b] = PseudonymOf[c] /\ BuilderOf[b] = BuilderOf[c] => b = c
============================================================================
