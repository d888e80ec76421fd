-------------------------- MODULE ConsensusEngine --------------------------
(***************************************************************************)
(* submit_candidate of modules/consensus_engine.py: the two tables of the  *)
(* consensus database, written by several threads and processes, each call *)
(* with a connection of its own.                                           *)
(*                                                                         *)
(* The SELECT runs before the transaction, which SQLite opens with the     *)
(* first write and which holds the write lock until commit().  A call that *)
(* raises, or waits too long for the lock, stores nothing: its connection  *)
(* is dropped and the transaction rolled back.  The metrics are left out   *)
(* but for the reports they average.                                       *)
(***************************************************************************)
EXTENDS Naturals, FiniteSets

CONSTANTS
    Submitters,   \* calls in flight: threads of any process
    NodeIds,      \* the node_id of a report
    TtdHashes,
    NoWriter,     \* nobody holds the write lock
    MaxSubmits    \* bound: calls that begin

ASSUME ConsensusAssumption ==
    /\ NoWriter \notin Submitters /\ MaxSubmits \in Nat
    /\ TtdHashes # {} /\ NodeIds # {}

VARIABLES
    candidateRow, \* consensus_candidates: node_ids of each hash, {} without a row
    anchorRow,    \* consensus_anchors: source_nodes of each hash, {} without a row
    writer,       \* the call whose transaction holds the write lock
    cepc,         \* where each call is
    report,       \* what it was called with
    rowSeen,      \* the node_ids its SELECT returned
    lastReporter, \* history: who committed last for each hash
    submits

ceVars == <<candidateRow, anchorRow, writer, cepc, report, rowSeen, lastReporter, submits>>

ConsensusInit ==
    /\ candidateRow = [h \in TtdHashes |-> {}] /\ anchorRow = [h \in TtdHashes |-> {}]
    /\ writer = NoWriter
    /\ cepc = [s \in Submitters |-> "idle"]
    /\ report = [s \in Submitters |-> CHOOSE r \in TtdHashes \X NodeIds : TRUE]
    /\ rowSeen = [s \in Submitters |-> {}]
    /\ lastReporter = [h \in TtdHashes |-> {}]
    /\ submits = 0

CandidateOf(s) == report[s][1]
ReporterOf(s) == report[s][2]

\* submit_candidate(): the SELECT, outside a transaction
Submit(s, h, n) ==
    /\ cepc[s] = "idle" /\ submits < MaxSubmits
    /\ submits' = submits + 1
    /\ report' = [report EXCEPT ![s] = <<h, n>>]
    /\ rowSeen' = [rowSeen EXCEPT ![s] = candidateRow[h]]
    /\ cepc' = [cepc EXCEPT ![s] = "write"]
    /\ UNCHANGED <<candidateRow, anchorRow, writer, lastReporter>>

\* the first INSERT or UPDATE takes the write lock
OpenTransaction(s) ==
    /\ cepc[s] = "write" /\ writer = NoWriter
    /\ writer' = s
    /\ cepc' = [cepc EXCEPT ![s] = "commit"]
    /\ UNCHANGED <<candidateRow, anchorRow, report, rowSeen, lastReporter, submits>>

\* the node_ids the call stores: with a row it joins them
Sources(s) == rowSeen[s] \cup {ReporterOf(s)}

\* Mutant: the candidate is not deleted after its promotion.
CommitsAndKeeps(s) ==
    /\ cepc[s] = "commit"
    /\ candidateRow' = [candidateRow EXCEPT ![CandidateOf(s)] = Sources(s)]
    /\ anchorRow' = [anchorRow EXCEPT ![CandidateOf(s)] = Sources(s)]
    /\ lastReporter' = [lastReporter EXCEPT ![CandidateOf(s)] = {ReporterOf(s)}]
    /\ writer' = NoWriter
    /\ cepc' = [cepc EXCEPT ![s] = "idle"]
    /\ UNCHANGED <<report, rowSeen, submits>>

\* candidate written, anchor replaced and candidate deleted become visible at once
Commits(s) ==
    /\ cepc[s] = "commit"
    /\ candidateRow' = [candidateRow EXCEPT ![CandidateOf(s)] = {}]
    /\ anchorRow' = [anchorRow EXCEPT ![CandidateOf(s)] = Sources(s)]
    /\ lastReporter' = [lastReporter EXCEPT ![CandidateOf(s)] = {ReporterOf(s)}]
    /\ writer' = NoWriter
    /\ cepc' = [cepc EXCEPT ![s] = "idle"]
    /\ UNCHANGED <<report, rowSeen, submits>>

\* an exception, "database is locked" or a killed process: "candidate"
SubmitFails(s) ==
    /\ cepc[s] \in {"write", "commit"}
    /\ writer' = IF writer = s THEN NoWriter ELSE writer
    /\ cepc' = [cepc EXCEPT ![s] = "idle"]
    /\ UNCHANGED <<candidateRow, anchorRow, report, rowSeen, lastReporter, submits>>

ConsensusNext ==
    \E s \in Submitters :
        \/ \E h \in TtdHashes, n \in NodeIds : Submit(s, h, n)
        \/ OpenTransaction(s) \/ Commits(s) \/ SubmitFails(s)

ConsensusSpec == ConsensusInit /\ [][ConsensusNext]_ceVars

-----------------------------------------------------------------------------
ConsensusTypeOK ==
    /\ candidateRow \in [TtdHashes -> SUBSET NodeIds]
    /\ anchorRow \in [TtdHashes -> SUBSET NodeIds]
    /\ writer \in Submitters \cup {NoWriter}
    /\ cepc \in [Submitters -> {"idle", "write", "commit"}]
    /\ report \in [Submitters -> TtdHashes \X NodeIds]
    /\ rowSeen \in [Submitters -> SUBSET NodeIds]
    /\ lastReporter \in [TtdHashes -> SUBSET NodeIds]
    /\ submits \in 0..MaxSubmits

\* A promotion is whole or not at all: whatever calls overlap, raise or die between their
\* statements, no candidate is left outside a transaction, and the anchor of a hash names the
\* node whose call committed last ("promotes ihn sofort in den Konsens").  That no candidate
\* is ever left has a price the other comments of the code do not know of: every SELECT
\* finds none, so that reports are never joined and their metrics never averaged.
PromotionIsWhole ==
    \A h \in TtdHashes : candidateRow[h] = {} /\ lastReporter[h] \subseteq anchorRow[h]
============================================================================
