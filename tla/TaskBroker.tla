----------------------------- MODULE TaskBroker -----------------------------
(***************************************************************************)
(* The task broker of one node (modules/task_broker.py): own requests that *)
(* gossip carries to peers, bids and results that come back, in any order  *)
(* and repeatedly, and requests of peers the node bids for.                *)
(*                                                                         *)
(* _lock covers the change of a table together with the rewriting of       *)
(* task_queue.json; what a result teaches (OfflineLearner, blindspot pool) *)
(* happens after the lock is released.  A write that fails is logged and   *)
(* swallowed: the table goes on, and the file keeps what it had or is left *)
(* unreadable until the next save, which writes the whole table.           *)
(***************************************************************************)
EXTENDS Naturals, Sequences, FiniteSets

CONSTANTS
    OwnTasks,      \* task ids this node may create
    PeerTasks,     \* task ids of other nodes
    Caps,          \* capabilities a result may offer a gap solution for
    Runnable,      \* peer tasks whose requirements this node has
    MaxRemote,     \* 32 remote requests
    MaxBids,       \* 4 bids in a packet
    MaxArriving,   \* bound: arrivals of peers' requests
    MaxStops,      \* bound: restarts and crashes
    MaxSaveFaults  \* bound: writes of the queue file that fail

ASSUME BrokerAssumption ==
    /\ OwnTasks \cap PeerTasks = {} /\ Runnable \subseteq PeerTasks
    /\ MaxRemote \in Nat \ {0} /\ MaxBids \in Nat \ {0}
    /\ MaxArriving \in Nat /\ MaxStops \in Nat
    /\ MaxSaveFaults \in Nat

VARIABLES
    created,    \* tasks ever created
    mine,       \* keys of _my_requests
    queueFile,  \* the tasks in task_queue.json, {} when it cannot be read
    unsaved,    \* the last write of task_queue.json has failed
    expired,    \* tasks whose expires_ts has passed
    bidders,    \* own tasks with an entry in _incoming_bids
    results,    \* keys of _results
    answered,   \* tasks a result has ever been accepted for
    accepted,   \* results a receive_result() has stored and not yet passed on
    taught,     \* how often each task's result was handed to the learner
    solutions,  \* the gap solutions of each task's result
    pooled,     \* those that joined the blindspot pool of the task
    remote,     \* _remote_requests
    offered,    \* peer tasks a bid was broadcast for
    relapses,   \* history: starts from a file the last save had not brought up to date
    requests, stops, saveFaults

tbVars == <<created, mine, queueFile, unsaved, expired, bidders, results, answered, accepted,
            taught, solutions, pooled, remote, offered, relapses, requests, stops, saveFaults>>
fileSide == <<queueFile, unsaved, saveFaults>>
restarts == <<relapses, stops>>
ownSide == <<created, mine, fileSide, bidders, results, answered, accepted, taught, solutions,
             pooled>>
peerSide == <<remote, offered, requests>>

BrokerInit ==
    /\ created = {} /\ mine = {} /\ queueFile = {} /\ expired = {} /\ bidders = {}
    /\ results = {} /\ answered = {} /\ accepted = {} /\ taught = [t \in OwnTasks |-> 0]
    /\ solutions = [t \in OwnTasks |-> {}] /\ pooled = [t \in OwnTasks |-> {}]
    /\ remote = <<>> /\ offered = {} /\ requests = 0 /\ stops = 0
    /\ unsaved = FALSE /\ relapses = 0 /\ saveFaults = 0

\* _save_persistent() leaves out what has expired; a write that fails has changed nothing or
\* has truncated the file
SaveQueue ==
    \/ queueFile' = mine' \ expired /\ unsaved' = FALSE /\ UNCHANGED saveFaults
    \/ /\ saveFaults < MaxSaveFaults /\ saveFaults' = saveFaults + 1
       /\ unsaved' = TRUE
       /\ queueFile' \in {queueFile, {}}

\* create_request() and broadcast of what it returns
CreateTask(t) ==
    /\ t \notin created
    /\ created' = created \cup {t} /\ mine' = mine \cup {t}
    /\ SaveQueue
    /\ UNCHANGED <<expired, bidders, results, answered, accepted, taught, solutions,
                   pooled, peerSide, restarts>>

\* Mutant: a bid for any task is kept.
ReceiveBidAny(t) ==
    /\ bidders' = bidders \cup {t}
    /\ UNCHANGED <<created, mine, fileSide, expired, results, answered, accepted, taught,
                   solutions, pooled, peerSide, restarts>>

\* receive_bid(): only for a task that is still in the table
ReceiveBid(t) ==
    /\ t \in mine
    /\ bidders' = bidders \cup {t}
    /\ UNCHANGED <<created, mine, fileSide, expired, results, answered, accepted, taught,
                   solutions, pooled, peerSide, restarts>>

\* Mutant: the table without the request is not saved.
AcceptUnsaved(t, caps) ==
    /\ t \in mine
    /\ results' = results \cup {t} /\ answered' = answered \cup {t}
    /\ mine' = mine \ {t}
    /\ accepted' = accepted \cup {t}
    /\ solutions' = [solutions EXCEPT ![t] = caps]
    /\ UNCHANGED <<created, fileSide, expired, bidders, taught, pooled, peerSide, restarts>>

\* receive_result(), under the lock; expiry is not looked at
AcceptResult(t, caps) ==
    /\ t \in mine
    /\ results' = results \cup {t} /\ answered' = answered \cup {t}
    /\ mine' = mine \ {t}
    /\ SaveQueue
    /\ accepted' = accepted \cup {t}
    /\ solutions' = [solutions EXCEPT ![t] = caps]
    /\ UNCHANGED <<created, expired, bidders, taught, pooled, peerSide, restarts>>

\* execute_task() of a peer's request counts it and saves both files; only a test calls it
ExecuteTask ==
    /\ UNCHANGED mine /\ SaveQueue
    /\ UNCHANGED <<created, expired, bidders, results, answered, accepted, taught,
                   solutions, pooled, peerSide, restarts>>

\* after the lock: the learner, then one hint per gap solution.  All of them carry the
\* task's id as signal and no hint_id, and the pool keeps one hint of an id.
TeachResult(t) ==
    /\ t \in accepted
    /\ accepted' = accepted \ {t}
    /\ taught' = [taught EXCEPT ![t] = @ + 1]
    /\ \E first \in solutions[t] \cup {"none"} :
         /\ first = "none" => solutions[t] = {}
         /\ pooled' = [pooled EXCEPT ![t] = {first} \ {"none"}]
    /\ UNCHANGED <<created, mine, fileSide, expired, bidders, results, answered, solutions,
                   peerSide, restarts>>

Expire(t) ==
    /\ t \in (created \cup PeerTasks) \ expired
    /\ expired' = expired \cup {t}
    /\ UNCHANGED <<ownSide, peerSide, restarts>>

\* receive_remote_request(): every repetition is stored again, the newest 32 are kept
ReceiveRemote(t) ==
    LET grown == Append(remote, t) IN
    /\ t \notin expired /\ requests < MaxArriving
    /\ requests' = requests + 1
    /\ remote' = IF Len(grown) > MaxRemote
                   THEN SubSeq(grown, Len(grown) - MaxRemote + 1, Len(grown)) ELSE grown
    /\ UNCHANGED <<ownSide, expired, offered, restarts>>

\* get_executable_requests() and get_bids_to_broadcast(): the first four entries that fit
Executable(t) == t \notin expired /\ t \in Runnable
FirstFits(n) == {i \in DOMAIN remote :
                   /\ Executable(remote[i])
                   /\ Cardinality({j \in 1..i : Executable(remote[j])}) <= n}
BroadcastBids ==
    /\ FirstFits(MaxBids) # {}
    /\ offered' = offered \cup {remote[i] : i \in FirstFits(MaxBids)}
    /\ UNCHANGED <<ownSide, expired, remote, requests, restarts>>

\* The process ends; the next one loads the unexpired tasks of the file, and nothing else
Reborn(content, stale) ==
    /\ stops < MaxStops /\ stops' = stops + 1
    /\ mine' = content \ expired
    /\ queueFile' = content /\ unsaved' = FALSE
    /\ relapses' = relapses + (IF stale THEN 1 ELSE 0)
    /\ bidders' = {} /\ results' = {} /\ accepted' = {} /\ remote' = <<>>
    /\ UNCHANGED <<created, expired, answered, taught, solutions, pooled, offered, requests,
                   saveFaults>>
StopBroker == Reborn(queueFile, unsaved)
\* a crash while the queue file is rewritten leaves nothing readable
CrashWhileSaving == created # {} /\ Reborn({}, TRUE)

BrokerNext ==
    \/ \E t \in OwnTasks :
         \/ CreateTask(t) \/ ReceiveBid(t) \/ TeachResult(t)
         \/ \E caps \in SUBSET Caps : AcceptResult(t, caps)
    \/ \E t \in OwnTasks \cup PeerTasks : Expire(t)
    \/ \E t \in PeerTasks : ReceiveRemote(t)
    \/ ExecuteTask \/ BroadcastBids \/ StopBroker \/ CrashWhileSaving

BrokerSpec == BrokerInit /\ [][BrokerNext]_tbVars

-----------------------------------------------------------------------------
BrokerTypeOK ==
    /\ created \subseteq OwnTasks /\ mine \subseteq created /\ queueFile \subseteq created
    /\ expired \subseteq OwnTasks \cup PeerTasks
    /\ bidders \subseteq created /\ results \subseteq answered /\ answered \subseteq created
    /\ accepted \subseteq results
    /\ taught \in [OwnTasks -> Nat]
    /\ solutions \in [OwnTasks -> SUBSET Caps] /\ pooled \in [OwnTasks -> SUBSET Caps]
    /\ remote \in Seq(PeerTasks) /\ offered \subseteq PeerTasks
    /\ requests \in Nat /\ stops \in Nat /\ relapses \in Nat /\ saveFaults \in Nat
    /\ unsaved \in BOOLEAN

\* "Persistente Queue ueberlebt Neustarts": unless the last save has failed, a start would
\* find exactly the requests of the table, less what has expired, so a failed save is made
\* good by the next one; until a start has read a file that was not, no request is lost and
\* no answered one is in the table; and however often a result comes in, it is learnt once
\* and at most once more for each such start.
QueueSurvives ==
    /\ ~unsaved => queueFile \ expired = mine \ expired
    /\ relapses = 0 => /\ created \ (expired \cup answered) \subseteq mine
                       /\ answered \cap mine = {}
    /\ \A t \in OwnTasks : taught[t] <= 1 + relapses
=============================================================================
