----------------------------- MODULE SwarmNode ----------------------------
(***************************************************************************)
(* A node whose user withdraws the consent while the swarm is on: the      *)
(* daemon with its controller and capture agent (SwarmAgent), the command  *)
(* line client's cli_revoke (modules/swarm_ui_adapter.py), the metrics     *)
(* database (modules/swarm_persist.py) and the gossip thread of the P2P    *)
(* layer (modules/swarm_p2p.py), which publishes what the database holds.  *)
(*                                                                         *)
(* How the consent file is written and read is SwarmConsent's subject;     *)
(* here a decision is stored in one step.  Each database call is one       *)
(* transaction under swarm_persist's _db_lock, hence one step.             *)
(***************************************************************************)
EXTENDS SwarmAgent

CONSTANTS
    SendMayFail,  \* neither the socket nor the command file reaches the daemon
    MaxRevokes    \* bound: how often the consent is withdrawn

ASSUME NodeAssumption == SendMayFail \in BOOLEAN /\ MaxRevokes \in Nat

VARIABLES
    consent,  \* the consent file says granted
    rows,     \* swarm_metrics.db holds frame metrics and fingerprints
    rpc,      \* where cli_revoke is
    revokes,  \* how often it was called
    told,     \* what the last cli_revoke has told its user, unless outdated since
    gpc, fps, \* the gossip thread: where it is, whether it holds fingerprints
    clean,    \* history: the last purge found the mode off and no frame in hand
    leaks     \* history: publications of fingerprints since that purge

metricsVars == <<rows, clean>>
cli == <<consent, rpc, revokes, told>>
gossip == <<gpc, fps, leaks>>
nodeVars == <<vars, metricsVars, cli, gossip>>

NodeTypeOK ==
    /\ TypeOK
    /\ consent \in BOOLEAN /\ rows \in BOOLEAN
    /\ rpc \in {"idle", "purge", "send"}
    /\ revokes \in 0..MaxRevokes
    /\ told \in {"nothing", "revoked"}
    /\ gpc \in {"off", "query", "publish"}
    /\ fps \in BOOLEAN /\ clean \in BOOLEAN
    /\ leaks \in Nat

NodeInit ==
    /\ Init
    /\ consent \in BOOLEAN
    /\ rows = FALSE
    /\ rpc = "idle" /\ revokes = 0 /\ told = "nothing"
    /\ gpc = "off" /\ fps = FALSE
    /\ clean = FALSE /\ leaks = 0

----------------------------------------------------------------------------
\* enable_swarm through the daemon's IPC: dispatch does not ask for the consent.
IpcEnable ==
    /\ ~mode
    /\ Switch
    /\ clean' = FALSE /\ leaks' = 0
    /\ UNCHANGED <<rows, cli, gpc, fps>>

\* A step of the agent; storing a frame adds its row, unless the database failed.
AgentSteps(t) ==
    /\ Agent(t) \/ StartFails(t)
    /\ rows' \in IF tpc[t] = "fstore" THEN {rows, TRUE} ELSE {rows}
    /\ UNCHANGED <<cli, gossip, clean>>

DaemonSteps ==
    /\ Owner \/ FrameCaptured
    /\ UNCHANGED <<metricsVars, cli, gossip>>

\* record_consent: the user takes part (again).
Grant ==
    /\ rpc = "idle"
    /\ consent' = TRUE /\ told' = "nothing"
    /\ UNCHANGED <<vars, metricsVars, rpc, revokes, gossip>>

\* cli_revoke: the revocation is written and audited, ...
RevokeWrites ==
    /\ rpc = "idle" /\ revokes < MaxRevokes
    /\ consent' = FALSE
    /\ rpc' = "purge" /\ revokes' = revokes + 1 /\ told' = "nothing"
    /\ UNCHANGED <<vars, metricsVars, gossip>>

\* Whether no thread of the agent is on its way to store a frame.
Quiet == ~mode /\ \A t \in Threads : tpc[t] \notin {"fread", "fstore"}

\* Mutant: only the frame table is emptied, the fingerprints stay.
RevokePurgesFrames ==
    /\ rpc = "purge"
    /\ clean' = Quiet /\ leaks' = 0
    /\ rpc' = "send"
    /\ UNCHANGED <<vars, rows, consent, revokes, told, gpc, fps>>

\* ... the metrics are purged, ...
RevokePurges ==
    /\ rpc = "purge"
    /\ rows' = FALSE
    /\ clean' = Quiet /\ leaks' = 0
    /\ rpc' = "send"
    /\ UNCHANGED <<vars, consent, revokes, told, gpc, fps>>

\* ... and disable_swarm is sent.  Its answer is not looked at: the user is told
\* that the swarm is disabled even when the command did not arrive.
RevokeSends ==
    /\ rpc = "send"
    /\ \/ /\ mode' = FALSE
          /\ late' = [t \in Threads |-> IF mode THEN 0 ELSE late[t]]
       \/ SendMayFail /\ UNCHANGED <<mode, late>>
    /\ rpc' = "idle" /\ told' = "revoked"
    /\ UNCHANGED <<toggles, faults, owner, tpc, local, capture, base, metricsVars,
                   consent, revokes, gossip>>

\* P2PLayer.start asks for the consent once; _gossip_loop does not ask again.
P2PStart ==
    /\ gpc = "off" /\ consent
    /\ gpc' = "query"
    /\ UNCHANGED <<vars, metricsVars, cli, fps, leaks>>

P2PStop ==
    /\ gpc = "query"
    /\ gpc' = "off"
    /\ UNCHANGED <<vars, metricsVars, cli, fps, leaks>>

\* Mutant: fingerprints of an earlier round are published again.
GossipQueriesAndKeeps ==
    /\ gpc = "query"
    /\ fps' = (fps \/ rows)
    /\ gpc' = "publish"
    /\ UNCHANGED <<vars, metricsVars, cli, leaks>>

\* _do_gossip: the recent fingerprints are read from the database ...
GossipQueries ==
    /\ gpc = "query"
    /\ fps' = rows
    /\ gpc' = "publish"
    /\ UNCHANGED <<vars, metricsVars, cli, leaks>>

\* ... and published, if there are any.
GossipPublishes ==
    /\ gpc = "publish"
    /\ leaks' = IF fps /\ clean THEN leaks + 1 ELSE leaks
    /\ gpc' = "query"
    /\ UNCHANGED <<vars, metricsVars, cli, fps>>

NodeNext ==
    \/ IpcEnable \/ DaemonSteps \/ \E t \in Threads : AgentSteps(t)
    \/ Grant \/ RevokeWrites \/ RevokePurges \/ RevokeSends
    \/ P2PStart \/ P2PStop \/ GossipQueries \/ GossipPublishes

NodeSpec == NodeInit /\ [][NodeNext]_nodeVars

----------------------------------------------------------------------------
\* A purge that comes after the disable and finds no frame in the agent's hands is
\* final: until the swarm is enabled again no row comes back.
PurgeHolds == clean => ~rows

\* After such a purge the gossip thread publishes at most the fingerprints it had
\* read before, once.
OneLastGossip == leaks <= 1

\* "Revoke consent and purge persisted frame metrics": when cli_revoke has
\* returned and nobody has enabled the swarm or consented since, no metrics are
\* stored.
RevokedMeansPurged == told = "revoked" /\ ~mode => ~rows

===========================================================================
