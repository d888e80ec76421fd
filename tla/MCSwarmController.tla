------------------------- MODULE MCSwarmController ------------------------
EXTENDS SwarmController

CONSTANTS t1, t2, daemon, cliTool

\* Two callers of the daemon's controller.
MCDaemonOnly == [t \in CtrlThreads |-> daemon]

\* t1 calls the daemon's controller, t2 runs in a command line cliTool.
MCClientAndDaemon == [t \in CtrlThreads |-> IF t = t1 THEN daemon ELSE cliTool]

\* A disable that was answered to the command line client (cli_disable), while no other
\* command is in progress or was ever given, is in effect in the running daemon
\* (swarm_ui_adapter: "UI clients that send IPC commands to SwarmController"): the
\* daemon's capture agent polls the daemon's own _enabled.
DisableReachesDaemon ==
    reply[t2] = "ok" /\ op[t2] = "disable_swarm"
        /\ pc[t1] = "idle" /\ pc[t2] = "idle" /\ reply[t1] = "none"
    => (up[daemon] => ~enabled[daemon])
===========================================================================
