--------------------------- MODULE FileCommand ----------------------------
(***************************************************************************)
(* The file fallback of the controller's IPC: clients write a command to   *)
(* data/interbus/swarm_cmd.json (send_command_via_file) and wait for       *)
(* swarm_cmd.result.json; the controller's poll thread                     *)
(* (_file_cmd_poll_loop) picks the command up when the file's mtime grew,  *)
(* dispatches it, writes the result and empties the command file.          *)
(*                                                                         *)
(* A request is the pair of its client and a number.  Of the mtimes only   *)
(* what the comparison mtime > last_mtime sees is kept: two writes within  *)
(* one tick of the file system's clock carry the same mtime.               *)
(***************************************************************************)
EXTENDS Naturals

CONSTANTS
    Clients,      \* processes that call send_command_via_file
    MaxRequests,  \* bound: commands each client sends
    MaxFileFaults,    \* bound: dispatches and result writes that raise
    FineClock,    \* every write gets an mtime of its own
    Nothing       \* no request

ASSUME FileCommandAssumption ==
    /\ MaxRequests \in Nat
    /\ MaxFileFaults \in Nat
    /\ FineClock \in BOOLEAN
    /\ Nothing \notin Clients \X (1..MaxRequests)

Requests == Clients \X (1..MaxRequests)
Unreadable == {<<"empty">>, <<"mixed">>}  \* what json.loads raises on

VARIABLES
    cmd,        \* the command file: <<"absent">>, <<"empty">> (truncated), <<"mixed">>
                \* (two writers interleaved), <<"{}">> or a request
    result,     \* the request the result file answers
    fresh,      \* the command file's mtime is greater than last_mtime
    writtenNow, \* the command file was last written in the current tick
    seenNow,    \* last_mtime is the current tick
    ppc, polled,  \* the poll thread: where it is, the request it works on
    cpc, sent,  \* the clients: where each is, how many commands it has sent
    got,        \* what each client was last told: a request's result or <<"timeout">>
    executed,   \* how often each request was dispatched
    fileFaults

fileVars == <<cmd, result, fresh, writtenNow, seenNow, ppc, polled, cpc, sent, got,
          executed, fileFaults>>
clock == <<fresh, writtenNow, seenNow>>
poller == <<ppc, polled, executed, fileFaults>>
client == <<cpc, sent, got>>

FileTypeOK ==
    /\ cmd \in {<<"absent">>, <<"{}">>} \cup Unreadable \cup Requests
    /\ result \in Requests \cup {Nothing}
    /\ fresh \in BOOLEAN /\ writtenNow \in BOOLEAN /\ seenNow \in BOOLEAN
    /\ ppc \in {"idle", "read", "dispatch", "result", "consume", "emptying"}
    /\ polled \in Requests \cup {Nothing}
    /\ cpc \in [Clients -> {"idle", "opened", "waiting"}]
    /\ sent \in [Clients -> 0..MaxRequests]
    /\ got \in [Clients -> Requests \cup {<<"timeout">>, Nothing}]
    /\ executed \in [Requests -> 0..2]
    /\ fileFaults \in 0..MaxFileFaults

\* An earlier run may have left a result or an empty command file, or nothing.
FileInit ==
    /\ cmd \in {<<"absent">>, <<"{}">>}
    /\ result = Nothing
    /\ fresh = (cmd # <<"absent">>)
    /\ writtenNow = FALSE /\ seenNow = FALSE
    /\ ppc = "idle" /\ polled = Nothing
    /\ cpc = [c \in Clients |-> "idle"]
    /\ sent = [c \in Clients |-> 0]
    /\ got = [c \in Clients |-> Nothing]
    /\ executed = [r \in Requests |-> 0]
    /\ fileFaults = 0

----------------------------------------------------------------------------
\* The file system stamps a write with the current tick.
WriteCmd(content) ==
    /\ cmd' = content
    /\ fresh' = (FineClock \/ ~seenNow)
    /\ writtenNow' = TRUE
    /\ UNCHANGED seenNow

Tick ==
    /\ writtenNow \/ seenNow
    /\ writtenNow' = FALSE /\ seenNow' = FALSE
    /\ UNCHANGED <<cmd, result, fresh, poller, client>>

\* What a writer leaves that finds another writer's text where it had truncated
\* the file: its own text or, when that is the shorter one, a mixture.
Overwritten(content) ==
    IF cmd \in Requests \cup {<<"mixed">>}
    THEN {content, <<"mixed">>} ELSE {content}

\* send_command_via_file: write_text truncates the file ...
ClientOpens(c) ==
    /\ cpc[c] = "idle" /\ sent[c] < MaxRequests
    /\ WriteCmd(<<"empty">>)
    /\ cpc' = [cpc EXCEPT ![c] = "opened"]
    /\ sent' = [sent EXCEPT ![c] = @ + 1]
    /\ got' = [got EXCEPT ![c] = Nothing]
    /\ UNCHANGED <<result, poller>>

\* ... and fills it; the old result file stays where it is.
ClientFills(c) ==
    /\ cpc[c] = "opened"
    /\ \E content \in Overwritten(<<c, sent[c]>>) : WriteCmd(content)
    /\ cpc' = [cpc EXCEPT ![c] = "waiting"]
    /\ UNCHANGED <<result, poller, sent, got>>

\* Any result file with an "ok" in it is taken for the answer.
ClientReadsResult(c) ==
    /\ cpc[c] = "waiting" /\ result # Nothing
    /\ got' = [got EXCEPT ![c] = result]
    /\ cpc' = [cpc EXCEPT ![c] = "idle"]
    /\ UNCHANGED <<cmd, result, clock, poller, sent>>

\* Mutant: the client hands back the command file instead of an error.
ClientTimesOutRaw(c) ==
    /\ cpc[c] = "waiting" /\ result = Nothing
    /\ got' = [got EXCEPT ![c] = cmd]
    /\ cpc' = [cpc EXCEPT ![c] = "idle"]
    /\ UNCHANGED <<cmd, result, clock, poller, sent>>

\* After three seconds without a result file the client gives up.
ClientTimesOut(c) ==
    /\ cpc[c] = "waiting" /\ result = Nothing
    /\ got' = [got EXCEPT ![c] = <<"timeout">>]
    /\ cpc' = [cpc EXCEPT ![c] = "idle"]
    /\ UNCHANGED <<cmd, result, clock, poller, sent>>

\* Mutant: a file whose mtime did not grow is remembered but never read.
PollStatStuck ==
    /\ ppc = "idle" /\ cmd # <<"absent">> /\ fresh
    /\ fresh' = FALSE /\ seenNow' = writtenNow
    /\ ppc' = IF cmd = <<"{}">> THEN "read" ELSE "idle"
    /\ UNCHANGED <<cmd, result, writtenNow, polled, executed, fileFaults, client>>

\* stat(): the file is read only when its mtime grew since the last time.
PollStat ==
    /\ ppc = "idle" /\ cmd # <<"absent">> /\ fresh
    /\ fresh' = FALSE /\ seenNow' = writtenNow
    /\ ppc' = "read"
    /\ UNCHANGED <<cmd, result, writtenNow, polled, executed, fileFaults, client>>

\* A truncated file does not parse: the exception ends this poll.
PollRead ==
    /\ ppc = "read"
    /\ \/ /\ cmd \in Unreadable
          /\ ppc' = "idle" /\ UNCHANGED polled
       \/ /\ cmd = <<"{}">>
          /\ ppc' = "consume" /\ UNCHANGED polled
       \/ /\ cmd \in Requests
          /\ ppc' = "dispatch" /\ polled' = cmd
    /\ UNCHANGED <<cmd, result, clock, executed, fileFaults, client>>

PollDispatch ==
    /\ ppc = "dispatch"
    /\ executed' = [executed EXCEPT ![polled] = @ + 1]
    /\ ppc' = "result"
    /\ UNCHANGED <<cmd, result, clock, polled, fileFaults, client>>

\* dispatch or one of the two writes raises: the command stays in the file.
PollFails ==
    /\ ppc \in {"dispatch", "result", "consume"}
    /\ fileFaults < MaxFileFaults
    /\ fileFaults' = fileFaults + 1
    /\ ppc' = "idle" /\ polled' = Nothing
    /\ UNCHANGED <<cmd, result, clock, executed, client>>

PollWritesResult ==
    /\ ppc = "result"
    /\ result' = polled
    /\ ppc' = "consume"
    /\ UNCHANGED <<cmd, clock, polled, executed, fileFaults, client>>

\* Mutant: the command is left in the file.
PollLeaves ==
    /\ ppc = "consume"
    /\ ppc' = "idle" /\ polled' = Nothing
    /\ UNCHANGED <<cmd, result, clock, executed, fileFaults, client>>

\* The file is emptied, whatever it holds by now: write_text truncates it ...
PollTruncates ==
    /\ ppc = "consume"
    /\ WriteCmd(<<"empty">>)
    /\ ppc' = "emptying" /\ polled' = Nothing
    /\ UNCHANGED <<result, executed, fileFaults, client>>

\* ... and writes "{}", into the text of a client that was quicker; either way
\* this write makes the file fresh again.
PollEmpties ==
    /\ ppc = "emptying"
    /\ WriteCmd(IF cmd = <<"empty">> THEN <<"{}">> ELSE <<"mixed">>)
    /\ ppc' = "idle"
    /\ UNCHANGED <<result, polled, executed, fileFaults, client>>

Poll == PollStat \/ PollRead \/ PollDispatch \/ PollWritesResult
        \/ PollTruncates \/ PollEmpties

FileNext ==
    \/ \E c \in Clients : \/ ClientOpens(c) \/ ClientFills(c)
                          \/ ClientReadsResult(c) \/ ClientTimesOut(c)
    \/ Poll \/ PollFails
    \/ Tick

FileSpec == FileInit /\ [][FileNext]_fileVars

\* The poll thread runs until the controller is stopped, and a write_text that
\* began is finished.
FileFairSpec ==
    /\ FileSpec
    /\ WF_fileVars(Poll)
    /\ \A c \in Clients : WF_fileVars(ClientFills(c))

----------------------------------------------------------------------------
\* However the clients' writes fall between stat, read and write, no command is
\* dispatched twice while no poll fails, and never more than twice however many
\* fail: an enable does not keep coming back after the disable that followed.
ExecutedOnce == \A r \in Requests : executed[r] <= IF fileFaults = 0 THEN 1 ELSE 2

\* A result file belongs to a command that was dispatched.
ResultOfExecuted ==
    /\ result # Nothing => executed[result] >= 1
    /\ \A c \in Clients : got[c] \in Requests => executed[got[c]] >= 1

\* A complete command whose mtime the poll thread's next stat finds grown is
\* dispatched, unless a client overwrites it first or the poll fails.
CommandTaken ==
    \A r \in Requests :
        (ppc = "idle" /\ cmd = r /\ fresh /\ executed[r] = 0)
            ~> (executed[r] > 0 \/ fileFaults > 0 \/ \E c \in Clients : cpc[c] = "opened")

\* "write command to swarm_cmd.json, wait for result": the result a client
\* returns is the result of the command it has just sent.
ResultIsMine ==
    \A c \in Clients : got[c] \in Requests => got[c] = <<c, sent[c]>>

===========================================================================
