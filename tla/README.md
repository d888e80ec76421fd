# Aether in TLA+

This directory specifies the parts of Aether in which several actors share state:
the swarm mode of a node (consent, controller, capture agent, gossip), the services
that exchange knowledge with other nodes (task broker, blindspot engine, hint relay,
consensus database, session chain, anchor pool, algorithm tokens, headless daemon),
and the stores the desktop shell keeps in plain files (groups and chats, quarantine,
vault and packs, account), together with the overlay process it starts indirectly. The
modules are translated from the code
(`src/modules/*.py`, `src/*.py`, `src/src/*.rs`), TLC checks them on small instances,
and TLAPS proves every invariant the runs check, and one refinement, for every instance.

1. [The system](#1-the-system)
2. [Modules and how they correspond to the code](#2-modules-and-how-they-correspond-to-the-code)
3. [What the runs check](#3-what-the-runs-check)
4. [Bounds and fairness](#4-bounds-and-fairness)
5. [What is proved](#5-what-is-proved)
6. [Where code and documentation differ](#6-where-code-and-documentation-differ)
7. [What is not modelled](#7-what-is-not-modelled)
8. [What is left](#8-what-is-left)

Run a check with `tlc -config <run>.cfg <module>` and a proof with
`tlapm <module>_proofs.tla`; `PROJECT.json` lists the runs with their modules, the
code each definition stands for, the hazards and the theorems.

## 1. The system

A node consists of several processes that share files under `data/`:

| process | what it runs |
|---|---|
| daemon (`swarm_agent.run_agent_daemon`) | `SwarmController`, IPC server on port 7387, the poll thread of the command file, compute listener on port 7389, `SwarmAgent` with its capture adapter |
| headless daemon (`daemon_headless.py`) | one task that starts and stops a `P2PLayer` and the offline learner |
| command line (`swarm_ui_adapter`) | a client of the daemon's socket or command file; for enable and disable a `SwarmController` of its own |
| desktop shell (`iced_shell.rs`) | reads the status file, writes the consent file itself; owns accounts, groups, chats, quarantine, vault; starts and stops the bridge and, as a service, the headless daemon |
| hybrid bridge (`hybrid_bridge.py`) | starts the overlay and a `P2PLayer` |
| overlay (`yggdrasil`) | a process of its own, known to the others by the number in `data/yggdrasil.pid` |
| `start.py` | runs before the other tools; synchronises the account with the node's metadata |

### Components, their state, their operations

| component | state | operations | what makes it hard | what makes it correct |
|---|---|---|---|---|
| consent (`swarm_consent.py`) | `swarm_consent.json`, `_consent_lock`, the audit log | `has_consent` (stores a default if undecided), `record_consent`, `revoke_consent`, purge | check and store are two critical sections; `write_text` truncates, then fills; the lock is seen by one process only; gates read without it | a decision is never replaced by the default; an answer was true at some time during the question; texts never mix |
| controller (`swarm_controller.py`) | `SWARM_MODE` in SQLite, `_enabled` in every process, `swarm_status.json`, the listener flag | `enable_swarm`, `disable_swarm`, `get_status`, `dispatch`, construction | two transactions, one assignment, one file, any of which may fail or be cut off by a crash; every process has a copy | it looks atomic to its callers; store, copy and status agree |
| command file (`send_command_via_file`, `_file_cmd_poll_loop`) | `swarm_cmd.json`, `swarm_cmd.result.json`, mtimes, `last_mtime` | client writes, poll thread stats, reads, dispatches, writes the result, empties the file | no locking at all; mtimes have a resolution | a command is dispatched, once, and its result is its own |
| agent (`swarm_agent.py`, `capture_adapter.py`) | `_stop_event`, `_agent_thread`, the capture, its ring buffer, the pipeline's previous frame | `start`, `stop`, the agent loop, `_process_frames` | the mode is polled in two loops with different memories; `join` times out | one loop; after a disable no frame beyond the one in hand; a capture always has an owner; a delta never spans two captures |
| metrics store (`swarm_persist.py`), command line (`swarm_ui_adapter.py`) | `frame_metrics` | append, query, purge; `cli_revoke` in three steps | ordering of purge, disable and capture | what is purged stays purged |
| P2P layer (`swarm_p2p.py`), headless daemon, offline learner (`offline_learning.py`) | gossip thread, stop events, failure counter, learner threads, `offline_state.json` | `start` by tier, `stop`, gossip rounds, `start_background_loop`, the learner's `stop`, consolidation | a start that raises half-way; events cleared by one thread after another has set them; state read under a lock and written without it | a failed start leaves nothing running; stopped threads end; an offline node writes it down, if need be in a second try |
| task broker (`task_broker.py`) | own requests, bids, results, remote requests, `task_queue.json` | create, bid, result, gossip in and out, expiry, restart | results repeat and come late; the queue file is rewritten in place, and a failed write is only logged | a failed save is made good by the next one; a restart from an up-to-date file loses nothing and revives nothing; a result is learnt once |
| blindspot engine (`blindspot_engine.py`) | open gaps, solution pools, strengths, history, one plain lock | `register_gap`, `absorb_peer_hints`, `tick`, flush, `_resolve_gap` | several threads work from lists they took earlier; one function is called with and without the lock | no hint is popped without being used; each gap is counted once; nobody waits for himself |
| hint relay (same file, `swarm_p2p.py`) | relay queue and memory of relayed ids per node, packets | publish, absorb, requeue | cycles of nodes; packets lost, cut or throttled; hints that grow too old or do not pass the filter; a memory that is emptied when full | a hint that nobody gave up reaches everybody, and the flood ends |
| consensus database (`consensus_engine.py`) | two tables | `submit_candidate` | select before the transaction, several processes; the comments disagree on what a report is good for | a promotion is whole or not at all, and names the report that committed last |
| session chain (`vault_chain.py`, `registry.py`) | chain blocks, milestones minted per session | `maybe_mint_chain_block`, `verify_chain` | the tip is read in one step and used in a later one | an honest chain verifies |
| anchor pool (`vault_chain.py`, `p2p_anchor_pool.py`) | one file per bundle, `latest.json` | append, load | no lock; a summary of an older scan overwrites a newer one | a confirmed bundle counts for ever, and a validator counts once |
| algorithm tokens (`algo_share.py`, `gossip_toxicity_filter.py`) | tokens, queue, `algo_tokens.json` | emit, receive, fetch for a packet, restart | the queue is not saved, a failed write is swallowed; the receiver keeps less than the sender packs | what peers were told survives a restart from an up-to-date file; the fittest arrive |
| groups and chats (`state.rs`) | groups, private threads, blocks, register, `state.json` | every handler of the shell that changes them | memory changes first, the file after it, and the save may fail | an owner is a member and the senior one; a copy has its original |
| quarantine (`observation.rs`) | `records.json`, `manifest.json` | `classify`, `store_anchor` | two files, one after the other | a stored signal is recognised; nothing is dropped silently |
| vault and packs (`vault_access.rs`, `pack.rs`, `aef.rs`) | entries, `vault_store.json`, `installed_packs.json` | submit, install, uninstall, restart | an install is many saves; a file that was broken off is taken for an empty vault by one program and refused by the other | what counts as installed is there |
| account (`auth.rs`, `start.py`, `session_guard.py`) | `users.json`, the claims in `node.json`, `nodes/<id>.json`, `settings.json` | register, login, synchronise, guard | two programs rewrite three files without a lock | one account; who signed in passes the guard; a synchronised account can sign in |
| overlay process (`yggdrasil_install.py`, `hybrid_bridge.py`, `swarm_p2p.py`, `py_bridge.rs`, `launcher_dashboard.rs`) | `yggdrasil.pid`, the processes of overlay, bridges and daemons, the children the shell holds | look, spawn, write the number, stop, unlink; start, stop, restart of bridge and service | look, spawn and write are three steps; the overlay outlives who started it, those outlive the shell; a dead overlay leaves its number behind | one overlay, named by the file |

### How they interact

* by calls: `dispatch` calls the controller; `cli_revoke` calls `revoke_consent`
  and then sends `disable_swarm`; the agent reads `controller.enabled`; the gossip
  thread calls the broker, the engine, the propagator and the learner in turn;
* by files: consent, status, command and result file, the SQLite databases, the
  account's claims, which the shell writes, `start.py` rewrites and the guard reads;
* by threads that poll: the agent polls the mode, the poll thread polls the command
  file, the gossip thread polls the database;
* by gossip packets, each of which carries hints, tokens, requests, bids.

There are no callbacks from the consent to anybody: a revocation reaches the
capture only because the command line sends a disable after it, and reaches gossip
only because the database is empty. This is why the interleavings of section 3
matter more than any single function.

## 2. Modules and how they correspond to the code

| module | models | composes |
|---|---|---|
| `SwarmConsent` | the consent file and all its readers and writers | |
| `AtomicMode` | the abstract controller: each call takes effect at one moment | |
| `SwarmController` | the controller with lock, transactions, failures, crashes | implements `AtomicMode` |
| `FileCommand` | the command file protocol | |
| `SwarmAgent` | the agent's threads, the capture and the ring | |
| `SwarmNode` | a node while the user revokes: agent, store, `cli_revoke`, gossip | `EXTENDS SwarmAgent` |
| `HeadlessSwarm` | daemon task, P2P layer, gossip thread, offline learner | |
| `TaskBroker` | one node's requests, bids and results | |
| `BlindspotEngine` | one node's gaps and solution pools under the lock | |
| `HintRelay` | the flood of hints through a network of nodes | |
| `ConsensusEngine` | `submit_candidate` in several processes | |
| `SessionChain` | minting and verification of the chain of blocks | |
| `AnchorPool` | append and load of the pool of bundles | |
| `AlgoShare` | the propagator of algorithm tokens, and a peer's filter | |
| `GroupState` | groups, private threads, blocks, register | |
| `Quarantine` | the quarantine's two files | |
| `PackVault` | the vault with its packs | |
| `AccountBinding` | the account, its claims, `start.py`, the session guard | |
| `OverlayProcess` | the overlay, its number, and the programs that start it | |
| `MCFiles`, `MCServices`, `MCExchange` | a suite: one of several modules runs (see section 3) | the modules of the suite |
| `MCSwarmConsent`, `MCSwarmController`, `MCBlindspot` | values for one module | |
| `SwarmConsent_proofs`, `SwarmController_proofs`, `FileCommand_proofs`, `SwarmNode_proofs` | theorems about the module of that name; the last one about `SwarmAgent` too | |
| `Files_proofs`, `Services_proofs`, `Exchange_proofs` | theorems about the modules of a suite, and about the suite | the proof modules above |
| `DataInduction` | lemmas: induction over numbers and over the folds of the community modules | |

**SwarmConsent.** `file` holds what the JSON means to `has_consent`: `granted`,
`revoked`, or one of the three contents that `_read_consent` turns into `{}`:
`absent`, `empty` (truncated, not yet filled), `mixed` (two writers). A call is an
actor that goes through its steps: `CheckReads` is the first half of `has_consent`;
if nothing was on file the actor continues as `auto`, the default consent that
`has_consent` stores by calling `record_consent`. `Truncate` and `Fill` are the two
halves of `write_text` inside `_consent_lock`, `Audit` and `Purge` what follows
outside it. The shell (`write_swarm_consent`) takes the same two steps without lock,
audit or purge. A gate (`_handle_compute_request`, `P2PLayer._is_consented`) reads
without the lock and takes anything but a revocation for consent. `during` is a
history variable: the contents the file had since a call began.

**SwarmController.** One action per statement of `enable_swarm` / `disable_swarm`
that others can observe: `Acquire`, `DbSet` (the transaction that stores the mode),
`DbLogEvent` (the second transaction), `SetEnabled`, `WriteStatus`,
`StartComputeListener`, and the end of the `with` block in the last of them. `Fail`
is an exception from any of the writes: the lock is released, what was done stays.
`Crash` ends a process wherever its threads are, which no line of the code does;
`StartProc` is `__init__`, which reads
the database and neither writes the status file nor starts the listener.

The refinement mapping to `AtomicMode` is: before `SetEnabled` a call has not taken
effect, from then on it has (`CallView`); the abstract mode is the copy in memory
while the process runs and the database while it does not (`ModeView`); and the
value a failed call left in the database is *in doubt* (`DoubtView`): invisible
while the process runs, the mode after its restart. `AtomicMode` allows exactly
this: a failed call leaves its own value in doubt and nothing else.

**FileCommand.** Contents are a request (a client and a number), `{}` (consumed), or
unreadable (`empty`, `mixed`). Mtimes are kept as far as the comparison
`mtime > last_mtime` sees them: `fresh` says that the next stat will see a greater
mtime; with a coarse clock (`FineClock = FALSE`) a write in the tick the poll thread
has already seen is not fresh, and `Tick` moves the clock on. `PollStat`,
`PollRead`, `PollDispatch`, `PollWritesResult`, `PollTruncates`, `PollEmpties` are
the statements of `_file_cmd_poll_loop` in order, `PollFails` is its `except`.

**SwarmAgent.** Every `start()` creates a thread object; `Threads` are those
objects, so several loops can exist at once if the code lets them. `tpc` names the
place in `_agent_loop` (`head`, `mode`, `start`, `stop`, `frames`) and in
`_process_frames` (`fstop`, `fmode`, `foff`, `fread`, `fstore`). `was` is the local
`swarm_was_enabled`. `stop()` is three steps (`StopSignals`, `StopStopsCapture`,
`StopJoins`); the last waits for the thread unless `JoinTimesOut`, the five seconds
of `join`. A frame is known by the capture session that took it, the pipeline's
memory by the session of its previous frame (`base`). `late` counts, per thread, the
frames stored since the mode was switched off.

**SwarmNode.** Adds the consent, the rows of the metrics database, `cli_revoke` in
its three steps, the gossip loop's query and publication and `enable_swarm` over
IPC. `clean` and `leaks` are history: whether the last purge found the mode off and
no frame in the agent's hands, and what gossip has published since.

**HeadlessSwarm.** Three kinds of threads. The task (`runner`) goes through
`_run_swarm`: consent, `P2PLayer.start` on the tier it finds, `stop` in its
`finally`, which stops the learner and joins the gossip thread in separate steps. The gossip
thread (`gt`) starts the learner (`ClaimLoop`, `ClearEvent`, `SpawnLoop` are the
statements of `start_background_loop` outside any lock) and then plays rounds that
succeed or fail; `Threshold` failures in a row (the code: three) switch the node offline and spawn a
consolidation. The workers are the learner's loop and those consolidations:
`ReadOffline` under the lock, `WriteState` without it. A write that fails is logged and
forgotten (`WriteFails`): it changes nothing, or leaves a file that cannot be read;
`writeLost` says that this has happened to the news that the node is offline. The start
of a node below the full tier raises, as `_start_tier_watchdog` uses an attribute that does not exist.

**TaskBroker.** `_lock` covers the change of a table together with `_save_queue`,
so each is one action; `AcceptResult` is `receive_result` inside the lock and
`TeachResult` what it does after releasing it, so the same result can come in again
in between. `Expire` passes a task's `expires_ts`: the tables prune it at their next
use. `SaveQueue` may fail, which the code logs and forgets: the table goes on, and the
file keeps what it had or cannot be read (`unsaved`). `StopBroker` is an end and a start
from the file, `CrashWhileSaving` an end that leaves the file torn, from which the next
start learns nothing; `relapses` counts the starts from a file the last save had not
brought up to date.

**BlindspotEngine.** `_lock` is a plain lock. Sections that take and release it are
one action; `bpc` names the places between them. `ResolveNext`, `PopGap`, `LogGap`
are `_resolve_gap`, which takes the lock once for the table and once more for the history;
`FlushTick`, `SelectRipe`, `PopPool`, `LearnHints`, `SettleGap` the flush of the
pools. A hint of this program has no fingerprints, one of another program (`Foreign`)
may: only the latter go to the offline learner, in a call whose exception is swallowed
(`spoilt`), and every hint counts for the strength of its domain, which it makes strong
unless its boost is small (`TakeIn`). `SettleGap` calls `_resolve_gap` while it holds the lock: the caller gets to
`pop` with `bsLock` its own, and stays there, which `blind_deadlock` exhibits.

**HintRelay.** `PublishHints` assembles a packet (own hint, then the relayed ones that
are not too old, up to `MaxPacket`), and chooses which neighbours it reaches. An id is
that of gap and node, so a node can make the same hint again. `ReceiveHints` is the
filter of the receiving node, which keeps the first `MaxKept` hints, drops `relay_hop`
and what its text or domain rules out (`Rejected`), and then `absorb_peer_hints`, which
queues what it does not remember and empties its memory when that is full. A sender with
more than `MaxRate` packets in a window has the hints taken out (`ThrottleHints`).
`dropped` is history: the hints that some node has given up in one of these ways.

**ConsensusEngine.** `Submit` is the SELECT, `OpenTransaction` the first write, which
takes SQLite's write lock, `Commits` everything up to `commit()`, `SubmitFails` an
exception, a lock timeout or the end of the process.

**SessionChain.** A block is `[by, milestone, prev]`, known by its row. `ReadTip` is
`latest_chain_block`, `SavesBlock` the insert. `Verified(a)` is what `verify_chain`
looks at (the blocks of the session's user, the newest `MaxVerified`, in order of
their ids) and `Tampered` its test.

**AnchorPool.** Every bundle is a file that is created, then filled. A process goes
from its scan (`ScansHistory`) over the summary (`WritesSummary`) to the answer;
`Validators` is the merge of the scanned records, in the order of the file names,
capped. Bundles are numbered in that order. A process may die anywhere.

**AlgoShare.** Every public method runs under one lock and saves inside it, so each
is one action; a save that fails is swallowed, and the file keeps what it had or cannot
be read (`unstored`). `Handled` is how far a packet of `Limit` tokens works through the
queue, `Fresh` the tokens it takes from there, and the rest of the packet is filled
by fitness. `peersHave` is what a peer's filter lets through: the first `Keep` of the
packet, in which the queue's tokens come first and the others in order of fitness.

**GroupState.** The state in memory (`gsMem`) and the file (`gsDisk`) are two values
of one kind; every operation changes the first and then saves it, and the save may be
refused, or broken off. `Deduped` is `dedupe_members`: the owner first, then everybody
else once, in order; `AllBut` is the `retain` and the `filter` of the two operations
that take a member out. `SendPrivate` and `CopyToPartner` are the two stores of a
private message with their own saves; `DropFile` and `PublishShare` a shared file with
the analysis in between; `Loaded` is what a start makes of a file. Messages are
counted, not kept: the properties compare how many.

**Quarantine.** `Observe` is `observe()` with `classify`, `StoreAnchor` the append and
the write of `records.json`, `SaveManifest` the write of `manifest.json`. A write is
whole, refused, or broken off, which leaves an unreadable file.

**PackVault.** `Install` and `Uninstall` start a job; `InstallAnchor` and
`UninstallAnchor` treat one anchor each with a save of the vault, `InstallDone` and
`UninstallDone` save the list of packs. An entry of the vault is filed under a hash
that covers the vault's version, so the same anchor may be in it twice. A pack without a
file is made of the vault's records of its domain (`Places`). A save is whole, refused,
or broken off (`SaveOutcomes`): a `vault_store.json` that was broken off cannot be read,
on which the handlers of the shell give up, while the command line tool
(`load_default().unwrap_or_default()`, `aether-cli.rs:58`) goes on with an empty vault,
whose next save replaces the file (`emptied`).

**AccountBinding.** An account is a name, a lock, the mark of a native binding and an
address; a lock is modelled by what it is computed from. `Register`, `Login`,
`SyncClaim`, `SyncDone`, `SaveSetting` are the shell's steps in their order,
`StartPy`, `CopyNode`, `ReadMetadata`, `WriteMetadata`, `WriteAccount` those of
`start.py`. `GuardAccepts` is `session_guard.py` on the three claims as they stand.

**OverlayProcess.** A slot is a bridge or daemon process, with the call it is in (`try`
is the bridge's own attempt, `ensure` and `start` the P2P layer's two looks, `stop` its
end) and its place in it: `Look`, `Forget` (unlink a number of nobody), `Spawn`,
`EmptyPid` and `FillPid` (the two halves of `write_text`), and `LookToStop`,
`KillOverlay`, `UnlinkPid`. `lost` is a writer whose file was unlinked before the number
was in it. An overlay that dies may stay a zombie of its parent, which passes
`os.kill(pid, 0)`; `Orphaned` is what the end of a parent does. The shell knows its
bridge (`bridge`) and its service (`tracked`) as children; `NextShell` forgets both and
ends neither. A bridge never gets further than its P2P layer (`BridgeEnds`, section 6).
`disturbed` is history: two programs were at the overlay at once, or one was killed or
failed between the process and its number.

Definitions named as mutants in the modules (`LockIgnored`, `PollLeaves`, ...) are
plausible bugs: each is a variant of one definition, and putting it in that
definition's place makes a property fail. They are listed in `PROJECT.json`.

## 3. What the runs check

Three runs are *suites*: their modules share no variable, a variable `part`, chosen
once in the initial state, says which of them runs, and the others stand still. A
suite therefore checks exactly what a run per module would: a behaviour of it is a
behaviour of one module, and a property of a part that does not run is asked of its
initial state.

**`files`** (`MCFiles`): six stores in plain files, with writes that are refused or
broken off and programs that end in between.

| part | question | property |
|---|---|---|
| all | is every variable of the part well typed? | `FilesTypeOK` |
| consent: three threads, or one thread with a shell and an unlocked gate | is the file half-written only while the lock's owner writes it? | `FileWhole` |
| | is the default stored only if the file was missing at some moment of the check? | `OptInOnlyUndecided` |
| | does every answer correspond to a content the file had during the question? | `AnswerWasStored` |
| groups | is a group's owner a member, the senior one, after every sequence of joins, leaves, removals, saves and loads? | `OwnerLeads` |
| | does a partner's thread never hold a message that the sender's lacks? | `CopyHasOriginal` |
| quarantine | is an acknowledged record never dropped by a later store? | `NoSilentLoss` |
| | is an acknowledged signal recognised, as long as no write was broken off between the two files? | `StoredIsRecognised` |
| vault | has every anchor of an installed pack a record in the vault, in memory and in the files, until a start takes a broken file for an empty vault? | `InstalledIsPresent` |
| account | does `users.json` name a second account only after a start on a file that could not be read? | `AccountStays` |
| | does the session guard accept whom the shell has signed in? | `SignedInPassesGuard` |
| overlay: two programs, shells that come and go, kills from outside | does at most one overlay run, and does the file name it, as long as no start or stop is crossed or broken off? | `OneOverlay` |

**`services`** (`MCServices`): the safety of ten services.

| part | question | property |
|---|---|---|
| all | | `ServicesTypeOK` |
| agent: three starts, joins that wait | one loop; nothing runs after `stop()`; deltas stay within a capture? | `SingleLoop`, `StopIsFinal`, `DeltaWithinSession` |
| node: revocations, IPC enables, captures, gossip, a disable that may not arrive | is a purge that found the agent quiet final, with at most one publication after it? | `PurgeHolds`, `OneLastGossip` |
| controller: two callers, two failing writes, two crashes | do store, memory and status file agree up to a fault; is it an atomic controller? | `StoredAndShown`, `ImplementsAtomicMode` |
| blindspot: two threads | is every reported gap open, on its way, or solved exactly once; is an absorbed hint pooled, in hand, dropped by a full pool, or used: given to the learner if it has fingerprints, counted for its domain if not? | `SolvedOnce`, `NoHintLost` |
| broker: two own tasks and a foreign one, a failing save, a restart or crash | is the file up to date after every save that did not fail; does a start from such a file lose no open request and revive no answered one; is a result learnt once, and once more for each other start? | `QueueSurvives` |
| consensus: two processes, four submissions that may fail or die | is a promotion whole or not at all: is no candidate left outside a transaction, and does an anchor name the report that committed last? | `PromotionIsWhole` |
| chain: three sessions of two users | does `verify_chain` accept the untouched blocks of an unforked chain of one user within its limit? | `HonestChainVerifies` |
| pool: two processes, four bundles, a crash | is a confirmed bundle found by everybody and its validator recorded; does a pseudonym validate once, as long as no validator is dropped? | `StoredCounts`, `ValidatesOnce` |
| hints: a ring of three nodes, a lost packet, a hint no filter lets through, a hint made again | when nothing is left to send, has every hint that was nowhere given up reached everybody, and was each queued once per node until its memory was emptied? | `FloodReaches` |
| file: two clients with two commands each, coarse clock, two failing polls | is a command dispatched at most once, twice if a poll failed? | `ExecutedOnce` |

**`exchange`** (`MCExchange`): what must make progress, under the fairness of section 4.

| part | question | property |
|---|---|---|
| all | | `ExchangeTypeOK` |
| file | is a command that the next stat finds new dispatched? | `CommandTaken` |
| tokens | is the file up to date after every save that did not fail; is what peers were told known until a start reads a file that is not? | `ToldIsStored` |
| | does a token that stays among the fittest reach the peers although the queue goes first? | `FittestArrives` |
| headless | does a start that raised leave no gossip thread? | `FailedStartStopsGossip` |
| | does the learner's loop end after the task, unless the gossip thread was still starting it? | `LearnerStops` |
| | does a node that goes offline write it down, or come back, or lose its one write with no loop left to repeat it? | `OfflineRecorded` |

**`agent_overlap`** (`SwarmAgent`): two starts and joins that give up. At most one more
frame per thread after a disable (`AtMostOneFrameEach`); a capture has a living thread
(`CaptureOwned`); a lasting disable ends the capture (`DisabledStopsCapture`); a stopped
thread ends (`StopEndsThreads`).

Eight runs end in a counterexample, `consent_auto`, `ctrl_client`, `filecmd_stale`,
`agent_missed`, `node_rows`, `blind_deadlock`, `daemon_relay`, `account_restart`:
section 6 says what each of them contradicts.

What the passing runs say about the system, in words:

* *Consent.* Inside one process the design is sound up to one window: a check that
  finds no file and stores the default is not one critical section, so a decision
  made in between is overwritten (`consent_auto`). A decision that was on file
  throughout a check is never overwritten, and this needs the lock around both halves
  of `write_text`, which the mutant `LockIgnored` takes away.
* *Controller.* The lock makes one process linearizable even though the three
  stores are updated one after the other. What can be lost is exactly the outcome
  of a call that raised or was cut off.
* *Command file.* Without a failing poll a command is never dispatched twice,
  whatever the clock does. With failures twice is the maximum, whatever their
  number: the second reading needs a write that fell between stat and read, and
  there is only one such write per command.
* *Agent and node.* When `join` waits, start and stop compose. When it gives up, two
  loops share one capture and one `swarm_was_enabled` each, and what remains true is
  what `agent_overlap` checks. A purge is final only if it comes after the disable and
  meets no frame in hand; `cli_revoke` purges first (`node_rows`).
* *Consensus.* A candidate is promoted and deleted in the transaction that stores it,
  so no later call ever finds one: the branch that joins reports and averages their
  metrics is never reached, and an anchor always has exactly one reporter (section 6).
* *Swallowed writes.* Broker, token propagator and offline learner log a failed write and
  go on. Each of them rewrites its whole file at the next save, so one failure is made
  good by the next success; only a start in between, or a learner's loop that has ended,
  makes the difference, and the properties name exactly that.
* *Hints.* A hint is given up in the places `dropped` names and nowhere else. The flood ends although packets carry no usable hop count (the filter drops
  it): only the memory of relayed ids ends it, and emptying that memory lets a hint
  come round again, once per emptying.
* *Chain, pool, tokens.* Each is sound within limits that the properties name: one
  user and no two sessions on one tip; no validator dropped by the cap; no crash
  inside the rewrite of the token file.
* *Files of the shell.* The order of the two saves of a message, the rule that an
  unreadable quarantine is an error and not an empty one, the order of vault and pack
  list, and the order in which the claims are written, are each what its property
  rests on; the mutants take them away.
* *Overlay.* The pid file is enough to keep the overlay single over the deaths of
  everybody but two: programs that look at the same time each start one, and a program
  that ends between the process and its number leaves an overlay nobody finds again.
  `OneOverlay` names exactly these two, and `OverlayAlone` proves that there is no third.

`CHECK_DEADLOCK FALSE` is set where the system may really stop: in `files` (a node
without users, or a bound on operations that is used up, has nothing left to do), in
`services`, `exchange` and `filecmd_stale` (clients stop after `MaxRequests`, minted
chains and delivered floods are complete), in `blind_deadlock` (the deadlock is the
subject), and in `daemon_relay` and `account_restart` (the task has ended; a node
without users). The remaining runs check for deadlock.

## 4. Bounds and fairness

| bound | where | value | why it is enough |
|---|---|---|---|
| `Threads`, `Shells`, `Gates` | consent | 3+0+0 or 1+1+1 | every hazard is between two actors; the third thread acts between the two halves of a write and its audit |
| `InitialFiles` | consent | absent, granted, revoked | what a clean run can have left; `empty` and `mixed` arise within the run |
| `CtrlThreads`, `MaxCtrlFaults`, `MaxCrashes` | controller | 2, 2, 2 | one caller inside and one waiting; two faults and two crashes in a row leave a value in doubt and settle it |
| `Clients`, `MaxRequests`, `MaxFileFaults` | command file | 2, 2 (1 under fairness), 2 (1) | two writers in one file, a command after an earlier result, two failing polls of one command; `DispatchedOnce` shows that more add nothing |
| `Threads` | agent | 3, 2 | a thread object is used once, so this bounds the `start()`s |
| `RingSize`, `Batch` | agent | 2 or 1, 2 | ring empty, partly filled, full; a batch that goes on and one that ends (the code: 4 and 8) |
| `MaxToggles`, `MaxFaults`, `MaxRevokes` | agent, node | 2, 1, 2 | off and on again, the shortest history that one loop notices and the other does not; an adapter that fails once; a second revocation after a renewed consent |
| `Callers`, `Gaps`, `Hints`, `MaxHints` | blindspot | 2, 2, 3, 2 | one thread inside and one between two of its sections; a pool that is full |
| `MaxRegister`, `MaxArrivals`, `Foreign` | blindspot | 1, 3, 2 of 3 hints | each gap once and each hint once; hints with fingerprints and one without |
| `OwnTasks`, `PeerTasks`, `MaxRemote`, `MaxBids`, `MaxArriving`, `MaxStops`, `MaxSaveFaults` | broker | 2, 1, 1, 1, 2, 1, 1 | one task answered while another is open over a restart, before it a save that fails; a remote list that is full (the code: 32) |
| `Submitters`, `NodeIds`, `MaxSubmits` | consensus | 2, 2, 4 | both orders of two overlapping calls, twice |
| `Minters`, `Milestones`, `MaxVerified`, `MaxChain` | chain | 3 of two users, 2, 3, 4 | a fork, a foreign block in between, and more blocks than the limit |
| `PoolProcs`, `Bundles`, `MaxValidators`, `MaxPoolCrashes` | pool | 2, 4, 3, 1 | a pseudonym used twice by one process, and a fourth validator that the cap drops |
| `Nodes`, `Edges`, `RelayHints`, `MaxHops` | hints | ring of 3, 3 hints, 3 | every hint can come back to its maker |
| `MaxPacket`, `MaxKept`, `MaxRemembered`, `MaxLosses` | hints | 3, 2, 1, 1 | a packet the filter cuts, a memory that is emptied (the code: 1000 ids), a lost packet |
| `MaxRate`, `Rejected`, `MaxRemakes` | hints | 2, 1 hint, 1 | a sender that is throttled at its third packet, a hint the filter keeps out, a hint that comes round after it was made again |
| `Tokens`, `Gate`, `Limit`, `Keep`, `MaxHit`, `MaxRestarts`, `MaxUnstored` | tokens | 3 (one own), 1, 2, 1, 1, 1, 1 | a failed save and a restart on it; more tokens than a packet holds, more in a packet than the filter keeps (the code: 256 and 5) |
| `Shots`, `Threshold`, `MaxConsentChanges`, `MaxLostWrites` | headless | 1, 2, 1, 1 | a slow consolidation beside the loop; a failure that does not yet count; a write that fails, which the next has to make good |
| `Accounts`, `Slugs`, `MaxStateOps`, `MaxStateFaults` | groups | 3, 1, 4, 2 | create, add, add, leave: the shortest history in which the order of members decides; two failed saves; messages are bounded by the operations |
| `Signals`, `Alike`, `MaxQFaults` | quarantine | 3 (two dangerous, one alike), —, 3 | a second store on the ruins of the first |
| `Anchors`, `Packs`, `MaxEntries`, `MaxVaultFaults` | vault | 3, 3 (two share an anchor, one made of its domain), 5, 2 | an install over an anchor that is there already, cut off and retried |
| `Names`, `Taken`, `MaxBindingFaults` | account | 3 (one reserved), 2 | a second registration after a lost file |
| `Slots`, `MaxOverlays`, `MaxOpMishaps` | overlay | 2, 2, 2 | a bridge beside a daemon, a second overlay after the first, or beside it; a killed program and a shell that ends; `OverlayAlone` shows that more add nothing |

History variables and session counters need no bound of their own. No symmetry is
used. The configurations are not sampled: TLC exhausts all of them, the largest
(`files`) within about three minutes.

**Fairness.** `SwarmAgent!FairSpec`: an agent thread is scheduled (`WF` of `Agent(t)`;
every wait in its loop has a timeout), and the owner that has begun `stop()` goes on.
`ExchangeFairness` states the fairness of the part that runs: the poll thread is a
daemon thread that sleeps and polls until the controller is stopped (`WF` of `Poll`),
and a client that has truncated the file goes on to fill it (`WF` of `ClientFills`);
the gossip thread keeps publishing (`WF` of `FetchTokens`); the daemon's task, its
gossip thread and every learner thread are scheduled (`WF` of `RunnerSteps`,
`GossipSteps`, `WorkerSteps(w)`; every wait in them has a timeout). Nothing obliges
anybody to start, stop, cancel, consent or switch, a client to send, a dispatch to
fail, the clock to tick, a round to succeed or to fail, a frame to arrive, a token to
be found or an adapter to start working: the liveness properties hold without.

## 5. What is proved

All theorems hold for every value of the constants that the module's named `ASSUME`
admits: any sets of threads, clients, processes, accounts, tasks, gaps and signals
(finite where the table says so), any bounds. The assumptions are types of the
constants and, where a definition goes through a set one by one, that it is finite:
`Nodes` of the flood, and `Bundles`, which are moreover numbered in the order of their
file names, as the code merges them in that order.

Every invariant that a passing run checks is the property of a theorem, and so is the
refinement; the theorems without a property are type correctness and lemmas of interest
of their own.

| theorem | says | rests on |
|---|---|---|
| `SwarmConsent_proofs!ConsentTypeCorrect` | `[]TypeOK` | |
| `AnswersStored` | `[]AnswerWasStored` | a history invariant: `during` contains the file's content throughout a call, and what an actor knows came from it |
| `WholeInOneProcess` | `OneProcess` implies `[]FileWhole` | the lock's owner and the threads between their two halves determine each other; a check that has seen no decision has `absent` in its history |
| `DefaultOnlyUndecided` | `OneProcess` implies `[]OptInOnlyUndecided` | the same invariant |
| `SwarmController_proofs!CtrlTypeCorrect`, `LockIsExclusive` | `[]TypeOK`; the lock is owned by exactly the thread inside and never left behind, for any number of processes (`LockHeld`) | |
| `StoreAgrees` | one process: `[]StoredAndShown` | `ShownInv`: the copy lags behind the store only between commit and assignment, the file behind the copy only until it is written |
| `Linearizable` | one process: `CtrlSpec => ImplementsAtomicMode` | `ViewInv`: a process that does not run has no callers, and between commit and assignment the store holds the caller's value |
| `FileCommand_proofs!FileTypeCorrect` | `[]FileTypeOK` | `OnceInv` for the counters |
| `DispatchedOnce` | `[]ExecutedOnce` | `OnceInv`, see below |
| `ResultsFromDispatches` | a result answers a dispatched command (`ResultOfExecuted`) | `AnswerInv`: a poll about to write a result has dispatched |
| `SwarmNode_proofs!AgentTypeCorrect` | `[]TypeOK` | a batch that goes on has room for a frame |
| `OneFrameAfterDisable` | `[]AtMostOneFrameEach`, also for overlapping loops | `LateInv`: a thread that has stored a frame since the disable is not past its check of the mode |
| `CaptureHasThread` | `[]CaptureOwned`, also for overlapping loops | the last thread stops the capture before it ends |
| `OneLoop`, `StopEndsAll` | if `join` waits: `[]SingleLoop`, `[]StopIsFinal` | `OwnerInv`: every living thread is `_agent_thread`, and what each step of `stop()` may assume |
| `DeltaStaysInSession` | if `join` waits: `[]DeltaWithinSession` | `SessionInv`: while a capture runs, the frame in the thread's hand belongs to it |
| `NodeTypeCorrect` | `[]NodeTypeOK` | |
| `PurgeIsFinal`, `GossipEnds` | `[]PurgeHolds`, `[]OneLastGossip` | `CleanInv`: from a quiet moment with the mode off no thread gets to storing a frame |
| `Services_proofs!ConsensusTypeCorrect`, `BrokerTypeCorrect`, `BlindspotTypeCorrect`, `ChainTypeCorrect`, `PoolTypeCorrect`, `HintTypeCorrect` | type correctness; for the hints also that no entry has more than `MaxHops` hops | |
| `PromotedAtOnce` | `[]PromotionIsWhole` | `LoneInv`: no transaction leaves a candidate behind, so no SELECT ever finds one |
| `NoRequestLost` | `[]QueueSurvives` | `QueueInv`: table and file agree unless the last save failed; what is taught and what can still be taught is at most one, plus one for each start from a file that was behind (`Due`) |
| `HintsAreKept` | `[]NoHintLost` | `HintInv`: who is not learning has nothing in hand, so nothing is overwritten; what is used stays so (`UsedStays`) |
| `GapsSolvedOnce` | `[]SolvedOnce`, finitely many threads | `CountInv`: registrations are the solved, the open and the popped ones; a pop is one thread's |
| `HonestBlocksVerify` | `[]HonestChainVerifies` | `LinkInv`: between a block and the one it names its own session has minted none; in an unforked chain the links are then the neighbours (`UnforkedChain`) |
| `RecordIsFaithful` | as long as no validator is dropped, the record merged from any set of bundles has the validators of all of them and nobody else | induction along the merge (`FoldSteps`): after each bundle the validators are those merged so far, each once |
| `ConfirmedCounts`, `OneValidation` | `[]StoredCounts`, `[]ValidatesOnce` | `PoolInv`, see below |
| `FloodReachesAll` | `[]FloodReaches`, finitely many nodes | `FloodInv`, see below |
| `ServicesImplementsParts` | a behaviour of `ServicesSpec` is one of every component but the agent that runs without its node | a step of the run is a step of the part it has picked, and leaves the others alone |
| `ServicesTypeCorrect` | `[]ServicesTypeOK` | the types of the parts |
| `Files_proofs!QuarantineTypeCorrect`, `GroupsTypeCorrect` | type correctness | |
| `NothingLostSilently` | `[]NoSilentLoss` | `LossInv`: a record whose manifest is still to be written is in the file |
| `StoredRecognised` | `[]StoredIsRecognised` | `FitInv`: unless interrupted the manifest fits the records, or is missing, except inside `store_anchor` |
| `OwnerIsLongestMember` | `[]OwnerLeads` | `GroupsInv`: in memory and on disk every room that exists has its owner at the head of its members, each once; `Deduped` makes it so of any room with an owner, and `AllBut` keeps order and uniqueness |
| `CopiesHaveOriginals` | `[]CopyHasOriginal` | `CopyInv`: a copy still to be made is of a message the sender's thread has, in a chat that is not with oneself, over memory and file |
| `OneAccount` | `[]AccountStays` | `AccountInv`: memory holds one name, and the file, if readable, holds no other, while nothing was lost |
| `VaultTypeCorrect`, `BindingTypeCorrect` | type correctness | `BindingTypes`: with the steps of the shell and of `start.py`, and at most one account |
| `InstalledPresent` | `[]InstalledIsPresent` | `VaultInv`: what is installed, or already handled by a running install, has been saved with the vault; a reference kept in an installed record is never the key of an entry, so a removal takes nothing away; while the file is broken, memory holds what is installed |
| `GuardAcceptsSignedIn` | `[]SignedInPassesGuard` | `GuardInv`: a login that no other step has come between has written the claims it has behind it, with the address it read; on an overlay node every account, and what `start.py` is about to write, says native |
| `OverlayTypeCorrect` | type correctness | |
| `OverlayAlone` | `[]OneOverlay` | `OverlayInv` (`OverlayKnown`): while nothing is disturbed one program at most is at the overlay; when it is about to start or to unlink, none runs, and when it writes the number or stops, none but its own; else the file names what runs |
| `FilesImplementsParts` | a behaviour of `FilesSpec` is one of every component | as for the services |
| `FilesTypeCorrect` | `[]FilesTypeOK` | the types of the parts |
| `Exchange_proofs!AlgoTypeCorrect`, `HeadlessTypeCorrect` | type correctness | |
| `ToldIsKept` | `[]ToldIsStored`, finitely many tokens | `ToldInv`: memory and file agree between calls unless the last save failed, and the queue holds known tokens only; a packet takes a prefix of the queue (`SomeHandled`) |
| `OfflineIsPending` | a node that is offline, has not written so and has lost no write of it has a consolidation under way that will write it (`RecordPending`): the safety half of `OfflineRecorded` | `LoopNotYet`: the loop that `SpawnLoop` starts has nothing under way |
| `StopsReachThreads` | the events a task sets when it stops stay set, unless the learner was started late (`StopsStaySet`): the safety half of `LearnerStops` and `FailedStartStopsGossip` | inductive as it stands |
| `ExchangeTypeCorrect` | `[]ExchangeTypeOK` | the types of the parts |
| `ExchangeKeepsParts` | under `ExchangeSpec`: `[]` of `ExecutedOnce`, `ToldIsStored`, `RecordPending` and `StopsStaySet` | a step of the run is a step of every part (`ExchangeSteps`); the parts' own fairness is not the run's, so it implements only their safety |

Why the invariants are needed: type correctness aside, hardly any of the properties is inductive. *The
command file* is the clearest case. `ExecutedOnce` bounds a counter, and to bound it
one has to say where further dispatches could come from: the request in the poll
thread's hand, the request it is about to read, and a file with the request that the
next stat will find new. `OnceInv` says that of these sources at most as many exist as
the count allows, that a request not yet written exists nowhere, and that while no poll
has failed a dispatched request is followed by the emptying of the file. *The
controller's* refinement needs that the store already holds the caller's value when
`SetEnabled` makes the abstract call take effect. *The quarantine* needs the
relation of two files at a moment when only one of them is written. *The chain* needs
to go from "no two blocks name the same one" to "every block names its neighbour",
for which the proof takes the least block that does not (`LeastNumber`).

*The anchor pool* has no lock, and its two properties hold because a process is alone
with its own bundles. `PoolSafe` says so: what a process has scanned of its own bundles
is all there is of them until it creates a file, whatever others add in between; while it
is at a file, none of its whole bundles has the pseudonym of the one it adds; a bundle
that is being confirmed is whole, and what is whole stays whole. The step from bundles
to the record, in which a validator is or is not, is `RecordIsFaithful`.

*The flood* ends with every hint where it can get to, unless it was given up, and the
final state says nothing about how. `FloodFront` does: a node that has a hint which was
nowhere dropped has it in its queue still, or every neighbour has it or will find it in a packet
on the wire. When no queue and no packet is left, the nodes with the hint are closed
under `Neighbours`, and the fold that defines `Reach` stays within such a set
(`ReachStaysIn`). `Remembers` is the other half: what a node has queued it remembers, or
its memory was cleared. What `absorb_peer_hints` does to a packet is a fold as well;
`RelayedAll` is its invariant, entry by entry.

*Groups.* `leave_group` hands a room to the first of the remaining members, who is the
longest one only because adding appends, removing keeps the order, and a load puts the
owner first; so the invariant is about every room of both states, the file's included.

Induction over data is done by sets: `DataInduction` derives it from the library's
theorem on well-founded orders (a set of numbers has a least member), and from it that a
`FoldLeft` or `MapThenFoldSet` over `1..n` is reached by its steps (`FoldSteps`), which
the proofs about `Validators`, `Deduped`, `AllBut`, `Reach` and the relay of a packet
use.

The assumption `OneController` (one process) in `Linearizable` and `StoreAgrees`
cannot be dropped: `ctrl_client` is the counterexample. `OneProcess` cannot be
dropped from the two consent theorems: a second process does not see the lock.
`~JoinTimesOut` cannot be dropped from the three agent theorems: a thread that
outlives `stop()` violates each.

Only model-checked: the liveness properties (`FittestArrives`, `CommandTaken`,
`FailedStartStopsGossip`, `LearnerStops`, `OfflineRecorded`, `DisabledStopsCapture`,
`StopEndsThreads`), as the prover reasons neither about fairness nor about `ENABLED`
(of three of them the safety half is proved), and what the runs that end in a
counterexample show.

## 6. Where code and documentation differ

Eight sentences of the sources are each contradicted by the counterexample of a run:

| sentence | run | what the code does |
|---|---|---|
| `swarm_consent.py:156` "Explizites Revoke immer respektieren" | `consent_auto` | `has_consent` reads "nothing on file", a revocation is stored, `has_consent` stores its default over it |
| `swarm_ui_adapter.py:6` "UI clients that send IPC commands to SwarmController" | `ctrl_client` | `cli_disable` switches a controller of its own and is answered ok; database and client's copy say off, the daemon's copy, which its agent polls, stays on (`DisableReachesDaemon`) |
| `swarm_controller.py:527` "write command to swarm_cmd.json, wait for result" | `filecmd_stale` | no result file is ever removed, so the second command is answered at once with the first one's result |
| `swarm_agent.py:7` "SWARM_MODE=true → start CaptureAdapter + DeltaPipeline" | `agent_missed` | the inner loop notices "off", the outer loop next looks at "on again": the capture stays stopped although the mode stays on |
| `swarm_consent.py:201` "Revoke consent and purge persisted frame metrics" | `node_rows` | `cli_revoke` purges first and disables afterwards; the frames in between are stored again |
| `blindspot_engine.py:1189` "MUSS unter self._lock aufgerufen werden", `:215` "Thread-sicher" | `blind_deadlock` | `_resolve_gap` takes the plain lock itself, so the flush, which calls it inside the lock, never returns once a ripe pool's gap is still open |
| `daemon_headless.py:5` "Participates in the Aether swarm via gossip", `swarm_p2p.py:980` | `daemon_relay` | below the full tier `start()` enters `self._lock`, which `P2PLayer` does not have; it raises after the gossip thread was started, and the task stops it again |
| `identity_claim.py:72` "Two equivalent entry paths are supported", `auth.rs:548` | `account_restart` | `start.py` computes the lock without the DHT peer id, takes the stored one out and leaves the mark of the binding: the account cannot sign in any more |

A ninth disagreement is one of the sources with themselves, and the model settles which
side the code is on. `consensus_engine.py:76` says that metrics are averaged "ueber mehrere
Node-Meldungen hinweg" (over several nodes' reports), and `README.md:60`, `:94` and `:209`
that hashes spread after confirmation by a quorum of three nodes. The docstrings of the
same file say the contrary: `:121` "kein Quorum als Gate" (no quorum as a gate), `:139`
"promotes ihn sofort in den Konsens" (promotes it at once). The code does the latter:
`PromotionIsWhole`, checked in `services` and proved (`PromotedAtOnce`), says that no
candidate is ever left for a second report to find, so `_average_metrics` is never called
with two reports, and an anchor names its last reporter alone.

The models contain further behaviours that a reader of the code may not expect, and that
have no run of their own:

* a consent file read while another process has it truncated counts as undecided, so
  the default consent can replace a *stored* decision (`swarm_consent.py:165`). This
  is why `OptInOnlyUndecided` is a property of one process;
* the desktop shell changes the decision without the audit entry and the purge
  (`iced_shell.rs:1428`) that the Python module performs;
* an exception between the mode's transaction and the assignment
  (`swarm_controller.py:192`) leaves the caller with an error and the database with
  the new mode, which a restart makes effective: `AtomicMode`'s doubt;
* a command whose result could not be written stays in the file; its next reading
  dispatches it a second time (`swarm_controller.py:350`); a command written while the
  previous one is dispatched is emptied unread (`:356`); one written in the same tick of
  the clock as the last look is not seen at all (`:343`, what `fresh` excepts in
  `CommandTaken`); every `{}` the poll thread
  writes makes the file new again, so it writes it again at every poll;
* `stop()` is final only if the thread ends within five seconds
  (`swarm_agent.py:144`); a thread that does not, and meets a cleared event, runs on
  beside the next one;
* `cli_revoke` reports success whether or not the disable arrived
  (`swarm_ui_adapter.py:211`); gossip asks for the consent when it starts and never
  again (`swarm_p2p.py:951`);
* a learner that is stopped while the gossip thread is still starting it runs on
  (`offline_learning.py:152`): `LearnerStops` excepts it by `lateBoot`;
* a peer's request that arrives in every gossip round fills the 32 places of the
  broker's remote list by itself (`task_broker.py:459`);
* a failed write of `task_queue.json`, `algo_tokens.json` or `offline_state.json` is only
  logged (`task_broker.py:304`, `algo_share.py:264`, `offline_learning.py:484`): a caller
  is told that a request or token is accepted which a restart may not find again, and may
  find an answered request in its place;
* the hints this program makes carry no fingerprints (`blindspot_engine.py:990`), so between
  nodes of this program the offline learner is never called for a hint;
* `aether-cli` takes a `vault_store.json` it cannot read for an empty vault and overwrites it
  at its next save (`aether-cli.rs:58`); the packs stay listed as installed;
* `verify_chain` reports honest blocks as tampered when another user's blocks lie
  between them, when two sessions took the same tip, or when there are more blocks
  than its limit (the exceptions of `HonestChainVerifies`);
* after a crash between `records.json` and `manifest.json` every classification is an
  error, and `observe` treats it as an unknown signal (`observation.rs:267`);
* two programs that look for the overlay at the same time each start one
  (`yggdrasil_install.py:288`): `OneOverlay` excepts them by `disturbed`;
* a node whose state was written as offline may be overwritten by a consolidation that read
  it earlier and was slow (`offline_learning.py:466`);
* removing a pack removes nothing from the vault: the uninstall asks for entries by a
  hash they are not filed under (`vault_access.rs:436`), so the anchors stay and still
  count for the next pack;
* `hybrid_bridge.py:217` and `:258` call `_start_symbiont`, which is defined nowhere (its
  body stands after the `return` of `_is_yggdrasil_still_running`, line 154): every
  bridge ends with a `NameError` as soon as overlay and P2P layer are started, so it
  never writes `hybrid_status.json`, never stops the overlay and never restarts the
  symbiont. A bridge that is killed while it runs leaves the overlay as well;
* a daemon ended by the launcher is killed (`launcher_dashboard.rs:565`), and leaves the
  overlay it started running; the next daemon finds it, does not count it as its own, and
  so does not stop it either. Only a daemon that stops by itself ends its overlay;
* several local accounts can only come from user files older than the one-account
  rule (`auth.rs`); `GroupState` has several accounts for that reason.

## 7. What is not modelled

*Left out of the modelled parts.* The rate limiter of enable and disable (it needs a
clock), `gated_enable_swarm`'s pair of check and enable, the signatures and contents
of audit entries and events, socket framing, `get_health`; the adaptive frame rate and
the overlap detection inside `_process_frames`; an agent without a controller; row
limits of the metrics tables; prices and capability scores of the broker; the
detectors that find gaps; metrics and trust scores of chain, pool and consensus; the
fitness of tokens (a constant); passwords, keys, the genesis account; the Rust anchor
pool (`public_ttd.rs`). None of them changes a variable of a model.

*Around the overlay.* Its installation and configuration, the bridge's status file (never
written, section 6), the launcher's other services and its display. Process numbers are
not used a second time in the model; where they are, the number of a dead overlay can
pass for a running one. The moment an overlay takes to end after the signal is left out,
and so is the other way of looking and killing on Windows (`tasklist`, `taskkill`).

*Reception of gossip.* The gossip thread is the only one that gets to
`receive_gossip`: no caller passes a transport to `make_p2p_layer`
(`daemon_headless.py:472`, `hybrid_bridge.py:206`), so the candidates file that is
guarded by a lock made on the spot (`swarm_p2p.py:1652`) has one writer. What
reception does with hints and tokens is in `HintRelay` and `AlgoShare`.

*Crashes.* Modelled where state survives: controller, broker, pool, tokens, groups,
quarantine, vault, account, and the consensus database (a call that dies). A consent
writer that dies between truncate and fill leaves the file `empty`, which other
processes already see while it runs. The agent keeps nothing across a restart.

*Time.* Sleeps and timeouts are the freedom to take a step later or give up; nothing
depends on how long they are.

*Components without a caller.* Tested or declared, but not reached by the program: the
privacy registry, the frame vault of `aelab_vault.py`, `swarm_loop.rs` (a pure function
over medians), the inter-layer bus (only tests create its channel, and nothing writes
the log its reader follows), the Aethernet transport behind the P2P layer. Modelling
them would state properties of a system that does not run.

*Sequential code over data.* The greater part of the repository by lines: signal
analysis, observers, registry queries, scores, evolution, reconstruction and codecs,
rendering, hardware probing, installers, the views of the shell. It keeps no state that
several actors share, its correctness is numeric or statistical, and a model of it
would be a transliteration. This is why the mapped definitions cover about one in thirteen
of the implementation's lines: `registry.py`, `analysis_engine.py`,
`reconstruction_engine.py`, `ae_evolution_core.py` and `observer_engine.py` alone are
some thirteen thousand lines of this kind. `PROJECT.json` lists every component with
its status and what of it is left out.

## 8. What is left

In this order, should the project be continued:

1. **The consent in `SwarmNode`'s enable**: `gated_enable_swarm` checks, then enables;
   together with the rate limiter a revocation in between would be covered.
2. **`public_ttd.rs`**: load, merge and persist of the Rust pool without a lock, against
   the abstract set of validators that `AnchorPool` already has in `StoredCounts`.
3. **`chat_registry.py`**, a second store for groups and chats beside `state.rs`.
4. **The safety halves of `DisabledStopsCapture` and `StopEndsThreads`**, as `RecordPending`
   and `StopsStaySet` are those of the headless node's properties.
5. **Several brokers** with lossy gossip between them: a task is assigned to one bidder.
   Results of tasks are published by no caller today, so the exchange ends at the bid.
