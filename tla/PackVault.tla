----------------------------- MODULE PackVault -----------------------------
(***************************************************************************)
(* The vault of anchor records and the packs installed into it             *)
(* (src/vault_access.rs, src/pack.rs, VaultStore of src/aef.rs).           *)
(*                                                                         *)
(* An entry of the vault is filed under the hash of the whole committed    *)
(* record, which holds the vault's version and the time; the record itself *)
(* names the hash of its anchor.  A hash is modelled by what it is         *)
(* computed from.  Every change of the vault rewrites vault_store.json,    *)
(* every change of the installed packs installed_packs.json.               *)
(* A write may be refused or break off.  A vault_store.json that was broken *)
(* off cannot be read: the shell's handlers give up there, and the command *)
(* line tool goes on with an empty vault, whose next save replaces it.     *)
(***************************************************************************)
EXTENDS Naturals, Sequences, FiniteSets, SequencesExt

CONSTANTS
    Anchors,       \* anchor ids
    Packs,         \* entries of the pack registry
    AnchorsOf,     \* the anchors of a pack file; <<>> where there is no file and the pack is
                   \* made from the vault's own records
    DomainOf,      \* the anchors of a pack's domain
    NotInstalled,  \* no anchors, as the pack is not installed
    Trusted,       \* anchors that run_all() approves
    MaxEntries,    \* bound: entries of the vault
    MaxVaultFaults \* bound: failing writes and restarts

ASSUME PackVaultAssumption ==
    /\ AnchorsOf \in [Packs -> Seq(Anchors)] /\ DomainOf \in [Packs -> SUBSET Anchors]
    /\ Trusted \subseteq Anchors
    /\ MaxEntries \in Nat /\ MaxVaultFaults \in Nat

VARIABLES
    entries,       \* VaultStore.entries
    version,       \* VaultStore.version
    vaultFile,     \* vault_store.json: whether it is whole, and what a start takes it for
    emptied,       \* whether a start has taken a broken vault_store.json for an empty vault
    installed,     \* PackManager.installed_packs: pack -> the anchors it has added
    installFile,   \* installed_packs.json, or the unreadable rest of it
    job,           \* the install or uninstall that runs: its pack and the anchors left
    pushed,        \* anchors in the push queue
    pvFaults

pvVars == <<entries, version, vaultFile, emptied, installed, installFile, job, pushed, pvFaults>>

NoJob == [kind |-> "none"]
NothingInstalled == [p \in Packs |-> NotInstalled]
VaultOf(whole, s, v) == [whole |-> whole, entries |-> s, version |-> v]

PackVaultInit ==
    /\ entries = <<>> /\ version = 1 /\ vaultFile = VaultOf(TRUE, <<>>, 1) /\ emptied = FALSE
    /\ installed = NothingInstalled /\ installFile = NothingInstalled
    /\ job = NoJob /\ pushed = {} /\ pvFaults = 0

NoJobRuns == job = NoJob
MayFail == pvFaults < MaxVaultFaults

\* the key of the entry a commit of anchor a makes now, and the reference in its record
CommitKey(a) == <<"commit", a, version>>
RecordRef(a) == <<"anchor", a>>

\* VaultStore::save(): fs::write() may be refused or leave an unreadable file
SaveOutcomes == {"ok", "refused", "broken"}
SaveVault(out) ==
    /\ out = "ok" \/ MayFail
    /\ vaultFile' = CASE out = "ok" -> VaultOf(TRUE, entries', version')
                      [] out = "refused" -> vaultFile
                      [] out = "broken" -> VaultOf(FALSE, <<>>, 1)
    /\ pvFaults' = IF out = "ok" THEN pvFaults ELSE pvFaults + 1

\* upsert(): a new entry joins in memory, then the vault is saved, or not
Upsert(a, out) ==
    /\ entries' = Append(entries, [key |-> CommitKey(a), ref |-> RecordRef(a), anchor |-> a])
    /\ version' = version + 1
    /\ SaveVault(out)

\* submit_anchor_sync() of an anchor of this node, which is also queued for publication,
\* where that write does not fail
SubmitLocal(a) ==
    /\ NoJobRuns /\ a \in Trusted /\ Len(entries) < MaxEntries
    /\ \E out \in SaveOutcomes, queued \in BOOLEAN :
         /\ Upsert(a, out)
         /\ pushed' = IF out = "ok" /\ queued THEN pushed \cup {a} ELSE pushed
    /\ UNCHANGED <<emptied, installed, installFile, job>>

\* get_anchors_by_domain(): the places of the records of a pack's domain, in their order
Places(p) ==
    LET ours == {i \in DOMAIN entries : entries[i].anchor \in DomainOf[p]}
    IN  {f \in UNION {[1..n -> ours] : n \in 0..Len(entries)} :
            Range(f) = ours /\ \A i, j \in DOMAIN f : i < j => f[i] < f[j]}

\* load_pack(): the file, or a pack made of the records of the domain
PackAnchors(p) ==
    IF AnchorsOf[p] # <<>> THEN {AnchorsOf[p]}
    ELSE {[i \in DOMAIN f |-> entries[f[i]].anchor] : f \in Places(p)}

\* Mutant: the pack is entered as installed before its anchors are submitted.
InstallEarly(p) ==
    /\ NoJobRuns
    /\ \E s \in PackAnchors(p) :
         /\ Len(entries) + Len(s) <= MaxEntries
         /\ job' = [kind |-> "install", pack |-> p, left |-> s, all |-> s]
         /\ installed' = [installed EXCEPT ![p] = s]
    /\ UNCHANGED <<entries, version, vaultFile, emptied, installFile, pushed, pvFaults>>

\* download_and_install(): the pack is loaded and verified
Install(p) ==
    /\ NoJobRuns
    /\ \E s \in PackAnchors(p) :
         /\ Len(entries) + Len(s) <= MaxEntries
         /\ job' = [kind |-> "install", pack |-> p, left |-> s, all |-> s]
    /\ UNCHANGED <<entries, version, vaultFile, emptied, installed, installFile, pushed, pvFaults>>

\* one anchor after the other; what is not trusted or not saved ends the install
InstallAnchor ==
    /\ job.kind = "install" /\ job.left # <<>>
    /\ UNCHANGED <<emptied, installed, installFile, pushed>>
    /\ LET a == Head(job.left)
       IN  IF a \notin Trusted
           THEN job' = NoJob /\ UNCHANGED <<entries, version, vaultFile, pvFaults>>
           ELSE \E out \in SaveOutcomes :
                  /\ Upsert(a, out)
                  /\ job' = IF out = "ok" THEN [job EXCEPT !.left = Tail(@)] ELSE NoJob

\* save_state(): fs::write() may be refused or leave an unreadable file
SaveInstalled(packs) ==
    \E out \in SaveOutcomes :
        /\ out = "ok" \/ MayFail
        /\ installFile' = CASE out = "ok" -> packs [] out = "refused" -> installFile
                            [] out = "broken" -> NothingInstalled
        /\ pvFaults' = IF out = "ok" THEN pvFaults ELSE pvFaults + 1

\* the pack is entered with the anchors it was loaded with
InstallDone ==
    /\ job.kind = "install" /\ job.left = <<>> /\ job' = NoJob
    /\ installed' = [installed EXCEPT ![job.pack] = job.all]
    /\ SaveInstalled(installed')
    /\ UNCHANGED <<entries, version, vaultFile, emptied, pushed>>

\* uninstall(): the pack's entry goes first, in memory
Uninstall(p) ==
    /\ NoJobRuns /\ installed[p] # NotInstalled
    /\ job' = [kind |-> "uninstall", pack |-> p, left |-> installed[p], all |-> installed[p]]
    /\ installed' = [installed EXCEPT ![p] = NotInstalled]
    /\ UNCHANGED <<entries, version, vaultFile, emptied, installFile, pushed, pvFaults>>

\* remove_anchor_record(): the first record of the anchor gives the reference that is removed,
\* which is never the key of an entry
RemovedKey(i) == entries[i].ref

\* VaultStore::remove(): every entry with that key, and nothing is saved where there is none
UninstallAnchor ==
    /\ job.kind = "uninstall" /\ job.left # <<>>
    /\ UNCHANGED <<emptied, installed, installFile, pushed>>
    /\ LET found == {i \in DOMAIN entries : entries[i].anchor = Head(job.left)}
           target == {RemovedKey(i) : i \in {k \in found : \A j \in found : k <= j}}
       IN  IF \A i \in DOMAIN entries : entries[i].key \notin target
           THEN job' = [job EXCEPT !.left = Tail(@)]
                /\ UNCHANGED <<entries, version, vaultFile, pvFaults>>
           ELSE \E out \in SaveOutcomes :
                  /\ entries' = SelectSeq(entries, LAMBDA e : e.key \notin target)
                  /\ version' = version + 1
                  /\ SaveVault(out)
                  /\ job' = IF out = "ok" THEN [job EXCEPT !.left = Tail(@)] ELSE NoJob

UninstallDone ==
    /\ job.kind = "uninstall" /\ job.left = <<>> /\ job' = NoJob
    /\ SaveInstalled(installed)
    /\ UNCHANGED <<entries, version, vaultFile, emptied, installed, pushed>>

\* the program ends, also in the middle of an install, and one that loads the two files
\* starts: load_default().unwrap_or_default() makes an empty vault of a broken file
RestartVault ==
    /\ MayFail /\ pvFaults' = pvFaults + 1
    /\ entries' = vaultFile.entries /\ version' = vaultFile.version
    /\ emptied' = (emptied \/ ~vaultFile.whole)
    /\ installed' = installFile /\ job' = NoJob
    /\ UNCHANGED <<vaultFile, installFile, pushed>>

PackVaultNext ==
    \/ \E a \in Anchors : SubmitLocal(a)
    \/ \E p \in Packs : Install(p) \/ Uninstall(p)
    \/ InstallAnchor \/ InstallDone \/ UninstallAnchor \/ UninstallDone \/ RestartVault

PackVaultSpec == PackVaultInit /\ [][PackVaultNext]_pvVars

---------------------------------------------------------------------------

\* Every variable keeps its type.
PackVaultTypeOK ==
    /\ Len(entries) <= MaxEntries /\ version \in Nat \ {0} /\ pvFaults \in 0..MaxVaultFaults
    /\ vaultFile.whole \in BOOLEAN /\ emptied \in BOOLEAN
    /\ job.kind \in {"none", "install", "uninstall"} /\ pushed \subseteq Trusted
    /\ \A f \in {installed, installFile} : \A p \in Packs : f[p] = NotInstalled \/ f[p] \in Seq(Anchors)

Held(s) == {s[i].anchor : i \in DOMAIN s}

\* What counts as installed is there: every anchor of an installed pack has a record in the
\* vault, in memory and in the two files, whichever write has failed, as long as no start has
\* taken a broken vault_store.json for an empty vault; while that file is broken the program
\* that still runs has them all in memory.
InstalledIsPresent == ~emptied =>
    /\ \A p \in Packs : installed[p] # NotInstalled => Range(installed[p]) \subseteq Held(entries)
    /\ \A p \in Packs : installFile[p] # NotInstalled =>
           Range(installFile[p]) \subseteq
               Held(IF vaultFile.whole THEN vaultFile.entries ELSE entries)
=============================================================================
