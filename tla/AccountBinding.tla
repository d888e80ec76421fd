--------------------------- MODULE AccountBinding ---------------------------
(***************************************************************************)
(* The local account and the files that name it: users.json, the claims in *)
(* node.json, nodes/<id>.json and settings.json (src/auth.rs), their       *)
(* synchronisation by start.py, and what session_guard.py accepts.         *)
(*                                                                         *)
(* The node keeps its key, its device fingerprint and its route ("full").  *)
(* An address is there or not, and a lock is what it is computed from.     *)
(* The genesis account and the passwords are left out.  A write may be     *)
(* refused, or broken off, which leaves an empty or an unreadable file.    *)
(***************************************************************************)
EXTENDS Naturals, Sequences, FiniteSets

CONSTANTS
    Names,            \* usernames
    Taken,            \* usernames that other visible nodes claim
    Hardware,         \* what hw_capability.json may say: "lan", "overlay" (tier 3 and above)
    Derivable,        \* whether start.py can derive an address from the node key
    Broken,       \* a file that does not parse
    MaxBindingFaults  \* bound: writes that fail and shells that are ended

Locks == {<<>>} \cup ({"ygg", "dht"} \X Names)
NameSets == {{}} \cup {{u} : u \in Names}
LocalAccount == [name : Names, lock : Locks, native : BOOLEAN, addr : BOOLEAN]
Claims == [name : NameSets, lock : Locks, native : BOOLEAN, addr : BOOLEAN, node : BOOLEAN]

ASSUME AccountBindingAssumption ==
    Taken \subseteq Names /\ Broken \notin Claims /\ MaxBindingFaults \in Nat

VARIABLES
    users,     \* users.json: a set of accounts, or unreadable
    accounts,  \* AuthStore.users
    claims,    \* file -> what it claims
    sync,      \* the registration or login of the shell
    signedIn,  \* the account the shell has signed in
    starter,   \* start.py: its step and what it has read
    hw, derivable,
    named,     \* names users.json has held
    lost,      \* the shell was started on an unreadable or empty users.json
    intact,    \* since the last sign-in no other step has touched the files
    abFaults

abVars == <<users, accounts, claims, sync, signedIn, starter, hw, derivable, named, lost,
            intact, abFaults>>

Files == {"node", "copy", "settings"}
NoLock == <<>>
NoClaim == [name |-> {}, lock |-> NoLock, native |-> FALSE, addr |-> FALSE, node |-> FALSE]
Bootstrapped == [NoClaim EXCEPT !.node = TRUE]  \* it names the node, and no account
NotSyncing == [kind |-> "none"]

BindingInit ==
    /\ users = {} /\ accounts = {} /\ sync = NotSyncing /\ signedIn = {}
    /\ claims = [f \in Files |-> Bootstrapped]
    /\ starter = [at |-> "off"] /\ hw \in Hardware /\ derivable \in Derivable
    /\ named = {} /\ lost = FALSE /\ intact = FALSE /\ abFaults = 0

MayBreak == abFaults < MaxBindingFaults

\* the outcomes of writing v to a file that held old and is emptied first
Writes(old, v, empty) ==
    {[file |-> v, ok |-> TRUE]} \cup
    {w \in {[file |-> x, ok |-> FALSE] : x \in {old, empty, Broken}} : MayBreak}
Faulty(w) == abFaults' = IF w.ok THEN abFaults ELSE abFaults + 1

NamesIn(f) == IF f = Broken THEN {} ELSE {a.name : a \in f}
WriteUsers(v) ==
    \E w \in Writes(users, v, Broken) :
        /\ users' = w.file /\ Faulty(w) /\ named' = named \cup NamesIn(w.file)
WriteClaim(f, v) ==
    \E w \in Writes(claims[f], v, NoClaim) : claims' = [claims EXCEPT ![f] = w.file] /\ Faulty(w)

\* load_native_ygg_capability(), identity_lock_for_username()
Capable == hw = "overlay"
Lock(u, addr) == IF ~Capable THEN NoLock ELSE IF addr THEN <<"ygg", u>> ELSE <<"dht", u>>

\* load_local_identity() fails on a node.json that cannot be read
Identity == claims["node"] # Broken
Address == claims["node"].addr

\* ensure_network_username_available() over node.json and nodes/
Available(u) ==
    /\ u \notin Taken
    /\ \A f \in {"node", "copy"} :
         LET c == claims[f]
         IN  /\ c # Broken
             /\ c.name = {u} /\ Capable =>
                  /\ c.addr => Address
                  /\ c.lock = NoLock \/ c.lock = Lock(u, Address)

\* Mutant: only the same name counts as taken.
RegisterBeside(u) ==
    /\ sync = NotSyncing /\ Identity /\ {a \in accounts : a.name = u} = {} /\ Available(u)
    /\ accounts' = accounts \cup
         {[name |-> u, lock |-> Lock(u, Address), native |-> Capable, addr |-> Address]}
    /\ WriteUsers(accounts') /\ signedIn' = {} /\ intact' = FALSE
    /\ sync' = IF users' = accounts'
               THEN [kind |-> "register", name |-> u, addr |-> Address,
                     left |-> <<"node", "copy", "settings">>]
               ELSE NotSyncing
    /\ UNCHANGED <<claims, starter, hw, derivable, lost>>

\* register(): one account for each device; it is in memory even when the save fails
Register(u) ==
    /\ sync = NotSyncing /\ Identity /\ accounts = {} /\ Available(u)
    /\ accounts' = {[name |-> u, lock |-> Lock(u, Address), native |-> Capable, addr |-> Address]}
    /\ WriteUsers(accounts') /\ signedIn' = {} /\ intact' = FALSE
    /\ sync' = IF users' = accounts'
               THEN [kind |-> "register", name |-> u, addr |-> Address,
                     left |-> <<"node", "copy", "settings">>]
               ELSE NotSyncing
    /\ UNCHANGED <<claims, starter, hw, derivable, lost>>

\* validate_bound_user(), where the device fingerprint is there and the same
Accepted(a, addr) ==
    a.native \/ a.addr =>
        /\ a.addr => addr
        /\ a.native => a.lock # NoLock
        /\ a.lock = NoLock \/ a.lock = Lock(a.name, addr)

\* authenticate() with the right password
Login(a) ==
    /\ sync = NotSyncing /\ a \in accounts /\ Identity /\ Accepted(a, Address)
    /\ sync' = [kind |-> "login", name |-> a.name, addr |-> Address,
                left |-> <<"node", "copy", "settings">>]
    /\ signedIn' = {} /\ intact' = TRUE
    /\ UNCHANGED <<users, accounts, claims, starter, hw, derivable, named, lost, abFaults>>

\* Mutant: a lock is only written where there is none.
ClaimKeepingLock(c, u, addr, f) ==
    [name |-> {u}, native |-> Capable, node |-> TRUE,
     lock |-> IF c.lock # NoLock THEN c.lock ELSE Lock(u, addr),
     addr |-> f # "settings" /\ (c.addr \/ addr)]

\* what sync_node_claim() and sync_settings_claim() make of a claim: nothing is taken out of it
ClaimOf(c, u, addr, f) ==
    [name |-> {u}, native |-> Capable, node |-> TRUE,
     lock |-> IF Lock(u, addr) # NoLock THEN Lock(u, addr) ELSE c.lock,
     addr |-> f # "settings" /\ (c.addr \/ addr)]

\* sync_local_account_claim(): one file after the other, the first error ends it
SyncClaim ==
    /\ sync.kind # "none" /\ sync.left # <<>>
    /\ LET f == Head(sync.left)
       IN  IF claims[f] = Broken THEN sync' = NotSyncing /\ UNCHANGED <<claims, abFaults>>
           ELSE /\ WriteClaim(f, ClaimOf(claims[f], sync.name, sync.addr, f))
                /\ sync' = IF abFaults' = abFaults THEN [sync EXCEPT !.left = Tail(@)] ELSE NotSyncing
    /\ UNCHANGED <<users, accounts, signedIn, starter, hw, derivable, named, lost, intact>>

\* LoginPressed is done, RegisterPressed goes on with authenticate()
SyncDone ==
    /\ sync.kind # "none" /\ sync.left = <<>>
    /\ \/ /\ sync.kind = "login" /\ sync' = NotSyncing /\ signedIn' = {sync.name}
          /\ UNCHANGED intact
       \/ /\ sync.kind = "register" /\ intact' = TRUE /\ UNCHANGED signedIn
          /\ sync' = IF Identity /\ \A a \in accounts : Accepted(a, Address)
                     THEN [kind |-> "login", name |-> sync.name, addr |-> Address,
                           left |-> <<"node", "copy", "settings">>]
                     ELSE NotSyncing
    /\ UNCHANGED <<users, accounts, claims, starter, hw, derivable, named, lost, abFaults>>

\* update_user_setting(), change_password(): the accounts in memory are saved again
SaveSetting ==
    /\ sync = NotSyncing /\ signedIn # {} /\ WriteUsers(accounts) /\ intact' = FALSE
    /\ UNCHANGED <<accounts, claims, sync, signedIn, starter, hw, derivable, lost>>

\* the shell ends, also between two files, and is started again
RestartShell ==
    /\ accounts' = (IF users = Broken THEN {} ELSE users)
    /\ lost' = (lost \/ users = Broken)
    /\ sync' = NotSyncing /\ signedIn' = {} /\ intact' = FALSE
    /\ \/ sync = NotSyncing /\ UNCHANGED abFaults
       \/ sync # NotSyncing /\ MayBreak /\ abFaults' = abFaults + 1
    /\ UNCHANGED <<users, claims, starter, hw, derivable, named>>

StarterGoes(step) == starter' = step /\ UNCHANGED <<accounts, sync, signedIn, hw, derivable, lost>>

\* _sync_local_identity_materials(): the derived address joins node.json and then its copy
StartPy ==
    /\ starter.at = "off" /\ intact' = FALSE /\ UNCHANGED <<users, named>>
    /\ IF Identity /\ claims["node"].node /\ derivable /\ ~Address
       THEN /\ WriteClaim("node", [claims["node"] EXCEPT !.addr = TRUE])
            /\ StarterGoes(IF abFaults' = abFaults
                           THEN [at |-> "copies", node |-> [claims["node"] EXCEPT !.addr = TRUE]]
                           ELSE [at |-> "off"])
       ELSE StarterGoes([at |-> "reads"]) /\ UNCHANGED <<claims, abFaults>>
CopyNode ==
    /\ starter.at = "copies" /\ UNCHANGED <<users, named>> /\ intact' = FALSE
    /\ WriteClaim("copy", starter.node)
    /\ StarterGoes([at |-> IF abFaults' = abFaults THEN "reads" ELSE "off"])

\* infer_native_ygg_capable() with the full route; compute_identity_lock() without a peer id
Native(addr) == Capable \/ addr
PyLock(name, addr) == IF Native(addr) /\ addr /\ name # {} THEN <<"ygg", CHOOSE u \in name : TRUE>>
                      ELSE NoLock

\* _sync_local_identity_metadata(): reads node.json, which must name the node, and the account
ReadMetadata ==
    /\ starter.at = "reads" /\ UNCHANGED <<users, claims, named, intact, abFaults>>
    /\ IF ~Identity \/ ~claims["node"].node THEN StarterGoes([at |-> "off"])
       ELSE LET bound == IF users # Broken /\ Cardinality(users) = 1 THEN NamesIn(users) ELSE {}
                name == IF claims["node"].name # {} THEN claims["node"].name ELSE bound
            IN  StarterGoes([at |-> "writes", bound |-> bound,
                             claim |-> [name |-> name, lock |-> PyLock(name, Address), node |-> TRUE,
                                        native |-> Native(Address), addr |-> Address],
                             kept |-> IF claims["settings"] = Broken THEN {}
                                      ELSE claims["settings"].name,
                             left |-> <<"settings", "node", "copy">>])

\* the claims are replaced; an exception is printed and ends it
WriteMetadata ==
    /\ starter.at = "writes" /\ starter.left # <<>> /\ UNCHANGED <<users, named>> /\ intact' = FALSE
    /\ LET f == Head(starter.left)
       IN  WriteClaim(f, IF f # "settings" THEN starter.claim
                         ELSE [starter.claim EXCEPT !.addr = FALSE,
                                 !.name = IF @ = {} THEN starter.kept ELSE @])
    /\ StarterGoes(IF abFaults' = abFaults THEN [starter EXCEPT !.left = Tail(@)] ELSE [at |-> "off"])

\* the account last, if it was the one that node.json names
WriteAccount ==
    /\ starter.at = "writes" /\ starter.left = <<>> /\ UNCHANGED claims /\ intact' = FALSE
    /\ StarterGoes([at |-> "off"])
    /\ IF /\ starter.bound # {} /\ starter.bound = starter.claim.name
          /\ users # Broken /\ Cardinality(users) = 1
       THEN WriteUsers({[a EXCEPT !.lock = starter.claim.lock, !.native = starter.claim.native,
                                  !.addr = starter.claim.addr] : a \in users})
       ELSE UNCHANGED <<users, named, abFaults>>

BindingNext ==
    \/ \E u \in Names : Register(u)
    \/ \E a \in accounts : Login(a)
    \/ SyncClaim \/ SyncDone \/ SaveSetting \/ RestartShell
    \/ StartPy \/ CopyNode \/ ReadMetadata \/ WriteMetadata \/ WriteAccount

BindingSpec == BindingInit /\ [][BindingNext]_abVars
---------------------------------------------------------------------------

\* Every variable keeps its type.
BindingTypeOK ==
    /\ users = Broken \/ users \subseteq LocalAccount
    /\ accounts \subseteq LocalAccount
    /\ claims \in [Files -> Claims \cup {Broken}]
    /\ signedIn \in NameSets /\ named \subseteq Names
    /\ lost \in BOOLEAN /\ intact \in BOOLEAN /\ abFaults \in 0..MaxBindingFaults

\* The account of a device stays: users.json names a second account only after the shell has
\* been started on a file it could not read, whichever writes fail and however start.py and
\* the shell take turns.
AccountStays == Cardinality(named) > 1 => lost

\* validate_registered_runtime(): whether the Python tools accept the files
GuardAccepts ==
    LET a == CHOOSE x \in users : TRUE
        node == claims["node"]
        declared == \/ a.native \/ a.lock # NoLock
                    \/ \E f \in {"node", "settings"} : claims[f].native \/ claims[f].lock # NoLock
        expected == IF declared \/ Native(node.addr)
                    THEN IF node.addr THEN <<"ygg", a.name>> ELSE <<"peer", a.name>>
                    ELSE NoLock
    IN  /\ users # Broken /\ Cardinality(users) = 1
        /\ \A f \in {"node", "settings"} : claims[f] # Broken /\ claims[f].name \in {{}, {a.name}}
        /\ a.addr => node.addr
        /\ declared \/ Native(node.addr) =>
             /\ a.lock \in {NoLock, expected}
             /\ \A f \in {"node", "settings"} : claims[f].lock \in {NoLock, expected}

\* Whoever has signed in at the shell on a node with an address passes the session guard of
\* the Python tools, as long as neither start.py nor a change of the account came between:
\* the two compute the same lock from the same three files.
SignedInPassesGuard ==
    signedIn # {} /\ intact /\ Capable /\ Address /\ users # Broken /\ users = accounts => GuardAccepts

\* The two ways into the network are equivalent: an account that start.py has synchronised
\* can still sign in, also where it is bound to the DHT peer id.
StartKeepsSignIn ==
    starter.at = "off" /\ abFaults = 0 /\ users # Broken /\ users # {} /\ Identity
        => \A a \in users : Accepted(a, Address)
=============================================================================
