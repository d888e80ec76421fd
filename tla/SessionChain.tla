---------------------------- MODULE SessionChain ---------------------------
(***************************************************************************)
(* The chain of milestone blocks (AetherAugmentor in modules/vault_chain.py*)
(* over the chain_blocks table of modules/registry.py and                  *)
(* modules/repositories.py): every session mints blocks onto one tip and   *)
(* verifies the blocks of its own user.                                    *)
(*                                                                         *)
(* A block's hash covers its payload with session, milestone, timestamp    *)
(* and prev_hash, so no two blocks have the same hash: a block is known by *)
(* its row id, and 0 is the genesis block.  Blocks are not altered here.   *)
(***************************************************************************)
EXTENDS Naturals, Sequences, FiniteSets

CONSTANTS
    Minters,     \* AetherAugmentor objects, each called by one thread
    UserOf,      \* user_id of each minter's session; 0 stands for all users
    Milestones,  \* number of milestones: 10 in the code
    MaxVerified, \* limit=500 of verify_chain
    MaxChain     \* bound: blocks in the table

ASSUME ChainAssumption ==
    /\ UserOf \in [Minters -> Nat]
    /\ Milestones \in Nat /\ MaxVerified \in Nat \ {0} /\ MaxChain \in Nat

VARIABLES
    chainBlocks, \* the table without genesis: [by, milestone, prev] per row
    mintedUpTo,  \* _minted_milestones of each minter
    reached,     \* the milestone the current call goes up to
    scpc,
    tipSeen      \* prev_hash of the payload being signed

scVars == <<chainBlocks, mintedUpTo, reached, scpc, tipSeen>>

ChainInit ==
    /\ chainBlocks = <<>>
    /\ mintedUpTo = [a \in Minters |-> 0] /\ reached = [a \in Minters |-> 0]
    /\ scpc = [a \in Minters |-> "idle"] /\ tipSeen = [a \in Minters |-> 0]

\* maybe_mint_chain_block(coherence)
Mint(a, milestone) ==
    /\ scpc[a] = "idle" /\ milestone > mintedUpTo[a]
    /\ reached' = [reached EXCEPT ![a] = milestone]
    /\ scpc' = [scpc EXCEPT ![a] = "tip"]
    /\ UNCHANGED <<chainBlocks, mintedUpTo, tipSeen>>

\* next_prev_hash(): the newest row of the whole table
ReadTip(a) ==
    /\ scpc[a] = "tip"
    /\ tipSeen' = [tipSeen EXCEPT ![a] = Len(chainBlocks)]
    /\ scpc' = [scpc EXCEPT ![a] = "save"]
    /\ UNCHANGED <<chainBlocks, mintedUpTo, reached>>

AfterSave(a) == IF mintedUpTo[a] + 1 < reached[a] THEN "tip" ELSE "idle"

\* Mutant: the tip is read once for all milestones of a call.
SavesOnOldTip(a) ==
    /\ scpc[a] = "save" /\ Len(chainBlocks) < MaxChain
    /\ chainBlocks' = Append(chainBlocks,
          [by |-> a, milestone |-> mintedUpTo[a] + 1, prev |-> tipSeen[a]])
    /\ mintedUpTo' = [mintedUpTo EXCEPT ![a] = @ + 1]
    /\ scpc' = [scpc EXCEPT ![a] = IF AfterSave(a) = "tip" THEN "save" ELSE "idle"]
    /\ UNCHANGED <<reached, tipSeen>>

\* save_chain_block() commits; then the milestone counts as minted
SavesBlock(a) ==
    /\ scpc[a] = "save" /\ Len(chainBlocks) < MaxChain
    /\ chainBlocks' = Append(chainBlocks,
          [by |-> a, milestone |-> mintedUpTo[a] + 1, prev |-> tipSeen[a]])
    /\ mintedUpTo' = [mintedUpTo EXCEPT ![a] = @ + 1]
    /\ scpc' = [scpc EXCEPT ![a] = AfterSave(a)]
    /\ UNCHANGED <<reached, tipSeen>>

\* the database raises: the call ends, the milestone is tried again by the next call
SaveFails(a) ==
    /\ scpc[a] \in {"tip", "save"}
    /\ scpc' = [scpc EXCEPT ![a] = "idle"]
    /\ UNCHANGED <<chainBlocks, mintedUpTo, reached, tipSeen>>

ChainNext ==
    \E a \in Minters :
        \/ \E n \in 1..Milestones : Mint(a, n)
        \/ ReadTip(a) \/ SavesBlock(a) \/ SaveFails(a)

ChainSpec == ChainInit /\ [][ChainNext]_scVars

-----------------------------------------------------------------------------
\* get_chain_blocks_raw(limit, user_id): the newest rows of the user's sessions
RowsOf(a) == {i \in 1..Len(chainBlocks) :
                UserOf[a] = 0 \/ UserOf[chainBlocks[i].by] = UserOf[a]}
Verified(a) == {i \in RowsOf(a) : Cardinality({j \in RowsOf(a) : j >= i}) <= MaxVerified}

\* the previous_hash verify_chain() compares with
Predecessor(a, i) ==
    LET earlier == {j \in Verified(a) : j < i} IN
    IF earlier = {} THEN 0 ELSE CHOOSE j \in earlier : \A k \in earlier : k <= j

\* verify_chain()'s verdict "tampered" on a stored block
Tampered(a, i) == chainBlocks[i].prev # Predecessor(a, i)

ChainTypeOK ==
    /\ chainBlocks \in Seq([by : Minters, milestone : 1..Milestones, prev : Nat])
    /\ Len(chainBlocks) <= MaxChain
    /\ mintedUpTo \in [Minters -> 0..Milestones] /\ reached \in [Minters -> 0..Milestones]
    /\ scpc \in [Minters -> {"idle", "tip", "save"}] /\ tipSeen \in [Minters -> Nat]

\* Two sessions took the same tip: the chain forked, nobody notices.
Forked == \E i, j \in 1..Len(chainBlocks) :
    /\ chainBlocks[i].by # chainBlocks[j].by
    /\ chainBlocks[i].prev = chainBlocks[j].prev

\* verify_chain() on blocks nobody has touched: as long as the table holds the blocks
\* of one user, no more than its limit, and no two sessions ever took the same tip, none
\* of them is reported as tampered, however the sessions took turns.  (With a second user's blocks in between,
\* with more blocks than the limit, or after a fork, honest blocks are.)
HonestChainVerifies ==
    \A a \in Minters :
        Verified(a) = 1..Len(chainBlocks) /\ ~Forked
            => \A i \in Verified(a) : ~Tampered(a, i)

============================================================================
