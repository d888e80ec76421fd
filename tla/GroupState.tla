----------------------------- MODULE GroupState ----------------------------
(***************************************************************************)
(* Groups, private threads, blocks and the register of the desktop shell   *)
(* (src/state.rs, with the handlers of src/iced_shell.rs that call it).    *)
(*                                                                         *)
(* Every operation changes the state in memory first and then rewrites     *)
(* state.json as a whole.  A refused write leaves the file as it was, one  *)
(* broken off leaves it unreadable, and a start that cannot read it begins *)
(* with an empty state.  Several accounts on one device come from user     *)
(* files older than the one-account rule of auth.rs.                       *)
(***************************************************************************)
EXTENDS Naturals, Sequences, FiniteSets, SequencesExt

CONSTANTS
    Accounts,      \* the usernames of the auth store
    Slugs,         \* what group names are reduced to
    MaxStateOps,   \* bound: operations
    MaxStateFaults \* bound: failing writes and restarts

ASSUME GroupStateAssumption == MaxStateOps \in Nat /\ MaxStateFaults \in Nat

VARIABLES
    gsMem,     \* StateStore.state
    gsDisk,    \* state.json: readable, and its content
    user,      \* current_user, or nobody
    copying,   \* the partner a private message is still to be copied to, or nobody
    share,     \* where the result of the running analysis goes, or nowhere
    gsOps, gsFaults

gsVars == <<gsMem, gsDisk, user, copying, share, gsOps, gsFaults>>

RoomIds == Accounts \X Slugs          \* group_room_id(owner, name)
ThreadKeys == {t \in Accounts \X Accounts : t[1] # t[2]}
NoRoom == [owner |-> {}, members |-> <<>>, authors |-> {}]
EmptyState == [rooms |-> [r \in RoomIds |-> NoRoom],
               threads |-> [t \in ThreadKeys |-> [own |-> 0, theirs |-> 0]],
               blocked |-> {}, entries |-> {}, next |-> 1]

RoomsOf(s) == {r \in RoomIds : s.rooms[r] # NoRoom}
IsMember(room, a) == room.owner = {a} \/ a \in Range(room.members)

GroupStateInit ==
    /\ gsMem = EmptyState /\ gsDisk = [readable |-> TRUE, state |-> EmptyState]
    /\ user = {} /\ copying = {} /\ share = <<"nowhere">> /\ gsOps = 0 /\ gsFaults = 0

\* save(): fs::write() empties the file before it writes
Store(s, out) ==
    /\ gsMem' = s
    /\ gsDisk' = CASE out = "ok" -> [readable |-> TRUE, state |-> s]
                   [] out = "refused" -> gsDisk
                   [] out = "broken" -> [readable |-> FALSE, state |-> EmptyState]
    /\ gsFaults' = IF out = "ok" THEN gsFaults ELSE gsFaults + 1

Outcomes == IF gsFaults < MaxStateFaults THEN {"ok", "refused", "broken"} ELSE {"ok"}

\* the shell handles one message at a time
ShellIdle == copying = {} /\ share[1] # "entered"

\* one operation of the signed-in user that saves
Operation(s) ==
    /\ ShellIdle /\ gsOps < MaxStateOps /\ gsOps' = gsOps + 1
    /\ \E out \in Outcomes : Store(s, out)
    /\ UNCHANGED <<user, copying>>

SetRoom(r, room) == [gsMem EXCEPT !.rooms[r] = room]

\* m behind those before it, unless it is among them
AddOnce(seen, m) == IF m \in Range(seen) THEN seen ELSE Append(seen, m)

\* dedupe_members(): the owner first, then the others in their order
Deduped(room) ==
    [room EXCEPT !.members = FoldLeft(AddOnce, SetToSeq(room.owner), @)]

\* The members but one, in their order
AllBut(members, who) ==
    FoldLeft(LAMBDA kept, m : IF m = who THEN kept ELSE Append(kept, m), <<>>, members)

\* load_from(): what cannot be read counts as nothing, and the rooms are normalised
Loaded == LET s == IF gsDisk.readable THEN gsDisk.state ELSE EmptyState
          IN  [s EXCEPT !.rooms = [r \in RoomIds |->
                 IF s.rooms[r] = NoRoom THEN NoRoom ELSE Deduped(s.rooms[r])]]

SignIn(u) == user = {} /\ user' = {u} /\ UNCHANGED <<gsMem, gsDisk, copying, share, gsOps, gsFaults>>

\* create_group_room()
CreateGroup(u, name) ==
    /\ user = {u} /\ gsMem.rooms[<<u, name>>] = NoRoom
    /\ Operation(SetRoom(<<u, name>>, [owner |-> {u}, members |-> <<u>>, authors |-> {}]))
    /\ UNCHANGED share

BlockedBetween(a, b) == <<a, b>> \in gsMem.blocked \/ <<b, a>> \in gsMem.blocked

\* Mutant: the new member is put in front.
AddMemberInFront(u, r, m) ==
    /\ user = {u} /\ gsMem.rooms[r].owner = {u}
    /\ ~IsMember(gsMem.rooms[r], m) /\ ~BlockedBetween(u, m)
    /\ Operation(SetRoom(r, [gsMem.rooms[r] EXCEPT !.members = <<m>> \o @]))
    /\ UNCHANGED share

\* add_member_to_active_group(), add_group_member()
AddMember(u, r, m) ==
    /\ user = {u} /\ gsMem.rooms[r].owner = {u}
    /\ ~IsMember(gsMem.rooms[r], m) /\ ~BlockedBetween(u, m)
    /\ Operation(SetRoom(r, Deduped([gsMem.rooms[r] EXCEPT !.members = Append(@, m)])))
    /\ UNCHANGED share

\* remove_group_member()
RemoveMember(u, r, m) ==
    /\ user = {u} /\ gsMem.rooms[r].owner = {u} /\ m # u
    /\ m \in Range(gsMem.rooms[r].members)
    /\ Operation(SetRoom(r, [gsMem.rooms[r] EXCEPT !.members = AllBut(@, m)]))
    /\ UNCHANGED share

\* Mutant: the one who joined last inherits the group.
LeaveToLast(u, r) ==
    LET room == gsMem.rooms[r]
        remaining == AllBut(room.members, u)
    IN  /\ user = {u} /\ room # NoRoom /\ IsMember(room, u)
        /\ Operation(SetRoom(r, IF room.owner # {u} THEN [room EXCEPT !.members = remaining]
                                ELSE IF remaining = <<>> THEN NoRoom
                                ELSE [room EXCEPT !.owner = {Last(remaining)},
                                                  !.members = remaining]))
        /\ UNCHANGED share

\* leave_group(): the first of those that remain inherits it, the last one takes it along
Leave(u, r) ==
    LET room == gsMem.rooms[r]
        remaining == AllBut(room.members, u)
    IN  /\ user = {u} /\ room # NoRoom /\ IsMember(room, u)
        /\ Operation(SetRoom(r, IF room.owner # {u} THEN [room EXCEPT !.members = remaining]
                                ELSE IF remaining = <<>> THEN NoRoom
                                ELSE [room EXCEPT !.owner = {Head(remaining)},
                                                  !.members = remaining]))
        /\ UNCHANGED share

\* add_group_message()
GroupMessage(u, r) ==
    /\ user = {u} /\ gsMem.rooms[r] # NoRoom /\ IsMember(gsMem.rooms[r], u)
    /\ Operation([gsMem EXCEPT !.rooms[r].authors = @ \cup {u}])
    /\ UNCHANGED share

\* block_user(), unblock_user()
Block(u, p) ==
    /\ user = {u} /\ p # u
    /\ Operation([gsMem EXCEPT !.blocked = @ \cup {<<u, p>>}]) /\ UNCHANGED share
Unblock(u, p) ==
    /\ user = {u}
    /\ Operation([gsMem EXCEPT !.blocked = @ \ {<<u, p>>}]) /\ UNCHANGED share

\* Mutant: the partner's thread is written first.
SendToPartnerFirst(u, p) ==
    /\ user = {u} /\ p # u /\ ~BlockedBetween(u, p) /\ ShellIdle
    /\ gsOps < MaxStateOps /\ gsOps' = gsOps + 1
    /\ \E out \in Outcomes :
         /\ Store([gsMem EXCEPT !.threads[<<p, u>>].theirs = @ + 1], out)
         /\ copying' = IF out = "ok" THEN {p} ELSE {}
    /\ UNCHANGED <<user, share>>

\* send_private_message(): the sender's thread first; an error ends it here
SendPrivate(u, p) ==
    /\ user = {u} /\ p # u /\ ~BlockedBetween(u, p) /\ ShellIdle
    /\ gsOps < MaxStateOps /\ gsOps' = gsOps + 1
    /\ \E out \in Outcomes :
         /\ Store([gsMem EXCEPT !.threads[<<u, p>>].own = @ + 1], out)
         /\ copying' = IF out = "ok" THEN {p} ELSE {}
    /\ UNCHANGED <<user, share>>

\* then the partner's, when it is a local account; nobody looks at the answer
CopyToPartner(u, p) ==
    /\ user = {u} /\ copying = {p} /\ copying' = {}
    /\ \E out \in Outcomes : Store([gsMem EXCEPT !.threads[<<p, u>>].theirs = @ + 1], out)
    /\ UNCHANGED <<user, share, gsOps>>

\* FileDropped in the chat: queue_pending_chat_share() overwrites what was queued
DropFile(u, target) ==
    /\ user = {u} /\ ShellIdle /\ share' = target
    /\ target[1] = "room" => \E r \in RoomsOf(gsMem) : r = target[2] /\ IsMember(gsMem.rooms[r], u)
    /\ target[1] = "partner" => target[2] # u
    /\ UNCHANGED <<gsMem, gsDisk, user, copying, gsOps, gsFaults>>

\* Mutant: the number of the entry is not counted on.
RegisterUncounted(u) ==
    /\ user = {u} /\ ShellIdle /\ gsOps < MaxStateOps /\ gsOps' = gsOps + 1
    /\ \E out \in Outcomes :
         /\ Store([gsMem EXCEPT !.entries = @ \cup {gsMem.next}], out)
         /\ share' = IF out = "ok" THEN <<"entered", share>> ELSE <<"nowhere">>
    /\ UNCHANGED <<user, copying>>

\* FileAnalysisCompleted: add_register_entry(), whose error forgets the share
RegisterEntry(u) ==
    /\ user = {u} /\ ShellIdle /\ gsOps < MaxStateOps /\ gsOps' = gsOps + 1
    /\ \E out \in Outcomes :
         /\ Store([gsMem EXCEPT !.entries = @ \cup {gsMem.next}, !.next = @ + 1], out)
         /\ share' = IF out = "ok" THEN <<"entered", share>> ELSE <<"nowhere">>
    /\ UNCHANGED <<user, copying>>

\* publish_pending_chat_share(), which checks the block or the membership of now
PublishShare(u) ==
    /\ user = {u} /\ share[1] = "entered" /\ share' = <<"nowhere">>
    /\ UNCHANGED <<user, gsOps>>
    /\ LET target == share[2]
       IN  \/ /\ target[1] = "partner" /\ ~BlockedBetween(u, target[2])
              /\ \E out \in Outcomes :
                   /\ Store([gsMem EXCEPT !.threads[<<u, target[2]>>].own = @ + 1], out)
                   /\ copying' = IF out = "ok" THEN {target[2]} ELSE {}
           \/ /\ target[1] = "room" /\ gsMem.rooms[target[2]] # NoRoom
              /\ IsMember(gsMem.rooms[target[2]], u)
              /\ \E out \in Outcomes : Store([gsMem EXCEPT !.rooms[target[2]].authors = @ \cup {u}], out)
              /\ UNCHANGED copying
           \/ /\ \/ target[1] = "nowhere"
                 \/ target[1] = "partner" /\ BlockedBetween(u, target[2])
                 \/ target[1] = "room" /\ ~IsMember(gsMem.rooms[target[2]], u)
              /\ UNCHANGED <<gsMem, gsDisk, copying, gsFaults>>

\* the shell ends, also between the two copies of a message, and is started again
Restart ==
    /\ gsFaults < MaxStateFaults /\ gsFaults' = gsFaults + 1
    /\ user # {} /\ user' = {} /\ copying' = {} /\ share' = <<"nowhere">>
    /\ gsMem' = Loaded
    /\ UNCHANGED <<gsDisk, gsOps>>

Targets == {<<"nowhere">>} \cup {<<"partner", a>> : a \in Accounts} \cup {<<"room", r>> : r \in RoomIds}

GroupStateNext ==
    \/ Restart
    \/ \E u \in Accounts :
         \/ SignIn(u) \/ RegisterEntry(u) \/ PublishShare(u)
         \/ \E name \in Slugs : CreateGroup(u, name)
         \/ \E r \in RoomIds : Leave(u, r) \/ GroupMessage(u, r)
         \/ \E r \in RoomIds, m \in Accounts : AddMember(u, r, m) \/ RemoveMember(u, r, m)
         \/ \E p \in Accounts : Block(u, p) \/ Unblock(u, p) \/ SendPrivate(u, p) \/ CopyToPartner(u, p)
         \/ \E target \in Targets : DropFile(u, target)

GroupStateSpec == GroupStateInit /\ [][GroupStateNext]_gsVars

---------------------------------------------------------------------------

\* Every variable keeps its type, and an entry's number is below the next one.
GroupStateTypeOK ==
    /\ user \in {{}} \cup {{a} : a \in Accounts} /\ copying \in {{}} \cup {{a} : a \in Accounts}
    /\ gsOps \in 0..MaxStateOps /\ gsFaults \in 0..MaxStateFaults
    /\ gsDisk.readable \in BOOLEAN
    /\ share \in Targets \cup {<<"entered", t>> : t \in Targets}
    /\ \A s \in {gsMem, gsDisk.state} :
         /\ s.blocked \subseteq ThreadKeys /\ s.entries \subseteq 1..(s.next - 1)
         /\ \A r \in RoomIds : s.rooms[r].authors \subseteq Accounts

\* The owner of a group is a member of it, the one who has been there longest, and nobody is
\* in it twice: what leave_group() hands the room over to depends on the order that adding,
\* removing and every load have left the members in.
OwnerLeads ==
    \A s \in {gsMem, gsDisk.state} : \A r \in RoomsOf(s) :
        LET room == s.rooms[r]
        IN  /\ room.members # <<>> /\ room.owner = {Head(room.members)}
            /\ IsInjective(room.members)

\* The partner's thread never holds a message that the sender's own thread lacks, in memory
\* or in the file, whichever of the two saves fails and wherever the shell is ended.
CopyHasOriginal ==
    \A s \in {gsMem, gsDisk.state} : \A t \in ThreadKeys :
        s.threads[<<t[2], t[1]>>].theirs <= s.threads[t].own
=============================================================================
