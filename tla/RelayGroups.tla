---------------------------- MODULE RelayGroups ----------------------------
(***************************************************************************)
(* Group membership at the relay: the groups and the pending invites of    *)
(* server/src/state.ts, their handlers in server/src/index.ts, account     *)
(* deletion, and the write-behind copy in Postgres of                      *)
(* server/src/groupStore.ts, across restarts of the relay.                 *)
(*                                                                         *)
(* A handler is atomic between two awaits, as in RelaySessions, whose      *)
(* connections appear here only as the set of users who have one.  A group *)
(* is its set of members: its name, and the owner and admin marks that     *)
(* never change or decide nothing here, are left out.                      *)
(***************************************************************************)
EXTENDS Integers, SequencesExt

CONSTANTS Users, Groups,
          None,           \* no group in memory, no row in the database, no invite
          MayFail,        \* may a database write fail
          MayDelete,      \* may an account be deleted
          MaxInvites,     \* bound: invites sent, the values of Date.now()
          MaxQueue,       \* bound: writes waiting while clients go on
          MaxRestarts     \* bound: restarts of the relay

ASSUME FlagAssumption == MayFail \in BOOLEAN /\ MayDelete \in BOOLEAN
ASSUME FiniteAssumption == IsFiniteSet(Groups)
ASSUME BoundAssumption == MaxInvites \in Nat /\ MaxQueue \in Nat /\ MaxRestarts \in Nat

VARIABLES
    online,        \* users with a registered socket
    accounts,      \* users whose account exists
    groups,        \* RelayState.groups: the members of each group, or None
    invites,       \* RelayState.pendingGroupInvites: [Groups -> [Users -> Invite or None]]
    inviteTimers,  \* the armed GROUP_INVITE_TIMEOUT_MS timers
    inviting,      \* handleGroupInviteRequest calls waiting for areApprovedContacts
    clock,         \* Date.now() of the next invite
    deleting,      \* handleAccountDelete calls: the groups read before the delete, or None
    persisting,    \* groupPersistence is set: the stored groups have been loaded
    queue,         \* groupStore.ts's queue of writes
    db,            \* relay_groups and relay_group_members: the member rows, None without a row
    restarts,
    consented,     \* history: who has ever created, or accepted to join, which group
    dropped        \* history: invites cleared by their invitee's disconnect, timer still armed

relay == <<online, groups, invites, inviteTimers, inviting, clock, deleting>>
storage == <<persisting, queue, db, restarts>>
vars == <<online, accounts, groups, invites, inviteTimers, inviting, clock, deleting,
          persisting, queue, db, restarts, consented, dropped>>

-----------------------------------------------------------------------------
(* Types                                                                   *)

Invite == [groupId : Groups, inviterId : Users, inviteeId : Users, requestedAt : Nat]

\* `rest': the members a group:create still has to invite after this one.
Inviting == [groupId : Groups, userId : Users, to : Users, rest : SUBSET Users]

\* A "removeLastMember" is a removeMember with a deleteGroup right behind it.
Write == [type : {"saveGroup", "saveMember", "removeMember", "removeLastMember", "deleteGroup"},
          groupId : Groups, members : SUBSET Users]

ASSUME NoneAssumption ==
    /\ \A S \in SUBSET Users : S # None
    /\ \A S \in SUBSET Groups : S # None
    /\ None \notin Invite

TypeOK ==
    /\ online \subseteq Users
    /\ accounts \subseteq Users
    /\ groups \in [Groups -> {None} \cup SUBSET Users]
    /\ invites \in [Groups -> [Users -> Invite \cup {None}]]
    /\ \A g \in Groups, u \in Users : invites[g][u] # None =>
            invites[g][u].groupId = g /\ invites[g][u].inviteeId = u
    /\ inviteTimers \subseteq Invite
    /\ inviting \subseteq Inviting
    /\ clock \in Nat
    /\ deleting \in [Users -> {None} \cup SUBSET Groups]
    /\ persisting \in BOOLEAN
    /\ queue \in Seq(Write)
    /\ db \in [Groups -> {None} \cup SUBSET Users]
    /\ restarts \in Nat
    /\ consented \subseteq Groups \X Users
    /\ dropped \subseteq Invite

-----------------------------------------------------------------------------
(* Reads and writes.  As in RelaySessions, a Bad... operator is the same   *)
(* operator with a mistake in it, and no action uses it.                   *)

isGroupMember(g, u) == groups[g] # None /\ u \in groups[g]
isOnline(u) == u \in online

BadNewGroup(u, invitees) == {u} \cup invitees
NewGroup(u, invitees) == {u}

\* A group without members is deleted.
Without(members, u) == IF members \ {u} = {} THEN None ELSE members \ {u}

\* requestGroupInvite: one invite per group and invitee.
BadRequestInvite(i) == [invites EXCEPT ![i.groupId][i.inviterId] = i]
requestGroupInvite(i) == [invites EXCEPT ![i.groupId][i.inviteeId] = i]

SaveGroup(g, members) == [type |-> "saveGroup", groupId |-> g, members |-> members]
SaveMember(g, u) == [type |-> "saveMember", groupId |-> g, members |-> {u}]
DeleteGroup(g) == [type |-> "deleteGroup", groupId |-> g, members |-> {}]

\* The writes of removeGroupMember.
BadRemoval(g, u) ==
    IF Without(groups[g], u) = None THEN DeleteGroup(g) ELSE SaveGroup(g, groups[g] \ {u})
Removal(g, u) ==
    [type    |-> IF Without(groups[g], u) = None THEN "removeLastMember" ELSE "removeMember",
     groupId |-> g,
     members |-> {u}]

\* enqueue: without groupPersistence nothing is written.
Enqueue(writes) == queue' = IF persisting THEN queue \o writes ELSE queue

\* What Postgres makes of a write: members need the group's row and their own
\* account (foreign keys), and one missing account refuses the whole statement.
Upsert(d, g, members) ==
    IF d[g] # None /\ members \subseteq accounts THEN [d EXCEPT ![g] = @ \cup members] ELSE d
RowOnly(d, g) == IF d[g] = None THEN [d EXCEPT ![g] = {}] ELSE d
Apply(d, w) ==
    IF w.type = "saveGroup" THEN Upsert(RowOnly(d, w.groupId), w.groupId, w.members)
    ELSE IF w.type = "saveMember" THEN Upsert(d, w.groupId, w.members)
    ELSE IF w.type = "deleteGroup" THEN [d EXCEPT ![w.groupId] = None]
    ELSE IF d[w.groupId] = None THEN d
    ELSE [d EXCEPT ![w.groupId] = @ \ w.members]

\* The write behind w that came with it.
Follow(w) == IF w.type = "removeLastMember" THEN <<DeleteGroup(w.groupId)>> ELSE <<>>

\* saveGroup is two statements: the group's row may be stored without members.
CutShort(d, w) == IF w.type = "saveGroup" THEN RowOnly(d, w.groupId) ELSE d

\* loadStoredGroups: a row that nobody is a member of is left over.
BadStored(d, g) == d[g]
Stored(d, g) == IF d[g] = {} THEN None ELSE d[g]

-----------------------------------------------------------------------------

Init ==
    /\ online = {}
    /\ accounts = Users
    /\ groups = [g \in Groups |-> None]
    /\ invites = [g \in Groups |-> [u \in Users |-> None]]
    /\ inviteTimers = {}
    /\ inviting = {}
    /\ clock = 0
    /\ deleting = [u \in Users |-> None]
    /\ persisting = FALSE
    /\ queue = <<>>
    /\ db = [g \in Groups |-> None]
    /\ restarts = 0
    /\ consented = {}
    /\ dropped = {}

-----------------------------------------------------------------------------
(* Connections                                                             *)

Connect(u) ==
    /\ u \in accounts \ online
    /\ online' = online \cup {u}
    /\ UNCHANGED <<accounts, groups, invites, inviteTimers, inviting, clock, deleting, storage,
                   consented, dropped>>

\* clearPendingGroupInvitesFor: the invites that wait for u are dropped.
BadClearInvites(u) == invites
clearPendingGroupInvitesFor(u) == [g \in Groups |-> [invites[g] EXCEPT ![u] = None]]

Disconnect(u) ==
    /\ u \in online
    /\ online' = online \ {u}
    /\ invites' = clearPendingGroupInvitesFor(u)
    /\ dropped' = dropped \cup {t \in inviteTimers : t = invites[t.groupId][u]}
    /\ UNCHANGED <<accounts, groups, inviteTimers, inviting, clock, deleting, storage, consented>>

-----------------------------------------------------------------------------
(* group:create and group:invite                                           *)

\* Room for n more invites and for the writes of a client's frame.
Room(n) ==
    /\ clock + MapThenSumSet(LAMBDA h : 1 + Cardinality(h.rest), inviting) + n <= MaxInvites
    /\ Len(queue) < MaxQueue

\* handleGroupInviteRequest up to its await, for one of `tos' after another: it
\* returns at once unless the inviter is, and the invitee is not, in the group.
Invitable(members, u, tos) == IF members # None /\ u \in members THEN tos \ members ELSE {}
InviteNext(g, members, u, tos, others) ==
    IF Invitable(members, u, tos) = {}
    THEN inviting' = others
    ELSE \E to \in Invitable(members, u, tos) :
            inviting' = others \cup
                {[groupId |-> g, userId |-> u, to |-> to, rest |-> tos \ {to}]}

\* The app makes up a fresh id for every group it creates.
CreateGroup(u, g, invitees) ==
    /\ u \in online
    /\ \A v \in Users : <<g, v>> \notin consented
    /\ Room(Cardinality(invitees \ {u}))
    /\ groups' = [groups EXCEPT ![g] = NewGroup(u, invitees)]
    /\ Enqueue(<<SaveGroup(g, NewGroup(u, invitees))>>)
    /\ consented' = consented \cup {<<g, u>>}
    /\ InviteNext(g, NewGroup(u, invitees), u, invitees \ {u}, inviting)
    /\ UNCHANGED <<online, accounts, invites, inviteTimers, clock, deleting, persisting, db,
                   restarts, dropped>>

InviteToGroup(u, g, to) ==
    /\ u \in online
    /\ Room(1)
    /\ isGroupMember(g, u) /\ ~isGroupMember(g, to)
    /\ inviting' = inviting \cup {[groupId |-> g, userId |-> u, to |-> to, rest |-> {}]}
    /\ UNCHANGED <<online, accounts, groups, invites, inviteTimers, clock, deleting, storage,
                   consented, dropped>>

\* The rest of handleGroupInviteRequest: not approved, not online, or recorded.
InviteRefused(h) ==
    /\ h \in inviting
    /\ InviteNext(h.groupId, groups[h.groupId], h.userId, h.rest, inviting \ {h})
    /\ UNCHANGED <<online, accounts, groups, invites, inviteTimers, clock, deleting, storage,
                   consented, dropped>>

InviteRecorded(h) ==
    LET invite == [groupId |-> h.groupId, inviterId |-> h.userId, inviteeId |-> h.to,
                   requestedAt |-> clock]
    IN
    /\ h \in inviting
    /\ isOnline(h.to)
    /\ clock' = clock + 1
    /\ invites' = requestGroupInvite(invite)
    /\ inviteTimers' = inviteTimers \cup {invite}
    /\ InviteNext(h.groupId, groups[h.groupId], h.userId, h.rest, inviting \ {h})
    /\ UNCHANGED <<online, accounts, groups, deleting, storage, consented, dropped>>

BadStillInvited(t) ==
    /\ invites[t.groupId][t.inviteeId] # None
    /\ invites[t.groupId][t.inviteeId].inviterId = t.inviterId
StillInvited(t) == invites[t.groupId][t.inviteeId] = t

InviteTimeout(t) ==
    /\ t \in inviteTimers
    /\ inviteTimers' = inviteTimers \ {t}
    /\ dropped' = dropped \ {t}
    /\ invites' = IF StillInvited(t)
                  THEN [invites EXCEPT ![t.groupId][t.inviteeId] = None]
                  ELSE invites
    /\ UNCHANGED <<online, accounts, groups, inviting, clock, deleting, storage, consented>>

-----------------------------------------------------------------------------
(* group:invite_respond and group:leave                                    *)

RespondInvite(u, g, accept) ==
    LET joins == accept /\ groups[g] # None IN
    /\ u \in online
    /\ Room(0)
    /\ invites[g][u] # None
    /\ invites' = [invites EXCEPT ![g][u] = None]
    /\ groups' = IF joins THEN [groups EXCEPT ![g] = @ \cup {u}] ELSE groups
    /\ Enqueue(IF joins THEN <<SaveMember(g, u)>> ELSE <<>>)
    /\ consented' = IF accept THEN consented \cup {<<g, u>>} ELSE consented
    /\ UNCHANGED <<online, accounts, inviteTimers, inviting, clock, deleting, persisting, db,
                   restarts, dropped>>

LeaveGroup(u, g) ==
    /\ u \in online
    /\ Room(0)
    /\ groups[g] # None
    /\ groups' = [groups EXCEPT ![g] = Without(@, u)]
    /\ Enqueue(<<Removal(g, u)>>)
    /\ UNCHANGED <<online, accounts, invites, inviteTimers, inviting, clock, deleting, persisting,
                   db, restarts, consented, dropped>>

-----------------------------------------------------------------------------
(* handleAccountDelete                                                     *)

\* The user's groups are read, then deleteAccountData is awaited.
DeleteAccount(u) ==
    /\ MayDelete
    /\ u \in accounts
    /\ deleting[u] = None
    /\ deleting' = [deleting EXCEPT ![u] = {g \in Groups : isGroupMember(g, u)}]
    /\ UNCHANGED <<online, accounts, groups, invites, inviteTimers, inviting, clock, storage,
                   consented, dropped>>

DeletionFails(u) ==
    /\ deleting[u] # None
    /\ u \in accounts
    /\ deleting' = [deleting EXCEPT ![u] = None]
    /\ UNCHANGED <<online, accounts, groups, invites, inviteTimers, inviting, clock, storage,
                   consented, dropped>>

\* The database deletes the account, and with it the member rows.
AccountErased(u) ==
    /\ deleting[u] # None
    /\ u \in accounts
    /\ accounts' = accounts \ {u}
    /\ db' = [g \in Groups |-> IF db[g] = None THEN None ELSE db[g] \ {u}]
    /\ UNCHANGED <<relay, persisting, queue, restarts, consented, dropped>>

\* The handler goes on: the user leaves the groups read before.  The close of the
\* socket that it asks for is a Disconnect.
FinishDeletion(u) ==
    LET left == {g \in deleting[u] : groups[g] # None} IN
    /\ deleting[u] # None
    /\ u \notin accounts
    /\ deleting' = [deleting EXCEPT ![u] = None]
    /\ groups' = [g \in Groups |-> IF g \in left THEN Without(groups[g], u) ELSE groups[g]]
    /\ \E order \in SetToSeqs(left) : Enqueue([i \in DOMAIN order |-> Removal(order[i], u)])
    /\ UNCHANGED <<online, accounts, invites, inviteTimers, inviting, clock, persisting, db,
                   restarts, consented, dropped>>

-----------------------------------------------------------------------------
(* groupStore.ts                                                           *)

\* The oldest write is done; one that fails is skipped.
WriteDone ==
    /\ queue # <<>>
    /\ queue' = Follow(Head(queue)) \o Tail(queue)
    /\ \/ db' = Apply(db, Head(queue))
       \/ MayFail /\ db' \in {db, CutShort(db, Head(queue))}
    /\ UNCHANGED <<relay, accounts, persisting, restarts, consented, dropped>>

\* startGroupPersistence, when the database answers: what is stored comes back,
\* and what exists only in memory is written.
BadUnsaved == {}
Unsaved == {g \in Groups : groups[g] # None /\ Stored(db, g) = None}
LoadGroups ==
    /\ ~persisting
    /\ persisting' = TRUE
    /\ groups' = [g \in Groups |-> IF groups[g] = None THEN Stored(db, g) ELSE groups[g]]
    /\ \E order \in SetToSeqs(Unsaved) :
          queue' = [i \in DOMAIN order |-> SaveGroup(order[i], groups[order[i]])]
    /\ UNCHANGED <<online, accounts, invites, inviteTimers, inviting, clock, deleting, db,
                   restarts, consented, dropped>>

\* The relay process ends and starts again.  Of the queued writes the first may
\* have been done, or half done.
Restart ==
    /\ restarts < MaxRestarts
    /\ restarts' = restarts + 1
    /\ \/ db' = db
       \/ queue # <<>> /\ db' \in {Apply(db, Head(queue)), CutShort(db, Head(queue))}
    /\ online' = {}
    /\ groups' = [g \in Groups |-> None]
    /\ invites' = [g \in Groups |-> [u \in Users |-> None]]
    /\ inviteTimers' = {}
    /\ inviting' = {}
    /\ deleting' = [u \in Users |-> None]
    /\ persisting' = FALSE
    /\ queue' = <<>>
    /\ dropped' = {}
    /\ UNCHANGED <<accounts, clock, consented>>

-----------------------------------------------------------------------------

Client(u) ==
    \/ Connect(u)
    \/ Disconnect(u)
    \/ \E g \in Groups :
          \/ \E invitees \in SUBSET Users : CreateGroup(u, g, invitees)
          \/ \E to \in Users : InviteToGroup(u, g, to)
          \/ \E accept \in BOOLEAN : RespondInvite(u, g, accept)
          \/ LeaveGroup(u, g)
    \/ DeleteAccount(u)

Next ==
    \/ \E u \in Users : Client(u) \/ DeletionFails(u) \/ AccountErased(u) \/ FinishDeletion(u)
    \/ \E h \in inviting : InviteRefused(h) \/ InviteRecorded(h)
    \/ \E t \in inviteTimers : InviteTimeout(t)
    \/ WriteDone
    \/ LoadGroups
    \/ Restart

Spec == Init /\ [][Next]_vars

\* The database answers in the end: the load is retried every 15 s, and every
\* queued write comes back.
FairSpec == Spec /\ WF_vars(LoadGroups) /\ WF_vars(WriteDone)

-----------------------------------------------------------------------------
(* Properties                                                              *)

\* Nobody is in a group they did not create or agree to join, in memory, on its
\* way to the database or stored there, whatever restarts and failed writes do
\* to the order in which memberships come and go.
MembersConsented ==
    /\ \A g \in Groups : groups[g] # None => \A u \in groups[g] : <<g, u>> \in consented
    /\ \A g \in Groups : db[g] # None => \A u \in db[g] : <<g, u>> \in consented
    /\ \A i \in DOMAIN queue : queue[i].type \in {"saveGroup", "saveMember"} =>
            \A u \in queue[i].members : <<queue[i].groupId, u>> \in consented

\* A group in memory has a member: the last one's departure deletes it, also
\* when the relay stopped between the two writes of that departure.
GroupNeverEmpty == \A g \in Groups : groups[g] # {}

\* A pending invite waits for somebody who is connected.
InviteeOnline == \A g \in Groups, u \in Users : invites[g][u] # None => u \in online

\* The timer of an invite never removes a later invite, by the same or by
\* another member, to the same user.
TimeoutHitsOwnInvite ==
    [][\A t \in inviteTimers \ inviteTimers' : \A g \in Groups, u \in Users :
          restarts' = restarts /\ invites'[g][u] # invites[g][u] => invites[g][u] = t]_vars

\* With no failing write, the queue loses and reorders nothing: replayed on the
\* database it gives the groups in memory.
Replayed ==
    FoldLeft(LAMBDA d, w : FoldLeft(Apply, Apply(d, w), Follow(w)), db, queue)
QueueRebuildsMemory ==
    persisting => \A g \in Groups : Stored(Replayed, g) = groups[g]

\* ... so every membership is stored in the end, unless it ends before.
MembershipStored ==
    \A g \in Groups, u \in Users :
        isGroupMember(g, u) ~> (~isGroupMember(g, u) \/ (db[g] # None /\ u \in db[g]))

-----------------------------------------------------------------------------
(* What comments of the code say and the code does not do: TLC finds a     *)
(* counterexample of each, under the .cfg that lists it.                   *)

\* state.ts 8-9: "ALL state in this file lives in process memory only.  Nothing
\* here is ever written to disk or a database."
NothingStored == \A g \in Groups : db[g] = None

\* index.ts 144: the groups are left when an account is deleted "so nobody keeps
\* seeing a ghost".
NoGhostMembers ==
    \A u \in Users : u \notin accounts /\ deleting[u] = None =>
        \A g \in Groups : ~isGroupMember(g, u)

\* index.ts 620-623: an invite dropped by a disconnect needs no notice, as "the
\* inviter's own pending timeout already covers telling them".
TimeoutTellsInviter ==
    [][\A t \in dropped : InviteTimeout(t) => StillInvited(t)]_vars

=============================================================================
