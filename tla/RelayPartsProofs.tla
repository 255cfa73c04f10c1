-------------------------- MODULE RelayPartsProofs --------------------------
(***************************************************************************)
(* Proofs about four parts of the relay that share no state: the groups    *)
(* (RelayGroups), the contact gate (RelayGate), the heartbeat              *)
(* (RelayGuards) and the push pings (PushPings). They are theorems of each *)
(* part's own specification, for any users, groups, limits, caches and     *)
(* times of the database.                                                  *)
(***************************************************************************)
EXTENDS RelayGroups, RelayGate, RelayGuards, PushPings, FiniteSetTheorems,
        SequenceTheorems, FoldTheorems, TLAPS

-----------------------------------------------------------------------------
(* Groups, with failing writes, deletions and restarts: nobody is a member *)
(* without having agreed, no group is empty, and pending invites wait for  *)
(* connected users. Without failures and deletions, the queued writes turn *)
(* what is stored into what is in memory.                                  *)

Rows == [Groups -> {None} \cup SUBSET Users]

SaveTypes == {"saveGroup", "saveMember"}

\* Consent as three invariants: what is in memory, stored and on its way.
MemoryConsented == \A g \in Groups : groups[g] # None => \A u \in groups[g] : <<g, u>> \in consented
StoreConsented == \A g \in Groups : db[g] # None => \A u \in db[g] : <<g, u>> \in consented
QueueConsented ==
    \A i \in DOMAIN queue : queue[i].type \in SaveTypes =>
        \A u \in queue[i].members : <<queue[i].groupId, u>> \in consented

\* The four properties; the last two need no more than the types.
IInv == TypeOK /\ MembersConsented /\ GroupNeverEmpty /\ InviteeOnline

-----------------------------------------------------------------------------
(* The database                                                            *)

LEMMA ApplyType ==
    ASSUME NEW d \in Rows, NEW w \in Write
    PROVE  Apply(d, w) \in Rows /\ CutShort(d, w) \in Rows
<1>1. RowOnly(d, w.groupId) \in Rows
  BY DEF RowOnly, Rows, Write
<1>2. \A e \in Rows : Upsert(e, w.groupId, w.members) \in Rows
  BY DEF Upsert, Rows, Write
<1>3. CASE w.type = "saveGroup"
  BY <1>1, <1>2, <1>3 DEF Apply, CutShort
<1>4. CASE w.type = "saveMember"
  BY <1>2, <1>4 DEF Apply, CutShort
<1>5. CASE w.type = "deleteGroup"
  BY <1>5 DEF Apply, CutShort, Rows, Write
<1>6. CASE w.type \in {"removeMember", "removeLastMember"}
  BY <1>6 DEF Apply, CutShort, Rows, Write
<1>7. QED BY <1>3, <1>4, <1>5, <1>6 DEF Write

\* Whoever is stored after a write was stored before, or is a member that the
\* write saves.
LEMMA ApplyMembers ==
    ASSUME NEW d \in Rows, NEW w \in Write, NEW e \in {Apply(d, w), CutShort(d, w)},
           NEW g \in Groups, e[g] # None, NEW u \in e[g]
    PROVE  \/ d[g] # None /\ u \in d[g]
           \/ w.type \in SaveTypes /\ w.groupId = g /\ u \in w.members
<1> DEFINE Old == d[g] # None /\ u \in d[g]
           Saved == w.groupId = g /\ u \in w.members
<1>1. ASSUME NEW r \in Rows, r[g] # None => r[g] = {} \/ r[g] = d[g],
             e = Upsert(r, w.groupId, w.members)
      PROVE  Old \/ Saved
  BY <1>1 DEF Upsert, Rows, Write
<1>2. RowOnly(d, w.groupId) \in Rows
  BY DEF RowOnly, Rows, Write
<1>3. RowOnly(d, w.groupId)[g] # None
         => RowOnly(d, w.groupId)[g] = {} \/ RowOnly(d, w.groupId)[g] = d[g]
  BY DEF RowOnly, Rows, Write
<1>4. CASE w.type = "saveGroup"
  <2>1. CASE e = CutShort(d, w)
    BY <1>3, <1>4, <2>1 DEF CutShort
  <2>2. CASE e = Apply(d, w)
    BY <1>1, <1>2, <1>3, <1>4, <2>2 DEF Apply, SaveTypes
  <2>3. QED BY <2>1, <2>2
<1>5. CASE w.type = "saveMember"
  BY <1>1, <1>5 DEF Apply, CutShort, SaveTypes
<1>6. CASE w.type = "deleteGroup"
  BY <1>6 DEF Apply, CutShort, Rows, Write
<1>7. CASE w.type \in {"removeMember", "removeLastMember"}
  BY <1>7 DEF Apply, CutShort, Rows, Write
<1>8. QED BY <1>4, <1>5, <1>6, <1>7 DEF Write

\* A loaded group is what is stored, without the empty ones.
LEMMA StoredGroups ==
    ASSUME NEW d \in Rows, NEW g \in Groups
    PROVE  /\ Stored(d, g) \in {None} \cup SUBSET Users
           /\ Stored(d, g) # {}
           /\ Stored(d, g) # None => Stored(d, g) = d[g]
BY NoneAssumption DEF Stored, Rows

-----------------------------------------------------------------------------
(* Helpers of the actions                                                  *)

\* What is enqueued is added to the queue, or nothing is.
LEMMA EnqueueEffect ==
    ASSUME queue \in Seq(Write), NEW writes \in Seq(Write), Enqueue(writes)
    PROVE  /\ queue' \in Seq(Write)
           /\ \A i \in DOMAIN queue' : \/ \E j \in DOMAIN queue : queue'[i] = queue[j]
                                       \/ \E j \in DOMAIN writes : queue'[i] = writes[j]
<1>1. CASE ~persisting
  BY <1>1 DEF Enqueue
<1>2. CASE persisting
  <2>1. queue' = queue \o writes
    BY <1>2 DEF Enqueue
  <2>2. queue' \in Seq(Write)
    BY <2>1
  <2>3. ASSUME NEW i \in 1..Len(queue) + Len(writes)
        PROVE  \/ \E j \in DOMAIN queue : queue'[i] = queue[j]
               \/ \E j \in DOMAIN writes : queue'[i] = writes[j]
    <3>1. CASE i <= Len(queue)
      BY <2>1, <3>1
    <3>2. CASE i > Len(queue)
      <4>1. queue'[i] = writes[i - Len(queue)] /\ i - Len(queue) \in DOMAIN writes
        BY <2>1, <3>2
      <4>2. QED BY <4>1
    <3>3. QED BY <3>1, <3>2
  <2>4. DOMAIN queue' = 1..Len(queue) + Len(writes)
    BY <2>1
  <2>5. QED BY <2>2, <2>3, <2>4
<1>3. QED BY <1>1, <1>2

\* Memberships on their way stay agreed to when those enqueued are.
LEMMA EnqueueConsented ==
    ASSUME queue \in Seq(Write), QueueConsented, consented \subseteq consented',
           NEW writes \in Seq(Write), Enqueue(writes),
           \A i \in DOMAIN writes : writes[i].type \in SaveTypes =>
               \A u \in writes[i].members : <<writes[i].groupId, u>> \in consented'
    PROVE  QueueConsented'
BY EnqueueEffect DEF QueueConsented

\* The orders in which the writes for a set of groups may be enqueued.
LEMMA OrderType ==
    ASSUME NEW S \in SUBSET Groups, NEW order \in SetToSeqs(S)
    PROVE  order \in Seq(S) /\ order \in Seq(Groups)
<1>1. Cardinality(S) \in Nat
  BY FiniteAssumption, FS_Subset, FS_CardinalityType
<1>2. order \in [1..Cardinality(S) -> S]
  BY DEF SetToSeqs
<1>3. QED BY <1>1, <1>2

LEMMA WriteTypes ==
    ASSUME NEW g \in Groups, NEW u \in Users, NEW members \in SUBSET Users
    PROVE  /\ SaveGroup(g, members) \in Write
           /\ SaveMember(g, u) \in Write
           /\ Removal(g, u) \in Write
           /\ DeleteGroup(g) \in Write
BY DEF SaveGroup, SaveMember, Removal, DeleteGroup, Write

LEMMA SingleType ==
    ASSUME NEW w \in Write
    PROVE  <<w>> \in Seq(Write) /\ Len(<<w>>) = 1 /\ <<w>>[1] = w
OBVIOUS

LEMMA InviteNextType ==
    ASSUME NEW g \in Groups, NEW u \in Users, NEW tos \in SUBSET Users, NEW members,
           NEW others \in SUBSET Inviting, InviteNext(g, members, u, tos, others)
    PROVE  inviting' \subseteq Inviting
BY DEF InviteNext, Invitable, Inviting

\* What is left of a group is not empty.
LEMMA WithoutType ==
    ASSUME NEW members \in SUBSET Users, NEW u
    PROVE  /\ Without(members, u) \in {None} \cup SUBSET Users
           /\ Without(members, u) # {}
           /\ Without(members, u) # None => Without(members, u) \subseteq members
BY NoneAssumption DEF Without
-----------------------------------------------------------------------------
(* Types                                                                   *)

LEMMA TypeInit == Init => TypeOK
<1> SUFFICES ASSUME Init PROVE TypeOK
  OBVIOUS
<1>1. queue \in Seq(Write)
  BY DEF Init
<1>2. /\ invites \in [Groups -> [Users -> Invite \cup {None}]]
      /\ \A g \in Groups, u \in Users : invites[g][u] = None
  BY DEF Init
<1>3. QED BY <1>1, <1>2 DEF Init, TypeOK

LEMMA TypePreserved == TypeOK /\ [Next]_vars => TypeOK'
<1> SUFFICES ASSUME TypeOK, [Next]_vars PROVE TypeOK'
  OBVIOUS
<1> DEFINE GroupsOK == groups \in [Groups -> {None} \cup SUBSET Users]
           InvitesOK == /\ invites \in [Groups -> [Users -> Invite \cup {None}]]
                        /\ \A g \in Groups, u \in Users : invites[g][u] # None =>
                                invites[g][u].groupId = g /\ invites[g][u].inviteeId = u
           InvitingOK == inviting \subseteq Inviting
           QueueOK == queue \in Seq(Write)
<1>q. GroupsOK /\ InvitesOK /\ InvitingOK /\ QueueOK /\ db \in Rows
  BY DEF TypeOK, Rows
<1>1. ASSUME NEW u \in Users, Connect(u) PROVE TypeOK'
  BY <1>1 DEF TypeOK, storage, Connect
<1>2. ASSUME NEW u \in Users, Disconnect(u) PROVE TypeOK'
  <2>1. InvitesOK'
    BY <1>2, <1>q DEF Disconnect, clearPendingGroupInvitesFor
  <2>2. QED BY <1>2, <2>1 DEF TypeOK, storage, Disconnect
<1>3. ASSUME NEW u \in Users, NEW g \in Groups, NEW invitees \in SUBSET Users,
             CreateGroup(u, g, invitees)
      PROVE  TypeOK'
  <2> DEFINE members == NewGroup(u, invitees)
  <2>1. members \in SUBSET Users
    BY DEF NewGroup
  <2> HIDE DEF members
  <2>2. /\ Enqueue(<<SaveGroup(g, members)>>)
        /\ InviteNext(g, members, u, invitees \ {u}, inviting)
        /\ groups' = [groups EXCEPT ![g] = members]
    BY <1>3 DEF CreateGroup, members
  <2>3. <<SaveGroup(g, members)>> \in Seq(Write)
    BY <2>1, WriteTypes, SingleType
  <2>4. QueueOK'
    BY <1>q, <2>2, <2>3, EnqueueEffect
  <2>5. InvitingOK'
    BY <1>q, <2>2, InviteNextType
  <2>6. GroupsOK'
    BY <1>q, <2>1, <2>2
  <2>7. QED BY <1>3, <2>4, <2>5, <2>6 DEF TypeOK, CreateGroup
<1>4. ASSUME NEW u \in Users, NEW g \in Groups, NEW to \in Users, InviteToGroup(u, g, to)
      PROVE  TypeOK'
  <2>1. InvitingOK'
    BY <1>4, <1>q DEF InviteToGroup, Inviting
  <2>2. QED BY <1>4, <2>1 DEF TypeOK, storage, InviteToGroup
<1>5. ASSUME NEW h \in inviting, InviteRefused(h) PROVE TypeOK'
  <2>1. h \in Inviting /\ inviting \ {h} \in SUBSET Inviting
    BY <1>q
  <2>2. h.groupId \in Groups /\ h.userId \in Users /\ h.rest \in SUBSET Users
    BY <2>1 DEF Inviting
  <2>3. InvitingOK'
    BY <1>5, <2>1, <2>2, InviteNextType DEF InviteRefused
  <2>4. QED BY <1>5, <2>3 DEF TypeOK, storage, InviteRefused
<1>6. ASSUME NEW h \in inviting, InviteRecorded(h) PROVE TypeOK'
  <2> DEFINE invite == [groupId |-> h.groupId, inviterId |-> h.userId, inviteeId |-> h.to,
                        requestedAt |-> clock]
  <2>1. h \in Inviting /\ inviting \ {h} \in SUBSET Inviting /\ clock \in Nat
    BY <1>q DEF TypeOK
  <2>2. h.groupId \in Groups /\ h.userId \in Users /\ h.to \in Users /\ h.rest \in SUBSET Users
    BY <2>1 DEF Inviting
  <2>3. invite \in Invite
    BY <2>1, <2>2 DEF Invite
  <2>4. InviteNext(h.groupId, groups[h.groupId], h.userId, h.rest, inviting \ {h})
    BY <1>6 DEF InviteRecorded
  <2>5. InvitingOK'
    BY <2>1, <2>2, <2>4, InviteNextType
  <2>6. /\ invites' = [invites EXCEPT ![h.groupId][h.to] = invite]
        /\ inviteTimers' = inviteTimers \cup {invite}
        /\ clock' = clock + 1
    BY <1>6 DEF InviteRecorded, requestGroupInvite
  <2>7. invite.groupId = h.groupId /\ invite.inviteeId = h.to
    OBVIOUS
  <2> HIDE DEF invite
  <2>8. InvitesOK'
    BY <1>q, <2>2, <2>3, <2>6, <2>7
  <2>9. QED BY <1>6, <2>1, <2>3, <2>5, <2>6, <2>8 DEF TypeOK, storage, InviteRecorded
<1>7. ASSUME NEW t \in inviteTimers, InviteTimeout(t) PROVE TypeOK'
  <2>1. t.groupId \in Groups /\ t.inviteeId \in Users
    BY DEF TypeOK, Invite
  <2>2. \/ invites' = [invites EXCEPT ![t.groupId][t.inviteeId] = None]
        \/ invites' = invites
    BY <1>7 DEF InviteTimeout
  <2>3. InvitesOK'
    <3>1. CASE invites' = [invites EXCEPT ![t.groupId][t.inviteeId] = None]
      <4>1. invites' = [invites EXCEPT ![t.groupId] = [invites[t.groupId] EXCEPT ![t.inviteeId] = None]]
        BY <3>1
      <4>2. [invites[t.groupId] EXCEPT ![t.inviteeId] = None] \in [Users -> Invite \cup {None}]
        BY <1>q, <2>1
      <4>3. invites' \in [Groups -> [Users -> Invite \cup {None}]]
        BY <1>q, <2>1, <4>1, <4>2
      <4>4. \A g \in Groups, u \in Users : invites'[g][u] \in {invites[g][u], None}
        BY <1>q, <2>1, <4>1, <4>2
      <4>5. QED BY <1>q, <4>3, <4>4
    <3>2. QED BY <1>q, <2>2, <3>1
  <2>4. QED BY <1>7, <2>3 DEF TypeOK, storage, InviteTimeout
<1>8. ASSUME NEW u \in Users, NEW g \in Groups, NEW accept \in BOOLEAN, RespondInvite(u, g, accept)
      PROVE  TypeOK'
  <2>1. QueueOK'
    <3>1. Enqueue(<<SaveMember(g, u)>>) \/ Enqueue(<<>>)
      BY <1>8 DEF RespondInvite
    <3>2. SaveMember(g, u) \in Write
      BY DEF SaveMember, Write
    <3>3. <<SaveMember(g, u)>> \in Seq(Write) /\ <<>> \in Seq(Write)
      BY <3>2, SingleType
    <3>4. QED BY <1>q, <3>1, <3>3, EnqueueEffect
  <2>2. \/ groups[g] # None /\ groups' = [groups EXCEPT ![g] = groups[g] \cup {u}]
        \/ groups' = groups
    BY <1>8 DEF RespondInvite
  <2>3. GroupsOK'
    BY <1>q, <2>2
  <2>4. InvitesOK'
    BY <1>8, <1>q DEF RespondInvite
  <2>5. consented' \subseteq Groups \X Users
    BY <1>8 DEF RespondInvite, TypeOK
  <2>6. QED BY <1>8, <2>1, <2>3, <2>4, <2>5 DEF TypeOK, RespondInvite
<1>9. ASSUME NEW u \in Users, NEW g \in Groups, LeaveGroup(u, g) PROVE TypeOK'
  <2>1. <<Removal(g, u)>> \in Seq(Write)
    BY WriteTypes, SingleType
  <2>2. QueueOK'
    BY <1>9, <1>q, <2>1, EnqueueEffect DEF LeaveGroup
  <2>3. GroupsOK'
    BY <1>9, <1>q, WithoutType DEF LeaveGroup
  <2>4. QED BY <1>9, <2>2, <2>3 DEF TypeOK, LeaveGroup
<1>10. ASSUME NEW u \in Users, DeleteAccount(u) \/ DeletionFails(u) \/ AccountErased(u)
       PROVE  TypeOK'
  BY <1>10 DEF TypeOK, relay, storage, DeleteAccount, DeletionFails, AccountErased
<1>11. ASSUME NEW u \in Users, FinishDeletion(u) PROVE TypeOK'
  <2> DEFINE left == {g \in deleting[u] : groups[g] # None}
  <2>1. left \in SUBSET Groups
    BY <1>11 DEF FinishDeletion, TypeOK
  <2>2. PICK order \in SetToSeqs(left) : Enqueue([i \in DOMAIN order |-> Removal(order[i], u)])
    BY <1>11 DEF FinishDeletion
  <2>3. groups' = [g \in Groups |-> IF g \in left THEN Without(groups[g], u) ELSE groups[g]]
    BY <1>11 DEF FinishDeletion
  <2>4. \A g \in left : groups[g] # None
    OBVIOUS
  <2> HIDE DEF left
  <2>5. order \in Seq(Groups)
    BY <2>1, OrderType
  <2>6. \A g \in Groups : Removal(g, u) \in Write
    BY WriteTypes
  <2>7. [i \in DOMAIN order |-> Removal(order[i], u)] \in Seq(Write)
    BY <2>5, <2>6
  <2>8. QueueOK'
    BY <1>q, <2>2, <2>7, EnqueueEffect
  <2>9. GroupsOK'
    BY <1>q, <2>3, <2>4, WithoutType
  <2>10. QED BY <1>11, <2>8, <2>9 DEF TypeOK, FinishDeletion
<1>12. CASE WriteDone
  <2>1. Head(queue) \in Write /\ Tail(queue) \in Seq(Write)
    BY <1>12, <1>q DEF WriteDone
  <2>2. DeleteGroup(Head(queue).groupId) \in Write
    BY <2>1 DEF Write, DeleteGroup
  <2>3. Follow(Head(queue)) \in Seq(Write)
    BY <2>2, SingleType DEF Follow
  <2>4. queue' = Follow(Head(queue)) \o Tail(queue)
    BY <1>12 DEF WriteDone
  <2>5. QueueOK'
    BY <2>1, <2>3, <2>4
  <2>6. db' \in Rows
    BY <1>12, <1>q, <2>1, ApplyType DEF WriteDone
  <2>7. QED BY <1>12, <2>5, <2>6 DEF TypeOK, relay, WriteDone, Rows
<1>13. CASE LoadGroups
  <2>1. PICK order \in SetToSeqs(Unsaved) :
            queue' = [i \in DOMAIN order |-> SaveGroup(order[i], groups[order[i]])]
    BY <1>13 DEF LoadGroups
  <2>2. Unsaved \in SUBSET Groups
    BY DEF Unsaved
  <2>3. order \in Seq(Unsaved)
    BY <2>2, OrderType
  <2>4. \A g \in Unsaved : SaveGroup(g, groups[g]) \in Write
    <3>1. \A g \in Unsaved : g \in Groups /\ groups[g] \in SUBSET Users
      BY <1>q DEF Unsaved
    <3>2. QED BY <3>1 DEF SaveGroup, Write
  <2>5. QueueOK'
    BY <2>1, <2>3, <2>4
  <2>6. GroupsOK'
    BY <1>13, <1>q, StoredGroups DEF LoadGroups
  <2>7. QED BY <1>13, <2>5, <2>6 DEF TypeOK, LoadGroups
<1>14. CASE Restart
  <2>1. db' \in Rows
    <3>1. CASE db' = db
      BY <3>1, <1>q
    <3>2. CASE queue # <<>> /\ db' \in {Apply(db, Head(queue)), CutShort(db, Head(queue))}
      <4>1. Head(queue) \in Write
        BY <1>q, <3>2
      <4>2. QED BY <1>q, <3>2, <4>1, ApplyType
    <3>3. QED BY <1>14, <3>1, <3>2 DEF Restart
  <2>2. /\ restarts' = restarts + 1 /\ online' = {} /\ inviteTimers' = {} /\ inviting' = {}
        /\ persisting' = FALSE /\ queue' = <<>> /\ dropped' = {}
        /\ deleting' = [u \in Users |-> None] /\ groups' = [g \in Groups |-> None]
        /\ UNCHANGED <<accounts, clock, consented>>
    BY <1>14 DEF Restart
  <2>3. InvitesOK'
    BY <1>14 DEF Restart
  <2>4. QueueOK' /\ GroupsOK'
    <3>1. <<>> \in Seq(Write)
      OBVIOUS
    <3>2. QED BY <2>2, <3>1
  <2>5. InvitingOK' /\ persisting' \in BOOLEAN /\ online' \subseteq Users
           /\ inviteTimers' \subseteq Invite /\ dropped' \subseteq Invite
    BY <2>2
  <2>6. deleting' \in [Users -> {None} \cup SUBSET Groups]
    BY <2>2
  <2>7. accounts' \subseteq Users /\ clock' \in Nat /\ consented' \subseteq Groups \X Users
    BY <2>2 DEF TypeOK
  <2>8. restarts' \in Nat
    BY <2>2 DEF TypeOK
  <2>9. QED BY <2>1, <2>3, <2>4, <2>5, <2>6, <2>7, <2>8 DEF TypeOK, Rows
<1>15. CASE UNCHANGED vars
  BY <1>15 DEF TypeOK, vars
<1>16. QED
  BY <1>1, <1>2, <1>3, <1>4, <1>5, <1>6, <1>7, <1>8, <1>9, <1>10, <1>11, <1>12, <1>13, <1>14, <1>15
     DEF Next, Client
-----------------------------------------------------------------------------
(* Consent                                                                 *)

Consents == MemoryConsented /\ StoreConsented /\ QueueConsented

LEMMA ConsentsIsMembersConsented == Consents <=> MembersConsented
BY DEF Consents, MemoryConsented, StoreConsented, QueueConsented, SaveTypes, MembersConsented

\* A write of the queue stores only members that have agreed.
LEMMA WriteConsented ==
    ASSUME TypeOK, Consents, queue # <<>>, consented' = consented,
           db' \in {Apply(db, Head(queue)), CutShort(db, Head(queue))}
    PROVE  StoreConsented'
<1>1. Head(queue) \in Write /\ Head(queue) = queue[1] /\ 1 \in DOMAIN queue
  BY DEF TypeOK
<1>2. db \in Rows
  BY DEF TypeOK, Rows
<1>3. SUFFICES ASSUME NEW g \in Groups, db'[g] # None, NEW u \in db'[g]
               PROVE  <<g, u>> \in consented
  BY DEF StoreConsented
<1>4. CASE db[g] # None /\ u \in db[g]
  BY <1>4 DEF Consents, StoreConsented
<1>5. CASE /\ Head(queue).type \in SaveTypes /\ Head(queue).groupId = g
           /\ u \in Head(queue).members
  BY <1>1, <1>5 DEF Consents, QueueConsented
<1>6. QED BY <1>1, <1>2, <1>3, <1>4, <1>5, ApplyMembers

LEMMA ConsentPreserved == TypeOK /\ Consents /\ [Next]_vars => Consents'
<1> SUFFICES ASSUME TypeOK, Consents, [Next]_vars PROVE Consents'
  OBVIOUS
<1>q. queue \in Seq(Write) /\ db \in Rows /\ groups \in Rows
  BY DEF TypeOK, Rows
<1> USE DEF Consents
<1>1. ASSUME NEW u \in Users, NEW g \in Groups, NEW invitees \in SUBSET Users,
             CreateGroup(u, g, invitees)
      PROVE  Consents'
  <2>1. /\ groups' = [groups EXCEPT ![g] = {u}] /\ Enqueue(<<SaveGroup(g, {u})>>)
        /\ consented' = consented \cup {<<g, u>>} /\ db' = db
    BY <1>1 DEF CreateGroup, NewGroup
  <2>2. MemoryConsented'
    BY <1>q, <2>1 DEF MemoryConsented, Rows
  <2>3. SaveGroup(g, {u}) \in Write /\ SaveGroup(g, {u}).members = {u}
           /\ SaveGroup(g, {u}).groupId = g
    BY WriteTypes DEF SaveGroup
  <2> DEFINE writes == <<SaveGroup(g, {u})>>
  <2>4. writes \in Seq(Write) /\ \A i \in DOMAIN writes : writes[i] = SaveGroup(g, {u})
    BY <2>3, SingleType
  <2>5. \A i \in DOMAIN writes : writes[i].type \in SaveTypes =>
           \A v \in writes[i].members : <<writes[i].groupId, v>> \in consented'
    BY <2>1, <2>3, <2>4
  <2> HIDE DEF writes
  <2>6. QueueConsented'
    BY <1>q, <2>1, <2>4, <2>5, EnqueueConsented DEF writes
  <2>7. StoreConsented'
    BY <2>1 DEF StoreConsented
  <2>8. QED BY <2>2, <2>6, <2>7
<1>2. ASSUME NEW u \in Users, NEW g \in Groups, NEW accept \in BOOLEAN, RespondInvite(u, g, accept)
      PROVE  Consents'
  <2>1. CASE accept = TRUE /\ groups[g] # None
    <3>1. /\ groups' = [groups EXCEPT ![g] = groups[g] \cup {u}]
          /\ Enqueue(<<SaveMember(g, u)>>)
          /\ consented' = consented \cup {<<g, u>>} /\ db' = db
      BY <1>2, <2>1 DEF RespondInvite
    <3>2. MemoryConsented'
      BY <1>q, <2>1, <3>1 DEF MemoryConsented, Rows
    <3>3. SaveMember(g, u) \in Write /\ SaveMember(g, u).members = {u}
             /\ SaveMember(g, u).groupId = g
      BY WriteTypes DEF SaveMember
    <3> DEFINE writes == <<SaveMember(g, u)>>
    <3>4. writes \in Seq(Write) /\ \A i \in DOMAIN writes : writes[i] = SaveMember(g, u)
      BY <3>3, SingleType
    <3>5. \A i \in DOMAIN writes : writes[i].type \in SaveTypes =>
             \A v \in writes[i].members : <<writes[i].groupId, v>> \in consented'
      BY <3>1, <3>3, <3>4
    <3> HIDE DEF writes
    <3>6. QueueConsented'
      BY <1>q, <3>1, <3>4, <3>5, EnqueueConsented DEF writes
    <3>7. StoreConsented'
      BY <3>1 DEF StoreConsented
    <3>8. QED BY <3>2, <3>6, <3>7
  <2>2. CASE ~(accept = TRUE /\ groups[g] # None)
    <3>1. groups' = groups /\ Enqueue(<<>>) /\ consented \subseteq consented' /\ db' = db
      BY <1>2, <2>2 DEF RespondInvite
    <3>2. queue' = queue
      BY <1>q, <3>1 DEF Enqueue
    <3>3. QED BY <3>1, <3>2 DEF MemoryConsented, StoreConsented, QueueConsented
  <2>3. QED BY <2>1, <2>2
<1>3. ASSUME NEW u \in Users, NEW g \in Groups, LeaveGroup(u, g) PROVE Consents'
  <2>1. /\ groups' = [groups EXCEPT ![g] = Without(groups[g], u)] /\ groups[g] # None
        /\ Enqueue(<<Removal(g, u)>>) /\ consented' = consented /\ db' = db
    BY <1>3 DEF LeaveGroup
  <2>2. MemoryConsented'
    BY <1>q, <2>1, WithoutType DEF MemoryConsented, Rows
  <2> DEFINE writes == <<Removal(g, u)>>
  <2>3. Removal(g, u).type \notin SaveTypes /\ Removal(g, u) \in Write
    BY WriteTypes DEF Removal, SaveTypes
  <2>4. writes \in Seq(Write) /\ \A i \in DOMAIN writes : writes[i].type \notin SaveTypes
    BY <2>3, SingleType
  <2> HIDE DEF writes
  <2>5. QueueConsented'
    BY <1>q, <2>1, <2>4, EnqueueConsented DEF writes
  <2>6. QED BY <2>1, <2>2, <2>5 DEF StoreConsented
<1>4. ASSUME NEW u \in Users, AccountErased(u) PROVE Consents'
  BY <1>4, <1>q
     DEF AccountErased, relay, MemoryConsented, StoreConsented, QueueConsented, Rows
<1>5. ASSUME NEW u \in Users, FinishDeletion(u) PROVE Consents'
  <2> DEFINE left == {g \in deleting[u] : groups[g] # None}
  <2>1. left \in SUBSET Groups /\ \A g \in left : groups[g] # None
    BY <1>5 DEF FinishDeletion, TypeOK
  <2>2. PICK order \in SetToSeqs(left) : Enqueue([i \in DOMAIN order |-> Removal(order[i], u)])
    BY <1>5 DEF FinishDeletion
  <2>3. /\ groups' = [g \in Groups |-> IF g \in left THEN Without(groups[g], u) ELSE groups[g]]
        /\ consented' = consented /\ db' = db
    BY <1>5 DEF FinishDeletion
  <2> HIDE DEF left
  <2> DEFINE writes == [i \in DOMAIN order |-> Removal(order[i], u)]
  <2>4. \A g \in Groups : Removal(g, u) \in Write /\ Removal(g, u).type \notin SaveTypes
    BY WriteTypes DEF Removal, SaveTypes
  <2>5. order \in Seq(Groups)
    BY <2>1, OrderType
  <2>6. writes \in Seq(Write) /\ \A i \in DOMAIN writes : writes[i].type \notin SaveTypes
    BY <2>4, <2>5
  <2> HIDE DEF writes
  <2>7. QueueConsented'
    BY <1>q, <2>2, <2>3, <2>6, EnqueueConsented DEF writes
  <2>8. MemoryConsented'
    BY <1>q, <2>1, <2>3, WithoutType DEF MemoryConsented, Rows
  <2>9. QED BY <2>3, <2>7, <2>8 DEF StoreConsented
<1>6. CASE WriteDone
  <2>1. /\ queue # <<>> /\ consented' = consented /\ groups' = groups
        /\ queue' = Follow(Head(queue)) \o Tail(queue)
        /\ db' \in {db, Apply(db, Head(queue)), CutShort(db, Head(queue))}
    BY <1>6 DEF WriteDone, relay
  <2>2. StoreConsented'
    BY <2>1, WriteConsented DEF StoreConsented
  <2>3. Tail(queue) \in Seq(Write) /\ Len(queue) \in Nat /\ Len(Tail(queue)) = Len(queue) - 1
           /\ \A i \in 1..Len(Tail(queue)) : Tail(queue)[i] = queue[i + 1]
    BY <1>q, <2>1
  <2>4. \A i \in DOMAIN Tail(queue) : Tail(queue)[i].type \in SaveTypes =>
           \A u \in Tail(queue)[i].members : <<Tail(queue)[i].groupId, u>> \in consented
    BY <1>q, <2>3 DEF QueueConsented
  <2>5. CASE Follow(Head(queue)) = <<>>
    <3>1. queue' = Tail(queue)
      BY <2>1, <2>3, <2>5, ConcatEmptySeq
    <3>2. QED BY <2>1, <2>2, <2>4, <3>1 DEF MemoryConsented, QueueConsented
  <2>6. CASE Follow(Head(queue)) = <<DeleteGroup(Head(queue).groupId)>>
    <3> DEFINE first == <<DeleteGroup(Head(queue).groupId)>>
    <3>0. first \in Seq(Write) /\ Len(first) = 1 /\ first[1] = DeleteGroup(Head(queue).groupId)
      <4>1. Head(queue) \in Write
        BY <1>q, <2>1
      <4>2. DeleteGroup(Head(queue).groupId) \in Write
        BY <4>1 DEF DeleteGroup, Write
      <4>3. QED BY <4>2, SingleType
    <3> HIDE DEF first
    <3>1. /\ DOMAIN queue' = 1..Len(Tail(queue)) + 1
          /\ queue'[1] = DeleteGroup(Head(queue).groupId)
          /\ \A i \in 2..Len(Tail(queue)) + 1 : queue'[i] = Tail(queue)[i - 1]
      <4>1. queue' = first \o Tail(queue)
        BY <2>1, <2>6 DEF first
      <4>2. /\ first \o Tail(queue) \in Seq(Write)
            /\ Len(first \o Tail(queue)) = Len(first) + Len(Tail(queue))
            /\ \A i \in 1..Len(first) + Len(Tail(queue)) :
                  (first \o Tail(queue))[i] =
                      IF i <= Len(first) THEN first[i] ELSE Tail(queue)[i - Len(first)]
        <5>1. first \in Seq(Write) /\ Tail(queue) \in Seq(Write)
          BY <2>3, <3>0
        <5>2. QED BY ONLY <5>1, ConcatProperties
      <4>3. DOMAIN queue' = 1..Len(Tail(queue)) + 1
        BY <2>3, <3>0, <4>1, <4>2
      <4>4. \A i \in 1..1 + Len(Tail(queue)) :
               queue'[i] = IF i <= 1 THEN first[i] ELSE Tail(queue)[i - 1]
        BY <3>0, <4>1, <4>2
      <4>5. Len(Tail(queue)) \in Nat
        BY <2>3
      <4>6. QED BY <3>0, <4>3, <4>4, <4>5
    <3>2. DeleteGroup(Head(queue).groupId).type \notin SaveTypes
      BY DEF DeleteGroup, SaveTypes
    <3>3. ASSUME NEW i \in DOMAIN queue', queue'[i].type \in SaveTypes,
                 NEW u \in queue'[i].members
          PROVE  <<queue'[i].groupId, u>> \in consented
      <4>1. i \in 2..Len(Tail(queue)) + 1 /\ i - 1 \in DOMAIN Tail(queue)
        BY <2>3, <3>1, <3>2, <3>3
      <4>2. QED BY <2>4, <3>1, <3>3, <4>1
    <3>4. QED BY <2>1, <2>2, <3>3 DEF MemoryConsented, QueueConsented
  <2>7. QED BY <2>5, <2>6 DEF Follow
<1>7. CASE LoadGroups
  <2>1. PICK order \in SetToSeqs(Unsaved) :
            queue' = [i \in DOMAIN order |-> SaveGroup(order[i], groups[order[i]])]
    BY <1>7 DEF LoadGroups
  <2>2. /\ groups' = [g \in Groups |-> IF groups[g] = None THEN Stored(db, g) ELSE groups[g]]
        /\ consented' = consented /\ db' = db
    BY <1>7 DEF LoadGroups
  <2>3. MemoryConsented'
    BY <1>q, <2>2, StoredGroups DEF MemoryConsented, StoreConsented, Rows
  <2>4. order \in Seq(Unsaved)
    BY OrderType DEF Unsaved
  <2>5. \A g \in Unsaved : g \in Groups /\ groups[g] # None
    BY DEF Unsaved
  <2>6. \A i \in DOMAIN queue' : \E g \in Unsaved : queue'[i] = SaveGroup(g, groups[g])
    BY <2>1, <2>4
  <2>7. QueueConsented'
    BY <2>2, <2>5, <2>6 DEF QueueConsented, MemoryConsented, SaveGroup
  <2>8. QED BY <2>2, <2>3, <2>7 DEF StoreConsented
<1>8. CASE Restart
  <2>1. /\ groups' = [g \in Groups |-> None] /\ queue' = <<>> /\ consented' = consented
    BY <1>8 DEF Restart
  <2>2. StoreConsented'
    BY <1>8, WriteConsented DEF Restart, StoreConsented
  <2>3. QED BY <2>1, <2>2 DEF MemoryConsented, QueueConsented
<1>9. CASE UNCHANGED <<groups, queue, db, consented>>
  BY <1>9 DEF MemoryConsented, StoreConsented, QueueConsented
<1>10. QED
  BY <1>1, <1>2, <1>3, <1>4, <1>5, <1>6, <1>7, <1>8, <1>9
     DEF Next, Client, vars, storage, Connect, Disconnect, InviteToGroup, DeleteAccount,
         DeletionFails, InviteRefused, InviteRecorded, InviteTimeout
-----------------------------------------------------------------------------
(* Groups have members, invites have connected invitees                    *)

LEMMA NonEmptyPreserved == TypeOK /\ GroupNeverEmpty /\ [Next]_vars => GroupNeverEmpty'
<1> SUFFICES ASSUME TypeOK, GroupNeverEmpty, [Next]_vars PROVE GroupNeverEmpty'
  OBVIOUS
<1>q. groups \in Rows /\ db \in Rows
  BY DEF TypeOK, Rows
<1> USE DEF GroupNeverEmpty
<1>1. ASSUME NEW u \in Users, NEW g \in Groups, NEW invitees \in SUBSET Users,
             CreateGroup(u, g, invitees)
      PROVE  GroupNeverEmpty'
  BY <1>1, <1>q DEF CreateGroup, NewGroup, Rows
<1>2. ASSUME NEW u \in Users, NEW g \in Groups, NEW accept \in BOOLEAN, RespondInvite(u, g, accept)
      PROVE  GroupNeverEmpty'
  BY <1>2, <1>q DEF RespondInvite, Rows
<1>3. ASSUME NEW u \in Users, NEW g \in Groups, LeaveGroup(u, g) PROVE GroupNeverEmpty'
  BY <1>3, <1>q, WithoutType DEF LeaveGroup, Rows
<1>4. ASSUME NEW u \in Users, FinishDeletion(u) PROVE GroupNeverEmpty'
  <2> DEFINE left == {g \in deleting[u] : groups[g] # None}
  <2>1. /\ groups' = [g \in Groups |-> IF g \in left THEN Without(groups[g], u) ELSE groups[g]]
        /\ \A g \in left : groups[g] # None
    BY <1>4 DEF FinishDeletion
  <2> HIDE DEF left
  <2>2. QED BY <1>q, <2>1, WithoutType DEF Rows
<1>5. CASE LoadGroups
  BY <1>5, <1>q, StoredGroups DEF LoadGroups
<1>6. CASE Restart
  BY <1>6, NoneAssumption DEF Restart
<1>7. CASE groups' = groups
  BY <1>7
<1>8. QED
  BY <1>1, <1>2, <1>3, <1>4, <1>5, <1>6, <1>7
     DEF Next, Client, vars, relay, Connect, Disconnect, InviteToGroup, DeleteAccount,
         DeletionFails, AccountErased, InviteRefused, InviteRecorded, InviteTimeout, WriteDone

LEMMA InviteePreserved == TypeOK /\ InviteeOnline /\ [Next]_vars => InviteeOnline'
<1> SUFFICES ASSUME TypeOK, InviteeOnline, Next, ~ UNCHANGED <<online, invites>>
             PROVE  InviteeOnline'
  BY DEF InviteeOnline, vars
<1>q. invites \in [Groups -> [Users -> Invite \cup {None}]]
  BY DEF TypeOK
<1> USE DEF InviteeOnline
<1>1. ASSUME NEW u \in Users, Connect(u) \/ Disconnect(u) PROVE InviteeOnline'
  BY <1>1, <1>q DEF Connect, Disconnect, clearPendingGroupInvitesFor
<1>2. ASSUME NEW h \in inviting, InviteRecorded(h) PROVE InviteeOnline'
  <2> DEFINE invite == [groupId |-> h.groupId, inviterId |-> h.userId, inviteeId |-> h.to,
                        requestedAt |-> clock]
  <2>1. /\ invites' = [invites EXCEPT ![h.groupId][h.to] = invite]
        /\ h.to \in online /\ online' = online
    BY <1>2 DEF InviteRecorded, isOnline, requestGroupInvite
  <2> HIDE DEF invite
  <2>2. QED BY <1>q, <2>1
<1>3. ASSUME NEW t \in inviteTimers, InviteTimeout(t) PROVE InviteeOnline'
  BY <1>3, <1>q DEF InviteTimeout
<1>4. ASSUME NEW u \in Users, NEW g \in Groups, NEW accept \in BOOLEAN, RespondInvite(u, g, accept)
      PROVE  InviteeOnline'
  BY <1>4, <1>q DEF RespondInvite
<1>5. CASE Restart
  BY <1>5 DEF Restart
<1>6. QED
  BY <1>1, <1>2, <1>3, <1>4, <1>5
     DEF Next, Client, relay, CreateGroup, InviteToGroup, LeaveGroup, DeleteAccount, DeletionFails,
         AccountErased, FinishDeletion, InviteRefused, WriteDone, LoadGroups

-----------------------------------------------------------------------------

LEMMA InitIInv == Init => IInv
BY TypeInit, NoneAssumption DEF Init, IInv, MembersConsented, GroupNeverEmpty, InviteeOnline

LEMMA IInvPreserved == IInv /\ [Next]_vars => IInv'
<1>1. Consents' <=> MembersConsented'
  BY DEF Consents, MemoryConsented, StoreConsented, QueueConsented, SaveTypes, MembersConsented
<1>2. QED
  BY <1>1, TypePreserved, ConsentsIsMembersConsented, ConsentPreserved, NonEmptyPreserved,
     InviteePreserved
     DEF IInv

LEMMA Invariance == Spec => []IInv
BY InitIInv, IInvPreserved, PTL DEF Spec

\* Type correctness of the group tables of state.ts, the write queue of
\* groupStore.ts and the stored rows.
THEOREM TypeCorrect == Spec => []TypeOK
<1>1. IInv => TypeOK BY DEF IInv
<1>2. QED BY <1>1, Invariance, PTL

\* Nobody is ever a member of a group without having agreed: not in memory, not
\* in the database, not after a restart that reloads what failed writes left.
THEOREM Consent == Spec => []MembersConsented
<1>1. IInv => MembersConsented BY DEF IInv
<1>2. QED BY <1>1, Invariance, PTL

\* No group without members exists, nor comes back from the database.
THEOREM NonEmpty == Spec => []GroupNeverEmpty
<1>1. IInv => GroupNeverEmpty BY DEF IInv
<1>2. QED BY <1>1, Invariance, PTL

\* Whoever a pending invite waits for is connected.
THEOREM InviteesConnected == Spec => []InviteeOnline
<1>1. IInv => InviteeOnline BY DEF IInv
<1>2. QED BY <1>1, Invariance, PTL

\* The timer of an invite removes no other invite of the same user, in the same
\* group or in another one: the invite it clears is the one it was armed for.
THEOREM OwnTimeout == Spec => TimeoutHitsOwnInvite
<1> DEFINE A == \A t \in inviteTimers \ inviteTimers' : \A g \in Groups, u \in Users :
                  restarts' = restarts /\ invites'[g][u] # invites[g][u] => invites[g][u] = t
<1>1. IInv /\ [Next]_vars => [A]_vars
  <2> SUFFICES ASSUME IInv, Next PROVE A
    OBVIOUS
  <2>q. /\ invites \in [Groups -> [Users -> Invite \cup {None}]]
        /\ restarts \in Nat
    BY DEF IInv, TypeOK
  <2>1. ASSUME NEW t \in inviteTimers, InviteTimeout(t) PROVE A
    <3> SUFFICES ASSUME NEW g \in Groups, NEW u \in Users, invites'[g][u] # invites[g][u]
                 PROVE  invites[g][u] = t
      BY <2>1 DEF InviteTimeout
    <3>1. /\ invites[t.groupId][t.inviteeId] = t
          /\ invites' = [invites EXCEPT ![t.groupId][t.inviteeId] = None]
      BY <2>1 DEF InviteTimeout, StillInvited
    <3>2. g = t.groupId /\ u = t.inviteeId
      BY <2>q, <3>1
    <3>3. QED BY <3>1, <3>2
  <2>2. CASE Restart
    BY <2>2, <2>q DEF Restart
  <2>3. ASSUME NEW h \in inviting, InviteRecorded(h) PROVE A
    BY <2>3 DEF InviteRecorded
  <2>4. ASSUME NEW u \in Users, Client(u) PROVE inviteTimers' = inviteTimers
    BY <2>4 DEF Client, Connect, Disconnect, CreateGroup, InviteToGroup, RespondInvite,
                LeaveGroup, DeleteAccount
  <2>5. ASSUME NEW u \in Users, DeletionFails(u) \/ AccountErased(u) \/ FinishDeletion(u)
        PROVE  inviteTimers' = inviteTimers
    BY <2>5 DEF DeletionFails, AccountErased, FinishDeletion, relay
  <2>6. ASSUME NEW h \in inviting, InviteRefused(h) PROVE inviteTimers' = inviteTimers
    BY <2>6 DEF InviteRefused
  <2>7. WriteDone \/ LoadGroups => inviteTimers' = inviteTimers
    BY DEF WriteDone, LoadGroups, relay
  <2>8. inviteTimers' = inviteTimers => A
    OBVIOUS
  <2> HIDE DEF A
  <2>9. QED
    BY <2>1, <2>2, <2>3, <2>4, <2>5, <2>6, <2>7, <2>8 DEF Next
<1>2. QED BY <1>1, Invariance, PTL DEF Spec, TimeoutHitsOwnInvite

-----------------------------------------------------------------------------
(* Replaying the queue, while no write fails and no account is deleted.    *)

\* What a row is after w and the write that comes with it, when every account
\* exists.
RowAfter(row, w) ==
    IF w.type = "saveGroup" THEN IF row = None THEN w.members ELSE row \cup w.members
    ELSE IF row = None \/ w.type \in {"deleteGroup", "removeLastMember"} THEN None
    ELSE IF w.type = "saveMember" THEN row \cup w.members
    ELSE row \ w.members
After(d, w) == [d EXCEPT ![w.groupId] = RowAfter(@, w)]

\* t lists what is stored after none, one, ... and all of the writes of q.
Replay(t, d, q) ==
    /\ t[0] = d
    /\ \A k \in 1..Len(q) : t[k] = After(t[k - 1], q[k])

LEMMA AfterType ==
    ASSUME NEW d \in Rows, NEW w \in Write
    PROVE  After(d, w) \in Rows /\ \A g \in Groups : g # w.groupId => After(d, w)[g] = d[g]
  <1>1. \A row \in {None} \cup SUBSET Users : RowAfter(row, w) \in {None} \cup SUBSET Users
    BY DEF RowAfter, Write
  <1>2. QED
    BY <1>1 DEF After, Rows

\* The fold over the write that comes with another one.
LEMMA FollowFold ==
    ASSUME NEW r, NEW w
    PROVE  FoldLeft(Apply, r, Follow(w)) =
              IF w.type = "removeLastMember" THEN Apply(r, DeleteGroup(w.groupId)) ELSE r
  <1>1. CASE w.type = "removeLastMember"
    <2> DEFINE x == DeleteGroup(w.groupId)
               q == <<x>>
               it == CHOOSE it : it = [s \in SUBSET (DOMAIN q) |->
                        IF s = {} THEN r ELSE Apply(it[s \ {Max(s)}], q[Max(s)])]
    <2>1. Follow(w) = q
      BY <1>1 DEF Follow
    <2>2. FoldLeft(Apply, r, q) = it[DOMAIN q]
      BY Zenon DEF FoldLeft, MapThenFoldSet
    <2>3. DOMAIN q = 1..1 /\ q[1] = x
      OBVIOUS
    <2> HIDE DEF x, q
    <2> DEFINE f == [s \in SUBSET (1..1) |-> IF s = {} THEN r ELSE Apply(r, x)]
    <2>4. \A s \in SUBSET (1..1) : s # {} => Max(s) = 1 /\ s \ {Max(s)} = {}
      <3>1. 1 \in Nat /\ 1..1 = {1}
        OBVIOUS
      <3>2. ASSUME NEW s \in SUBSET (1..1), s # {} PROVE Max(s) = 1
        BY <3>1, <3>2, MaxInside
      <3>3. \A s \in SUBSET (1..1) : s \ {1} = {}
        BY <3>1
      <3>4. QED
        BY <3>2, <3>3
    <2>5. f = [s \in SUBSET (DOMAIN q) |-> IF s = {} THEN r ELSE Apply(f[s \ {Max(s)}], q[Max(s)])]
      <3>1. \A s \in SUBSET (1..1) : s # {} => f[s \ {Max(s)}] = r /\ q[Max(s)] = x
        BY <2>3, <2>4
      <3>2. \A s \in SUBSET (1..1) :
               f[s] = IF s = {} THEN r ELSE Apply(f[s \ {Max(s)}], q[Max(s)])
        BY <3>1
      <3>3. f = [s \in SUBSET (1..1) |-> f[s]]
        OBVIOUS
      <3> HIDE DEF f
      <3>4. QED
        BY <2>3, <3>2, <3>3
    <2> HIDE DEF f
    <2>6. it = [s \in SUBSET (DOMAIN q) |-> IF s = {} THEN r ELSE Apply(it[s \ {Max(s)}], q[Max(s)])]
      BY <2>5
    <2> HIDE DEF it
    <2>7. 1..1 \in SUBSET (1..1) /\ 1..1 # {} /\ {} \in SUBSET (1..1)
      OBVIOUS
    <2>8. it[1..1] = Apply(it[{}], x) /\ it[{}] = r
      BY <2>3, <2>4, <2>6, <2>7
    <2>9. QED
      BY <1>1, <2>1, <2>2, <2>3, <2>8 DEF x
  <1>2. CASE w.type # "removeLastMember"
    <2> DEFINE q == <<>>
               it == CHOOSE it : it = [s \in SUBSET (DOMAIN q) |->
                        IF s = {} THEN r ELSE Apply(it[s \ {Max(s)}], q[Max(s)])]
               f == [s \in SUBSET (DOMAIN q) |-> r]
    <2>1. Follow(w) = q
      BY <1>2 DEF Follow
    <2>2. FoldLeft(Apply, r, q) = it[DOMAIN q]
      BY Zenon DEF FoldLeft, MapThenFoldSet
    <2>3. DOMAIN q = {}
      OBVIOUS
    <2> HIDE DEF q
    <2>4. f = [s \in SUBSET (DOMAIN q) |-> IF s = {} THEN r ELSE Apply(f[s \ {Max(s)}], q[Max(s)])]
      BY <2>3
    <2> HIDE DEF f
    <2>5. it = [s \in SUBSET (DOMAIN q) |-> IF s = {} THEN r ELSE Apply(it[s \ {Max(s)}], q[Max(s)])]
      BY <2>4
    <2> HIDE DEF it
    <2>6. it[{}] = r
      BY <2>3, <2>5
    <2>7. QED
      BY <1>2, <2>1, <2>2, <2>3, <2>6
  <1>3. QED
    BY <1>1, <1>2

\* A write of the queue, done without fail, and the one that comes with it.
LEMMA WriteEffect ==
    ASSUME accounts = Users, NEW d \in Rows, NEW w \in Write
    PROVE  /\ w.type # "removeLastMember" => Apply(d, w) = After(d, w)
           /\ w.type = "removeLastMember" =>
                 After(Apply(d, w), DeleteGroup(w.groupId)) = After(d, w)
           /\ FoldLeft(Apply, Apply(d, w), Follow(w)) = After(d, w)
  <1>1. w.groupId \in Groups /\ w.members \subseteq Users /\ d[w.groupId] \in {None} \cup SUBSET Users
    BY DEF Write, Rows
  <1>2. w.type # "removeLastMember" => Apply(d, w) = After(d, w)
    <2>1. CASE w.type = "saveGroup"
      BY <1>1, <2>1, NoneAssumption DEF Apply, Upsert, RowOnly, After, RowAfter, Rows
    <2>2. CASE w.type = "saveMember"
      BY <1>1, <2>2 DEF Apply, Upsert, After, RowAfter, Rows
    <2>3. CASE w.type = "removeMember"
      BY <1>1, <2>3 DEF Apply, After, RowAfter, Rows
    <2>4. CASE w.type = "deleteGroup"
      BY <1>1, <2>4 DEF Apply, After, RowAfter, Rows
    <2>5. QED
      BY <2>1, <2>2, <2>3, <2>4 DEF Write
  <1>3. ASSUME w.type = "removeLastMember"
        PROVE  /\ After(Apply(d, w), DeleteGroup(w.groupId)) = After(d, w)
               /\ Apply(Apply(d, w), DeleteGroup(w.groupId)) = After(d, w)
    <2>1. Apply(d, w) = IF d[w.groupId] = None THEN d ELSE [d EXCEPT ![w.groupId] = @ \ w.members]
      BY <1>3 DEF Apply
    <2>2. \A e : Apply(e, DeleteGroup(w.groupId)) = [e EXCEPT ![w.groupId] = None]
      BY DEF Apply, DeleteGroup
    <2>3. \A e \in Rows : After(e, DeleteGroup(w.groupId)) = [e EXCEPT ![w.groupId] = None]
      BY <1>1 DEF After, RowAfter, DeleteGroup, Rows
    <2>4. After(d, w) = [d EXCEPT ![w.groupId] = None]
      BY <1>1, <1>3 DEF After, RowAfter, Rows
    <2>5. Apply(d, w) \in Rows /\ [Apply(d, w) EXCEPT ![w.groupId] = None] = [d EXCEPT ![w.groupId] = None]
      BY <1>1, <2>1 DEF Rows
    <2>6. QED
      BY <2>2, <2>3, <2>4, <2>5
  <1>4. FoldLeft(Apply, Apply(d, w), Follow(w)) = After(d, w)
    BY <1>2, <1>3, FollowFold
  <1>5. QED
    BY <1>2, <1>3, <1>4

\* The queue is replayed one write after the other.
LEMMA ReplayedIsReplay ==
    ASSUME accounts = Users, db \in Rows, queue \in Seq(Write)
    PROVE  \E t \in [0..Len(queue) -> Rows] : Replay(t, db, queue) /\ Replayed = t[Len(queue)]
  <1> DEFINE n == Len(queue)
             Step(x, w) == FoldLeft(Apply, Apply(x, w), Follow(w))
             it == CHOOSE it : it = [s \in SUBSET (DOMAIN queue) |->
                        IF s = {} THEN db ELSE Step(it[s \ {Max(s)}], queue[Max(s)])]
             g == [p \in Rows \X (1..n) |-> After(p[1], queue[p[2]])]
  <1>1. n \in Nat /\ DOMAIN queue = 1..n /\ \A i \in 1..n : queue[i] \in Write
    OBVIOUS
  <1>2. Replayed = it[DOMAIN queue]
    BY Zenon DEF Replayed, FoldLeft, MapThenFoldSet
  <1> HIDE DEF n
  <1>3. \A x \in Rows : \A i \in 1..n : /\ g[<<x, i>>] = After(x, queue[i]) /\ g[<<x, i>>] \in Rows
                                        /\ Step(x, queue[i]) = After(x, queue[i])
    <2>1. \A x \in Rows : \A i \in 1..n : After(x, queue[i]) \in Rows
      BY <1>1, AfterType
    <2>2. \A x \in Rows : \A i \in 1..n : Step(x, queue[i]) = After(x, queue[i])
      BY <1>1, WriteEffect
    <2> HIDE DEF Step
    <2>3. \A x \in Rows : \A i \in 1..n : g[<<x, i>>] = After(x, queue[i])
      OBVIOUS
    <2> HIDE DEF g
    <2>4. QED
      BY <2>1, <2>2, <2>3
  <1> HIDE DEF g, Step
  <1>r. \A x \in Rows : \A i \in 1..n : Step(x, queue[i]) \in Rows
    BY <1>3
  <1>4. PICK f \in [SUBSET (1..n) -> Rows] : IsFold(f, n, db, g)
    BY <1>1, <1>3, FoldExists DEF HasFold
  <1>5. f = [s \in SUBSET (DOMAIN queue) |-> IF s = {} THEN db ELSE Step(f[s \ {Max(s)}], queue[Max(s)])]
    <2>1. ASSUME NEW s \in SUBSET (1..n)
          PROVE  f[s] = IF s = {} THEN db ELSE Step(f[s \ {Max(s)}], queue[Max(s)])
      <3>1. CASE s = {}
        BY <1>4, <3>1 DEF IsFold
      <3>2. CASE s # {}
        <4>1. f[s] = g[<<f[s \ {Max(s)}], Max(s)>>]
          BY <1>4, <3>2 DEF IsFold
        <4>2. Max(s) \in 1..n /\ f[s \ {Max(s)}] \in Rows
          BY <1>1, <1>4, <3>2, MaxInside
        <4>3. QED
          BY <1>3, <3>2, <4>1, <4>2
      <3>3. QED
        BY <3>1, <3>2
    <2>2. QED
      BY <1>1, <1>4, <2>1
  <1>6. it = [s \in SUBSET (DOMAIN queue) |-> IF s = {} THEN db ELSE Step(it[s \ {Max(s)}], queue[Max(s)])]
    BY <1>5
  <1> HIDE DEF it
  <1>7. it[{}] = db
    BY <1>6
  <1>8. ASSUME NEW k \in Nat, k < n PROVE it[1..(k + 1)] = Step(it[1..k], queue[k + 1]) /\ k + 1 \in 1..n
    <2> DEFINE s == 1..(k + 1)
    <2>1. s \in SUBSET (DOMAIN queue) /\ s # {} /\ Max(s) = k + 1 /\ s \ {k + 1} = 1..k /\ k + 1 \in 1..n
      BY <1>1, <1>8, UpTo
    <2> HIDE DEF s
    <2>2. it[s] = Step(it[s \ {Max(s)}], queue[Max(s)])
      BY <1>6, <2>1
    <2>3. it[s] = Step(it[1..k], queue[k + 1])
      BY <2>1, <2>2
    <2>4. QED
      BY <2>1, <2>3 DEF s
  <1>9. ASSUME NEW m \in 0..n PROVE it[1..m] \in Rows
    <2>1. \A k \in Nat : k < m /\ it[1..k] \in Rows => it[1..(k + 1)] \in Rows
      <3>1. SUFFICES ASSUME NEW k \in Nat, k < m, it[1..k] \in Rows PROVE it[1..(k + 1)] \in Rows
        OBVIOUS
      <3>2. k < n
        BY <1>1, <3>1
      <3>3. it[1..(k + 1)] = Step(it[1..k], queue[k + 1]) /\ k + 1 \in 1..n
        BY <1>8, <3>2
      <3>4. Step(it[1..k], queue[k + 1]) \in Rows
        BY <1>r, <3>1, <3>3
      <3>5. QED
        BY <3>3, <3>4
    <2>2. it[{}] \in Rows /\ m \in Nat
      BY <1>1, <1>7
    <2>3. QED
      BY <2>1, <2>2, FoldIn
  <1> DEFINE t == [k \in 0..n |-> it[1..k]]
  <1>10. t \in [0..n -> Rows] /\ t[n] = it[1..n]
    BY <1>1, <1>9
  <1>11. t[0] = db
    <2>1. 1..0 = {}
      OBVIOUS
    <2>2. QED
      BY <1>1, <1>7, <2>1
  <1>12. \A k \in 1..n : t[k] = After(t[k - 1], queue[k])
    <2>1. SUFFICES ASSUME NEW k \in 1..n PROVE t[k] = After(t[k - 1], queue[k])
      OBVIOUS
    <2>2. k - 1 \in Nat /\ k - 1 < n /\ k - 1 + 1 = k /\ k - 1 \in 0..n /\ k \in 0..n
      BY <1>1
    <2>3. it[1..k] = Step(it[1..(k - 1)], queue[k])
      BY <1>8, <2>2
    <2>4. it[1..k] = After(it[1..(k - 1)], queue[k])
      BY <1>3, <1>9, <2>2, <2>3
    <2>5. t[k] = it[1..k] /\ t[k - 1] = it[1..(k - 1)]
      BY <2>2
    <2>6. QED
      BY <2>4, <2>5
  <1> HIDE DEF t
  <1>13. QED
    BY <1>1, <1>2, <1>10, <1>11, <1>12 DEF Replay, n

-----------------------------------------------------------------------------
(* What the queue rebuilds.                                                *)

\* As long as accounts stay, whatever is stored and then replayed is what is in
\* memory.  Before the stored groups are loaded nothing waits to be written, and
\* what is in memory is not stored: those who create a group make up a new id.
AccountsStay == accounts = Users /\ deleting = [u \in Users |-> None]
Rebuilds(d, q, G) ==
    \A t \in [0..Len(q) -> Rows] :
        Replay(t, d, q) => \A g \in Groups : Stored(t[Len(q)], g) = G[g]
QueueInv ==
    /\ AccountsStay
    /\ ~persisting => queue = <<>> /\ \A g \in Groups : groups[g] # None => Stored(db, g) = None
    /\ persisting => Rebuilds(db, queue, groups)

\* What is stored and replayed just before the last write of a queue.
LEMMA ReplayAppend ==
    ASSUME NEW d \in Rows, NEW q \in Seq(Write), NEW w \in Write,
           NEW t \in [0..Len(q \o <<w>>) -> Rows], Replay(t, d, q \o <<w>>)
    PROVE  \E s \in [0..Len(q) -> Rows] :
              Replay(s, d, q) /\ t[Len(q \o <<w>>)] = After(s[Len(q)], w)
  <1> DEFINE n == Len(q)
             qw == q \o <<w>>
             s == [k \in 0..n |-> t[k]]
  <1>1. n \in Nat /\ Len(qw) = n + 1 /\ qw[n + 1] = w /\ \A k \in 1..n : qw[k] = q[k]
    OBVIOUS
  <1> HIDE DEF qw, n
  <1>2. t[0] = d /\ \A k \in 1..(n + 1) : t[k] = After(t[k - 1], qw[k])
    BY <1>1 DEF Replay, qw
  <1>3. s \in [0..n -> Rows] /\ \A k \in 0..n : s[k] = t[k]
    BY <1>1 DEF qw
  <1> HIDE DEF s
  <1>4. s[0] = d /\ \A k \in 1..n : s[k] = After(s[k - 1], q[k])
    <2>1. s[0] = d
      BY <1>1, <1>2, <1>3
    <2>2. ASSUME NEW k \in 1..n PROVE s[k] = After(s[k - 1], q[k])
      <3>1. k \in 0..n /\ k - 1 \in 0..n /\ k \in 1..(n + 1)
        BY <1>1
      <3>2. QED
        BY <1>1, <1>2, <1>3, <3>1
    <2>3. QED
      BY <2>1, <2>2
  <1>5. t[n + 1] = After(s[n], w)
    <2>1. n + 1 \in 1..(n + 1) /\ n \in 0..n /\ (n + 1) - 1 = n
      BY <1>1
    <2>2. t[n + 1] = After(t[n], qw[n + 1])
      BY <1>2, <2>1
    <2>3. QED
      BY <1>1, <1>3, <2>1, <2>2
  <1>6. QED
    BY <1>1, <1>3, <1>4, <1>5 DEF Replay, n, qw

\* A write that makes of the stored groups what its handler makes of the groups
\* in memory keeps the queue in step with them.
LEMMA AppendRebuilds ==
    ASSUME NEW d \in Rows, NEW q \in Seq(Write), NEW w \in Write, NEW G, NEW H,
           Rebuilds(d, q, G),
           \A e \in Rows : (\A g \in Groups : Stored(e, g) = G[g])
                               => \A g \in Groups : Stored(After(e, w), g) = H[g]
    PROVE  Rebuilds(d, q \o <<w>>, H)
  <1> SUFFICES ASSUME NEW t \in [0..Len(q \o <<w>>) -> Rows], Replay(t, d, q \o <<w>>)
               PROVE  \A g \in Groups : Stored(t[Len(q \o <<w>>)], g) = H[g]
    BY DEF Rebuilds
  <1>1. PICK s \in [0..Len(q) -> Rows] :
            Replay(s, d, q) /\ t[Len(q \o <<w>>)] = After(s[Len(q)], w)
    BY ReplayAppend
  <1>2. Len(q) \in Nat
    OBVIOUS
  <1>3. s[Len(q)] \in Rows
    BY <1>1, <1>2
  <1>4. \A g \in Groups : Stored(s[Len(q)], g) = G[g]
    BY <1>1 DEF Rebuilds
  <1>5. QED
    BY <1>1, <1>3, <1>4

\* A replay of the rest of a queue goes on from a replay of its first write.
LEMMA ReplayTail ==
    ASSUME NEW d \in Rows, NEW q \in Seq(Write), q # <<>>,
           NEW t \in [0..Len(Tail(q)) -> Rows], Replay(t, After(d, Head(q)), Tail(q))
    PROVE  \E s \in [0..Len(q) -> Rows] :
              Replay(s, d, q) /\ t[Len(Tail(q))] = s[Len(q)]
  <1> DEFINE n == Len(Tail(q))
             s == [k \in 0..(n + 1) |-> IF k = 0 THEN d ELSE t[k - 1]]
  <1>1. n \in Nat /\ Len(q) = n + 1 /\ Head(q) = q[1] /\ \A k \in 1..n : Tail(q)[k] = q[k + 1]
    OBVIOUS
  <1>2. t \in [0..n -> Rows]
    OBVIOUS
  <1>3. t[0] = After(d, q[1]) /\ \A k \in 1..n : t[k] = After(t[k - 1], Tail(q)[k])
    BY <1>1 DEF Replay
  <1> HIDE DEF n
  <1>4. s[0] = d /\ \A k \in 1..(n + 1) : s[k] = t[k - 1]
    BY <1>1
  <1>5. s \in [0..(n + 1) -> Rows]
    <2>1. \A k \in 0..(n + 1) : k # 0 => k - 1 \in 0..n
      BY <1>1
    <2>2. QED
      BY <1>1, <1>2, <2>1
  <1> HIDE DEF s
  <1>6. ASSUME NEW k \in 1..(n + 1) PROVE s[k] = After(s[k - 1], q[k])
    <2>1. CASE k = 1
      BY <1>1, <1>3, <1>4, <2>1
    <2>2. CASE k # 1
      <3>1. k - 1 \in 1..n /\ k - 1 \in 1..(n + 1) /\ (k - 1) + 1 = k
        BY <1>1, <2>2
      <3>2. s[k] = t[k - 1] /\ s[k - 1] = t[(k - 1) - 1]
        BY <1>4, <3>1
      <3>3. t[k - 1] = After(t[(k - 1) - 1], q[k])
        BY <1>1, <1>3, <3>1
      <3>4. QED
        BY <3>2, <3>3
    <2>3. QED
      BY <2>1, <2>2
  <1>7. s[n + 1] = t[n]
    BY <1>1, <1>4
  <1>8. QED
    BY <1>1, <1>4, <1>5, <1>6, <1>7 DEF Replay, n

\* The same when a second write takes the place of the first one and does the
\* rest of its work.
LEMMA ReplayRest ==
    ASSUME NEW d \in Rows, NEW q \in Seq(Write), q # <<>>, NEW e \in Rows, NEW w \in Write,
           After(e, w) = After(d, Head(q)),
           NEW t \in [0..Len(<<w>> \o Tail(q)) -> Rows], Replay(t, e, <<w>> \o Tail(q))
    PROVE  \E s \in [0..Len(q) -> Rows] :
              Replay(s, d, q) /\ t[Len(<<w>> \o Tail(q))] = s[Len(q)]
  <1> DEFINE n == Len(q)
             wq == <<w>> \o Tail(q)
             s == [k \in 0..n |-> IF k = 0 THEN d ELSE t[k]]
  <1>1. /\ n \in Nat /\ n > 0 /\ Len(wq) = n /\ wq[1] = w /\ q[1] = Head(q)
        /\ \A k \in 2..n : wq[k] = q[k]
    <2>1. n \in Nat /\ n > 0 /\ Tail(q) \in Seq(Write) /\ Len(Tail(q)) = n - 1 /\ q[1] = Head(q)
      OBVIOUS
    <2>2. \A k \in 2..n : Tail(q)[k - 1] = q[k]
      OBVIOUS
    <2>3. \A r \in Seq(Write) : /\ Len(<<w>> \o r) = 1 + Len(r) /\ (<<w>> \o r)[1] = w
                                /\ \A k \in 2..(1 + Len(r)) : (<<w>> \o r)[k] = r[k - 1]
      OBVIOUS
    <2>4. QED
      BY <2>1, <2>2, <2>3
  <1> HIDE DEF wq, n
  <1>2. t[0] = e /\ \A k \in 1..n : t[k] = After(t[k - 1], wq[k])
    BY <1>1 DEF Replay, wq
  <1>3. t \in [0..n -> Rows]
    BY <1>1 DEF wq
  <1>4. s \in [0..n -> Rows] /\ s[0] = d /\ \A k \in 1..n : s[k] = t[k]
    BY <1>1, <1>3
  <1> HIDE DEF s
  <1>5. ASSUME NEW k \in 1..n PROVE s[k] = After(s[k - 1], q[k])
    <2>1. CASE k = 1
      BY <1>1, <1>2, <1>4, <2>1
    <2>2. CASE k # 1
      <3>1. k \in 2..n /\ k - 1 \in 1..n
        BY <1>1, <2>2
      <3>2. QED
        BY <1>1, <1>2, <1>4, <3>1
    <2>3. QED
      BY <2>1, <2>2
  <1>6. s[n] = t[n]
    BY <1>1, <1>4
  <1>7. QED
    BY <1>1, <1>4, <1>5, <1>6 DEF Replay, n, wq

\* An order of a set of groups has each of them once.
LEMMA OrderOnce ==
    ASSUME NEW S \in SUBSET Groups, NEW order \in SetToSeqs(S)
    PROVE  /\ \A i, j \in DOMAIN order : i # j => order[i] # order[j]
           /\ \A g \in S : \E i \in DOMAIN order : order[i] = g
  <1> DEFINE n == Cardinality(S)
  <1>1. IsFiniteSet(S) /\ n \in Nat
    BY FiniteAssumption, FS_Subset, FS_CardinalityType
  <1>2. order \in [1..n -> S] /\ \A i, j \in 1..n : i # j => order[i] # order[j]
    BY DEF SetToSeqs
  <1>3. Cardinality(1..n) = n
    BY <1>1, FS_Interval
  <1>4. order \in Injection(1..n, S)
    BY <1>2 DEF Injection, IsInjective
  <1>5. order \in Surjection(1..n, S)
    BY <1>1, <1>3, <1>4, FS_Injection
  <1>6. \A g \in S : \E i \in 1..n : order[i] = g
    BY <1>5 DEF Surjection
  <1>7. DOMAIN order = 1..n
    BY <1>2
  <1>8. QED
    BY <1>2, <1>6, <1>7

\* What exists only in memory, written in any order, is stored as it is in memory.
LEMMA LoadRebuilds ==
    ASSUME NEW d \in Rows, NEW G \in Rows, NEW S \in SUBSET Groups, NEW order \in SetToSeqs(S),
           \A g \in S : G[g] # None /\ d[g] \in {None, {}},
           \A g \in Groups \ S : Stored(d, g) = G[g],
           \A g \in Groups : G[g] # {},
           NEW q, q = [i \in DOMAIN order |-> SaveGroup(order[i], G[order[i]])]
    PROVE  Rebuilds(d, q, G)
  <1> SUFFICES ASSUME NEW t \in [0..Len(q) -> Rows], Replay(t, d, q)
               PROVE  \A g \in Groups : Stored(t[Len(q)], g) = G[g]
    BY DEF Rebuilds
  <1> DEFINE n == Len(q)
             Done(k) == {order[i] : i \in 1..k}
             K == {k \in Nat : k <= n => \A g \in Groups :
                                  t[k][g] = IF g \in Done(k) THEN G[g] ELSE d[g]}
  <1>1. order \in Seq(S) /\ Len(order) \in Nat
    BY OrderType
  <1>2. /\ n = Len(order) /\ n \in Nat /\ DOMAIN order = 1..n
        /\ \A i \in 1..n : order[i] \in S /\ q[i] = SaveGroup(order[i], G[order[i]])
    BY <1>1
  <1>3. /\ \A i, j \in 1..n : i # j => order[i] # order[j]
        /\ \A g \in S : \E i \in 1..n : order[i] = g
    BY <1>2, OrderOnce
  <1>4. t[0] = d /\ \A k \in 1..n : t[k] = After(t[k - 1], q[k])
    BY DEF Replay
  <1>5. \A k \in 0..n : t[k] \in Rows
    OBVIOUS
  <1> HIDE DEF n
  <1>6. 0 \in K
    BY <1>4
  <1>7. ASSUME NEW k \in Nat, k \in K PROVE k + 1 \in K
    <2> SUFFICES ASSUME k + 1 <= n, NEW g \in Groups
                 PROVE  t[k + 1][g] = IF g \in Done(k + 1) THEN G[g] ELSE d[g]
      OBVIOUS
    <2>1. k + 1 \in 1..n /\ (k + 1) - 1 = k /\ k <= n /\ k \in 0..n
      BY <1>2
    <2>2. t[k + 1] = After(t[k], q[k + 1]) /\ q[k + 1] = SaveGroup(order[k + 1], G[order[k + 1]])
      BY <1>2, <1>4, <2>1
    <2>3. \A h \in Groups : t[k][h] = IF h \in Done(k) THEN G[h] ELSE d[h]
      BY <1>7, <2>1
    <2>4. Done(k + 1) = Done(k) \cup {order[k + 1]}
      <3>1. 1..(k + 1) = 1..k \cup {k + 1}
        OBVIOUS
      <3>2. QED
        BY <3>1
    <2>5. order[k + 1] \in S /\ order[k + 1] \notin Done(k)
      <3>1. \A i \in 1..k : i \in 1..n /\ i # k + 1
        BY <1>2, <2>1
      <3>2. QED
        BY <1>2, <1>3, <2>1, <3>1
    <2> HIDE DEF Done
    <2>6. t[k] \in Rows /\ order[k + 1] \in Groups
      BY <1>5, <2>1, <2>5
    <2>7. CASE g = order[k + 1]
      <3>1. t[k][g] \in {None, {}}
        BY <2>3, <2>5, <2>7
      <3>2. t[k + 1][g] = RowAfter(t[k][g], q[k + 1])
        BY <2>2, <2>6, <2>7 DEF After, Rows, SaveGroup
      <3>3. q[k + 1].type = "saveGroup" /\ q[k + 1].members = G[g]
        BY <2>2, <2>7 DEF SaveGroup
      <3>4. G[g] \in SUBSET Users
        BY <2>5, <2>7 DEF Rows
      <3>5. t[k + 1][g] = G[g]
        BY <3>1, <3>2, <3>3, <3>4 DEF RowAfter
      <3>6. QED
        BY <2>4, <2>7, <3>5
    <2>8. CASE g # order[k + 1]
      <3>1. t[k + 1][g] = t[k][g]
        BY <2>2, <2>6, <2>8 DEF After, Rows, SaveGroup
      <3>2. QED
        BY <2>3, <2>4, <2>8, <3>1
    <2>9. QED
      BY <2>7, <2>8
  <1>8. K = {k \in Nat : k <= n => \A g \in Groups :
                                  t[k][g] = IF g \in Done(k) THEN G[g] ELSE d[g]}
    OBVIOUS
  <1>9. Done(n) = S
    BY <1>2, <1>3
  <1> HIDE DEF K, Done
  <1>10. n \in K
    BY <1>2, <1>6, <1>7, SetInduction
  <1>11. \A g \in Groups : t[n][g] = IF g \in S THEN G[g] ELSE d[g]
    BY <1>2, <1>8, <1>9, <1>10
  <1>12. QED
    BY <1>11 DEF Stored, n

-----------------------------------------------------------------------------
(* The steps keep it.                                                      *)

\* A handler that enqueues a write.
LEMMA EnqueueKeeps ==
    ASSUME TypeOK, QueueInv, AccountsStay', NEW w \in Write, Enqueue(<<w>>),
           UNCHANGED <<db, persisting>>,
           ~persisting => \A g \in Groups : groups'[g] # None => Stored(db, g) = None,
           \A e \in Rows : (\A g \in Groups : Stored(e, g) = groups[g])
                               => \A g \in Groups : Stored(After(e, w), g) = groups'[g]
    PROVE  QueueInv'
  <1>1. CASE ~persisting
    BY <1>1 DEF QueueInv, Enqueue
  <1>2. CASE persisting
    <2>1. queue' = queue \o <<w>> /\ Rebuilds(db, queue, groups)
      BY <1>2 DEF QueueInv, Enqueue
    <2>2. db \in Rows /\ queue \in Seq(Write)
      BY DEF TypeOK, Rows
    <2>3. Rebuilds(db, queue \o <<w>>, groups')
      BY <2>1, <2>2, AppendRebuilds
    <2>4. QED
      BY <1>2, <2>1, <2>3 DEF QueueInv
  <1>3. QED
    BY <1>1, <1>2

\* A new group is in nobody's memory or store, as nobody has agreed to it.
LEMMA CreateKeeps ==
    ASSUME TypeOK, MembersConsented, GroupNeverEmpty, QueueInv,
           NEW u \in Users, NEW g \in Groups, NEW invitees \in SUBSET Users,
           CreateGroup(u, g, invitees)
    PROVE  QueueInv'
  <1> DEFINE w == SaveGroup(g, {u})
  <1>1. /\ Enqueue(<<w>>) /\ groups' = [groups EXCEPT ![g] = {u}]
        /\ UNCHANGED <<db, persisting, accounts, deleting>>
        /\ \A v \in Users : <<g, v>> \notin consented
    BY DEF CreateGroup, NewGroup
  <1>2. w \in Write /\ w.type = "saveGroup" /\ w.groupId = g /\ w.members = {u}
    BY DEF SaveGroup, Write
  <1> HIDE DEF w
  <1>3. groups \in Rows /\ db \in Rows
    BY DEF TypeOK, Rows
  <1>4. groups[g] = None /\ db[g] \in {None, {}}
    <2>1. groups[g] # None => groups[g] \subseteq Users /\ groups[g] # {}
      BY <1>3 DEF Rows, GroupNeverEmpty
    <2>2. db[g] # None => db[g] \subseteq Users
      BY <1>3 DEF Rows
    <2>3. QED
      BY <1>1, <2>1, <2>2 DEF MembersConsented
  <1>5. \A h \in Groups : groups'[h] = IF h = g THEN {u} ELSE groups[h]
    BY <1>1, <1>3 DEF Rows
  <1>6. ASSUME ~persisting, NEW h \in Groups, groups'[h] # None PROVE Stored(db, h) = None
    BY <1>4, <1>5, <1>6 DEF QueueInv, Stored
  <1>7. ASSUME NEW e \in Rows, \A h \in Groups : Stored(e, h) = groups[h], NEW h \in Groups
        PROVE  Stored(After(e, w), h) = groups'[h]
    <2>1. CASE h = g
      <3>1. e[g] \in {None, {}}
        BY <1>4, <1>7 DEF Stored
      <3>2. After(e, w)[g] = {u}
        BY <1>2, <3>1 DEF After, RowAfter, Rows
      <3>3. QED
        BY <1>5, <2>1, <3>2 DEF Stored
    <2>2. CASE h # g
      BY <1>2, <1>5, <1>7, <2>2, AfterType DEF Stored
    <2>3. QED
      BY <2>1, <2>2
  <1>8. AccountsStay'
    BY <1>1 DEF QueueInv, AccountsStay
  <1>9. QED
    BY <1>1, <1>2, <1>6, <1>7, <1>8, EnqueueKeeps

LEMMA RespondKeeps ==
    ASSUME TypeOK, GroupNeverEmpty, QueueInv,
           NEW u \in Users, NEW g \in Groups, NEW accept \in BOOLEAN, RespondInvite(u, g, accept)
    PROVE  QueueInv'
  <1> DEFINE w == SaveMember(g, u)
  <1>1. UNCHANGED <<db, persisting, accounts, deleting>>
    BY DEF RespondInvite
  <1>2. AccountsStay'
    BY <1>1 DEF QueueInv, AccountsStay
  <1>3. groups \in Rows /\ queue \in Seq(Write)
    BY DEF TypeOK, Rows
  <1>4. CASE accept /\ groups[g] # None
    <2>1. Enqueue(<<w>>) /\ groups' = [groups EXCEPT ![g] = @ \cup {u}]
      BY <1>4 DEF RespondInvite
    <2>2. w \in Write /\ w.type = "saveMember" /\ w.groupId = g /\ w.members = {u}
      BY DEF SaveMember, Write
    <2> HIDE DEF w
    <2>3. groups[g] \in SUBSET Users
      BY <1>3, <1>4 DEF Rows
    <2>4. \A h \in Groups : groups'[h] = IF h = g THEN groups[g] \cup {u} ELSE groups[h]
      BY <1>3, <2>1 DEF Rows
    <2>5. ASSUME ~persisting, NEW h \in Groups, groups'[h] # None PROVE Stored(db, h) = None
      BY <1>4, <2>4, <2>5 DEF QueueInv
    <2>6. ASSUME NEW e \in Rows, \A h \in Groups : Stored(e, h) = groups[h], NEW h \in Groups
          PROVE  Stored(After(e, w), h) = groups'[h]
      <3>1. CASE h = g
        <4>1. e[g] = groups[g]
          BY <1>4, <2>6 DEF Stored
        <4>2. After(e, w)[g] = groups[g] \cup {u}
          BY <1>4, <2>2, <4>1 DEF After, RowAfter, Rows
        <4>3. groups[g] \cup {u} # {}
          OBVIOUS
        <4>4. QED
          BY <2>4, <3>1, <4>2, <4>3 DEF Stored
      <3>2. CASE h # g
        BY <2>2, <2>4, <2>6, <3>2, AfterType DEF Stored
      <3>3. QED
        BY <3>1, <3>2
    <2>7. QED
      BY <1>1, <1>2, <2>1, <2>2, <2>5, <2>6, EnqueueKeeps
  <1>5. CASE ~(accept /\ groups[g] # None)
    <2>1. Enqueue(<<>>) /\ groups' = groups
      BY <1>5 DEF RespondInvite
    <2>2. queue' = queue
      BY <1>3, <2>1 DEF Enqueue
    <2>3. QED
      BY <1>1, <1>2, <2>1, <2>2 DEF QueueInv
  <1>6. QED
    BY <1>4, <1>5

LEMMA LeaveKeeps ==
    ASSUME TypeOK, GroupNeverEmpty, QueueInv, NEW u \in Users, NEW g \in Groups, LeaveGroup(u, g)
    PROVE  QueueInv'
  <1> DEFINE w == Removal(g, u)
             left == Without(groups[g], u)
  <1>1. /\ Enqueue(<<w>>) /\ groups' = [groups EXCEPT ![g] = left] /\ groups[g] # None
        /\ UNCHANGED <<db, persisting, accounts, deleting>>
    BY DEF LeaveGroup
  <1>2. /\ w \in Write /\ w.groupId = g /\ w.members = {u}
        /\ w.type = IF left = None THEN "removeLastMember" ELSE "removeMember"
    BY DEF Removal, Write
  <1> HIDE DEF w
  <1>3. groups \in Rows
    BY DEF TypeOK, Rows
  <1>4. groups[g] \in SUBSET Users
    BY <1>1, <1>3 DEF Rows
  <1>5. left # {} /\ (left # None => left = groups[g] \ {u})
    BY <1>4, WithoutType DEF Without
  <1> HIDE DEF left
  <1>6. \A h \in Groups : groups'[h] = IF h = g THEN left ELSE groups[h]
    BY <1>1, <1>3 DEF Rows
  <1>7. ASSUME ~persisting, NEW h \in Groups, groups'[h] # None PROVE Stored(db, h) = None
    BY <1>1, <1>6, <1>7 DEF QueueInv
  <1>8. ASSUME NEW e \in Rows, \A h \in Groups : Stored(e, h) = groups[h], NEW h \in Groups
        PROVE  Stored(After(e, w), h) = groups'[h]
    <2>1. CASE h = g
      <3>1. e[g] = groups[g]
        BY <1>1, <1>8 DEF Stored
      <3>2. After(e, w)[g] = RowAfter(groups[g], w)
        BY <1>2, <3>1 DEF After, Rows
      <3>3. RowAfter(groups[g], w) = left
        BY <1>1, <1>2, <1>5 DEF RowAfter
      <3>4. QED
        BY <1>5, <1>6, <2>1, <3>2, <3>3 DEF Stored
    <2>2. CASE h # g
      BY <1>2, <1>6, <1>8, <2>2, AfterType DEF Stored
    <2>3. QED
      BY <2>1, <2>2
  <1>9. AccountsStay'
    BY <1>1 DEF QueueInv, AccountsStay
  <1>10. QED
    BY <1>1, <1>2, <1>7, <1>8, <1>9, EnqueueKeeps

LEMMA WriteKeeps ==
    ASSUME ~MayFail, TypeOK, QueueInv, WriteDone
    PROVE  QueueInv'
  <1> DEFINE w == Head(queue)
             more == Follow(w)
  <1>1. /\ queue # <<>> /\ queue' = more \o Tail(queue) /\ db' = Apply(db, w)
        /\ UNCHANGED <<groups, deleting, accounts, persisting>>
    BY DEF WriteDone, relay
  <1>2. queue \in Seq(Write) /\ db \in Rows
    BY DEF TypeOK, Rows
  <1>3. w \in Write /\ Tail(queue) \in Seq(Write)
    BY <1>1, <1>2
  <1>4. accounts = Users /\ Rebuilds(db, queue, groups) /\ persisting
    BY <1>1 DEF QueueInv, AccountsStay
  <1>5. Rebuilds(db', queue', groups)
    <2> SUFFICES ASSUME NEW t \in [0..Len(queue') -> Rows], Replay(t, db', queue')
                 PROVE  \A g \in Groups : Stored(t[Len(queue')], g) = groups[g]
      BY DEF Rebuilds
    <2>1. \E s \in [0..Len(queue) -> Rows] :
             Replay(s, db, queue) /\ t[Len(queue')] = s[Len(queue)]
      <3>1. CASE w.type = "removeLastMember"
        <4> DEFINE x == DeleteGroup(w.groupId)
        <4>1. queue' = <<x>> \o Tail(queue)
          BY <1>1, <3>1 DEF Follow
        <4>2. x \in Write
          BY <1>3 DEF DeleteGroup, Write
        <4>3. After(Apply(db, w), x) = After(db, w)
          BY <1>2, <1>3, <1>4, <3>1, WriteEffect
        <4>4. Apply(db, w) \in Rows
          BY <1>2, <1>3, ApplyType
        <4>5. /\ t \in [0..Len(<<x>> \o Tail(queue)) -> Rows]
              /\ Replay(t, Apply(db, w), <<x>> \o Tail(queue))
          BY <1>1, <4>1, Zenon
        <4> HIDE DEF x
        <4>6. \E s \in [0..Len(queue) -> Rows] :
                 Replay(s, db, queue) /\ t[Len(<<x>> \o Tail(queue))] = s[Len(queue)]
          BY <1>1, <1>2, <4>2, <4>3, <4>4, <4>5, ReplayRest
        <4>7. QED
          BY <4>1, <4>6, Zenon
      <3>2. CASE w.type # "removeLastMember"
        <4>1. queue' = Tail(queue)
          BY <1>1, <1>3, <3>2 DEF Follow
        <4>2. db' = After(db, w)
          BY <1>1, <1>2, <1>3, <1>4, <3>2, WriteEffect
        <4>3. t \in [0..Len(Tail(queue)) -> Rows] /\ Replay(t, After(db, w), Tail(queue))
          BY <4>1, <4>2, Zenon
        <4>4. \E s \in [0..Len(queue) -> Rows] :
                 Replay(s, db, queue) /\ t[Len(Tail(queue))] = s[Len(queue)]
          BY <1>1, <1>2, <4>3, ReplayTail
        <4>5. QED
          BY <4>1, <4>4, Zenon
      <3>3. QED
        BY <3>1, <3>2
    <2>2. QED
      BY <1>4, <2>1 DEF Rebuilds
  <1>6. QED
    BY <1>1, <1>4, <1>5 DEF QueueInv, AccountsStay

LEMMA LoadKeeps ==
    ASSUME TypeOK, GroupNeverEmpty, QueueInv, LoadGroups
    PROVE  QueueInv'
  <1>1. /\ ~persisting /\ persisting' = TRUE
        /\ groups' = [g \in Groups |-> IF groups[g] = None THEN Stored(db, g) ELSE groups[g]]
        /\ UNCHANGED <<db, deleting, accounts>>
    BY DEF LoadGroups
  <1>2. PICK order \in SetToSeqs(Unsaved) :
            queue' = [i \in DOMAIN order |-> SaveGroup(order[i], groups[order[i]])]
    BY DEF LoadGroups
  <1>3. groups \in Rows /\ db \in Rows /\ Unsaved \in SUBSET Groups
    BY DEF TypeOK, Rows, Unsaved
  <1>4. \A g \in Groups : groups[g] # None => Stored(db, g) = None
    BY <1>1 DEF QueueInv
  <1>5. groups' \in Rows /\ \A g \in Groups : groups'[g] # {}
    BY <1>1, <1>3, StoredGroups DEF Rows, GroupNeverEmpty
  <1>6. \A g \in Unsaved : groups'[g] = groups[g] /\ groups'[g] # None /\ db[g] \in {None, {}}
    BY <1>1 DEF Unsaved, Stored
  <1>7. \A g \in Groups \ Unsaved : Stored(db, g) = groups'[g]
    BY <1>1, <1>4 DEF Unsaved
  <1>8. queue' = [i \in DOMAIN order |-> SaveGroup(order[i], groups'[order[i]])]
    <2>1. order \in Seq(Unsaved)
      BY <1>3, OrderType
    <2>2. \A i \in DOMAIN order : groups'[order[i]] = groups[order[i]]
      BY <1>6, <2>1
    <2>3. QED
      BY <1>2, <2>2
  <1>9. Rebuilds(db, queue', groups')
    BY <1>3, <1>5, <1>6, <1>7, <1>8, LoadRebuilds
  <1>10. QED
    BY <1>1, <1>9 DEF QueueInv, AccountsStay

LEMMA QueuePreserved ==
    ASSUME ~MayFail, ~MayDelete, TypeOK, MembersConsented, GroupNeverEmpty, QueueInv, [Next]_vars
    PROVE  QueueInv'
  <1>1. ASSUME NEW u \in Users, NEW g \in Groups, NEW invitees \in SUBSET Users,
               CreateGroup(u, g, invitees)
        PROVE  QueueInv'
    BY <1>1, CreateKeeps
  <1>2. ASSUME NEW u \in Users, NEW g \in Groups, NEW accept \in BOOLEAN, RespondInvite(u, g, accept)
        PROVE  QueueInv'
    BY <1>2, RespondKeeps
  <1>3. ASSUME NEW u \in Users, NEW g \in Groups, LeaveGroup(u, g) PROVE QueueInv'
    BY <1>3, LeaveKeeps
  <1>4. CASE WriteDone
    BY <1>4, WriteKeeps
  <1>5. CASE LoadGroups
    BY <1>5, LoadKeeps
  <1>6. CASE Restart
    BY <1>6 DEF Restart, QueueInv, AccountsStay
  <1>7. CASE UNCHANGED <<groups, persisting, queue, db, accounts, deleting>>
    BY <1>7 DEF QueueInv, AccountsStay
  <1>8. ASSUME NEW u \in Users,
               DeleteAccount(u) \/ DeletionFails(u) \/ AccountErased(u) \/ FinishDeletion(u)
        PROVE  FALSE
    BY <1>8 DEF QueueInv, AccountsStay, DeleteAccount, DeletionFails, AccountErased, FinishDeletion
  <1>9. QED
    BY <1>1, <1>2, <1>3, <1>4, <1>5, <1>6, <1>7, <1>8
       DEF Next, Client, vars, storage, Connect, Disconnect, InviteToGroup,
           InviteRefused, InviteRecorded, InviteTimeout

\* While no write fails and no account is deleted, nothing that a handler did to
\* the groups is lost on its way to the database, and nothing arrives out of
\* order, whenever the relay restarts and the stored groups are loaded: the
\* queued writes, replayed on what is stored, give the groups in memory.
THEOREM QueueRebuilds ==
    ASSUME ~MayFail, ~MayDelete
    PROVE  Spec => []QueueRebuildsMemory
  <1>1. Init => QueueInv
    BY DEF Init, QueueInv, AccountsStay
  <1>2. IInv /\ QueueInv /\ [Next]_vars => QueueInv'
    BY QueuePreserved DEF IInv
  <1>3. IInv /\ QueueInv => QueueRebuildsMemory
    <2> SUFFICES ASSUME IInv, QueueInv, persisting, NEW g \in Groups
                 PROVE  Stored(Replayed, g) = groups[g]
      BY DEF QueueRebuildsMemory
    <2>1. db \in Rows /\ queue \in Seq(Write) /\ accounts = Users
      BY DEF IInv, TypeOK, Rows, QueueInv, AccountsStay
    <2>2. PICK t \in [0..Len(queue) -> Rows] : Replay(t, db, queue) /\ Replayed = t[Len(queue)]
      BY <2>1, ReplayedIsReplay
    <2>3. QED
      BY <2>2 DEF QueueInv, Rebuilds
  <1>4. QED
    BY <1>1, <1>2, <1>3, Invariance, PTL DEF Spec

-----------------------------------------------------------------------------
(* The contact gate. What has passed says nothing of what is under way, so *)
(* the invariant follows each handler: an approval or a visibility it has  *)
(* read was so when it started, or was cached then and no older than the   *)
(* cache allows; and a block that was there all along is one it has read   *)
(* or will read.                                                           *)

Deliveries == [kind : {"message", "typing"}, from : People, since : Nat,
               approval : {"asked", "read", "yes", "no"},
               blocks : SUBSET People, blocked : BOOLEAN, barred : SUBSET People]
Announcements == [kind : {"presence"}, from : People, since : Nat, blind : BOOLEAN,
                  shows : {"asked", "read-yes", "read-no", "yes", "no"},
                  told : {"asked", "yes", "no"}]
Jobs == {NoWork} \cup Deliveries \cup Announcements
Readings == [known : BOOLEAN, at : Nat, hidden : BOOLEAN]

GateTyped ==
    /\ now \in Nat /\ approvedAt \in Nat /\ cached \in Nat
    /\ shownAt \in [People -> Nat]
    /\ visible \in [People -> Readings]
    /\ blockers \subseteq People
    /\ work \in [Slots -> Jobs]

\* The histories are of the past, and of now while what they record lasts.
HistoriesUpToNow ==
    /\ approvedAt <= now /\ (contacts => approvedAt = now)
    /\ \A p \in People : shownAt[p] <= now /\ (p \notin hidden => shownAt[p] = now)

\* What the caches say was so one lookup before it was cached.
CachesFresh ==
    /\ cached <= approvedAt + Ttl + Latency
    /\ \A p \in People :
          visible[p].known /\ ~visible[p].hidden => visible[p].at <= shownAt[p] + Latency

JobTimely(w) == w # NoWork => w.since <= now /\ now <= w.since + Latency

\* An approval a handler has was so when it started, or was cached then.
ApprovalFresh(w) ==
    w.kind \in {"message", "typing"} =>
        /\ w.approval = "read" => w.since <= approvedAt
        /\ w.approval = "yes" => w.since <= approvedAt + Ttl + Latency

\* A block that has been there all along has been read or will be.
BlocksSeen(w) ==
    w.kind = "message" => \A p \in w.barred : p \in blockers /\ (p \in w.blocks \/ w.blocked)

ShowsFresh(w) ==
    w.kind = "presence" =>
        /\ w.shows = "read-yes" => w.since <= shownAt[w.from]
        /\ w.shows = "yes" => w.blind \/ w.since <= shownAt[w.from] + Ttl + Latency

JobSound(w) == JobTimely(w) /\ ApprovalFresh(w) /\ BlocksSeen(w) /\ ShowsFresh(w)

GateInv ==
    /\ GateTyped /\ HistoriesUpToNow /\ CachesFresh
    /\ \A s \in Slots : JobSound(work[s])
    /\ DeliveredWasAllowed

LEMMA GateConstants == Ttl \in Nat /\ Latency \in Nat
  BY GateAssumption

LEMMA GateInvInit == GateInit => GateInv
  <1> SUFFICES ASSUME GateInit PROVE GateInv
    OBVIOUS
  <1> USE DEF GateInit
  <1>1. GateTyped
    BY DEF GateTyped, Jobs, Readings
  <1>2. HistoriesUpToNow
    BY DEF HistoriesUpToNow
  <1>3. CachesFresh
    BY GateConstants DEF CachesFresh
  <1>4. \A s \in Slots : JobSound(work[s])
    BY DEF JobSound, JobTimely, ApprovalFresh, BlocksSeen, ShowsFresh, NoWork
  <1>5. DeliveredWasAllowed
    BY DEF DeliveredWasAllowed, NoWork
  <1>6. QED
    BY <1>1, <1>2, <1>3, <1>4, <1>5 DEF GateInv

LEMMA QuietAllowed == Quietly => DeliveredWasAllowed'
  BY DEF Quietly, DeliveredWasAllowed, NoWork

LEMMA NoWorkSound == NoWork \in Jobs /\ JobSound(NoWork)
  BY DEF NoWork, Jobs, JobSound, JobTimely, ApprovalFresh, BlocksSeen, ShowsFresh

\* A step that changes one job, to one that is sound in this state, and perhaps a cache.
LEMMA JobAndCacheChanged ==
    ASSUME GateInv, NEW s \in Slots, NEW w, w \in Jobs, JobSound(w),
           work' = [work EXCEPT ![s] = w],
           UNCHANGED <<now, gateDatabase>>, DeliveredWasAllowed',
           cached' \in Nat, visible' \in [People -> Readings], CachesFresh'
    PROVE  GateInv'
  <1>1. GateTyped'
    BY DEF GateInv, GateTyped, gateDatabase
  <1>2. HistoriesUpToNow'
    BY DEF GateInv, HistoriesUpToNow, gateDatabase
  <1>3. ASSUME NEW t \in Slots PROVE JobSound(work[t])'
    <2>1. JobSound(work'[t])
      BY DEF GateInv, GateTyped
    <2>2. QED
      BY <2>1 DEF JobSound, JobTimely, ApprovalFresh, BlocksSeen, ShowsFresh, gateDatabase
  <1>4. QED
    BY <1>1, <1>2, <1>3 DEF GateInv

LEMMA JobChanged ==
    ASSUME GateInv, NEW s \in Slots, NEW w, w \in Jobs, JobSound(w),
           work' = [work EXCEPT ![s] = w],
           UNCHANGED <<now, gateDatabase, caches>>, DeliveredWasAllowed'
    PROVE  GateInv'
  <1>1. cached' \in Nat /\ visible' \in [People -> Readings] /\ CachesFresh'
    BY DEF GateInv, GateTyped, CachesFresh, gateDatabase, caches
  <1>2. QED
    BY <1>1, JobAndCacheChanged

LEMMA DeliveryTyped ==
    ASSUME GateInv, NEW k \in {"message", "typing"}, NEW p \in People
    PROVE  Delivery(k, p) \in Jobs /\ JobSound(Delivery(k, p))
  <1> DEFINE w == Delivery(k, p)
  <1>1. w \in Deliveries
    BY DEF Delivery, Deliveries, GateInv, GateTyped
  <1>2. /\ w.kind = k /\ w.since = now /\ w.barred = blockers
        /\ w.approval = "yes" => cached > now
        /\ w.approval # "read" /\ (k = "message" => w.blocks = People)
    BY DEF Delivery
  <1> HIDE DEF w
  <1>3. JobTimely(w)
    BY <1>2, GateConstants DEF JobTimely, GateInv, GateTyped
  <1>4. ApprovalFresh(w)
    BY <1>2, GateConstants DEF ApprovalFresh, GateInv, GateTyped, CachesFresh
  <1>5. BlocksSeen(w)
    BY <1>2 DEF BlocksSeen, GateInv, GateTyped
  <1>6. ShowsFresh(w)
    BY <1>2 DEF ShowsFresh
  <1>7. QED
    BY <1>1, <1>3, <1>4, <1>5, <1>6 DEF Jobs, JobSound, w

LEMMA AnnouncementTyped ==
    ASSUME GateInv, NEW p \in People
    PROVE  Announcement(p) \in Jobs /\ JobSound(Announcement(p))
  <1> DEFINE w == Announcement(p)
  <1>1. w \in Announcements
    BY DEF Announcement, Announcements, GateInv, GateTyped
  <1>2. /\ w.kind = "presence" /\ w.since = now /\ w.from = p
        /\ w.shows = "yes" => visible[p].known /\ ~visible[p].hidden /\ now - visible[p].at < Ttl
        /\ w.shows # "read-yes"
    BY DEF Announcement
  <1> HIDE DEF w
  <1>3. JobTimely(w)
    BY <1>2, GateConstants DEF JobTimely, GateInv, GateTyped
  <1>4. ApprovalFresh(w) /\ BlocksSeen(w)
    BY <1>2 DEF ApprovalFresh, BlocksSeen
  <1>5. ShowsFresh(w)
    <2>1. visible[p].at \in Nat /\ shownAt[p] \in Nat
      BY DEF GateInv, GateTyped, Readings
    <2>2. w.shows = "yes" => visible[p].at <= shownAt[p] + Latency
      BY <1>2 DEF GateInv, CachesFresh
    <2>3. w.shows = "yes" => w.since <= shownAt[p] + Ttl + Latency
      BY <1>2, <2>1, <2>2, GateConstants DEF GateInv, GateTyped
    <2>4. QED
      BY <1>2, <2>3 DEF ShowsFresh
  <1>6. QED
    BY <1>1, <1>3, <1>4, <1>5 DEF Jobs, JobSound, w

LEMMA SendKept ==
    ASSUME GateInv, NEW s \in Slots, NEW p \in People, SendMessage(s, p) \/ SendTyping(s, p)
    PROVE  GateInv'
  <1>1. PICK k \in {"message", "typing"} : work' = [work EXCEPT ![s] = Delivery(k, p)]
    BY DEF SendMessage, SendTyping, BeginWork
  <1>2. UNCHANGED <<now, gateDatabase, caches>> /\ DeliveredWasAllowed'
    BY QuietAllowed DEF SendMessage, SendTyping
  <1>3. QED
    BY <1>1, <1>2, DeliveryTyped, JobChanged

LEMMA AnnouncementKept ==
    ASSUME GateInv, NEW s \in Slots, NEW p \in People,
           Arrive(s, p) \/ UpdateStatus(s, p) \/ Depart(s, p)
    PROVE  GateInv'
  <1>1. work' = [work EXCEPT ![s] = Announcement(p)]
    BY DEF Arrive, UpdateStatus, Depart, BeginWork
  <1>2. UNCHANGED <<now, gateDatabase, caches>> /\ DeliveredWasAllowed'
    BY QuietAllowed DEF Arrive, UpdateStatus, Depart
  <1>3. QED
    BY <1>1, <1>2, AnnouncementTyped, JobChanged

LEMMA JobKinds ==
    ASSUME GateInv, NEW s \in Slots
    PROVE  /\ JobSound(work[s])
           /\ work[s].kind \in {"message", "typing"} => work[s] \in Deliveries /\ work[s] # NoWork
           /\ work[s].kind = "presence" => work[s] \in Announcements /\ work[s] # NoWork
  <1>1. work[s] \in Jobs /\ JobSound(work[s])
    BY DEF GateInv, GateTyped
  <1>2. QED
    BY <1>1 DEF Jobs, Deliveries, Announcements, NoWork

LEMMA LookUpKept ==
    ASSUME GateInv, NEW s \in Slots, LookUpApproval(s)
    PROVE  GateInv'
  <1>1. PICK a \in {"read", "no"} :
          work' = [work EXCEPT ![s].approval = a] /\ (a = "read" => contacts)
    BY DEF LookUpApproval
  <1>2. UNCHANGED <<now, gateDatabase, caches>> /\ DeliveredWasAllowed'
    BY QuietAllowed DEF LookUpApproval
  <1>3. work[s] \in Deliveries /\ work[s] # NoWork /\ JobSound(work[s])
    BY JobKinds DEF LookUpApproval
  <1> DEFINE w == [work[s] EXCEPT !.approval = a]
  <1>4. w \in Deliveries
    BY <1>3 DEF Deliveries
  <1>5. /\ w.kind = work[s].kind /\ w.since = work[s].since /\ w.approval = a
        /\ w.blocks = work[s].blocks /\ w.blocked = work[s].blocked /\ w.barred = work[s].barred
    BY <1>3 DEF Deliveries
  <1>6. work' = [work EXCEPT ![s] = w]
    BY <1>1
  <1> HIDE DEF w
  <1>7. JobTimely(w) /\ w.since <= now
    BY <1>3, <1>5 DEF JobSound, JobTimely
  <1>8. ApprovalFresh(w)
    BY <1>1, <1>5, <1>7 DEF ApprovalFresh, GateInv, HistoriesUpToNow
  <1>9. BlocksSeen(w) /\ ShowsFresh(w)
    BY <1>3, <1>4, <1>5 DEF JobSound, BlocksSeen, ShowsFresh, Deliveries
  <1>10. QED
    BY <1>2, <1>4, <1>6, <1>7, <1>8, <1>9, JobChanged DEF Jobs, JobSound

LEMMA ReadBlockKept ==
    ASSUME GateInv, NEW s \in Slots, NEW p \in People, ReadBlock(s, p)
    PROVE  GateInv'
  <1>1. PICK b \in BOOLEAN :
          work' = [work EXCEPT ![s].blocks = @ \ {p}, ![s].blocked = @ \/ p \in blockers \/ b]
    BY DEF ReadBlock
  <1>2. UNCHANGED <<now, gateDatabase, caches>> /\ DeliveredWasAllowed'
    BY QuietAllowed DEF ReadBlock
  <1>3. work[s] \in Deliveries /\ work[s] # NoWork /\ JobSound(work[s]) /\ work[s].kind = "message"
    BY JobKinds DEF ReadBlock
  <1> DEFINE w == [work[s] EXCEPT !.blocks = @ \ {p}, !.blocked = @ \/ p \in blockers \/ b]
  <1>4. w \in Deliveries
    BY <1>3 DEF Deliveries
  <1>5. /\ w.kind = "message" /\ w.since = work[s].since /\ w.approval = work[s].approval
        /\ w.blocks = work[s].blocks \ {p} /\ w.barred = work[s].barred
        /\ w.blocked = (work[s].blocked \/ p \in blockers \/ b)
    BY <1>3 DEF Deliveries
  <1>6. work' = [work EXCEPT ![s] = w]
    BY <1>1, <1>3 DEF GateInv, GateTyped
  <1> HIDE DEF w
  <1>7. JobTimely(w)
    BY <1>3, <1>5 DEF JobSound, JobTimely
  <1>8. ApprovalFresh(w) /\ ShowsFresh(w)
    BY <1>3, <1>5 DEF JobSound, ApprovalFresh, ShowsFresh
  <1>9. BlocksSeen(w)
    BY <1>3, <1>5 DEF JobSound, BlocksSeen
  <1>10. QED
    BY <1>2, <1>4, <1>6, <1>7, <1>8, <1>9, JobChanged DEF Jobs, JobSound

LEMMA ReadVisibilityKept ==
    ASSUME GateInv, NEW s \in Slots, ReadVisibility(s)
    PROVE  GateInv'
  <1>1. PICK a \in {"read-no", "read-yes", "yes"}, b \in BOOLEAN :
          /\ work' = [work EXCEPT ![s] = [work[s] EXCEPT !.shows = a, !.blind = b]]
          /\ a = "read-yes" => work[s].from \notin hidden
          /\ a = "yes" => b
    <2>1. work[s] \in Announcements
      BY JobKinds DEF ReadVisibility
    <2>2. [work[s] EXCEPT !.blind = work[s].blind] = work[s]
      BY <2>1 DEF Announcements
    <2>3. \A a : [work[s] EXCEPT !.shows = a, !.blind = work[s].blind] = [work[s] EXCEPT !.shows = a]
      BY <2>1 DEF Announcements
    <2>4. work[s].blind \in BOOLEAN
      BY <2>1 DEF Announcements
    <2>5. CASE work' = [work EXCEPT ![s].shows = "yes", ![s].blind = TRUE]
      BY <2>5 DEF GateInv, GateTyped
    <2>6. CASE work' = [work EXCEPT ![s].shows = IF work[s].from \in hidden THEN "read-no" ELSE "read-yes"]
      BY <2>3, <2>4, <2>6
    <2>7. QED
      BY <2>5, <2>6 DEF ReadVisibility
  <1>2. UNCHANGED <<now, gateDatabase, caches>> /\ DeliveredWasAllowed'
    BY QuietAllowed DEF ReadVisibility
  <1>3. work[s] \in Announcements /\ work[s] # NoWork /\ JobSound(work[s])
    BY JobKinds DEF ReadVisibility
  <1> DEFINE w == [work[s] EXCEPT !.shows = a, !.blind = b]
  <1>4. w \in Announcements
    BY <1>3 DEF Announcements
  <1>5. /\ w.kind = "presence" /\ w.since = work[s].since /\ w.from = work[s].from
        /\ w.shows = a /\ w.blind = b /\ w.from \in People
    BY <1>3 DEF Announcements
  <1>6. work' = [work EXCEPT ![s] = w]
    BY <1>1
  <1> HIDE DEF w
  <1>7. JobTimely(w) /\ w.since <= now
    BY <1>3, <1>5 DEF JobSound, JobTimely
  <1>8. ApprovalFresh(w) /\ BlocksSeen(w)
    BY <1>5 DEF ApprovalFresh, BlocksSeen
  <1>9. a = "read-yes" => w.since <= shownAt[w.from]
    BY <1>1, <1>5, <1>7 DEF GateInv, HistoriesUpToNow
  <1>10. ShowsFresh(w)
    BY <1>1, <1>5, <1>9, Zenon DEF ShowsFresh
  <1>11. QED
    BY <1>2, <1>4, <1>6, <1>7, <1>8, <1>10, JobChanged DEF Jobs, JobSound

LEMMA ReadContactsKept ==
    ASSUME GateInv, NEW s \in Slots, ReadContacts(s)
    PROVE  GateInv'
  <1>1. PICK a \in {"yes", "no"} : work' = [work EXCEPT ![s].told = a]
    BY DEF ReadContacts
  <1>2. UNCHANGED <<now, gateDatabase, caches>> /\ DeliveredWasAllowed'
    BY QuietAllowed DEF ReadContacts
  <1>3. work[s] \in Announcements /\ work[s] # NoWork /\ JobSound(work[s])
    BY JobKinds DEF ReadContacts
  <1> DEFINE w == [work[s] EXCEPT !.told = a]
  <1>4. w \in Announcements
    BY <1>3 DEF Announcements
  <1>5. /\ w.kind = work[s].kind /\ w.since = work[s].since /\ w.from = work[s].from
        /\ w.shows = work[s].shows /\ w.blind = work[s].blind /\ w.kind = "presence"
    BY <1>3 DEF Announcements
  <1>6. work' = [work EXCEPT ![s] = w]
    BY <1>1
  <1> HIDE DEF w
  <1>7. JobSound(w)
    BY <1>3, <1>5 DEF JobSound, JobTimely, ApprovalFresh, BlocksSeen, ShowsFresh
  <1>8. QED
    BY <1>2, <1>4, <1>6, <1>7, JobChanged DEF Jobs

LEMMA KeepAnswerKept ==
    ASSUME GateInv, NEW s \in Slots, KeepAnswer(s)
    PROVE  GateInv'
  <1>1. work[s] \in Deliveries /\ work[s] # NoWork /\ JobSound(work[s]) /\ work[s].approval = "read"
    BY JobKinds DEF KeepAnswer
  <1> DEFINE w == [work[s] EXCEPT !.approval = "yes"]
  <1>2. w \in Deliveries
    BY <1>1 DEF Deliveries
  <1>3. /\ w.kind = work[s].kind /\ w.since = work[s].since /\ w.approval = "yes"
        /\ w.blocks = work[s].blocks /\ w.blocked = work[s].blocked /\ w.barred = work[s].barred
    BY <1>1 DEF Deliveries
  <1>4. work' = [work EXCEPT ![s] = w]
    BY DEF KeepAnswer
  <1>5. UNCHANGED <<now, gateDatabase, visible>> /\ DeliveredWasAllowed' /\ cached' = now + Ttl
    BY QuietAllowed DEF KeepAnswer
  <1>6. w.kind \in {"message", "typing"}
    BY <1>2 DEF Deliveries
  <1>7. w.since \in Nat
    BY <1>2 DEF Deliveries
  <1> HIDE DEF w
  <1>8. w.since <= approvedAt /\ now <= w.since + Latency /\ w.since <= now
    BY <1>1, <1>3, <1>6 DEF JobSound, JobTimely, ApprovalFresh
  <1>9. JobSound(w)
    <2>1. JobTimely(w)
      BY <1>8 DEF JobTimely
    <2>2. w.since <= approvedAt + Ttl + Latency
      BY <1>7, <1>8, GateConstants DEF GateInv, GateTyped
    <2>3. ApprovalFresh(w)
      BY <1>3, <2>2 DEF ApprovalFresh
    <2>4. BlocksSeen(w) /\ ShowsFresh(w)
      BY <1>1, <1>3, <1>6 DEF JobSound, BlocksSeen, ShowsFresh
    <2>5. QED
      BY <2>1, <2>3, <2>4 DEF JobSound
  <1>10. cached' \in Nat /\ visible' \in [People -> Readings]
    BY <1>5, GateConstants DEF GateInv, GateTyped
  <1>11. CachesFresh'
    <2>1. cached' <= approvedAt + Ttl + Latency
      BY <1>5, <1>7, <1>8, GateConstants DEF GateInv, GateTyped
    <2>2. QED
      BY <1>5, <2>1 DEF CachesFresh, GateInv, gateDatabase
  <1>12. QED
    BY <1>2, <1>4, <1>5, <1>9, <1>10, <1>11, JobAndCacheChanged DEF Jobs

LEMMA KeepVisibilityKept ==
    ASSUME GateInv, NEW s \in Slots, KeepVisibility(s)
    PROVE  GateInv'
  <1>1. work[s] \in Announcements /\ work[s] # NoWork /\ JobSound(work[s])
    BY JobKinds DEF KeepVisibility
  <1>2. PICK a \in {"no", "yes"}, h \in BOOLEAN :
          /\ work' = [work EXCEPT ![s].shows = a]
          /\ visible' = [visible EXCEPT ![work[s].from] = [known |-> TRUE, at |-> now, hidden |-> h]]
          /\ a = "yes" => work[s].shows = "read-yes"
          /\ ~h => work[s].shows = "read-yes"
    BY DEF KeepVisibility
  <1> DEFINE w == [work[s] EXCEPT !.shows = a]
             p == work[s].from
  <1>3. w \in Announcements
    BY <1>1 DEF Announcements
  <1>4. /\ w.kind = "presence" /\ w.since = work[s].since /\ w.from = p /\ w.shows = a
        /\ p \in People /\ w.since \in Nat /\ work[s].kind = "presence" /\ work[s].from = p
    BY <1>1 DEF Announcements
  <1>5. work' = [work EXCEPT ![s] = w]
    BY <1>2
  <1>6. UNCHANGED <<now, gateDatabase, cached>> /\ DeliveredWasAllowed'
    BY QuietAllowed DEF KeepVisibility
  <1> HIDE DEF w, p
  <1>7. now <= w.since + Latency /\ w.since <= now
    BY <1>1, <1>4 DEF JobSound, JobTimely
  <1>8. work[s].shows = "read-yes" => w.since <= shownAt[p]
    BY <1>1, <1>4 DEF JobSound, ShowsFresh
  <1>9. shownAt[p] \in Nat
    BY <1>4 DEF GateInv, GateTyped
  <1>10. JobSound(w)
    <2>1. JobTimely(w)
      BY <1>7 DEF JobTimely
    <2>2. ApprovalFresh(w) /\ BlocksSeen(w)
      BY <1>4 DEF ApprovalFresh, BlocksSeen
    <2>3. a = "yes" => w.since <= shownAt[p] + Ttl + Latency
      BY <1>2, <1>4, <1>8, <1>9, GateConstants
    <2>4. ShowsFresh(w)
      BY <1>2, <1>4, <2>3 DEF ShowsFresh
    <2>5. QED
      BY <2>1, <2>2, <2>4 DEF JobSound
  <1>11. visible' = [visible EXCEPT ![p] = [known |-> TRUE, at |-> now, hidden |-> h]]
    BY <1>2 DEF p
  <1>12. cached' \in Nat /\ visible' \in [People -> Readings]
    BY <1>6, <1>11 DEF GateInv, GateTyped, Readings
  <1>13. CachesFresh'
    <2>1. ~h => now <= shownAt[p] + Latency
      BY <1>2, <1>4, <1>7, <1>8, <1>9, GateConstants DEF GateInv, GateTyped
    <2>2. ASSUME NEW q \in People, visible'[q].known, ~visible'[q].hidden
          PROVE  visible'[q].at <= shownAt[q] + Latency
      <3>1. CASE q = p
        BY <1>11, <2>1, <2>2, <3>1 DEF GateInv, GateTyped
      <3>2. CASE q # p
        BY <1>11, <2>2, <3>2 DEF GateInv, GateTyped, CachesFresh
      <3>3. QED
        BY <3>1, <3>2
    <2>3. QED
      BY <1>6, <2>2 DEF CachesFresh, GateInv, gateDatabase
  <1>14. QED
    BY <1>3, <1>5, <1>6, <1>10, <1>12, <1>13, JobAndCacheChanged DEF Jobs

LEMMA LetInKept ==
    ASSUME GateInv, NEW s \in Slots, LetIn(s)
    PROVE  GateInv'
  <1> DEFINE w == work[s]
  <1>1. /\ w \in Deliveries /\ w # NoWork /\ JobSound(w)
        /\ w.kind \in {"message", "typing"} /\ w.blocks = {}
    BY JobKinds DEF LetIn
  <1>2. work' = [work EXCEPT ![s] = NoWork] /\ UNCHANGED <<now, gateDatabase, caches>>
    BY DEF LetIn, EndWork
  <1>3. passed' = IF ~LetThrough(w) THEN NoWork
                  ELSE [kind |-> w.kind, barred |-> w.barred # {}, stale |-> now - approvedAt]
    BY DEF LetIn
  <1>4. w.since \in Nat /\ w.barred \subseteq People
    BY <1>1 DEF Deliveries
  <1> HIDE DEF w
  <1>5. DeliveredWasAllowed'
    <2>1. CASE ~LetThrough(w)
      BY <1>3, <2>1 DEF DeliveredWasAllowed, NoWork
    <2>2. CASE LetThrough(w)
      <3>1. w.approval = "yes" /\ ~w.blocked
        BY <2>2 DEF LetThrough
      <3>2. w.since <= approvedAt + Ttl + Latency /\ now <= w.since + Latency
        BY <1>1, <3>1 DEF JobSound, ApprovalFresh, JobTimely
      <3>3. now - approvedAt <= Ttl + 2 * Latency
        BY <1>4, <3>2, GateConstants DEF GateInv, GateTyped
      <3>4. w.kind = "message" => w.barred = {}
        BY <1>1, <3>1 DEF JobSound, BlocksSeen
      <3>5. passed' = [kind |-> w.kind, barred |-> w.barred # {}, stale |-> now - approvedAt]
        BY <1>3, <2>2
      <3>6. passed'.kind = w.kind /\ passed'.stale = now - approvedAt
        BY <3>5
      <3>7. passed'.kind = "message" => ~passed'.barred
        BY <3>4, <3>5
      <3>8. QED
        BY <3>3, <3>6, <3>7 DEF DeliveredWasAllowed
    <2>3. QED
      BY <2>1, <2>2
  <1>6. QED
    BY <1>2, <1>5, NoWorkSound, JobChanged

LEMMA AnnounceKept ==
    ASSUME GateInv, NEW s \in Slots, Announce(s)
    PROVE  GateInv'
  <1> DEFINE w == work[s]
  <1>1. w \in Announcements /\ w # NoWork /\ JobSound(w) /\ w.kind = "presence"
    BY JobKinds DEF Announce
  <1>2. work' = [work EXCEPT ![s] = NoWork] /\ UNCHANGED <<now, gateDatabase, caches>>
    BY DEF Announce, EndWork
  <1>3. \/ passed' = NoWork
        \/ /\ w.shows = "yes"
           /\ passed' = [kind |-> "presence", blind |-> w.blind, stale |-> now - shownAt[w.from]]
    BY DEF Announce
  <1>4. w.since \in Nat /\ w.from \in People
    BY <1>1 DEF Announcements
  <1> HIDE DEF w
  <1>5. shownAt[w.from] \in Nat
    BY <1>4 DEF GateInv, GateTyped
  <1>6. DeliveredWasAllowed'
    <2>1. CASE passed' = NoWork
      BY <2>1 DEF DeliveredWasAllowed, NoWork
    <2>2. CASE w.shows = "yes" /\ passed' = [kind |-> "presence", blind |-> w.blind, stale |-> now - shownAt[w.from]]
      <3>1. /\ w.blind \/ w.since <= shownAt[w.from] + Ttl + Latency
            /\ now <= w.since + Latency
        BY <1>1, <2>2 DEF JobSound, JobTimely, ShowsFresh
      <3>2. passed'.kind = "presence" /\ passed'.stale = now - shownAt[w.from] /\ passed'.blind = w.blind
        BY <2>2
      <3>3. CASE w.blind
        BY <3>2, <3>3 DEF DeliveredWasAllowed
      <3>4. CASE w.since <= shownAt[w.from] + Ttl + Latency
        BY <1>4, <1>5, <3>1, <3>2, <3>4, GateConstants DEF DeliveredWasAllowed, GateInv, GateTyped
      <3>5. QED
        BY <3>1, <3>3, <3>4
    <2>3. QED
      BY <1>3, <2>1, <2>2
  <1>7. QED
    BY <1>2, <1>6, NoWorkSound, JobChanged

\* A step that leaves the handlers alone and may move the histories forward.
LEMMA WorldChanged ==
    ASSUME GateInv, GateTyped', HistoriesUpToNow', CachesFresh', Quietly,
           UNCHANGED work, now' = now, approvedAt <= approvedAt', blockers \subseteq blockers',
           \A p \in People : shownAt[p] <= shownAt'[p]
    PROVE  GateInv'
  <1>1. ASSUME NEW t \in Slots PROVE JobSound(work[t])'
    <2> DEFINE w == work[t]
    <2>1. JobSound(w) /\ w \in Jobs /\ work'[t] = w
      BY DEF GateInv, GateTyped
    <2>2. /\ w.kind \in {"message", "typing"} => w \in Deliveries /\ w.since \in Nat
          /\ w.kind = "presence" => w.since \in Nat /\ w.from \in People
      BY <2>1, JobKinds DEF Deliveries, Announcements
    <2> HIDE DEF w
    <2>3. JobTimely(work[t])'
      BY <2>1 DEF JobSound, JobTimely
    <2>4. ApprovalFresh(work[t])'
      BY <2>1, <2>2, GateConstants DEF JobSound, ApprovalFresh, GateTyped, GateInv
    <2>5. BlocksSeen(work[t])'
      BY <2>1 DEF JobSound, BlocksSeen
    <2>6. ShowsFresh(work[t])'
      <3>1. CASE w.kind = "presence"
        <4>1. shownAt[w.from] \in Nat /\ shownAt'[w.from] \in Nat /\ shownAt[w.from] <= shownAt'[w.from]
          BY <2>2, <3>1 DEF GateInv, GateTyped
        <4>2. w.shows = "read-yes" => w.since <= shownAt'[w.from]
          BY <2>1, <2>2, <3>1, <4>1 DEF JobSound, ShowsFresh
        <4>3. w.since <= shownAt[w.from] + Ttl + Latency => w.since <= shownAt'[w.from] + Ttl + Latency
          BY <2>2, <3>1, <4>1, GateConstants
        <4>4. QED
          BY <2>1, <4>2, <4>3 DEF JobSound, ShowsFresh
      <3>2. CASE w.kind # "presence"
        BY <2>1, <3>2 DEF ShowsFresh
      <3>3. QED
        BY <3>1, <3>2
    <2>7. QED
      BY <2>3, <2>4, <2>5, <2>6 DEF JobSound
  <1>2. QED
    BY <1>1, QuietAllowed DEF GateInv

LEMMA SettingsKept ==
    ASSUME GateInv,
           \/ EndContact \/ Invalidate \/ Reopen
           \/ \E p \in People : BlockPerson(p) \/ SetVisibility(p)
    PROVE  GateInv'
  <1>1. \A p \in People : shownAt[p] \in Nat /\ shownAt[p] <= now
    BY DEF GateInv, GateTyped, HistoriesUpToNow
  <1>2. CASE EndContact
    <2>1. GateTyped' /\ HistoriesUpToNow' /\ CachesFresh'
      BY <1>2 DEF EndContact, caches, GateInv, GateTyped, HistoriesUpToNow, CachesFresh
    <2>2. QED
      BY <1>1, <1>2, <2>1, WorldChanged DEF EndContact, GateInv, GateTyped
  <1>3. CASE Invalidate
    <2>1. GateTyped' /\ HistoriesUpToNow'
      BY <1>3 DEF Invalidate, gateDatabase, GateInv, GateTyped, HistoriesUpToNow
    <2>2. CachesFresh'
      BY <1>3, GateConstants DEF Invalidate, gateDatabase, GateInv, GateTyped, CachesFresh
    <2>3. QED
      BY <1>1, <1>3, <2>1, <2>2, WorldChanged DEF Invalidate, gateDatabase, GateInv, GateTyped
  <1>4. CASE Reopen
    <2>1. GateTyped' /\ HistoriesUpToNow' /\ CachesFresh'
      BY <1>4 DEF Reopen, gateDatabase, caches, GateInv, GateTyped, HistoriesUpToNow, CachesFresh
    <2>2. QED
      BY <1>1, <1>4, <2>1, WorldChanged DEF Reopen, gateDatabase, GateInv, GateTyped
  <1>5. ASSUME NEW p \in People, BlockPerson(p) PROVE GateInv'
    <2>1. GateTyped' /\ HistoriesUpToNow' /\ CachesFresh'
      BY <1>5 DEF BlockPerson, caches, GateInv, GateTyped, HistoriesUpToNow, CachesFresh
    <2>2. QED
      BY <1>1, <1>5, <2>1, WorldChanged DEF BlockPerson, GateInv, GateTyped
  <1>6. ASSUME NEW p \in People, SetVisibility(p) PROVE GateInv'
    <2>1. /\ UNCHANGED <<now, contacts, blockers, approvedAt, caches, work>> /\ Quietly
          /\ shownAt' = [shownAt EXCEPT ![p] = now]
          /\ hidden' = IF p \in hidden THEN hidden \ {p} ELSE hidden \cup {p}
      BY <1>6 DEF SetVisibility
    <2>2. GateTyped'
      BY <2>1 DEF caches, GateInv, GateTyped
    <2>3. HistoriesUpToNow'
      BY <2>1 DEF GateInv, GateTyped, HistoriesUpToNow
    <2>4. \A q \in People : shownAt[q] <= shownAt'[q] /\ shownAt'[q] \in Nat
      BY <1>1, <2>1 DEF GateInv, GateTyped
    <2>5. CachesFresh'
      <3>1. ASSUME NEW q \in People, visible[q].known, ~visible[q].hidden
            PROVE  visible[q].at <= shownAt'[q] + Latency
        <4>1. visible[q].at \in Nat /\ visible[q].at <= shownAt[q] + Latency
          BY <3>1 DEF GateInv, GateTyped, CachesFresh, Readings
        <4>2. QED
          BY <1>1, <2>4, <4>1, GateConstants
      <3>2. QED
        BY <2>1, <3>1 DEF CachesFresh, GateInv, caches
    <2>6. QED
      BY <2>1, <2>2, <2>3, <2>4, <2>5, WorldChanged DEF GateInv, GateTyped
  <1>7. QED
    BY <1>2, <1>3, <1>4, <1>5, <1>6

LEMMA UnblockKept ==
    ASSUME GateInv, NEW p \in People, UnblockPerson(p)
    PROVE  GateInv'
  <1> DEFINE Job(s) == IF work[s].kind = "message" THEN [work[s] EXCEPT !.barred = @ \ {p}] ELSE work[s]
  <1>1. /\ UNCHANGED <<now, contacts, hidden, approvedAt, shownAt, caches>> /\ Quietly
        /\ blockers' = blockers \ {p} /\ work' = [s \in Slots |-> Job(s)]
    BY DEF UnblockPerson
  <1>2. ASSUME NEW s \in Slots PROVE Job(s) \in Jobs /\ JobSound(work[s])'
    <2>1. CASE work[s].kind = "message"
      <3>1. work[s] \in Deliveries /\ work[s] # NoWork /\ JobSound(work[s])
        BY <2>1, JobKinds
      <3>2. Job(s) \in Deliveries
        BY <2>1, <3>1 DEF Deliveries
      <3>3. /\ Job(s).kind = "message" /\ Job(s).since = work[s].since
            /\ Job(s).approval = work[s].approval /\ Job(s).blocks = work[s].blocks
            /\ Job(s).blocked = work[s].blocked /\ Job(s).barred = work[s].barred \ {p}
        BY <2>1, <3>1 DEF Deliveries
      <3>4. work'[s] = Job(s)
        BY <1>1
      <3> HIDE DEF Job
      <3>5. JobTimely(work[s])'
        BY <1>1, <3>1, <3>3, <3>4 DEF JobSound, JobTimely
      <3>5a. ApprovalFresh(work[s])'
        BY <1>1, <2>1, <3>1, <3>3, <3>4 DEF JobSound, ApprovalFresh
      <3>5b. ShowsFresh(work[s])'
        BY <3>3, <3>4 DEF ShowsFresh
      <3>6. BlocksSeen(work[s])'
        BY <1>1, <2>1, <3>1, <3>3, <3>4 DEF JobSound, BlocksSeen
      <3>7. QED
        BY <3>2, <3>5, <3>5a, <3>5b, <3>6 DEF Jobs, JobSound
    <2>2. CASE work[s].kind # "message"
      <3>1. Job(s) = work[s] /\ work'[s] = work[s]
        BY <1>1, <2>2
      <3>2. work[s] \in Jobs /\ JobSound(work[s])
        BY DEF GateInv, GateTyped
      <3>3. QED
        BY <1>1, <2>2, <3>1, <3>2 DEF JobSound, JobTimely, ApprovalFresh, BlocksSeen, ShowsFresh
    <2>3. QED
      BY <2>1, <2>2
  <1>3. GateTyped'
    BY <1>1, <1>2 DEF GateInv, GateTyped, caches
  <1>4. HistoriesUpToNow' /\ CachesFresh'
    BY <1>1 DEF GateInv, HistoriesUpToNow, CachesFresh, caches
  <1>5. QED
    BY <1>1, <1>2, <1>3, <1>4, QuietAllowed DEF GateInv

LEMMA LaterBound ==
    \A c, a, b, t, l \in Nat : c <= a + t + l /\ a <= b => c <= b + t + l
  OBVIOUS

LEMMA TimeKept ==
    ASSUME GateInv, PassTime
    PROVE  GateInv'
  <1>1. /\ now' = now + 1 /\ UNCHANGED <<contacts, blockers, hidden, caches, work>> /\ Quietly
        /\ approvedAt' = IF contacts THEN now' ELSE approvedAt
        /\ shownAt' = [p \in People |-> IF p \in hidden THEN shownAt[p] ELSE now']
        /\ \A s \in Slots : work[s] # NoWork => now - work[s].since < Latency
    BY DEF PassTime
  <1>2. now \in Nat /\ approvedAt \in Nat /\ approvedAt <= now
    BY DEF GateInv, GateTyped, HistoriesUpToNow
  <1>3. \A p \in People : shownAt[p] \in Nat /\ shownAt[p] <= now
    BY DEF GateInv, GateTyped, HistoriesUpToNow
  <1>4. approvedAt' \in Nat /\ approvedAt <= approvedAt' /\ approvedAt' <= now'
    <2>1. now' = now + 1 /\ approvedAt' \in {now', approvedAt}
      BY <1>1
    <2>2. QED
      BY <1>2, <2>1
  <1>5. \A p \in People : shownAt'[p] \in Nat /\ shownAt[p] <= shownAt'[p] /\ shownAt'[p] <= now'
    BY <1>1, <1>2, <1>3
  <1>6. GateTyped'
    BY <1>1, <1>2, <1>4, <1>5 DEF GateInv, GateTyped, caches
  <1>7. HistoriesUpToNow'
    BY <1>1, <1>4, <1>5 DEF GateInv, HistoriesUpToNow
  <1>8. CachesFresh'
    <2>1. cached \in Nat /\ cached' = cached /\ visible' = visible
      BY <1>1 DEF GateInv, GateTyped, caches
    <2>2. cached <= approvedAt + Ttl + Latency
      BY DEF GateInv, CachesFresh
    <2>5. cached' <= approvedAt' + Ttl + Latency
      BY <1>2, <1>4, <2>1, <2>2, GateConstants, LaterBound
    <2>3. ASSUME NEW q \in People, visible[q].known, ~visible[q].hidden
          PROVE  visible[q].at <= shownAt'[q] + Latency
      <3>1. visible[q].at \in Nat /\ visible[q].at <= shownAt[q] + Latency
        BY <2>3 DEF GateInv, GateTyped, CachesFresh, Readings
      <3>2. QED
        BY <1>3, <1>5, <3>1, GateConstants
    <2>4. QED
      BY <2>1, <2>5, <2>3 DEF CachesFresh
  <1>9. ASSUME NEW t \in Slots PROVE JobSound(work[t])'
    <2> DEFINE w == work[t]
    <2>1. JobSound(w) /\ w \in Jobs /\ work'[t] = w
      BY <1>1 DEF GateInv, GateTyped
    <2>2. /\ w # NoWork => w.since \in Nat /\ now - w.since < Latency
          /\ w.kind = "presence" => w.from \in People /\ w # NoWork
          /\ w.kind \in {"message", "typing"} => w # NoWork
      BY <1>1, <2>1, JobKinds DEF Jobs, Deliveries, Announcements
    <2> HIDE DEF w
    <2>3. JobTimely(work[t])'
      BY <1>1, <1>2, <2>1, <2>2, GateConstants DEF JobSound, JobTimely
    <2>4. ApprovalFresh(work[t])'
      BY <1>2, <1>4, <2>1, <2>2, GateConstants DEF JobSound, ApprovalFresh
    <2>5. BlocksSeen(work[t])'
      BY <1>1, <2>1 DEF JobSound, BlocksSeen
    <2>6. ShowsFresh(work[t])'
      <3>1. CASE w.kind = "presence"
        <4>1. shownAt[w.from] \in Nat /\ shownAt'[w.from] \in Nat /\ shownAt[w.from] <= shownAt'[w.from]
          BY <1>3, <1>5, <2>2, <3>1
        <4>2. w.shows = "read-yes" => w.since <= shownAt'[w.from]
          BY <2>1, <2>2, <3>1, <4>1 DEF JobSound, ShowsFresh
        <4>3. w.since <= shownAt[w.from] + Ttl + Latency => w.since <= shownAt'[w.from] + Ttl + Latency
          BY <2>2, <3>1, <4>1, GateConstants
        <4>4. QED
          BY <2>1, <4>2, <4>3 DEF JobSound, ShowsFresh
      <3>2. CASE w.kind # "presence"
        BY <2>1, <3>2 DEF ShowsFresh
      <3>3. QED
        BY <3>1, <3>2
    <2>7. QED
      BY <2>3, <2>4, <2>5, <2>6 DEF JobSound
  <1>10. QED
    BY <1>1, <1>6, <1>7, <1>8, <1>9, QuietAllowed DEF GateInv

LEMMA GateInvStep == GateInv /\ [GateNext]_gateVars => GateInv'
  <1> SUFFICES ASSUME GateInv, [GateNext]_gateVars PROVE GateInv'
    OBVIOUS
  <1>1. CASE UNCHANGED gateVars
    BY <1>1 DEF gateVars, gateDatabase, caches, GateInv, GateTyped, HistoriesUpToNow, CachesFresh,
                JobSound, JobTimely, ApprovalFresh, BlocksSeen, ShowsFresh, DeliveredWasAllowed
  <1>2. ASSUME NEW s \in Slots,
               \/ LookUpApproval(s) \/ KeepAnswer(s) \/ LetIn(s)
               \/ ReadVisibility(s) \/ KeepVisibility(s) \/ ReadContacts(s) \/ Announce(s)
        PROVE  GateInv'
    BY <1>2, LookUpKept, KeepAnswerKept, LetInKept, ReadVisibilityKept, KeepVisibilityKept,
       ReadContactsKept, AnnounceKept
  <1>3. ASSUME NEW s \in Slots, NEW p \in People,
               \/ SendMessage(s, p) \/ SendTyping(s, p) \/ ReadBlock(s, p)
               \/ Arrive(s, p) \/ UpdateStatus(s, p) \/ Depart(s, p)
        PROVE  GateInv'
    BY <1>3, SendKept, ReadBlockKept, AnnouncementKept
  <1>4. QED
    BY <1>1, <1>2, <1>3, SettingsKept, UnblockKept, TimeKept DEF GateNext

\* No message passes a block that was there all along, and nothing passes on an approval
\* or a visibility that ended longer ago than a cached one lives and two lookups take.
THEOREM DeliveriesAllowed == GateSpec => []DeliveredWasAllowed
  <1>1. GateInv => DeliveredWasAllowed
    BY DEF GateInv
  <1>2. QED
    BY <1>1, GateInvInit, GateInvStep, PTL DEF GateSpec

-----------------------------------------------------------------------------
(* The heartbeat never ends a socket whose client answers. missedPongs     *)
(* counts what onMessage has let through, silent what the client has done; *)
(* the two part when the frame checks drop a pong. Then the socket is      *)
(* closing already, so the invariant is about open sockets.                *)

Counted ==
    /\ missedPongs \in Nat /\ silent \in Nat
    /\ wire = "open" => missedPongs <= silent

LEMMA CountedInit == GuardsInit => Counted
BY DEF GuardsInit, Counted

\* What onMessage does to the counters and the socket, whatever the windows
\* hold: a frame that fails the checks closes the socket unless it was merely
\* malformed; one that passes them is dispatched or dropped.
LEMMA FrameEffect ==
    ASSUME NEW kind \in FrameKinds, NEW bytes \in Sizes, OnMessage(kind, bytes)
    PROVE  /\ Answered(kind)
           /\ Rejected(kind, bytes) => missedPongs' = missedPongs /\ (kind = "malformed" \/ Closing)
           /\ ~Rejected(kind, bytes) => Dispatch(kind, bytes) \/ (Limited(kind) /\ missedPongs' = missedPongs)
           /\ UNCHANGED wire \/ Closing
<1>1. Answered(kind)
  BY DEF OnMessage
<1>2. CASE Rejected(kind, bytes)
  <2>1. /\ (kind = "malformed" /\ UNCHANGED wire) \/ Closing
        /\ missedPongs' = missedPongs
    BY <1>2, Zenon DEF OnMessage
  <2>2. QED
    BY <1>1, <1>2, <2>1
<1>3. CASE ~Rejected(kind, bytes)
  <2> DEFINE stamps == Append(Prune(eventStamps, RateWindow), [at |-> instant])
             over == Limited(kind) /\ Len(stamps) > EventLimit
             measured == Limited(kind) /\ ~over /\ kind = "message:send"
             goes == ~over /\ (measured => Fits(bytes))
  <2>1. IF goes THEN Dispatch(kind, bytes)
        ELSE /\ IF Len(stamps) > EventLimit * AbuseFactor THEN Closing ELSE UNCHANGED wire
             /\ UNCHANGED <<missedPongs, verifying, handled>>
    BY <1>3, Zenon DEF OnMessage
  <2>2. ~goes => Limited(kind)
    OBVIOUS
  <2> HIDE DEF goes, stamps
  <2>3. CASE goes
    BY <1>1, <1>3, <2>1, <2>3 DEF Dispatch
  <2>4. CASE ~goes
    BY <1>1, <1>3, <2>1, <2>2, <2>4
  <2>5. QED
    BY <2>3, <2>4
<1>4. QED
  BY <1>2, <1>3

\* A pong that is not let through leaves the socket closing: pings and pongs
\* are exempt from the limits, and a rejected one was too large before login.
LEMMA PongHeard ==
    ASSUME NEW kind \in FrameKinds, NEW bytes \in Sizes, OnMessage(kind, bytes), kind = "pong"
    PROVE  silent' = 0 /\ (missedPongs' = 0 \/ (missedPongs' = missedPongs /\ wire' # "open"))
BY FrameEffect DEF Answered, Closing, Dispatch, Limited

\* Any other frame leaves both counters alone; none opens a socket or ends one.
LEMMA OthersNotCounted ==
    ASSUME NEW kind \in FrameKinds, NEW bytes \in Sizes, OnMessage(kind, bytes)
    PROVE  /\ kind # "pong" => UNCHANGED <<missedPongs, silent>>
           /\ wire' = wire \/ (wire = "open" /\ wire' = "closing")
BY FrameEffect DEF Answered, Closing, Dispatch, Limited

LEMMA CountedStep == Counted /\ [GuardsNext]_guardVars => Counted'
<1> SUFFICES ASSUME Counted, [GuardsNext]_guardVars PROVE Counted'
  OBVIOUS
<1> USE DEF Counted
<1>1. ASSUME NEW kind \in FrameKinds, NEW bytes \in Sizes, OnMessage(kind, bytes) PROVE Counted'
  BY <1>1, PongHeard, OthersNotCounted
<1>2. ASSUME NEW ok \in BOOLEAN, Verified(ok) PROVE Counted'
  BY <1>2 DEF Verified, Closing
<1>3. CASE AuthTimeout
  BY <1>3 DEF AuthTimeout, Closing
<1>4. CASE Heartbeat
  BY <1>4 DEF Heartbeat
<1>5. CASE Closed
  BY <1>5 DEF Closed
<1>6. CASE ClockTicks
  BY <1>6 DEF ClockTicks
<1>7. CASE UNCHANGED guardVars
  BY <1>7 DEF guardVars
<1>8. QED
  BY <1>1, <1>2, <1>3, <1>4, <1>5, <1>6, <1>7 DEF GuardsNext

\* Only the heartbeat closes an open socket at once, and only when the counter
\* of the relay, hence that of the client, has reached the limit.
LEMMA HeartbeatEnds ==
    Counted /\ [GuardsNext]_guardVars => (wire = "open" /\ wire' = "closed" => silent >= MaxMissedPongs)
<1> SUFFICES ASSUME Counted, [GuardsNext]_guardVars, wire = "open", wire' = "closed"
             PROVE  silent >= MaxMissedPongs
  OBVIOUS
<1>1. ASSUME NEW kind \in FrameKinds, NEW bytes \in Sizes, OnMessage(kind, bytes) PROVE FALSE
  BY <1>1, OthersNotCounted
<1>2. ASSUME NEW ok \in BOOLEAN, Verified(ok) PROVE FALSE
  BY <1>2 DEF Verified, Closing
<1>3. CASE AuthTimeout
  BY <1>3 DEF AuthTimeout, Closing
<1>4. CASE Heartbeat
  BY <1>4, GuardsAssumption DEF Heartbeat, Counted
<1>5. CASE Closed
  BY <1>5 DEF Closed
<1>6. CASE ClockTicks
  BY <1>6 DEF ClockTicks
<1>7. CASE UNCHANGED guardVars
  BY <1>7 DEF guardVars
<1>8. QED
  BY <1>1, <1>2, <1>3, <1>4, <1>5, <1>6, <1>7 DEF GuardsNext

\* The relay gives up only on a client that has let MaxMissedPongs heartbeats
\* pass without a pong (the heartbeat interval, missedPongs and the exemption
\* of pings and pongs from the rate limits).
THEOREM AnswerersStay == GuardsSpec => AnswererStays
<1>1. Counted /\ [GuardsNext]_guardVars
        => [wire = "open" /\ wire' = "closed" => silent >= MaxMissedPongs]_wire
  BY HeartbeatEnds
<1>2. QED
  BY <1>1, CountedInit, CountedStep, PTL DEF GuardsSpec, AnswererStays

-----------------------------------------------------------------------------
(* The cooldowns of the push pings.                                        *)

PingCounts == [n : Nat, at : Int]

\* The stamp of a kind is the moment of its last push: what the cooldown is
\* measured from is what the recipient got.
StampedWhenPushed ==
    /\ moment \in Int
    /\ lastPing \in [Kinds -> Int]
    /\ pushed \in [Kinds -> PingCounts]
    /\ \A k \in Kinds : pushed[k].n > 0 => pushed[k].at = lastPing[k]

LEMMA PauseIsNatural == \A k \in Kinds : Pause(k) \in Nat
  BY PushAssumption DEF Pause

LEMMA StampedInit == PingInit => StampedWhenPushed
  BY PushAssumption DEF PingInit, StampedWhenPushed, PingCounts

LEMMA StampedStep == StampedWhenPushed /\ [PingNext]_pingVars => StampedWhenPushed'
  <1> SUFFICES ASSUME StampedWhenPushed, [PingNext]_pingVars PROVE StampedWhenPushed'
    OBVIOUS
  <1> USE DEF StampedWhenPushed, PingCounts
  <1>1. ASSUME UNCHANGED <<moment, lastPing, pushed>> PROVE StampedWhenPushed'
    BY <1>1
  <1>2. ASSUME NEW k \in Kinds, Ping(k) PROVE StampedWhenPushed'
    <2>1. CASE CoolingDown(k)
      BY <1>2, <2>1 DEF Ping
    <2>2. CASE ~CoolingDown(k)
      <3>1. /\ moment' = moment /\ lastPing' = [lastPing EXCEPT ![k] = moment]
            /\ pushed' = [pushed EXCEPT ![k] = [n |-> @.n + 1, at |-> moment]]
        BY <1>2, <2>2 DEF Ping, Stamp
      <3>2. [n |-> pushed[k].n + 1, at |-> moment] \in PingCounts
        OBVIOUS
      <3>3. QED
        BY <3>1, <3>2
    <2>3. QED
      BY <2>1, <2>2
  <1>3. CASE TimeGoesOn
    BY <1>3 DEF TimeGoesOn
  <1>4. QED
    BY <1>1, <1>2, <1>3 DEF PingNext, pingVars, Trigger, Tickets, Uninstall

\* The step that pushes again found the cooldown over.
LEMMA PingStepSpaced ==
    ASSUME StampedWhenPushed, [PingNext]_pingVars, NEW k \in Kinds,
           pushed[k].n > 0, pushed'[k].n > pushed[k].n
    PROVE  pushed'[k].at - pushed[k].at >= Pause(k)
  <1>1. pushed # pushed'
    BY DEF StampedWhenPushed, PingCounts
  <1>2. PICK j \in Kinds : Ping(j)
    BY <1>1 DEF PingNext, pingVars, Trigger, Tickets, Uninstall, TimeGoesOn
  <1>3. ~CoolingDown(j) /\ pushed' = [pushed EXCEPT ![j] = [n |-> @.n + 1, at |-> moment]]
    BY <1>1, <1>2 DEF Ping
  <1>4. k = j
    BY <1>3 DEF StampedWhenPushed, PingCounts
  <1>5. pushed'[k].at = moment /\ pushed[k].at = lastPing[k]
    BY <1>3, <1>4 DEF StampedWhenPushed
  <1>6. moment - lastPing[k] >= Pause(k)
    BY <1>3, <1>4, PauseIsNatural DEF CoolingDown, StampedWhenPushed
  <1>7. QED
    BY <1>5, <1>6

\* Two pushes of one kind are as far apart as its cooldown says, whichever handlers
\* were fetching the sender's name in between.
THEOREM PingsAreSpaced == PingSpec => PingsSpaced
  <1>1. StampedWhenPushed /\ [PingNext]_pingVars
          => [\A k \in Kinds : pushed[k].n > 0 /\ pushed'[k].n > pushed[k].n
                                  => pushed'[k].at - pushed[k].at >= Pause(k)]_pushed
    BY PingStepSpaced
  <1>2. QED
    BY <1>1, StampedInit, StampedStep, PTL DEF PingSpec, PingsSpaced
=============================================================================
