------------------------------ MODULE GroupChat ------------------------------
(***************************************************************************)
(* One group as its members' apps see it: app/src/state/groupStore.ts, the *)
(* group branch of chatStore.ts and the screens new-group, group-info and  *)
(* group-chat, against the group handlers of server/src/index.ts.          *)
(*                                                                         *)
(* Frames queue in order in both directions of a connection and are lost   *)
(* with it.  The relay's awaits, its invite timer and its queue of         *)
(* database writes are module RelayGroups's; here a change is stored at    *)
(* once.  A post is followed from the composer to its bubble's tick.       *)
(***************************************************************************)
EXTENDS Integers, Sequences

CONSTANTS Owner, Guests,  \* who makes the group, and whom they may invite
          MaxActs,        \* bound: what the users do
          MaxBreaks       \* bound: connections cut, relay restarts

ASSUME GroupChatAssumption == Owner \notin Guests /\ MaxActs \in Nat /\ MaxBreaks \in Nat

VARIABLES
    roster,     \* the members in relay_groups and, when it has loaded them, in the relay
    relayLoaded, \* the relay has in memory what there is of the group: startGroupPersistence
                 \* has restored what is stored, or it was made since
    invited,    \* pendingGroupInvites: who was asked to join
    linked,     \* who has an authenticated connection
    greeted,    \* history: those who connected since the groups were loaded
    up, down,   \* frames on their way to the relay, and from it
    shown,      \* useGroupStore.groups: the members each app shows, none if no group
    prompted,   \* useGroupStore.incomingInvites: the apps with an invite to answer
    post,       \* the one message sent to the group, in its author's thread
    handed,     \* history: who was sent that message
    acts, breaks

people == Guests \cup {Owner}
relayGroup == <<roster, relayLoaded, invited, greeted>>
apps == <<shown, prompted>>
groupChatVars == <<roster, relayLoaded, invited, greeted, linked, up, down, shown, prompted,
                   post, handed, acts, breaks>>

\* What the relay's getGroup knows.
Known == IF relayLoaded THEN roster ELSE {}

NoPost == [by |-> Owner, keys |-> {}, status |-> "none"]

GroupChatInit ==
    /\ roster = {} /\ relayLoaded = TRUE /\ invited = {}
    /\ linked = people /\ greeted = people
    /\ up = [p \in people |-> <<>>] /\ down = [p \in people |-> <<>>]
    /\ shown = [p \in people |-> {}] /\ prompted = {}
    /\ post = NoPost /\ handed = {}
    /\ acts = 0 /\ breaks = 0

-----------------------------------------------------------------------------
(* The connection.  A Bad... operator is the same operator with a mistake  *)
(* in it, and no action uses it.                                           *)

\* relayClient.send, ignored by the caller or not
Sends(p, f) == up' = IF p \in linked THEN [up EXCEPT ![p] = Append(@, f)] ELSE up

\* send to each of the connected among `to'
Tell(d, to, f) == [p \in people |-> IF p \in to \cap linked THEN Append(d[p], f) ELSE d[p]]

\* failAllPendingSends of the author's app
Interrupt(gone) ==
    post' = IF post.status = "sending" /\ post.by \in gone THEN [post EXCEPT !.status = "failed"] ELSE post

Empty(q, gone) == [p \in people |-> IF p \in gone THEN <<>> ELSE q[p]]

\* The connection closes at both ends; pending invites of its user are dropped.
Drop(gone) ==
    /\ linked' = linked \ gone
    /\ invited' = invited \ gone
    /\ up' = Empty(up, gone) /\ down' = Empty(down, gone)
    /\ Interrupt(gone)

CutOff(p) ==
    /\ p \in linked /\ breaks < MaxBreaks /\ breaks' = breaks + 1
    /\ Drop({p})
    /\ UNCHANGED <<roster, relayLoaded, greeted, apps, handed, acts>>

\* auth: the snapshot goes out before anything else
BackOn(p) ==
    /\ p \notin linked
    /\ linked' = linked \cup {p}
    /\ greeted' = IF relayLoaded THEN greeted \cup {p} ELSE greeted \ {p}
    /\ down' = [down EXCEPT ![p] = <<[is |-> "snapshot", members |-> IF p \in Known THEN Known ELSE {}]>>]
    /\ UNCHANGED <<roster, relayLoaded, invited, up, apps, post, handed, acts, breaks>>

\* signing out clears the store and closes the connection
LeaveApp(p) ==
    /\ p \in linked /\ breaks < MaxBreaks /\ breaks' = breaks + 1
    /\ Drop({p})
    /\ shown' = [shown EXCEPT ![p] = {}]
    /\ prompted' = prompted \ {p}
    /\ UNCHANGED <<roster, relayLoaded, greeted, handed, acts>>

RelayDown ==
    /\ breaks < MaxBreaks /\ breaks' = breaks + 1
    /\ Drop(people)
    /\ relayLoaded' = FALSE /\ greeted' = {}
    /\ UNCHANGED <<roster, apps, handed, acts>>

\* restoreGroups: those already connected are not told
RelayLoads ==
    /\ ~relayLoaded /\ relayLoaded' = TRUE
    /\ UNCHANGED <<roster, invited, greeted, linked, up, down, apps, post, handed, acts, breaks>>

-----------------------------------------------------------------------------
(* The user                                                                *)

Acts == acts < MaxActs /\ acts' = acts + 1

\* new-group: asks for at least one contact; the screen moves on at once
CreateGroup(to) ==
    /\ Acts
    /\ to # {} /\ roster = {} /\ shown[Owner] = {} /\ up[Owner] = <<>>
    /\ Sends(Owner, [is |-> "create", to |-> to])
    /\ UNCHANGED <<relayGroup, linked, down, apps, post, handed, breaks>>

\* group-info: Add member offers those the app does not show as members
AddMember(p, q) ==
    /\ Acts
    /\ shown[p] # {} /\ q \in Guests \ shown[p]
    /\ Sends(p, [is |-> "invite", to |-> {q}])
    /\ UNCHANGED <<relayGroup, linked, down, apps, post, handed, breaks>>

\* respondToInvite
RespondToInvite(p, accept) ==
    /\ Acts
    /\ p \in prompted /\ prompted' = prompted \ {p}
    /\ Sends(p, [is |-> "respond", accept |-> accept])
    /\ UNCHANGED <<relayGroup, linked, down, shown, post, handed, breaks>>

\* group-info: Leave; dropped here only if it could be sent
LeaveGroup(p) ==
    /\ Acts
    /\ shown[p] # {} /\ p \in linked
    /\ Sends(p, [is |-> "leave"])
    /\ shown' = [shown EXCEPT ![p] = {}]
    /\ UNCHANGED <<relayGroup, linked, down, prompted, post, handed, breaks>>

\* onSend: the members of this moment, but those without a key
Encrypt(p) ==
    /\ Acts
    /\ post.status = "none" /\ shown[p] # {}
    /\ \E keys \in SUBSET (shown[p] \ {p}) : post' = [by |-> p, keys |-> keys, status |-> "encrypting"]
    /\ UNCHANGED <<relayGroup, linked, up, down, apps, handed, breaks>>

\* sendOrFail after the awaits
SendPost ==
    LET p == post.by
        goes == post.keys # {} /\ p \in linked
    IN
    /\ post.status = "encrypting"
    /\ post' = [post EXCEPT !.status = IF goes THEN "sending" ELSE "failed"]
    /\ up' = IF goes THEN [up EXCEPT ![p] = Append(@, [is |-> "post"])] ELSE up
    /\ UNCHANGED <<relayGroup, linked, down, apps, handed, acts, breaks>>

-----------------------------------------------------------------------------
(* The relay                                                               *)

Frames(p, is) == up[p] # <<>> /\ Head(up[p]).is = is
TakeFrame(p) == up' = [up EXCEPT ![p] = Tail(@)]

\* handleGroupInviteRequest, for the connected who are not members
Asked(members, to) == (to \cap linked) \ members

\* whether or not the stored groups are restored: a group made before is kept as
\* it is then (restoreGroups)
GroupCreate(p) ==
    LET asked == Asked({p}, Head(up[p]).to) IN
    /\ Frames(p, "create") /\ TakeFrame(p)
    /\ roster = {} /\ roster' = {p}
    /\ relayLoaded' = TRUE
    /\ greeted' = IF relayLoaded THEN greeted ELSE linked
    /\ invited' = invited \cup asked
    /\ down' = Tell(Tell(down, {p}, [is |-> "created", members |-> {p}]), asked, [is |-> "ask"])
    /\ UNCHANGED <<linked, apps, post, handed, acts, breaks>>

GroupInvite(p) ==
    LET asked == IF p \in Known THEN Asked(Known, Head(up[p]).to) ELSE {} IN
    /\ Frames(p, "invite") /\ TakeFrame(p)
    /\ invited' = invited \cup asked
    /\ down' = Tell(down, asked, [is |-> "ask"])
    /\ UNCHANGED <<roster, relayLoaded, greeted, linked, apps, post, handed, acts, breaks>>

\* handleGroupInviteRespond: everybody hears of who joins
BadNews(members, p) == Tell(down, {p}, [is |-> "invited", members |-> members])
News(members, p) == Tell(down, members, [is |-> "invited", members |-> members])

GroupInviteRespond(p) ==
    LET joins == p \in invited /\ Head(up[p]).accept /\ Known # {} IN
    /\ Frames(p, "respond") /\ TakeFrame(p)
    /\ invited' = invited \ {p}
    /\ roster' = IF joins THEN roster \cup {p} ELSE roster
    /\ down' = IF joins THEN News(roster \cup {p}, p) ELSE down
    /\ UNCHANGED <<relayLoaded, greeted, linked, apps, post, handed, acts, breaks>>

GroupLeave(p) ==
    /\ Frames(p, "leave") /\ TakeFrame(p)
    /\ roster' = IF relayLoaded THEN roster \ {p} ELSE roster
    /\ down' = Tell(down, Known \ {p}, [is |-> "left", who |-> p])
    /\ UNCHANGED <<relayLoaded, invited, greeted, linked, apps, post, handed, acts, breaks>>

\* handleMessageSend, the group branch: who is connected and has a payload
BadReaches(p) == Known \ {p}
Reaches(p) == ((Known \ {p}) \cap linked) \cap post.keys

GroupPost(p) ==
    LET to == IF p \in Known THEN Reaches(p) ELSE {} IN
    /\ Frames(p, "post") /\ TakeFrame(p)
    /\ handed' = handed \cup (to \cap linked)
    /\ down' = Tell(down, {p}, [is |-> IF to # {} THEN "sent" ELSE "failed"])
    /\ UNCHANGED <<relayGroup, linked, apps, post, acts, breaks>>

-----------------------------------------------------------------------------
(* The app                                                                 *)

Event(p, is) ==
    /\ down[p] # <<>> /\ Head(down[p]).is \in is
    /\ down' = [down EXCEPT ![p] = Tail(@)]
    /\ UNCHANGED <<relayGroup, linked, up, handed, acts, breaks>>

OnMembers(p) ==
    /\ Event(p, {"snapshot", "created", "invited"})
    /\ shown' = [shown EXCEPT ![p] = Head(down[p]).members]
    /\ prompted' = IF Head(down[p]).is = "invited" THEN prompted \ {p} ELSE prompted
    /\ UNCHANGED post

OnInviteRequest(p) ==
    /\ Event(p, {"ask"})
    /\ prompted' = prompted \cup {p}
    /\ UNCHANGED <<shown, post>>

OnMemberLeft(p) ==
    /\ Event(p, {"left"})
    /\ shown' = [shown EXCEPT ![p] = @ \ {Head(down[p]).who}]
    /\ UNCHANGED <<prompted, post>>

OnAnswer(p) ==
    /\ Event(p, {"sent", "failed"})
    /\ post' = [post EXCEPT !.status = Head(down[p]).is]
    /\ UNCHANGED apps

GroupChatNext ==
    \/ RelayDown \/ RelayLoads \/ SendPost
    \/ \E to \in SUBSET Guests : CreateGroup(to)
    \/ \E p \in people :
          \/ CutOff(p) \/ BackOn(p) \/ LeaveApp(p) \/ LeaveGroup(p) \/ Encrypt(p)
          \/ \E q \in Guests : AddMember(p, q)
          \/ \E accept \in BOOLEAN : RespondToInvite(p, accept)
          \/ GroupCreate(p) \/ GroupInvite(p) \/ GroupInviteRespond(p) \/ GroupLeave(p) \/ GroupPost(p)
          \/ OnMembers(p) \/ OnInviteRequest(p) \/ OnMemberLeft(p) \/ OnAnswer(p)

GroupChatSpec == GroupChatInit /\ [][GroupChatNext]_groupChatVars
-----------------------------------------------------------------------------
(* Properties                                                              *)

UpToDate(p) == p \in linked \cap greeted /\ relayLoaded /\ up[p] = <<>> /\ down[p] = <<>>

\* A member whose connection is quiet, and was made since the groups were
\* loaded, shows the members the relay counts: whatever joins, departures and
\* reconnects of others crossed, no update was left out or undone
\* (handleGroupInviteRespond, group:leave and group:snapshot between them).
RosterCaughtUp == \A p \in roster : UpToDate(p) => shown[p] = roster

\* A bubble of the group says sent only if somebody else was sent the message
\* (the group branch of handleMessageSend fails what reached nobody).
SentReachedMember == post.status = "sent" => handed \ {post.by} # {}

\* groupStore.ts:213-217 leaving drops the group on this device too
LeftIsGone == \A p \in people \ roster : UpToDate(p) => shown[p] = {}

\* groupStore.ts:79 without the snapshot groups just silently disappeared
GroupsReappear ==
    \A p \in roster : p \in linked /\ relayLoaded /\ up[p] = <<>> /\ down[p] = <<>> => shown[p] # {}

\* An invite prompt is one the relay still has.
PromptIsPending == \A p \in prompted : UpToDate(p) => p \in invited
=============================================================================
