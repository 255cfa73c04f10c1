----------------------------- MODULE RelayGate -----------------------------
(***************************************************************************)
(* What the relay lets through between two people: the checks of           *)
(* server/src/supabaseAdmin.ts with their caches, and the handlers of      *)
(* server/src/index.ts that wait for them, for messages, for typing and    *)
(* read receipts, and for presence.                                        *)
(*                                                                         *)
(* A handler reads the database in steps, between which the database, the  *)
(* caches and the connections may change.  A lookup has an instant at      *)
(* which the database answers and a later one at which the answer is used. *)
(* Contact rows other than approved ones, and sessions, which RelaySessions*)
(* models, appear as switches.                                             *)
(***************************************************************************)
EXTENDS Integers, FiniteSets

CONSTANTS People,    \* the two of them
          Slots,     \* bound: handlers under way at once
          Ttl,       \* CACHE_TTL_MS and VISIBILITY_TTL_MS
          Latency,   \* the longest a handler waits for the database
          MaxTime,   \* bound: the clock
          MaxChanges \* bound: rows and blocks lost or made, settings changed, connections cut

ASSUME GateAssumption ==
    /\ Cardinality(People) = 2
    /\ Ttl \in Nat /\ Latency \in Nat /\ MaxTime \in Nat /\ MaxChanges \in Nat

VARIABLES
    now,
    contacts,  \* the database has an approved contact row
    blockers,  \* who has a blocked_users row for the other
    hidden,    \* whose status_visibility is 'nobody'
    cached,    \* contactCache: when the cached "yes" expires, 0 if there is none
    visible,   \* visibilityCache: per person, when 'nobody' or not was read
    reachable,    \* who is connected
    session,   \* they have an active session
    work,      \* the handlers under way
    passed,    \* what the last step let through
    approvedAt, shownAt, \* history: when there last was an approval, when a status was last not hidden
    changes

gateDatabase == <<contacts, blockers, hidden, approvedAt, shownAt>>
caches == <<cached, visible>>
links == <<reachable, session>>
gateVars == <<now, gateDatabase, caches, links, work, passed, changes>>

Other(p) == CHOOSE q \in People : q # p

NoWork == [kind |-> "none"]
\* `approval': of areApprovedContacts; "read": the database said yes, the reply
\* is on its way.  `blocks': whose block is still to be read.  `barred': whose
\* block has been stored ever since the handler started.
Delivery(kind, p) ==
    [kind |-> kind, from |-> p, since |-> now,
     approval |-> IF cached > now THEN "yes" ELSE "asked",
     blocks |-> IF kind = "message" THEN People ELSE {}, blocked |-> FALSE,
     barred |-> blockers]
\* `shows': of getStatusVisibility; `blind': it could not be read
Announcement(p) ==
    [kind |-> "presence", from |-> p, since |-> now, blind |-> FALSE,
     shows |-> IF visible[p].known /\ now - visible[p].at < Ttl
               THEN IF visible[p].hidden THEN "no" ELSE "yes" ELSE "asked",
     told |-> "asked"]

GateInit ==
    /\ now = 1 /\ changes = 0
    /\ contacts = TRUE /\ approvedAt = 1
    /\ blockers = {} /\ hidden = {}
    /\ shownAt = [p \in People |-> 1]
    /\ cached = 0
    /\ visible = [p \in People |-> [known |-> FALSE, at |-> 0, hidden |-> FALSE]]
    /\ reachable = People /\ session = TRUE
    /\ work = [s \in Slots |-> NoWork]
    /\ passed = NoWork

-----------------------------------------------------------------------------
Quietly == passed' = NoWork
BeginWork(s, w) == work[s] = NoWork /\ work' = [work EXCEPT ![s] = w]
EndWork(s) == work' = [work EXCEPT ![s] = NoWork]

\* message:send of p; typing and read receipts ask whether the other is there first
SendMessage(s, p) ==
    /\ p \in reachable
    /\ BeginWork(s, Delivery("message", p))
    /\ UNCHANGED <<now, gateDatabase, caches, links, changes>> /\ Quietly

SendTyping(s, p) ==
    /\ reachable = People
    /\ BeginWork(s, Delivery("typing", p))
    /\ UNCHANGED <<now, gateDatabase, caches, links, changes>> /\ Quietly

\* the query of areApprovedContacts is answered; an error counts as no
LookUpApproval(s) ==
    /\ work[s].kind \in {"message", "typing"} /\ work[s].approval = "asked"
    /\ \/ contacts /\ work' = [work EXCEPT ![s].approval = "read"]
       \/ work' = [work EXCEPT ![s].approval = "no"]
    /\ UNCHANGED <<now, gateDatabase, caches, links, changes>> /\ Quietly

\* its answer arrives: only a yes is cached
KeepAnswer(s) ==
    /\ work[s].kind \in {"message", "typing"} /\ work[s].approval = "read"
    /\ work' = [work EXCEPT ![s].approval = "yes"]
    /\ cached' = now + Ttl
    /\ UNCHANGED <<now, gateDatabase, visible, links, changes>> /\ Quietly

BadReadBlock(s, p) ==
    /\ work[s].kind = "message" /\ p \in work[s].blocks
    /\ work' = [work EXCEPT ![s].blocks = @ \ {p},
                            ![s].blocked = @ \/ (p \in blockers /\ p # work[s].from)]
    /\ UNCHANGED <<now, gateDatabase, caches, links, changes>> /\ Quietly

\* isBlocked, once for each direction; an error counts as blocked
ReadBlock(s, p) ==
    /\ work[s].kind = "message" /\ p \in work[s].blocks
    /\ \E failed \in BOOLEAN :
          work' = [work EXCEPT ![s].blocks = @ \ {p}, ![s].blocked = @ \/ p \in blockers \/ failed]
    /\ UNCHANGED <<now, gateDatabase, caches, links, changes>> /\ Quietly

\* What follows the awaits: it is the connections and the session of now that count.
LetThrough(w) ==
    /\ w.approval = "yes" /\ ~w.blocked
    /\ Other(w.from) \in reachable
    /\ w.kind = "message" => session

LetIn(s) ==
    LET w == work[s] IN
    /\ w.kind \in {"message", "typing"}
    /\ w.approval \in {"yes", "no"} /\ w.blocks = {}
    /\ EndWork(s)
    /\ passed' = IF ~LetThrough(w) THEN NoWork
                 ELSE [kind |-> w.kind, barred |-> w.barred # {}, stale |-> now - approvedAt]
    /\ UNCHANGED <<now, gateDatabase, caches, links, changes>>

-----------------------------------------------------------------------------
(***************************************************************************)
(* Presence.                                                               *)
(***************************************************************************)

\* getStatusVisibility asks the database; what cannot be read counts as 'contacts'
ReadVisibility(s) ==
    /\ work[s].kind = "presence" /\ work[s].shows = "asked"
    /\ LET p == work[s].from IN
       \/ /\ work' = [work EXCEPT ![s].shows = IF p \in hidden THEN "read-no" ELSE "read-yes"]
       \/ /\ work' = [work EXCEPT ![s].shows = "yes", ![s].blind = TRUE]
    /\ UNCHANGED <<now, gateDatabase, caches, links, changes>> /\ Quietly

BadKeepVisibility(s) ==
    LET w == work[s] IN
    /\ w.kind = "presence" /\ w.shows \in {"read-no", "read-yes"}
    /\ work' = [work EXCEPT ![s].shows = "yes"]
    /\ visible' = [visible EXCEPT ![w.from] = [known |-> TRUE, at |-> now, hidden |-> w.shows = "read-no"]]
    /\ UNCHANGED <<now, gateDatabase, cached, links, changes>> /\ Quietly

KeepVisibility(s) ==
    LET w == work[s] IN
    /\ w.kind = "presence" /\ w.shows \in {"read-no", "read-yes"}
    /\ work' = [work EXCEPT ![s].shows = IF w.shows = "read-no" THEN "no" ELSE "yes"]
    /\ visible' = [visible EXCEPT ![w.from] = [known |-> TRUE, at |-> now, hidden |-> w.shows = "read-no"]]
    /\ UNCHANGED <<now, gateDatabase, cached, links, changes>> /\ Quietly

\* getApprovedContactIds; none when it cannot be read
ReadContacts(s) ==
    /\ work[s].kind = "presence" /\ work[s].shows = "yes" /\ work[s].told = "asked"
    /\ \E answer \in {"yes", "no"} :
          /\ answer = "yes" => contacts
          /\ work' = [work EXCEPT ![s].told = answer]
    /\ UNCHANGED <<now, gateDatabase, caches, links, changes>> /\ Quietly

\* broadcastPresence, after its awaits
Announce(s) ==
    LET w == work[s]
        tells == w.shows = "yes" /\ w.told = "yes" /\ Other(w.from) \in reachable
    IN
    /\ w.kind = "presence"
    /\ w.shows = "no" \/ w.told # "asked"
    /\ EndWork(s)
    /\ passed' = IF ~tells THEN NoWork
                 ELSE [kind |-> "presence", blind |-> w.blind, stale |-> now - shownAt[w.from]]
    /\ UNCHANGED <<now, gateDatabase, caches, links, changes>>

\* The newcomer's own snapshot of who is reachable is left out.
Arrive(s, p) ==
    /\ p \notin reachable
    /\ reachable' = reachable \cup {p}
    /\ BeginWork(s, Announcement(p))
    /\ UNCHANGED <<now, gateDatabase, caches, session, changes>> /\ Quietly

\* the app says that it went to the background, or came back
UpdateStatus(s, p) ==
    /\ p \in reachable /\ changes < MaxChanges
    /\ changes' = changes + 1
    /\ BeginWork(s, Announcement(p))
    /\ UNCHANGED <<now, gateDatabase, caches, links>> /\ Quietly

Depart(s, p) ==
    /\ p \in reachable /\ changes < MaxChanges
    /\ changes' = changes + 1
    /\ reachable' = reachable \ {p}
    /\ session' = FALSE
    /\ BeginWork(s, Announcement(p))
    /\ UNCHANGED <<now, gateDatabase, caches>> /\ Quietly

-----------------------------------------------------------------------------
(***************************************************************************)
(* The world: what the apps write to the database, and the clock.          *)
(***************************************************************************)

GateChange == changes < MaxChanges /\ changes' = changes + 1

\* removing the contact or declining; only the latter is told to the relay,
\* whose contact handlers call invalidateContactCache
EndContact ==
    /\ GateChange
    /\ contacts' = FALSE
    /\ UNCHANGED <<now, blockers, hidden, approvedAt, shownAt, caches, links, work>> /\ Quietly

Invalidate ==
    /\ cached # 0
    /\ cached' = 0
    /\ UNCHANGED <<now, gateDatabase, visible, links, work, changes>> /\ Quietly

BlockPerson(p) ==
    /\ GateChange
    /\ blockers' = blockers \cup {p}
    /\ UNCHANGED <<now, contacts, hidden, approvedAt, shownAt, caches, links, work>> /\ Quietly

UnblockPerson(p) ==
    /\ p \in blockers
    /\ blockers' = blockers \ {p}
    /\ work' = [s \in Slots |-> IF work[s].kind = "message" THEN [work[s] EXCEPT !.barred = @ \ {p}]
                                ELSE work[s]]
    /\ UNCHANGED <<now, contacts, hidden, approvedAt, shownAt, caches, links, changes>> /\ Quietly

SetVisibility(p) ==
    /\ GateChange
    /\ hidden' = IF p \in hidden THEN hidden \ {p} ELSE hidden \cup {p}
    /\ shownAt' = [shownAt EXCEPT ![p] = now]
    /\ UNCHANGED <<now, contacts, blockers, approvedAt, caches, links, work>> /\ Quietly

Reopen ==
    /\ reachable = People /\ ~session /\ session' = TRUE
    /\ UNCHANGED <<now, gateDatabase, caches, reachable, work, changes>> /\ Quietly

PassTime ==
    /\ now < MaxTime
    /\ \A s \in Slots : work[s] # NoWork => now - work[s].since < Latency
    /\ now' = now + 1
    /\ approvedAt' = IF contacts THEN now' ELSE approvedAt
    /\ shownAt' = [p \in People |-> IF p \in hidden THEN shownAt[p] ELSE now']
    /\ UNCHANGED <<contacts, blockers, hidden, caches, links, work, changes>> /\ Quietly

GateNext ==
    \/ \E s \in Slots :
          \/ LookUpApproval(s) \/ KeepAnswer(s) \/ LetIn(s)
          \/ ReadVisibility(s) \/ KeepVisibility(s) \/ ReadContacts(s) \/ Announce(s)
          \/ \E p \in People :
                \/ SendMessage(s, p) \/ SendTyping(s, p) \/ ReadBlock(s, p)
                \/ Arrive(s, p) \/ UpdateStatus(s, p) \/ Depart(s, p)
    \/ EndContact \/ Invalidate \/ Reopen \/ PassTime
    \/ \E p \in People : BlockPerson(p) \/ UnblockPerson(p) \/ SetVisibility(p)

GateSpec == GateInit /\ [][GateNext]_gateVars
-----------------------------------------------------------------------------
\* A message handled while a block of either side is stored is not delivered;
\* nothing is let through on an approval that ended longer ago than a cached
\* yes lives and two lookups take; and nobody hears of the comings and goings
\* of one who has hidden them for that long, unless the setting could not be
\* read.
DeliveredWasAllowed ==
    /\ passed.kind = "message" => ~passed.barred
    /\ passed.kind # "none" => passed.stale <= Ttl + 2 * Latency \/ (passed.kind = "presence" /\ passed.blind)

\* supabaseAdmin.ts:184 a hiccup must never widen who sees someone's status
DocHiccupHides == passed.kind = "presence" => passed.stale <= Ttl + 2 * Latency

\* supabaseAdmin.ts:77 a stale "yes" doesn't outlive a decline
DocDeclineForgets == ~contacts /\ (\A s \in Slots : work[s] = NoWork) /\ cached > now => approvedAt + Ttl > now
=============================================================================
