---------------------------- MODULE ChatSessions ----------------------------
(***************************************************************************)
(* RelaySessions composed with the app's copy of it: what the handlers     *)
(* write to the sockets, and the store of app/src/state/chatSessionStore.ts *)
(* fed by it, with the buttons of app/app/chat/[id].tsx.                   *)
(*                                                                         *)
(* Each user has one device.  Its relayClient keeps one current socket and *)
(* drops the old one before it opens the next; the relay may learn of that *)
(* close much later.  A frame of the client reaches the relay at once (the *)
(* await of the handler stands for the delay) or, on a socket the relay    *)
(* has closed, not at all; events to the client queue up in `wire'.        *)
(***************************************************************************)
EXTENDS RelaySessions, Sequences

VARIABLES
    wire,      \* per socket, the events written to it and not yet received
    device,    \* relayClient.socket of the user's app
    linked,    \* relayClient's status is 'connected': auth:ok was received on it
    session,   \* chatSessionStore.sessions
    incoming,  \* chatSessionStore.incomingFrom
    opened     \* history: the pairs the relay has ever opened a session for

mirror == <<session, incoming>>
appVars == <<wire, device, linked, session, incoming>>
allVars == <<vars, appVars, opened>>

ServerEvent ==
    [type : {"auth:ok", "session:requested", "session:request", "session:accepted",
             "session:rejected", "session:request_failed", "session:request_withdrawn"},
     peer : Users]
Event(type, peer) == [type |-> type, peer |-> peer]

SessionState == {"none", "pending", "accepted", "rejected"}

MirrorTypeOK ==
    /\ TypeOK
    /\ wire \in [Sockets -> Seq(ServerEvent)]
    /\ device \in [Users -> Sockets \cup {None}]
    /\ linked \in [Users -> BOOLEAN]
    /\ session \in [Users -> [Users -> SessionState]]
    /\ incoming \in [Users -> SUBSET Users]
    /\ opened \subseteq PairKeys

-----------------------------------------------------------------------------
(* The handlers of the relay with what they send                           *)

To(socket, event) == [socket |-> socket, event |-> event]

\* send(): an event for an undefined or closed socket goes nowhere, and one for
\* a socket its client has dropped is never read.  No handler writes twice to
\* one socket.
Readable(x) == sockState[x] = "open" /\ \E u \in Users : device[u] = x
Post(msgs) ==
    wire' = [x \in Sockets |->
        IF Readable(x) /\ \E m \in msgs : m.socket = x
        THEN Append(wire[x], (CHOOSE m \in msgs : m.socket = x).event)
        ELSE wire[x]]

Quiet == UNCHANGED <<device, linked, mirror>>
Remember == opened' = opened \cup active'

RelayAuthVerified(s, u) ==
    /\ AuthVerified(s, u)
    /\ Post({To(s, Event("auth:ok", u))})
    /\ Quiet /\ Remember

RelayAuthRejected(s, u) == AuthRejected(s, u) /\ Post({}) /\ Quiet /\ Remember

\* clearSessionsFor reports who has to be told that a request is gone: the
\* target of u's request, or the requester who waited for u.
PendingWith(u) == {v \in Users \ {u} : getPendingSession(u, v) # None}
BadNotices(u) ==
    {To(connections[v], Event("session:request_withdrawn", u)) :
        v \in {w \in PendingWith(u) : getPendingSession(u, w).requesterId = u}}
Notices(u) ==
    {To(connections[v], Event(IF getPendingSession(u, v).requesterId = u
                              THEN "session:request_withdrawn" ELSE "session:rejected", u)) :
        v \in PendingWith(u)}

RelaySocketClosed(s) ==
    /\ SocketClosed(s)
    /\ Post(IF isRegistered(sockUser[s], s) THEN Notices(sockUser[s]) ELSE {})
    /\ Quiet /\ Remember

RelayNotApproved(h) ==
    /\ NotApproved(h)
    /\ Post({To(h.socket, Event("session:request_failed", h.to))})
    /\ Quiet /\ Remember

RelayAlreadyActive(h) ==
    /\ AlreadyActive(h)
    /\ Post({To(h.socket, Event("session:accepted", h.to))})
    /\ Quiet /\ Remember

RelayGlareAccept(h) ==
    /\ GlareAccept(h)
    /\ Post(IF h.socket = None THEN {}
            ELSE {To(h.socket, Event("session:accepted", h.to)),
                  To(connections[h.to], Event("session:accepted", h.userId))})
    /\ Quiet /\ Remember

RelayTargetOffline(h) ==
    /\ TargetOffline(h)
    /\ Post({To(h.socket, Event("session:request_failed", h.to))})
    /\ Quiet /\ Remember

RelayRecordRequest(h) ==
    /\ RecordRequest(h)
    /\ Post(IF h.socket = None THEN {}
            ELSE {To(h.socket, Event("session:requested", h.to)),
                  To(connections[h.to], Event("session:request", h.userId))})
    /\ Quiet /\ Remember

BadTimeout(t) == RequestTimeout(t) /\ Post({}) /\ Quiet /\ Remember
RelayTimeout(t) ==
    /\ RequestTimeout(t)
    /\ Post(IF StillPending(t)
            THEN {To(connections[t.requesterId], Event("session:rejected", t.targetId))}
            ELSE {})
    /\ Quiet /\ Remember

-----------------------------------------------------------------------------
(* The app                                                                 *)

\* openSocket: the previous socket is gone already.
Connect(u, s) ==
    /\ device[u] = None
    /\ Authenticate(s, u)
    /\ device' = [device EXCEPT ![u] = s]
    /\ UNCHANGED <<wire, linked, mirror, opened>>

\* The app loses or discards its socket (onclose, watchdog, foreground probe);
\* what was on its way is not received.  The store is left as it is.
Drop(u) ==
    /\ device[u] # None
    /\ device' = [device EXCEPT ![u] = None]
    /\ linked' = [linked EXCEPT ![u] = FALSE]
    /\ wire' = [wire EXCEPT ![device[u]] = <<>>]
    /\ UNCHANGED <<vars, mirror, opened>>

Set(u, peer, state) == session' = [session EXCEPT ![u][peer] = state]

\* The store's reaction to each event type.
Handle(u, e) ==
    \/ /\ e.type = "auth:ok"
       /\ session' = [session EXCEPT ![u] = [v \in Users |-> "none"]]
       /\ incoming' = [incoming EXCEPT ![u] = {}]
    \/ /\ e.type = "session:request"
       /\ incoming' = [incoming EXCEPT ![u] = @ \cup {e.peer}]
       /\ UNCHANGED session
    \/ /\ e.type = "session:request_withdrawn"
       /\ incoming' = [incoming EXCEPT ![u] = @ \ {e.peer}]
       /\ UNCHANGED session
    \/ /\ e.type = "session:requested"
       /\ Set(u, e.peer, "pending")
       /\ UNCHANGED incoming
    \/ /\ e.type = "session:accepted"
       /\ Set(u, e.peer, "accepted")
       /\ UNCHANGED incoming
    \/ /\ e.type \in {"session:rejected", "session:request_failed"}
       /\ Set(u, e.peer, "rejected")
       /\ UNCHANGED incoming

Receive(u) ==
    LET s == device[u] IN
    /\ s # None
    /\ wire[s] # <<>>
    /\ wire' = [wire EXCEPT ![s] = Tail(@)]
    /\ linked' = [linked EXCEPT ![u] = @ \/ Head(wire[s]).type = "auth:ok"]
    /\ Handle(u, Head(wire[s]))
    /\ UNCHANGED <<vars, device, opened>>

\* relayClient.send hands the frame to the socket only once authenticated; the
\* relay handles it if the socket is still open there.
FrameArrives(u) == linked[u] /\ sockState[device[u]] = "open"

\* The chat screen asks by itself while the state is 'none', the user asks again
\* after a rejection; neither while the peer's own request is on screen.
RequestChat(u, v) ==
    /\ u # v
    /\ v \notin incoming[u]
    /\ session[u][v] \in {"none", "rejected"}
    /\ Set(u, v, "pending")
    /\ IF FrameArrives(u) THEN SessionRequest(device[u], v) ELSE UNCHANGED vars
    /\ UNCHANGED <<wire, device, linked, incoming, opened>>

\* The relay's side of respondToRequest: without a matching request the frame is
\* ignored.
Answered(u, v, accept) ==
    IF FrameArrives(u) /\ Answerable(device[u], v)
    THEN /\ SessionRespond(device[u], v, accept)
         /\ Post({To(connections[v],
                     Event(IF accept THEN "session:accepted" ELSE "session:rejected", u))})
    ELSE UNCHANGED <<vars, wire>>

\* Accept or Decline on the prompt; an accept shows at once.
RespondToRequest(u, v, accept) ==
    /\ v \in incoming[u]
    /\ incoming' = [incoming EXCEPT ![u] = @ \ {v}]
    /\ Answered(u, v, accept)
    /\ IF accept THEN Set(u, v, "accepted") ELSE UNCHANGED session
    /\ Remember
    /\ UNCHANGED <<device, linked>>

-----------------------------------------------------------------------------

Init2 ==
    /\ Init
    /\ wire = [s \in Sockets |-> <<>>]
    /\ device = [u \in Users |-> None]
    /\ linked = [u \in Users |-> FALSE]
    /\ session = [u \in Users |-> [v \in Users |-> "none"]]
    /\ incoming = [u \in Users |-> {}]
    /\ opened = {}

FinishRequest(h) ==
    \/ RelayNotApproved(h)
    \/ RelayAlreadyActive(h)
    \/ RelayGlareAccept(h)
    \/ RelayTargetOffline(h)
    \/ RelayRecordRequest(h)

FinishAuth(s, u) == RelayAuthVerified(s, u) \/ RelayAuthRejected(s, u)

ChatNext ==
    \/ \E s \in Sockets, u \in Users : FinishAuth(s, u) \/ Connect(u, s)
    \/ \E s \in Sockets : RelaySocketClosed(s)
    \/ \E h \in asking : FinishRequest(h)
    \/ \E t \in timers : RelayTimeout(t)
    \/ \E u \in Users : Drop(u) \/ Receive(u)
    \/ \E u, v \in Users : RequestChat(u, v)
    \/ \E u, v \in Users, accept \in BOOLEAN : RespondToRequest(u, v, accept)

ChatSpec == Init2 /\ [][ChatNext]_allVars

\* Awaited replies and timers come, events that are on an open socket are read,
\* and an app notices in the end that its socket is closed (onclose, or the
\* watchdog after 75 s of silence).
NoticeClosed(u) == device[u] # None /\ sockState[device[u]] = "closed" /\ Drop(u)
ChatFairness ==
    /\ WF_allVars(\E t \in timers : RelayTimeout(t))
    /\ \A u \in Users :
          /\ WF_allVars(\E h \in asking : h.userId = u /\ FinishRequest(h))
          /\ WF_allVars(Receive(u))
          /\ WF_allVars(NoticeClosed(u))
ChatFairSpec == ChatSpec /\ ChatFairness

-----------------------------------------------------------------------------
(* Properties                                                              *)

\* Nothing in index.ts 378-387 makes it so, but verifications mostly are answered
\* in turn: none ends well on a socket the app has left once the one it opened
\* instead is registered.
ChecksInTurn ==
    \A u \in Users :
        \/ connections'[u] \in {None, connections[u], device[u]}
        \/ device[u] = None
        \/ connections[u] # device[u]

\* The app and the relay agree on the connection, and nothing is on its way.
Settled(u) == FrameArrives(u) /\ wire[device[u]] = <<>>

\* Nobody waits for nothing: when the chat screen says "Waiting for ... to
\* accept", the relay holds that request with its timer, is about to answer, or
\* has already written the answer.
NobodyWaitsForNothing ==
    \A u, v \in Users : session[u][v] = "pending" /\ Settled(u) =>
        \/ \E h \in asking : h.userId = u /\ h.to = v
        \/ getPendingSession(u, v) \in {t \in timers : t.requesterId = u}

\* Waiting ends: every "Waiting for ..." is followed by an answer, or by the loss
\* of the connection (after which auth:ok clears it).
WaitEnds ==
    \A u \in Users : \A v \in Users \ {u} :
        (linked[u] /\ session[u][v] = "pending") ~> ~(linked[u] /\ session[u][v] = "pending")

-----------------------------------------------------------------------------
(* What comments of the code say and the code does not do: TLC finds a     *)
(* counterexample of each, under the .cfg that lists it.                   *)

\* state.ts 145-155: the close of an old socket must not leave "a
\* genuinely-online user" offline.
LinkedUserOnline == \A u \in Users : FrameArrives(u) => isOnline(u)

\* chatSessionStore.ts 16-18: the store "only mirrors what the relay has already
\* decided", so what it shows as accepted, on a good connection with everything
\* read, the relay has opened at some time.
AcceptedWasOpened ==
    \A u, v \in Users : session[u][v] = "accepted" /\ Settled(u) => pairKey(u, v) \in opened

\* state.ts 197: a response with "accepted: false also revokes any existing
\* active session", so after a Decline that reaches the relay there is none.
DeclineRevokes ==
    [][\A u, v \in Users :
          FrameArrives(u) /\ RespondToRequest(u, v, FALSE) => pairKey(u, v) \notin active']_allVars

=============================================================================
