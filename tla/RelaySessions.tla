--------------------------- MODULE RelaySessions ---------------------------
(***************************************************************************)
(* The relay server's live connections and per-connection chat sessions:   *)
(* server/src/state.ts (connections, activeSessions, pendingSessions) and  *)
(* the WebSocket handlers of server/src/index.ts that touch them.          *)
(*                                                                         *)
(* Node runs one callback at a time, so a handler is atomic between two    *)
(* awaits.  The handlers that await (auth and session:request) are split   *)
(* at the await: the first part leaves an entry in `verifying' or in       *)
(* `asking', the second part takes it out and finishes the handler.  What  *)
(* the handlers write to the sockets is added by module ChatSessions.      *)
(***************************************************************************)
EXTENDS Integers, FiniteSets

CONSTANTS Users,        \* account ids
          Sockets,      \* the WebSocket connections ever made; each is used once
          None,         \* JavaScript's undefined / null
          MaxRequests   \* bound: requests recorded, the values of Date.now()

ASSUME BoundAssumption == MaxRequests \in Nat

VARIABLES
    sockState,    \* [Sockets -> "new" | "open" | "closed"]
    sockUser,     \* the closure variable `userId' of the socket's handlers
    connections,  \* relayState.connections: user -> registered socket
    verifying,    \* auth frames whose verifyUserToken has not come back: <<socket, user>>
    active,       \* relayState.activeSessions, a set of pair keys
    pending,      \* relayState.pendingSessions: pair key -> request
    asking,       \* handleSessionRequest calls waiting for areApprovedContacts
    timers,       \* the armed SESSION_REQUEST_TIMEOUT_MS timers
    clock         \* Date.now() of the next recorded request

conns == <<sockState, sockUser, connections, verifying>>
sessions == <<active, pending>>
vars == <<sockState, sockUser, connections, verifying, active, pending, asking,
          timers, clock>>

-----------------------------------------------------------------------------
(* Types                                                                   *)

\* Nobody is their own contact (a check of the contact_requests table), so a
\* request to oneself is answered not_contact and is left out.
pairKey(a, b) == {a, b}
PairKeys == {k \in SUBSET Users : \E a, b \in Users : a # b /\ k = pairKey(a, b)}

PendingSession == [requesterId : Users, targetId : Users, requestedAt : Nat]

ASSUME NoneAssumption ==
    None \notin Users /\ None \notin Sockets /\ None \notin PendingSession

\* A handleSessionRequest call; `socket' is what getSocket(userId)! returned
\* before the await.
Asking == [userId : Users, to : Users, socket : Sockets \cup {None}]

TypeOK ==
    /\ sockState \in [Sockets -> {"new", "open", "closed"}]
    /\ sockUser \in [Sockets -> Users \cup {None}]
    /\ connections \in [Users -> Sockets \cup {None}]
    /\ verifying \subseteq Sockets \X Users
    /\ active \subseteq PairKeys
    /\ pending \in [PairKeys -> PendingSession \cup {None}]
    /\ asking \subseteq Asking
    /\ timers \subseteq PendingSession
    /\ clock \in Nat

-----------------------------------------------------------------------------
(* Reads and writes of RelayState.  An operator named Bad... is the same   *)
(* operator with a mistake in it: it is used by no action, and stands for  *)
(* the bug that a property is there to catch.                              *)

BadIsOnline(u) == TRUE
isOnline(u) == connections[u] # None

BadIsRegistered(u, s) == u # None /\ connections[u] # None
isRegistered(u, s) == u # None /\ connections[u] = s

hasActiveSession(a, b) == pairKey(a, b) \in active
getPendingSession(a, b) == pending[pairKey(a, b)]

BadKey(a, b, accepted) ==
    /\ pending' = [pending EXCEPT ![pairKey(a, b)] = None]
    /\ active' = IF accepted THEN active \cup {pairKey(a, a)} ELSE active
BadKeepsRequest(a, b, accepted) ==
    /\ active' = IF accepted THEN active \cup {pairKey(a, b)} ELSE active
    /\ pending' = IF accepted THEN pending ELSE [pending EXCEPT ![pairKey(a, b)] = None]
resolveSession(a, b, accepted) ==
    /\ pending' = [pending EXCEPT ![pairKey(a, b)] = None]
    /\ active' = IF accepted THEN active \cup {pairKey(a, b)}
                             ELSE active \ {pairKey(a, b)}

\* clearSessionsFor: every session and request of u goes.
BadClearSessionsFor(u) ==
    /\ active' = active
    /\ pending' = [k \in PairKeys |-> IF u \in k THEN None ELSE pending[k]]
clearSessionsFor(u) ==
    /\ active' = {k \in active : u \notin k}
    /\ pending' = [k \in PairKeys |-> IF u \in k THEN None ELSE pending[k]]

-----------------------------------------------------------------------------
(* Connection lifecycle                                                    *)

Init ==
    /\ sockState = [s \in Sockets |-> "new"]
    /\ sockUser = [s \in Sockets |-> None]
    /\ connections = [u \in Users |-> None]
    /\ verifying = {}
    /\ active = {}
    /\ pending = [k \in PairKeys |-> None]
    /\ asking = {}
    /\ timers = {}
    /\ clock = 0

\* A client opens a socket and sends its one auth frame; the token belongs to
\* u and is being verified.
Authenticate(s, u) ==
    /\ sockState[s] = "new"
    /\ sockState' = [sockState EXCEPT ![s] = "open"]
    /\ verifying' = verifying \cup {<<s, u>>}
    /\ UNCHANGED <<sockUser, connections, sessions, asking, timers, clock>>

\* verifyUserToken came back with the user: nothing checks that the socket is
\* still open.
AuthVerified(s, u) ==
    /\ <<s, u>> \in verifying
    /\ verifying' = verifying \ {<<s, u>>}
    /\ sockUser' = [sockUser EXCEPT ![s] = u]
    /\ connections' = [connections EXCEPT ![u] = s]
    /\ UNCHANGED <<sockState, sessions, asking, timers, clock>>

\* verifyUserToken came back empty: auth:error, and the socket is closed.
AuthRejected(s, u) ==
    /\ <<s, u>> \in verifying
    /\ verifying' = verifying \ {<<s, u>>}
    /\ sockState' = [sockState EXCEPT ![s] = "closed"]
    /\ UNCHANGED <<sockUser, connections, sessions, asking, timers, clock>>

\* The socket's close event: the client left, the network dropped it, the auth
\* timer or the heartbeat closed it.  A socket that a reconnect has already
\* replaced cleans nothing up.
SocketClosed(s) ==
    /\ sockState[s] = "open"
    /\ sockState' = [sockState EXCEPT ![s] = "closed"]
    /\ IF isRegistered(sockUser[s], s)
       THEN /\ connections' = [connections EXCEPT ![sockUser[s]] = None]
            /\ clearSessionsFor(sockUser[s])
       ELSE UNCHANGED <<connections, sessions>>
    /\ UNCHANGED <<sockUser, verifying, asking, timers, clock>>

-----------------------------------------------------------------------------
(* session:request                                                         *)

\* The frame arrives on any authenticated open socket, the user's registered
\* one or one that another device of the user has replaced.
SessionRequest(s, to) ==
    /\ sockState[s] = "open"
    /\ sockUser[s] \notin {None, to}
    /\ clock + Cardinality(asking) < MaxRequests
    /\ asking' = asking \cup
          {[userId |-> sockUser[s], to |-> to, socket |-> connections[sockUser[s]]]}
    /\ UNCHANGED <<conns, sessions, timers, clock>>

\* The rest of handleSessionRequest after the await, one action per way out.
Finish(h) == h \in asking /\ asking' = asking \ {h}

NotApproved(h) ==
    /\ Finish(h)
    /\ UNCHANGED <<conns, sessions, timers, clock>>

AlreadyActive(h) ==
    /\ Finish(h)
    /\ hasActiveSession(h.userId, h.to)
    /\ UNCHANGED <<conns, sessions, timers, clock>>

BadReversePending(h) == getPendingSession(h.to, h.userId) # None
ReversePending(h) ==
    /\ getPendingSession(h.to, h.userId) # None
    /\ getPendingSession(h.to, h.userId).requesterId = h.to

\* Glare: the other side's request is still waiting, so both are resolved.
GlareAccept(h) ==
    /\ Finish(h)
    /\ ~hasActiveSession(h.userId, h.to)
    /\ ReversePending(h)
    /\ resolveSession(h.userId, h.to, TRUE)
    /\ UNCHANGED <<conns, timers, clock>>

TargetOffline(h) ==
    /\ Finish(h)
    /\ ~hasActiveSession(h.userId, h.to)
    /\ ~ReversePending(h)
    /\ ~isOnline(h.to)
    /\ UNCHANGED <<conns, sessions, timers, clock>>

\* When `socket' is undefined the send() right after requestSession throws, and
\* the timer behind it is never armed.
RecordRequest(h) ==
    LET request == [requesterId |-> h.userId, targetId |-> h.to, requestedAt |-> clock]
    IN
    /\ Finish(h)
    /\ ~hasActiveSession(h.userId, h.to)
    /\ ~ReversePending(h)
    /\ isOnline(h.to)
    /\ clock' = clock + 1
    /\ pending' = [pending EXCEPT ![pairKey(h.userId, h.to)] = request]
    /\ timers' = IF h.socket = None THEN timers ELSE timers \cup {request}
    /\ UNCHANGED <<conns, active>>

\* The timer of one request acts only if that very request is still there: the
\* same requester may have asked again since.
BadAnyRequest(t) ==
    /\ getPendingSession(t.requesterId, t.targetId) # None
    /\ getPendingSession(t.requesterId, t.targetId).requesterId = t.requesterId
StillPending(t) == getPendingSession(t.requesterId, t.targetId) = t

RequestTimeout(t) ==
    /\ t \in timers
    /\ timers' = timers \ {t}
    /\ pending' = IF StillPending(t)
                  THEN [pending EXCEPT ![pairKey(t.requesterId, t.targetId)] = None]
                  ELSE pending
    /\ UNCHANGED <<conns, active, asking, clock>>

-----------------------------------------------------------------------------
(* session:respond                                                         *)

\* An answer without a matching request is ignored.
Answerable(s, peer) ==
    /\ sockState[s] = "open"
    /\ sockUser[s] \notin {None, peer}
    /\ getPendingSession(peer, sockUser[s]) # None
    /\ getPendingSession(peer, sockUser[s]).requesterId = peer
    /\ getPendingSession(peer, sockUser[s]).targetId = sockUser[s]

SessionRespond(s, peer, accept) ==
    /\ Answerable(s, peer)
    /\ resolveSession(sockUser[s], peer, accept)
    /\ UNCHANGED <<conns, asking, timers, clock>>

-----------------------------------------------------------------------------

\* What the relay does by itself, once the awaited reply or the timer is there.
Server ==
    \/ \E s \in Sockets, u \in Users : AuthVerified(s, u) \/ AuthRejected(s, u)
    \/ \E h \in asking : \/ NotApproved(h)
                         \/ AlreadyActive(h)
                         \/ GlareAccept(h)
                         \/ TargetOffline(h)
                         \/ RecordRequest(h)
    \/ \E t \in timers : RequestTimeout(t)

Clients ==
    \/ \E s \in Sockets, u \in Users : Authenticate(s, u)
    \/ \E s \in Sockets : SocketClosed(s)
    \/ \E s \in Sockets, to \in Users : SessionRequest(s, to)
    \/ \E s \in Sockets, peer \in Users, accept \in BOOLEAN : SessionRespond(s, peer, accept)

Next == Server \/ Clients

Spec == Init /\ [][Next]_vars

-----------------------------------------------------------------------------
(* Properties                                                              *)

\* A pair of users is never both in a session and waiting for one, whatever
\* the order in which crossing requests, answers and reconnects are handled.
\* Without it the decline of a forgotten request would cut a running session
\* (resolveSession removes the pair key from activeSessions too).
PendingXorActive == \A k \in active : pending[k] = None

\* A pending request always waits for someone the relay has a connection for
\* (index.ts, "Can't ask someone who isn't here"), although the approval check
\* awaits between the frame and the record, and users come and go.
PendingTargetOnline ==
    \A k \in PairKeys : pending[k] # None => connections[pending[k].targetId] # None

\* At least one end of every open session is connected; that the other one is
\* too is what OpenSessionBothOnline says, and the relay does not ensure it.
OpenSessionHasEnd == \A k \in active : \E u \in k : connections[u] # None

\* Whoever was asked opens the session: its own request crosses the other one, or
\* it accepts on a socket of its own.  Asking twice, or answering for the other
\* side, opens nothing.
OpenedByTarget ==
    [][\A k \in active' \ active :
          /\ pending[k] # None
          /\ \/ \E h \in asking \ asking' :
                    h.userId = pending[k].targetId /\ h.to = pending[k].requesterId
             \/ \E s \in Sockets :
                    /\ sockUser[s] = pending[k].targetId
                    /\ SessionRespond(s, pending[k].requesterId, TRUE)]_vars

\* Only the close of the very socket a user is registered with takes the user
\* offline: the belated close of a replaced socket evicts nobody.
OnlyOwnCloseEvicts ==
    [][\A u \in Users : (connections[u] # None /\ connections'[u] = None)
          => /\ sockState[connections[u]] = "open"
             /\ sockState'[connections[u]] = "closed"]_vars

\* A timer never removes a request other than the one it was armed for: a
\* request that was sent again keeps its full 60 seconds.
TimeoutHitsOwnRequest ==
    [][\A t \in timers \ timers' : \A k \in PairKeys :
          pending'[k] # pending[k] => pending[k] = t]_vars

\* The relay implements ChatConsent: a user has agreed to a session when it is
\* active or when the request is theirs.
onlineUserIds == {u \in Users : connections[u] # None}
Agreed(k) == IF k \in active THEN k
             ELSE IF pending[k] # None THEN {pending[k].requesterId} ELSE {}
Consent == INSTANCE ChatConsent WITH
    online <- onlineUserIds, agreed <- [k \in PairKeys |-> Agreed(k)]
ImplementsConsent == Consent!Spec

-----------------------------------------------------------------------------
(* What comments of the code say and the code does not do: TLC finds a     *)
(* counterexample of each, under the .cfg that lists it.                   *)

\* state.ts 108-112: in a session "both people have been continuously
\* connected to the relay since the session was last accepted.  The moment
\* either side disconnects, the session is gone".
OpenSessionBothOnline == \A k \in active : \A u \in k : connections[u] # None

\* state.ts 172, of onlineUserIds: "Every currently-connected userId".
OnlineMeansConnected ==
    \A u \in Users : connections[u] # None => sockState[connections[u]] = "open"

\* index.ts 788-791: the target has a limited time to accept or decline
\* "before the requester is told there's been no response".
EveryRequestTimed == \A k \in PairKeys : pending[k] # None => pending[k] \in timers

=============================================================================
