--------------------------- MODULE SessionsProofs ---------------------------
(***************************************************************************)
(* Proofs about the chat sessions of the relay, for any number of users,   *)
(* sockets and requests.                                                   *)
(*                                                                         *)
(* RelaySessions: type correctness, the inductive invariant behind the     *)
(* safety properties, the action properties, and that the relay implements *)
(* ChatConsent.  ChatSessions: nobody waits for nothing.                   *)
(***************************************************************************)
EXTENDS ChatSessions, TLAPS

-----------------------------------------------------------------------------
(* The relay's chat sessions.                                              *)

\* A pending request is stored under the key of its two, different, users.
PendingKeyed ==
    \A k \in PairKeys : pending[k] # None =>
        /\ k = pairKey(pending[k].requesterId, pending[k].targetId)
        /\ pending[k].requesterId # pending[k].targetId

\* Nobody asks for a session with themselves, so every key used is a pair key.
DistinctUsers ==
    /\ \A h \in asking : h.userId # h.to
    /\ \A t \in timers : t.requesterId # t.targetId

\* The inductive invariant: the three safety properties need each other, and
\* all of them need to know whose key a request is stored under.
IInv ==
    /\ TypeOK
    /\ PendingKeyed
    /\ DistinctUsers
    /\ PendingXorActive
    /\ PendingTargetOnline
    /\ OpenSessionHasEnd

-----------------------------------------------------------------------------

LEMMA PairKeyFacts ==
    /\ \A a, b \in Users : a # b => pairKey(a, b) \in PairKeys
    /\ \A k \in PairKeys : \A u \in k : u \in Users
BY DEF PairKeys, pairKey

LEMMA InitIInv == Init => IInv
BY NoneAssumption DEF Init, IInv, TypeOK, PendingKeyed, DistinctUsers, PendingXorActive,
   PendingTargetOnline, OpenSessionHasEnd

LEMMA TypePreserved == TypeOK /\ DistinctUsers /\ [Next]_vars => TypeOK'
<1> SUFFICES ASSUME TypeOK, DistinctUsers, [Next]_vars PROVE TypeOK'
  OBVIOUS
<1> USE DEF TypeOK, conns, sessions
<1>1. ASSUME NEW s \in Sockets, NEW u \in Users, Authenticate(s, u) PROVE TypeOK'
  BY <1>1 DEF Authenticate
<1>2. ASSUME NEW s \in Sockets, NEW u \in Users, AuthVerified(s, u) PROVE TypeOK'
  BY <1>2 DEF AuthVerified
<1>3. ASSUME NEW s \in Sockets, NEW u \in Users, AuthRejected(s, u) PROVE TypeOK'
  BY <1>3 DEF AuthRejected
<1>4. ASSUME NEW s \in Sockets, SocketClosed(s) PROVE TypeOK'
  <2>1. CASE isRegistered(sockUser[s], s)
    BY <1>4, <2>1 DEF SocketClosed, clearSessionsFor
  <2>2. CASE ~isRegistered(sockUser[s], s)
    BY <1>4, <2>2 DEF SocketClosed
  <2>3. QED BY <2>1, <2>2
<1>5. ASSUME NEW s \in Sockets, NEW to \in Users, SessionRequest(s, to) PROVE TypeOK'
  BY <1>5 DEF SessionRequest, Asking
<1>6. ASSUME NEW h \in asking, NotApproved(h) \/ AlreadyActive(h) \/ TargetOffline(h)
      PROVE  TypeOK'
  BY <1>6 DEF NotApproved, AlreadyActive, TargetOffline, Finish
<1>7. ASSUME NEW h \in asking, GlareAccept(h) PROVE TypeOK'
  <2>1. pairKey(h.userId, h.to) \in PairKeys
    BY PairKeyFacts DEF DistinctUsers, Asking
  <2>2. QED BY <1>7, <2>1 DEF GlareAccept, Finish, resolveSession
<1>8. ASSUME NEW h \in asking, RecordRequest(h) PROVE TypeOK'
  <2>1. [requesterId |-> h.userId, targetId |-> h.to, requestedAt |-> clock] \in PendingSession
    BY DEF Asking, PendingSession
  <2>2. pending' \in [PairKeys -> PendingSession \cup {None}]
    BY <1>8, <2>1 DEF RecordRequest
  <2>3. timers' \subseteq PendingSession /\ clock' \in Nat /\ asking' \subseteq Asking
    BY <1>8, <2>1 DEF RecordRequest, Finish
  <2>4. QED BY <1>8, <2>2, <2>3 DEF RecordRequest
<1>9. ASSUME NEW t \in timers, RequestTimeout(t) PROVE TypeOK'
  BY <1>9 DEF RequestTimeout
<1>10. ASSUME NEW s \in Sockets, NEW peer \in Users, NEW accept \in BOOLEAN,
              SessionRespond(s, peer, accept)
       PROVE  TypeOK'
  <2>1. sockUser[s] \in Users /\ sockUser[s] # peer
    BY <1>10 DEF SessionRespond, Answerable
  <2>2. pairKey(sockUser[s], peer) \in PairKeys
    BY <2>1, PairKeyFacts
  <2>3. QED BY <1>10, <2>2 DEF SessionRespond, Answerable, resolveSession
<1>11. CASE UNCHANGED vars
  BY <1>11 DEF vars
<1>12. QED
  BY <1>1, <1>2, <1>3, <1>4, <1>5, <1>6, <1>7, <1>8, <1>9, <1>10, <1>11
     DEF Next, Server, Clients

\* What resolveSession leaves of the requests and of the sessions.
LEMMA ResolveEffect ==
    ASSUME TypeOK, NEW a \in Users, NEW b \in Users, a # b,
           NEW ok \in BOOLEAN, resolveSession(a, b, ok)
    PROVE  /\ pairKey(a, b) \in PairKeys
           /\ \A k \in PairKeys : pending'[k] = IF k = pairKey(a, b) THEN None ELSE pending[k]
           /\ active' \subseteq active \cup {pairKey(a, b)}
           /\ active' \subseteq PairKeys
BY PairKeyFacts DEF TypeOK, resolveSession

\* The invariant but for the connections: how pending requests, sessions and
\* the handlers in flight relate.
LEMMA KeysPreserved ==
    IInv /\ [Next]_vars => PendingKeyed' /\ DistinctUsers' /\ PendingXorActive'
<1> SUFFICES ASSUME IInv, [Next]_vars
             PROVE  PendingKeyed' /\ DistinctUsers' /\ PendingXorActive'
  OBVIOUS
<1> DEFINE Goal == PendingKeyed' /\ DistinctUsers' /\ PendingXorActive'
<1> USE DEF IInv, PendingKeyed, DistinctUsers, PendingXorActive, conns, sessions
<1>2. ASSUME NEW s \in Sockets, SocketClosed(s) PROVE Goal
  <2>1. CASE isRegistered(sockUser[s], s)
    BY <1>2, <2>1 DEF SocketClosed, clearSessionsFor, TypeOK
  <2>2. CASE ~isRegistered(sockUser[s], s)
    BY <1>2, <2>2 DEF SocketClosed
  <2>3. QED BY <2>1, <2>2
<1>3. ASSUME NEW s \in Sockets, NEW to \in Users, SessionRequest(s, to) PROVE Goal
  BY <1>3 DEF SessionRequest
<1>4. ASSUME NEW h \in asking, NotApproved(h) \/ AlreadyActive(h) \/ TargetOffline(h)
      PROVE  Goal
  BY <1>4 DEF NotApproved, AlreadyActive, TargetOffline, Finish
<1>5. ASSUME NEW h \in asking, GlareAccept(h) PROVE Goal
  <2>1. resolveSession(h.userId, h.to, TRUE) /\ asking' \subseteq asking /\ timers' = timers
    BY <1>5 DEF GlareAccept, Finish
  <2>2. h.userId \in Users /\ h.to \in Users /\ h.userId # h.to
    BY DEF TypeOK, Asking
  <2>3. QED BY <2>1, <2>2, ResolveEffect
<1>6. ASSUME NEW h \in asking, RecordRequest(h) PROVE Goal
  <2> DEFINE key == pairKey(h.userId, h.to)
             request == [requesterId |-> h.userId, targetId |-> h.to, requestedAt |-> clock]
  <2>1. /\ h.userId # h.to
        /\ key \notin active
        /\ pending' = [pending EXCEPT ![key] = request]
        /\ asking' = asking \ {h} /\ active' = active
    BY <1>6 DEF RecordRequest, Finish, hasActiveSession
  <2>2. timers' \subseteq timers \cup {request}
    BY <1>6 DEF RecordRequest
  <2>3. PendingKeyed'
    BY <2>1 DEF TypeOK
  <2>4. DistinctUsers'
    BY <2>1, <2>2
  <2>5. PendingXorActive'
    BY <2>1 DEF TypeOK
  <2>6. QED BY <2>3, <2>4, <2>5
<1>7. ASSUME NEW t \in timers, RequestTimeout(t) PROVE Goal
  BY <1>7 DEF RequestTimeout, TypeOK
<1>8. ASSUME NEW s \in Sockets, NEW peer \in Users, NEW accept \in BOOLEAN,
             SessionRespond(s, peer, accept)
      PROVE  Goal
  <2>1. /\ resolveSession(sockUser[s], peer, accept)
        /\ asking' = asking /\ timers' = timers
    BY <1>8 DEF SessionRespond, Answerable
  <2>2. sockUser[s] \in Users /\ sockUser[s] # peer
    BY <1>8 DEF SessionRespond, Answerable, TypeOK
  <2>3. QED BY <2>1, <2>2, ResolveEffect
<1>9. ASSUME NEW s \in Sockets, NEW u \in Users,
             Authenticate(s, u) \/ AuthVerified(s, u) \/ AuthRejected(s, u)
      PROVE  Goal
  BY <1>9 DEF Authenticate, AuthVerified, AuthRejected
<1>10. CASE UNCHANGED vars
  BY <1>10 DEF vars
<1>11. QED
  BY <1>2, <1>3, <1>4, <1>5, <1>6, <1>7, <1>8, <1>9, <1>10 DEF Next, Server, Clients

\* A request or a session never outlives the connection it hangs on: the only
\* step that takes a user offline drops everything the user is part of.
LEMMA OnlinePreserved ==
    IInv /\ TypeOK' /\ PendingKeyed' /\ [Next]_vars => PendingTargetOnline' /\ OpenSessionHasEnd'
<1> SUFFICES ASSUME IInv, TypeOK', PendingKeyed', [Next]_vars
             PROVE  PendingTargetOnline' /\ OpenSessionHasEnd'
  OBVIOUS
<1> DEFINE Goal == PendingTargetOnline' /\ OpenSessionHasEnd'
<1> USE DEF IInv, PendingTargetOnline, OpenSessionHasEnd, conns, sessions
<1>1. ASSUME NEW s \in Sockets, NEW u \in Users, AuthVerified(s, u) PROVE Goal
  <2>1. s # None /\ active' = active /\ pending' = pending
    BY <1>1, NoneAssumption DEF AuthVerified
  <2>2. \A v \in Users : connections[v] # None => connections'[v] # None
    BY <1>1, <2>1 DEF AuthVerified, TypeOK
  <2>3. QED BY <2>1, <2>2, PairKeyFacts DEF TypeOK, PendingSession
<1>2. ASSUME NEW s \in Sockets, SocketClosed(s) PROVE Goal
  <2>1. CASE isRegistered(sockUser[s], s)
    <3> DEFINE u == sockUser[s]
    <3>1. /\ connections' = [connections EXCEPT ![u] = None]
          /\ active' = {k \in active : u \notin k}
          /\ pending' = [k \in PairKeys |-> IF u \in k THEN None ELSE pending[k]]
      BY <1>2, <2>1 DEF SocketClosed, clearSessionsFor
    <3>2. \A v \in Users : v # u => connections'[v] = connections[v]
      BY <3>1 DEF TypeOK
    <3>3. PendingTargetOnline'
      BY <3>1, <3>2 DEF PendingKeyed, pairKey, TypeOK, PendingSession
    <3>4. OpenSessionHasEnd'
      BY <3>1, <3>2, PairKeyFacts DEF TypeOK
    <3>5. QED BY <3>3, <3>4
  <2>2. CASE ~isRegistered(sockUser[s], s)
    BY <1>2, <2>2 DEF SocketClosed
  <2>3. QED BY <2>1, <2>2
<1>3. ASSUME NEW h \in asking, GlareAccept(h) PROVE Goal
  <2>1. /\ resolveSession(h.userId, h.to, TRUE) /\ connections' = connections
        /\ pending[pairKey(h.to, h.userId)] # None
        /\ pending[pairKey(h.to, h.userId)].requesterId = h.to
    BY <1>3 DEF GlareAccept, ReversePending, getPendingSession
  <2>2. h.userId \in Users /\ h.to \in Users /\ h.userId # h.to
    BY DEF TypeOK, Asking, DistinctUsers
  <2>3. connections[h.userId] # None
    BY <2>1, <2>2, PairKeyFacts DEF PendingKeyed, pairKey
  <2>4. PendingTargetOnline'
    BY <2>1, <2>2, ResolveEffect
  <2>5. \A k \in active' : k \in active \/ h.userId \in k
    <3>1. active' \subseteq active \cup {pairKey(h.userId, h.to)}
      BY <2>1 DEF resolveSession
    <3>2. QED BY <3>1 DEF pairKey
  <2>6. QED BY <2>1, <2>3, <2>4, <2>5
<1>4. ASSUME NEW h \in asking, RecordRequest(h) PROVE Goal
  <2> DEFINE key == pairKey(h.userId, h.to)
             request == [requesterId |-> h.userId, targetId |-> h.to, requestedAt |-> clock]
  <2>1. /\ connections[h.to] # None /\ connections' = connections
        /\ pending' = [pending EXCEPT ![key] = request] /\ active' = active
    BY <1>4 DEF RecordRequest, isOnline
  <2>2. QED BY <2>1 DEF TypeOK
<1>5. ASSUME NEW t \in timers, RequestTimeout(t) PROVE Goal
  BY <1>5 DEF RequestTimeout, TypeOK
<1>6. ASSUME NEW s \in Sockets, NEW peer \in Users, NEW accept \in BOOLEAN,
             SessionRespond(s, peer, accept)
      PROVE  Goal
  <2>1. /\ resolveSession(sockUser[s], peer, accept) /\ connections' = connections
        /\ pending[pairKey(peer, sockUser[s])] # None
        /\ pending[pairKey(peer, sockUser[s])].targetId = sockUser[s]
    BY <1>6 DEF SessionRespond, Answerable, getPendingSession
  <2>2. sockUser[s] \in Users /\ sockUser[s] # peer
    BY <1>6 DEF SessionRespond, Answerable, TypeOK
  <2>3. connections[sockUser[s]] # None
    BY <2>1, <2>2, PairKeyFacts
  <2>4. PendingTargetOnline'
    BY <2>1, <2>2, ResolveEffect
  <2>5. \A k \in active' : k \in active \/ sockUser[s] \in k
    BY <2>1, <2>2, ResolveEffect DEF pairKey
  <2>6. QED BY <2>1, <2>3, <2>4, <2>5
<1>7. ASSUME NEW s \in Sockets, NEW u \in Users, Authenticate(s, u) \/ AuthRejected(s, u)
      PROVE  Goal
  BY <1>7 DEF Authenticate, AuthRejected
<1>8. ASSUME NEW s \in Sockets, NEW to \in Users, SessionRequest(s, to) PROVE Goal
  BY <1>8 DEF SessionRequest
<1>9. ASSUME NEW h \in asking, NotApproved(h) \/ AlreadyActive(h) \/ TargetOffline(h)
      PROVE  Goal
  BY <1>9 DEF NotApproved, AlreadyActive, TargetOffline
<1>10. CASE UNCHANGED vars
  BY <1>10 DEF vars
<1>11. QED
  BY <1>1, <1>2, <1>3, <1>4, <1>5, <1>6, <1>7, <1>8, <1>9, <1>10 DEF Next, Server, Clients

LEMMA IInvPreserved == IInv /\ [Next]_vars => IInv'
BY TypePreserved, KeysPreserved, OnlinePreserved DEF IInv

-----------------------------------------------------------------------------

\* In every reachable state of the relay the inductive invariant holds.
THEOREM Invariance == Spec => []IInv
BY InitIInv, IInvPreserved, PTL DEF Spec

\* Type correctness of the connection and session tables of state.ts.
THEOREM TypeCorrect == Spec => []TypeOK
<1>1. IInv => TypeOK BY DEF IInv
<1>2. QED BY <1>1, Invariance, PTL

\* No pair of users is in a session and waiting for one at once.
THEOREM Exclusion == Spec => []PendingXorActive
<1>1. IInv => PendingXorActive BY DEF IInv
<1>2. QED BY <1>1, Invariance, PTL

\* Requests wait for connected users only, and every session has a connected
\* end: index.ts's hard-fail-if-offline rule, across the await and reconnects.
THEOREM Presence == Spec => [](PendingTargetOnline /\ OpenSessionHasEnd)
<1>1. IInv => PendingTargetOnline /\ OpenSessionHasEnd BY DEF IInv
<1>2. QED BY <1>1, Invariance, PTL

\* Only the close of a user's registered socket takes the user offline.
THEOREM Eviction == Spec => OnlyOwnCloseEvicts
<1> DEFINE A == \A u \in Users : (connections[u] # None /\ connections'[u] = None)
                  => /\ sockState[connections[u]] = "open"
                     /\ sockState'[connections[u]] = "closed"
<1>1. TypeOK /\ [Next]_vars => [A]_vars
  <2> SUFFICES ASSUME TypeOK, Next PROVE A
    OBVIOUS
  <2> USE DEF TypeOK
  <2>1. ASSUME NEW s \in Sockets, NEW u \in Users, AuthVerified(s, u) PROVE A
    BY <2>1, NoneAssumption DEF AuthVerified
  <2>2. ASSUME NEW s \in Sockets, SocketClosed(s) PROVE A
    BY <2>2 DEF SocketClosed, isRegistered
  <2>3. CASE connections' = connections
    BY <2>3
  <2>4. QED
    BY <2>1, <2>2, <2>3
       DEF Next, Server, Clients, conns, Authenticate, AuthRejected, SessionRequest, NotApproved,
           AlreadyActive, GlareAccept, TargetOffline, RecordRequest, RequestTimeout, SessionRespond
<1>2. QED BY <1>1, TypeCorrect, PTL DEF Spec, OnlyOwnCloseEvicts

\* A session is opened by the side that was asked, and by nobody else: it
\* follows from the invariant, which says under whose key a request is stored.
THEOREM Opening == Spec => OpenedByTarget
<1> DEFINE By(k) == /\ pending[k] # None
                    /\ \/ \E h \in asking \ asking' :
                              h.userId = pending[k].targetId /\ h.to = pending[k].requesterId
                       \/ \E s \in Sockets :
                              /\ sockUser[s] = pending[k].targetId
                              /\ SessionRespond(s, pending[k].requesterId, TRUE)
           A == \A k \in active' \ active : By(k)
<1>1. IInv /\ [Next]_vars => [A]_vars
  <2> SUFFICES ASSUME IInv, Next, NEW k \in active' \ active PROVE By(k)
    OBVIOUS
  <2> USE DEF IInv
  <2>1. ASSUME NEW h \in asking, GlareAccept(h) PROVE By(k)
    <3>1. h.userId \in Users /\ h.to \in Users /\ h.userId # h.to
      BY DEF TypeOK, Asking, DistinctUsers
    <3>2. resolveSession(h.userId, h.to, TRUE) /\ h \in asking \ asking'
      BY <2>1 DEF GlareAccept, Finish
    <3>3. k = pairKey(h.userId, h.to) /\ k = pairKey(h.to, h.userId) /\ k \in PairKeys
      BY <3>1, <3>2, PairKeyFacts DEF resolveSession, pairKey
    <3>4. pending[k] # None /\ pending[k].requesterId = h.to
      BY <2>1, <3>3 DEF GlareAccept, ReversePending, getPendingSession
    <3>5. pending[k].targetId = h.userId
      BY <3>1, <3>3, <3>4 DEF PendingKeyed, pairKey
    <3>6. QED BY <3>2, <3>4, <3>5
  <2>2. ASSUME NEW s \in Sockets, NEW peer \in Users, NEW accept \in BOOLEAN,
               SessionRespond(s, peer, accept)
        PROVE  By(k)
    <3>1. sockUser[s] \in Users /\ sockUser[s] # peer
      BY <2>2 DEF SessionRespond, Answerable, TypeOK
    <3>2. resolveSession(sockUser[s], peer, accept)
      BY <2>2 DEF SessionRespond
    <3>3. k = pairKey(peer, sockUser[s]) /\ accept = TRUE
      BY <3>1, <3>2 DEF resolveSession, pairKey
    <3>4. /\ pending[k] # None
          /\ pending[k].requesterId = peer
          /\ pending[k].targetId = sockUser[s]
      BY <2>2, <3>3 DEF SessionRespond, Answerable, getPendingSession
    <3>5. SessionRespond(s, pending[k].requesterId, TRUE)
      BY <2>2, <3>3, <3>4
    <3>6. QED BY <3>4, <3>5
  <2>3. CASE active' \subseteq active
    BY <2>3
  <2>4. QED
    BY <2>1, <2>2, <2>3
       DEF Next, Server, Clients, conns, sessions, Authenticate, AuthVerified, AuthRejected,
           SocketClosed, clearSessionsFor, SessionRequest, NotApproved, AlreadyActive,
           TargetOffline, RecordRequest, RequestTimeout
<1>2. QED BY <1>1, Invariance, PTL DEF Spec, OpenedByTarget

\* The timer of a request removes no other request, whichever was recorded for
\* the same two users since.
THEOREM OwnTimeout == Spec => TimeoutHitsOwnRequest
<1> DEFINE A == \A t \in timers \ timers' : \A k \in PairKeys :
                  pending'[k] # pending[k] => pending[k] = t
<1>1. IInv /\ [Next]_vars => [A]_vars
  <2> SUFFICES ASSUME IInv, Next PROVE A
    OBVIOUS
  <2>1. ASSUME NEW t \in timers, RequestTimeout(t) PROVE A
    <3> SUFFICES ASSUME NEW k \in PairKeys, pending'[k] # pending[k] PROVE pending[k] = t
      BY <2>1 DEF RequestTimeout
    <3>1. StillPending(t) /\ pending' = [pending EXCEPT ![pairKey(t.requesterId, t.targetId)] = None]
      BY <2>1 DEF RequestTimeout
    <3>2. k = pairKey(t.requesterId, t.targetId)
      BY <3>1 DEF IInv, TypeOK
    <3>3. QED BY <3>1, <3>2 DEF StillPending, getPendingSession
  <2>2. CASE timers \subseteq timers'
    BY <2>2
  <2>3. QED
    BY <2>1, <2>2
       DEF Next, Server, Clients, conns, sessions, Authenticate, AuthVerified, AuthRejected,
           SocketClosed, SessionRequest, NotApproved, AlreadyActive, GlareAccept, TargetOffline,
           RecordRequest, SessionRespond
<1>2. QED BY <1>1, Invariance, PTL DEF Spec, TimeoutHitsOwnRequest

-----------------------------------------------------------------------------
(* The refinement: every step of the relay is a step of ChatConsent, or    *)
(* leaves what ChatConsent sees alone.                                     *)

agreement == [k \in PairKeys |-> Agreed(k)]

LEMMA SamePairs == Consent!Pairs = PairKeys
BY DEF Consent!Pairs, PairKeys, pairKey

LEMMA AgreedCases ==
    ASSUME IInv, NEW k \in PairKeys
    PROVE  /\ k \in active => pending[k] = None /\ Agreed(k) = k
           /\ k \notin active /\ pending[k] = None => Agreed(k) = {}
           /\ pending[k] # None => /\ Agreed(k) = {pending[k].requesterId}
                                   /\ Agreed(k) = k \ {pending[k].targetId}
                                   /\ Agreed(k) # k
BY DEF IInv, PendingXorActive, PendingKeyed, Agreed, pairKey

LEMMA RefineInit == Init => Consent!Init
BY SamePairs DEF Init, Consent!Init, onlineUserIds, Agreed

LEMMA RefineConnections ==
    ASSUME IInv, IInv', NEW s \in Sockets, NEW u \in Users, AuthVerified(s, u) \/ SocketClosed(s)
    PROVE  [Consent!Next]_<<onlineUserIds, agreement>>
<1> USE DEF IInv, TypeOK, conns, sessions
<1>1. CASE AuthVerified(s, u)
  <2>1. /\ onlineUserIds' = onlineUserIds \cup {u}
        /\ agreement' = agreement
    BY <1>1, NoneAssumption DEF AuthVerified, onlineUserIds, agreement, Agreed
  <2>2. CASE u \in onlineUserIds
    BY <2>1, <2>2
  <2>3. CASE u \notin onlineUserIds
    BY <2>1, <2>3 DEF Consent!Next, Consent!Arrive, agreement
  <2>4. QED BY <2>2, <2>3
<1>2. CASE SocketClosed(s) /\ isRegistered(sockUser[s], s)
  <2> DEFINE v == sockUser[s]
  <2>1. /\ v \in Users /\ connections[v] # None
        /\ connections' = [connections EXCEPT ![v] = None]
        /\ active' = {k \in active : v \notin k}
        /\ pending' = [k \in PairKeys |-> IF v \in k THEN None ELSE pending[k]]
    BY <1>2, NoneAssumption DEF SocketClosed, clearSessionsFor, isRegistered
  <2>2. v \in onlineUserIds /\ onlineUserIds' = onlineUserIds \ {v}
    BY <2>1 DEF onlineUserIds
  <2>3. agreement' = [k \in PairKeys |-> IF v \in k THEN {} ELSE Agreed(k)]
    BY <2>1 DEF agreement, Agreed
  <2>4. Consent!Leave(v)
    BY <2>2, <2>3, SamePairs DEF Consent!Leave, agreement
  <2>5. QED BY <2>1, <2>4 DEF Consent!Next
<1>3. CASE SocketClosed(s) /\ ~isRegistered(sockUser[s], s)
  BY <1>3 DEF SocketClosed, onlineUserIds, agreement, Agreed
<1>4. QED BY <1>1, <1>2, <1>3

\* Both ways a session opens are the answer of the user who had not agreed yet.
LEMMA RefineAccept ==
    ASSUME IInv, NEW u \in Users, NEW peer \in Users, u # peer,
           pending[pairKey(peer, u)] # None,
           pending[pairKey(peer, u)].requesterId = peer,
           NEW accept \in BOOLEAN, resolveSession(u, peer, accept), connections' = connections
    PROVE  Consent!Next
<1> DEFINE k == pairKey(u, peer)
<1> USE DEF IInv, TypeOK
<1>1. k \in PairKeys /\ pairKey(peer, u) = k
  BY PairKeyFacts DEF pairKey
<1>2. Agreed(k) = {peer} /\ k \ {u} = {peer} /\ Agreed(k) # k
  BY <1>1, AgreedCases DEF pairKey
<1>3. onlineUserIds' = onlineUserIds
  BY DEF onlineUserIds
<1>4. pending' = [pending EXCEPT ![k] = None]
  BY DEF resolveSession
<1>5. CASE accept
  <2>1. active' = active \cup {k}
    BY <1>5 DEF resolveSession
  <2>2. agreement' = [agreement EXCEPT ![k] = k]
    BY <1>1, <1>4, <2>1 DEF agreement, Agreed
  <2>3. Consent!Answer(u, k)
    BY <1>1, <1>2, <1>3, <2>2 DEF Consent!Answer, agreement, pairKey
  <2>4. QED BY <1>1, <2>3, SamePairs DEF Consent!Next
<1>6. CASE ~accept
  <2>1. active' = active \ {k}
    BY <1>6 DEF resolveSession
  <2>2. agreement' = [agreement EXCEPT ![k] = {}]
    BY <1>1, <1>4, <2>1 DEF agreement, Agreed
  <2>3. Consent!Lapse(k)
    BY <1>1, <1>2, <1>3, <2>2 DEF Consent!Lapse, Consent!Open, agreement
  <2>4. QED BY <1>1, <2>3, SamePairs DEF Consent!Next
<1>7. QED BY <1>5, <1>6

LEMMA RefineRecord ==
    ASSUME IInv, NEW h \in asking, RecordRequest(h)
    PROVE  [Consent!Next]_<<onlineUserIds, agreement>>
<1> DEFINE k == pairKey(h.userId, h.to)
           request == [requesterId |-> h.userId, targetId |-> h.to, requestedAt |-> clock]
<1> USE DEF IInv, TypeOK, conns
<1>1. h.userId \in Users /\ h.to \in Users /\ h.userId # h.to
  BY DEF Asking, DistinctUsers
<1>2. k \in PairKeys /\ pairKey(h.to, h.userId) = k
  BY <1>1, PairKeyFacts DEF pairKey
<1>3. /\ k \notin active /\ active' = active /\ connections' = connections
      /\ ~ReversePending(h) /\ isOnline(h.to)
      /\ pending' = [pending EXCEPT ![k] = request]
  BY <1>2, RecordRequest(h) DEF RecordRequest, hasActiveSession
<1>4. onlineUserIds' = onlineUserIds /\ h.to \in onlineUserIds
  BY <1>1, <1>3 DEF onlineUserIds, isOnline
<1>5. request # None
  BY <1>1, NoneAssumption DEF PendingSession
<1>6. agreement' = [agreement EXCEPT ![k] = {h.userId}]
  BY <1>2, <1>3, <1>5 DEF agreement, Agreed
<1>7. CASE pending[k] = None
  <2>1. agreement[k] = {} /\ k \ {h.userId} = {h.to} /\ h.userId \in k
    BY <1>1, <1>2, <1>3, <1>7 DEF agreement, Agreed, pairKey
  <2>2. Consent!Ask(h.userId, k)
    BY <1>4, <1>6, <2>1 DEF Consent!Ask, agreement
  <2>3. QED BY <1>1, <1>2, <2>2, SamePairs DEF Consent!Next
<1>8. CASE pending[k] # None
  <2>1. pending[k].requesterId # h.to
    BY <1>2, <1>3, <1>8 DEF ReversePending, getPendingSession
  <2>2. pending[k].requesterId = h.userId
    BY <1>2, <1>8, <2>1 DEF PendingKeyed, pairKey
  <2>3. agreement[k] = {h.userId}
    BY <1>2, <1>8, <2>2, AgreedCases DEF agreement
  <2>4. agreement' = agreement
    BY <1>6, <2>3 DEF agreement
  <2>5. QED BY <1>4, <2>4
<1>9. QED BY <1>7, <1>8

LEMMA RefineTimeout ==
    ASSUME IInv, NEW t \in timers, RequestTimeout(t)
    PROVE  [Consent!Next]_<<onlineUserIds, agreement>>
<1> DEFINE k == pairKey(t.requesterId, t.targetId)
<1> USE DEF IInv, TypeOK, conns
<1>1. onlineUserIds' = onlineUserIds /\ active' = active
  BY RequestTimeout(t) DEF RequestTimeout, onlineUserIds
<1>2. k \in PairKeys
  BY PairKeyFacts DEF DistinctUsers, PendingSession
<1>3. CASE StillPending(t)
  <2>1. pending[k] # None /\ pending' = [pending EXCEPT ![k] = None]
    BY <1>3, NoneAssumption, RequestTimeout(t) DEF RequestTimeout, StillPending, getPendingSession
  <2>2. k \notin active /\ Agreed(k) # k
    BY <1>2, <2>1, AgreedCases
  <2>3. agreement' = [agreement EXCEPT ![k] = {}]
    BY <1>1, <1>2, <2>1, <2>2 DEF agreement, Agreed
  <2>4. Consent!Lapse(k)
    BY <1>1, <1>2, <2>2, <2>3 DEF Consent!Lapse, Consent!Open, agreement
  <2>5. QED BY <1>2, <2>4, SamePairs DEF Consent!Next
<1>4. CASE ~StillPending(t)
  BY <1>1, <1>4, RequestTimeout(t) DEF RequestTimeout, agreement, Agreed
<1>5. QED BY <1>3, <1>4

LEMMA RefineNext == IInv /\ IInv' /\ [Next]_vars => [Consent!Next]_<<onlineUserIds, agreement>>
<1> SUFFICES ASSUME IInv, IInv', [Next]_vars
             PROVE  [Consent!Next]_<<onlineUserIds, agreement>>
  OBVIOUS
<1> USE DEF conns, sessions
<1>1. ASSUME NEW h \in asking, GlareAccept(h) PROVE Consent!Next
  <2>1. h.userId \in Users /\ h.to \in Users /\ h.userId # h.to
    BY DEF IInv, TypeOK, Asking, DistinctUsers
  <2>2. /\ pending[pairKey(h.to, h.userId)] # None
        /\ pending[pairKey(h.to, h.userId)].requesterId = h.to
        /\ resolveSession(h.userId, h.to, TRUE) /\ connections' = connections
    BY <1>1 DEF GlareAccept, ReversePending, getPendingSession
  <2>3. QED BY <2>1, <2>2, RefineAccept
<1>2. ASSUME NEW s \in Sockets, NEW peer \in Users, NEW accept \in BOOLEAN,
             SessionRespond(s, peer, accept)
      PROVE  Consent!Next
  <2>1. sockUser[s] \in Users /\ sockUser[s] # peer
    BY <1>2 DEF SessionRespond, Answerable, IInv, TypeOK
  <2>2. /\ pending[pairKey(peer, sockUser[s])] # None
        /\ pending[pairKey(peer, sockUser[s])].requesterId = peer
        /\ resolveSession(sockUser[s], peer, accept) /\ connections' = connections
    BY <1>2 DEF SessionRespond, Answerable, getPendingSession
  <2>3. QED BY <2>1, <2>2, RefineAccept
<1>3. CASE UNCHANGED <<connections, active, pending>>
  BY <1>3 DEF onlineUserIds, agreement, Agreed
<1>4. ASSUME NEW s \in Sockets, NEW u \in Users, Authenticate(s, u) \/ AuthRejected(s, u)
      PROVE  UNCHANGED <<connections, active, pending>>
  BY <1>4 DEF Authenticate, AuthRejected
<1>5. ASSUME NEW s \in Sockets, NEW to \in Users, SessionRequest(s, to)
      PROVE  UNCHANGED <<connections, active, pending>>
  BY <1>5 DEF SessionRequest
<1>6. ASSUME NEW h \in asking, NotApproved(h) \/ AlreadyActive(h) \/ TargetOffline(h)
      PROVE  UNCHANGED <<connections, active, pending>>
  BY <1>6 DEF NotApproved, AlreadyActive, TargetOffline
<1>7. ASSUME NEW s \in Sockets, SocketClosed(s)
      PROVE  [Consent!Next]_<<onlineUserIds, agreement>>
  <2>1. CASE isRegistered(sockUser[s], s)
    BY <1>7, <2>1, RefineConnections DEF isRegistered, IInv, TypeOK
  <2>2. CASE ~isRegistered(sockUser[s], s)
    BY <1>7, <2>2, <1>3 DEF SocketClosed
  <2>3. QED BY <2>1, <2>2
<1>8. ASSUME UNCHANGED vars PROVE UNCHANGED <<connections, active, pending>>
  BY <1>8 DEF vars
<1>9. QED
  BY <1>1, <1>2, <1>3, <1>4, <1>5, <1>6, <1>7, <1>8, RefineConnections, RefineRecord,
     RefineTimeout
     DEF Next, Server, Clients

\* The relay implements ChatConsent: whatever the interleaving of handlers,
\* timers and reconnects, a session opens by two agreements in separate steps
\* and ends when, and only when, the relay sees one of the two leave.
THEOREM Refinement == Spec => ImplementsConsent
<1>1. Init => Consent!Init
  BY RefineInit
<1>2. IInv /\ IInv' /\ [Next]_vars =>
        [Consent!Next]_<<onlineUserIds, [k \in PairKeys |-> Agreed(k)]>>
  BY RefineNext DEF agreement
<1>3. QED
  BY <1>1, <1>2, Invariance, PTL DEF Spec, ImplementsConsent, Consent!Spec

-----------------------------------------------------------------------------
(* The chat screens that wait (ChatSessions), while verifications are      *)
(* answered in turn (ChecksInTurn; one that is overtaken registers the     *)
(* user with a socket that the app has left for one already registered).   *)
(*                                                                         *)
(* The invariant (ChatInv) says what a screen will show when all that is   *)
(* on the wire is read (WillWait), and that the relay owes an answer for   *)
(* every "Waiting for ..." of it (Owed): the request is being checked, on  *)
(* the very socket the app has, or it is recorded with its timer.  A step  *)
(* that ends either also writes an event about the chat to that socket;    *)
(* the rest of the invariant is what makes the user's registered socket    *)
(* the one the app reads.                                                  *)

SaysOk(q) == \E i \in 1..Len(q) : q[i].type = "auth:ok"
Asked(q) == \E i \in 1..Len(q) : q[i].type = "session:requested"

\* A socket nobody has opened has served for nothing.
NewUntouched ==
    \A s \in Sockets : sockState[s] = "new" =>
        /\ wire[s] = <<>> /\ sockUser[s] = None
        /\ \A u \in Users : <<s, u>> \notin verifying /\ device[u] # s /\ connections[u] # s
        /\ \A h \in asking : h.socket # s

\* A token in verification is not answered; if its socket is still the device's,
\* the app has not been told that it is good.
VerifyingAlone ==
    \A s \in Sockets, u \in Users : <<s, u>> \in verifying =>
        /\ sockUser[s] = None /\ (device[u] = s => ~linked[u]) /\ ~SaysOk(wire[s])
        /\ \A w \in Users : device[w] = s \/ <<s, w>> \in verifying => w = u

\* A registered socket is its user's, and a device's socket nobody else's.
SocketsOwn ==
    /\ \A u \in Users : connections[u] # None => sockUser[connections[u]] = u
    /\ \A u, w \in Users : device[u] # None /\ device[u] = device[w] => u = w

\* Who was told that the token is good is registered with the socket, until it
\* closes; an app that was not told has not been heard.
LinkedRegistered ==
    \A u \in Users :
        /\ linked[u] => device[u] # None
        /\ device[u] # None /\ sockState[device[u]] = "open" /\ (linked[u] \/ SaysOk(wire[device[u]]))
              => connections[u] = device[u]
        /\ device[u] # None /\ ~linked[u] => ~Asked(wire[device[u]])

\* A request comes from a socket, and from its device while that is there.
AskedOnSocket ==
    \A h \in asking :
        /\ h.socket # None
        /\ \A u \in Users : device[u] = h.socket => u = h.userId /\ linked[u]

\* The chat screen will say "Waiting for v" when what is on the wire is read.
About(e, v) ==
    \/ e.type = "auth:ok"
    \/ /\ e.peer = v
       /\ e.type \in {"session:requested", "session:accepted", "session:rejected",
                      "session:request_failed"}
WillWait(q, p, v) ==
    \/ p = "pending" /\ \A i \in 1..Len(q) : ~About(q[i], v)
    \/ \E i \in 1..Len(q) : /\ q[i].type = "session:requested" /\ q[i].peer = v
                            /\ \A j \in (i + 1)..Len(q) : ~About(q[j], v)

\* Then the request waits for its check at the relay, or is recorded with its timer.
Recorded(u, v) == getPendingSession(u, v) \in {t \in timers : t.requesterId = u}
Owed(u, v) ==
    \/ \E h \in asking : h.userId = u /\ h.to = v /\ h.socket = device[u]
    \/ Recorded(u, v)
Heard(u) == linked[u] /\ sockState[device[u]] = "open"
WaitsOwed ==
    \A u, v \in Users :
        Heard(u) /\ WillWait(wire[device[u]], session[u][v], v) => u # v /\ Owed(u, v)

ChatInv ==
    /\ IInv /\ MirrorTypeOK /\ NewUntouched /\ VerifyingAlone /\ SocketsOwn
    /\ LinkedRegistered /\ AskedOnSocket /\ WaitsOwed

\* Reading an event, and writing one.
LEMMA AppendAt ==
    ASSUME NEW q \in Seq(ServerEvent), NEW e \in ServerEvent
    PROVE  /\ Len(q) \in Nat /\ Len(Append(q, e)) = Len(q) + 1 /\ Append(q, e)[Len(q) + 1] = e
           /\ \A i \in 1..Len(q) : Append(q, e)[i] = q[i]
OBVIOUS

\* An event that is written says what it says, and nothing more.
LEMMA AppendSays ==
    ASSUME NEW q \in Seq(ServerEvent), NEW e \in ServerEvent
    PROVE  /\ SaysOk(Append(q, e)) => SaysOk(q) \/ e.type = "auth:ok"
           /\ Asked(Append(q, e)) => Asked(q) \/ e.type = "session:requested"
<1> DEFINE a == Append(q, e)
<1>1. /\ Len(q) \in Nat /\ Len(a) = Len(q) + 1 /\ a[Len(q) + 1] = e
      /\ \A i \in 1..Len(q) : a[i] = q[i]
  BY AppendAt
<1>2. \A i \in 1..Len(a) : i \in 1..Len(q) \/ i = Len(q) + 1
  BY <1>1
<1> HIDE DEF a
<1>3. \A i \in 1..Len(a) : (i \in 1..Len(q) /\ a[i] = q[i]) \/ a[i] = e
  BY <1>1, <1>2
<1>4. SaysOk(a) => SaysOk(q) \/ e.type = "auth:ok"
  BY <1>3 DEF SaysOk
<1>5. Asked(a) => Asked(q) \/ e.type = "session:requested"
  BY <1>3 DEF Asked
<1> QED BY <1>4, <1>5 DEF a

\* What is written last decides, if it is about the chat.
LEMMA AppendWait ==
    ASSUME NEW q \in Seq(ServerEvent), NEW e \in ServerEvent, NEW p, NEW v,
           WillWait(Append(q, e), p, v)
    PROVE  \/ e.type = "session:requested" /\ e.peer = v
           \/ ~About(e, v) /\ WillWait(q, p, v)
<1> DEFINE a == Append(q, e)
           n == Len(q)
<1>1. /\ n \in Nat /\ Len(a) = n + 1 /\ a[n + 1] = e /\ \A i \in 1..n : a[i] = q[i]
  BY AppendAt
<1>2. WillWait(a, p, v)
  OBVIOUS
<1> HIDE DEF a
<1>3. CASE p = "pending" /\ \A i \in 1..Len(a) : ~About(a[i], v)
  <2>1. \A i \in 1..(n + 1) : ~About(a[i], v)
    BY <1>1, <1>3
  <2>2. ~About(a[n + 1], v)
    BY <1>1, <2>1
  <2>3. \A i \in 1..n : ~About(q[i], v)
    BY <1>1, <2>1
  <2> QED BY <1>1, <1>3, <2>2, <2>3 DEF WillWait
<1>4. CASE \E i \in 1..Len(a) : /\ a[i].type = "session:requested" /\ a[i].peer = v
                                /\ \A j \in (i + 1)..Len(a) : ~About(a[j], v)
  <2>1. PICK i \in 1..(n + 1) : /\ a[i].type = "session:requested" /\ a[i].peer = v
                                /\ \A j \in (i + 1)..(n + 1) : ~About(a[j], v)
    BY <1>1, <1>4
  <2>2. CASE i = n + 1
    BY <1>1, <2>1, <2>2
  <2>3. CASE i # n + 1
    <3>1. i \in 1..n /\ n + 1 \in (i + 1)..(n + 1) /\ \A j \in (i + 1)..n : j \in (i + 1)..(n + 1) /\ j \in 1..n
      BY <1>1, <2>3
    <3>2. ~About(a[n + 1], v) /\ \A j \in (i + 1)..n : ~About(a[j], v)
      BY <2>1, <3>1
    <3>3. \A j \in (i + 1)..n : ~About(q[j], v)
      BY <1>1, <3>1, <3>2
    <3>4. q[i].type = "session:requested" /\ q[i].peer = v
      BY <1>1, <2>1, <3>1
    <3>5. WillWait(q, p, v)
      BY <3>1, <3>3, <3>4 DEF WillWait
    <3> QED BY <1>1, <3>2, <3>5
  <2> QED BY <2>2, <2>3
<1> QED BY <1>2, <1>3, <1>4 DEF WillWait

\* What is left when the first event has been read.
LEMMA TailAt ==
    ASSUME NEW q \in Seq(ServerEvent), q # <<>>
    PROVE  /\ Len(q) \in Nat /\ Len(q) >= 1 /\ Head(q) = q[1] /\ Head(q) \in ServerEvent
           /\ Tail(q) \in Seq(ServerEvent) /\ Len(Tail(q)) = Len(q) - 1
           /\ \A i \in 1..(Len(q) - 1) : Tail(q)[i] = q[i + 1]
OBVIOUS

\* Reading makes nothing appear.
LEMMA TailSays ==
    ASSUME NEW q \in Seq(ServerEvent), q # <<>>
    PROVE  /\ SaysOk(Tail(q)) => SaysOk(q)
           /\ Head(q).type = "auth:ok" => SaysOk(q)
           /\ Asked(Tail(q)) => Asked(q)
<1> DEFINE t == Tail(q)
           n == Len(q)
<1>1. n \in Nat /\ n >= 1 /\ Head(q) = q[1] /\ Len(t) = n - 1 /\ \A i \in 1..(n - 1) : t[i] = q[i + 1]
  BY TailAt
<1>2. 1 \in 1..n /\ \A i \in 1..Len(t) : i + 1 \in 1..n /\ t[i] = q[i + 1]
  BY <1>1
<1> HIDE DEF t
<1>3. SaysOk(t) => SaysOk(q)
  BY <1>2 DEF SaysOk
<1>4. Head(q).type = "auth:ok" => SaysOk(q)
  BY <1>1, <1>2 DEF SaysOk
<1>5. Asked(t) => Asked(q)
  BY <1>2 DEF Asked
<1> QED BY <1>3, <1>4, <1>5 DEF t

\* The event that is read was counted on.
LEMMA TailWait ==
    ASSUME NEW q \in Seq(ServerEvent), q # <<>>, NEW p, NEW r, NEW v, WillWait(Tail(q), r, v),
           \/ r # "pending"
           \/ r = p /\ ~About(Head(q), v)
           \/ Head(q).type = "session:requested" /\ Head(q).peer = v
    PROVE  WillWait(q, p, v)
<1> DEFINE t == Tail(q)
           n == Len(q)
<1>1. n \in Nat /\ n >= 1 /\ Head(q) = q[1] /\ Len(t) = n - 1 /\ \A i \in 1..(n - 1) : t[i] = q[i + 1]
  BY TailAt
<1>2. WillWait(t, r, v)
  OBVIOUS
<1> HIDE DEF t
<1>3. CASE r = "pending" /\ \A i \in 1..Len(t) : ~About(t[i], v)
  <2>1. \A j \in 2..n : j - 1 \in 1..(n - 1) /\ q[j] = t[j - 1]
    BY <1>1
  <2>2. \A j \in 2..n : ~About(q[j], v)
    BY <1>1, <1>3, <2>1
  <2>3. CASE Head(q).type = "session:requested" /\ Head(q).peer = v
    <3>1. q[1].type = "session:requested" /\ q[1].peer = v
      BY <1>1, <2>3
    <3>2. 1 \in 1..n /\ \A j \in (1 + 1)..n : ~About(q[j], v)
      BY <1>1, <2>2
    <3> QED BY <3>1, <3>2 DEF WillWait
  <2>4. CASE r = p /\ ~About(Head(q), v)
    <3>1. \A j \in 1..n : j = 1 \/ j \in 2..n
      BY <1>1
    <3>2. \A j \in 1..n : ~About(q[j], v)
      BY <1>1, <2>2, <2>4, <3>1
    <3> QED BY <1>3, <2>4, <3>2 DEF WillWait
  <2> QED BY <1>3, <2>3, <2>4
<1>4. CASE \E i \in 1..Len(t) : /\ t[i].type = "session:requested" /\ t[i].peer = v
                                /\ \A j \in (i + 1)..Len(t) : ~About(t[j], v)
  <2>1. PICK i \in 1..(n - 1) : /\ t[i].type = "session:requested" /\ t[i].peer = v
                                /\ \A j \in (i + 1)..(n - 1) : ~About(t[j], v)
    BY <1>1, <1>4
  <2>2. i + 1 \in 1..n /\ \A j \in ((i + 1) + 1)..n : j - 1 \in (i + 1)..(n - 1) /\ j - 1 \in 1..(n - 1) /\ (j - 1) + 1 = j
    BY <1>1
  <2>3. \A j \in ((i + 1) + 1)..n : q[j] = t[j - 1]
    BY <1>1, <2>2
  <2>4. \A j \in ((i + 1) + 1)..n : ~About(q[j], v)
    BY <2>1, <2>2, <2>3
  <2>5. q[i + 1].type = "session:requested" /\ q[i + 1].peer = v
    BY <1>1, <2>1
  <2> QED BY <2>2, <2>4, <2>5 DEF WillWait
<1> QED BY <1>2, <1>3, <1>4 DEF WillWait

\* What a handler writes reaches the sockets that are read.
LEMMA PostEffect ==
    ASSUME MirrorTypeOK, NEW msgs, Post(msgs), \A m \in msgs : m.event \in ServerEvent
    PROVE  /\ wire' \in [Sockets -> Seq(ServerEvent)]
           /\ \A x \in Sockets :
                 \/ wire'[x] = wire[x] /\ (Readable(x) => \A m \in msgs : m.socket # x)
                 \/ Readable(x) /\ \E m \in msgs : m.socket = x /\ wire'[x] = Append(wire[x], m.event)
<1> DEFINE M(x) == CHOOSE m \in msgs : m.socket = x
           Writes(x) == Readable(x) /\ \E m \in msgs : m.socket = x
           New(x) == IF Writes(x) THEN Append(wire[x], M(x).event) ELSE wire[x]
<1>1. wire' = [x \in Sockets |-> New(x)]
  BY DEF Post
<1>2. \A x \in Sockets : wire'[x] = New(x) /\ wire[x] \in Seq(ServerEvent)
  BY <1>1 DEF MirrorTypeOK
<1>3. \A x \in Sockets : Writes(x) => M(x) \in msgs /\ M(x).socket = x /\ M(x).event \in ServerEvent
  OBVIOUS
<1>4. \A x \in Sockets : New(x) \in Seq(ServerEvent)
  <2> SUFFICES ASSUME NEW x \in Sockets PROVE New(x) \in Seq(ServerEvent)
    OBVIOUS
  <2> HIDE DEF M
  <2>1. CASE Writes(x)
    BY <1>2, <1>3, <2>1
  <2>2. CASE ~Writes(x)
    BY <1>2, <2>2
  <2> QED BY <2>1, <2>2
<1>5. wire' \in [Sockets -> Seq(ServerEvent)]
  <2> HIDE DEF New
  <2> QED BY <1>1, <1>4
<1>6. ASSUME NEW x \in Sockets
      PROVE  \/ wire'[x] = wire[x] /\ (Readable(x) => \A m \in msgs : m.socket # x)
             \/ Readable(x) /\ \E m \in msgs : m.socket = x /\ wire'[x] = Append(wire[x], m.event)
  <2> HIDE DEF M
  <2>1. CASE Writes(x)
    BY <1>2, <1>3, <2>1
  <2>2. CASE ~Writes(x)
    BY <1>2, <2>2
  <2> QED BY <2>1, <2>2
<1> QED BY <1>5, <1>6

\* Some event that is no auth:ok was written; a session:requested only to an app
\* that is connected.
Written(x, e) ==
    /\ Readable(x) /\ e.type # "auth:ok" /\ wire'[x] = Append(wire[x], e)
    /\ e.type = "session:requested" => \E u \in Users : device[u] = x /\ linked[u]
Writes ==
    /\ wire' \in [Sockets -> Seq(ServerEvent)]
    /\ \A x \in Sockets : wire'[x] = wire[x] \/ \E e \in ServerEvent : Written(x, e)

\* A socket may close, and its user's registration end with it.
Closes ==
    /\ \A x \in Sockets : sockState'[x] = sockState[x] \/ (sockState[x] = "open" /\ sockState'[x] = "closed")
    /\ \A u \in Users : \/ connections'[u] = connections[u]
                        \/ connections'[u] = None /\ connections[u] # None
                           /\ sockState'[connections[u]] = "closed"

\* Requests are finished, or come from a connected app.
Asks ==
    \A h \in asking' \ asking :
        \E u \in Users : Heard(u) /\ h.userId = u /\ h.socket = device[u]

\* No sign-in comes with such a step, and a request only for a connected app.
LEMMA WriteSays ==
    ASSUME MirrorTypeOK, Writes, NEW x \in Sockets
    PROVE  /\ wire[x] \in Seq(ServerEvent) /\ wire'[x] \in Seq(ServerEvent)
           /\ SaysOk(wire'[x]) => SaysOk(wire[x])
           /\ Asked(wire'[x]) => Asked(wire[x]) \/ \E u \in Users : device[u] = x /\ linked[u]
           /\ ~Readable(x) => wire'[x] = wire[x]
<1>1. wire[x] \in Seq(ServerEvent) /\ wire'[x] \in Seq(ServerEvent)
  BY DEF MirrorTypeOK, Writes
<1>2. CASE wire'[x] = wire[x]
  BY <1>1, <1>2
<1>3. ASSUME NEW e \in ServerEvent, Written(x, e)
      PROVE  /\ SaysOk(wire'[x]) => SaysOk(wire[x])
             /\ Asked(wire'[x]) => Asked(wire[x]) \/ \E u \in Users : device[u] = x /\ linked[u]
             /\ Readable(x)
  BY <1>1, <1>3, AppendSays DEF Written
<1> QED BY <1>1, <1>2, <1>3 DEF Writes

\* An app that is linked reads the socket its user is registered with, while that is open.
LEMMA LinkedDevice ==
    ASSUME ChatInv, NEW u \in Users, linked[u]
    PROVE  device[u] \in Sockets /\ (sockState[device[u]] = "open" => connections[u] = device[u] /\ sockUser[device[u]] = u)
<1>1. device[u] # None /\ device[u] \in Sockets \cup {None}
  BY DEF ChatInv, LinkedRegistered, MirrorTypeOK
<1>2. sockState[device[u]] = "open" => connections[u] = device[u]
  BY <1>1 DEF ChatInv, LinkedRegistered
<1> QED BY <1>1, <1>2 DEF ChatInv, SocketsOwn

\* What the handlers that change no app leave as it is.
LEMMA OthersKept ==
    ASSUME ChatInv, Writes, Closes, Asks, UNCHANGED <<sockUser, device, linked>>,
           verifying' \subseteq verifying
    PROVE  NewUntouched' /\ VerifyingAlone' /\ SocketsOwn' /\ LinkedRegistered' /\ AskedOnSocket'
<1>0. MirrorTypeOK /\ TypeOK
  BY DEF ChatInv, MirrorTypeOK
<1>1. NewUntouched'
  <2> SUFFICES ASSUME NEW s \in Sockets, sockState'[s] = "new"
               PROVE  /\ wire'[s] = <<>> /\ sockUser'[s] = None
                      /\ \A u \in Users : <<s, u>> \notin verifying' /\ device'[u] # s /\ connections'[u] # s
                      /\ \A h \in asking' : h.socket # s
    BY DEF NewUntouched
  <2>1. sockState[s] = "new"
    BY DEF Closes
  <2>2. /\ wire[s] = <<>> /\ sockUser[s] = None /\ \A h \in asking : h.socket # s
        /\ \A u \in Users : <<s, u>> \notin verifying /\ device[u] # s /\ connections[u] # s
    BY <2>1 DEF ChatInv, NewUntouched
  <2>3. wire'[s] = <<>>
    BY <1>0, <2>1, <2>2, WriteSays DEF Readable
  <2>4. \A u \in Users : connections'[u] # s
    BY <2>2, NoneAssumption DEF Closes
  <2>5. \A h \in asking' : h.socket # s
    BY <2>2 DEF Asks
  <2> QED BY <2>2, <2>3, <2>4, <2>5
<1>2. VerifyingAlone'
  <2>1. \A s \in Sockets : SaysOk(wire'[s]) => SaysOk(wire[s])
    BY <1>0, WriteSays
  <2> QED BY <2>1 DEF ChatInv, VerifyingAlone
<1>3. SocketsOwn'
  BY DEF ChatInv, SocketsOwn, Closes
<1>4. LinkedRegistered'
  <2> SUFFICES ASSUME NEW u \in Users, device[u] # None
               PROVE  /\ sockState'[device[u]] = "open" /\ (linked[u] \/ SaysOk(wire'[device[u]]))
                            => connections'[u] = device[u]
                      /\ ~linked[u] => ~Asked(wire'[device[u]])
    BY DEF LinkedRegistered, ChatInv
  <2>1. device[u] \in Sockets
    BY <1>0 DEF MirrorTypeOK
  <2>2. /\ SaysOk(wire'[device[u]]) => SaysOk(wire[device[u]])
        /\ Asked(wire'[device[u]]) => Asked(wire[device[u]]) \/ \E w \in Users : device[w] = device[u] /\ linked[w]
    BY <1>0, <2>1, WriteSays
  <2>3. ~linked[u] => ~Asked(wire'[device[u]])
    BY <2>2 DEF ChatInv, LinkedRegistered, SocketsOwn
  <2>4. ASSUME sockState'[device[u]] = "open", linked[u] \/ SaysOk(wire'[device[u]])
        PROVE  connections'[u] = device[u]
    <3>1. sockState[device[u]] = "open"
      BY <2>1, <2>4 DEF Closes
    <3>2. connections[u] = device[u]
      BY <3>1, <2>2, <2>4 DEF ChatInv, LinkedRegistered
    <3> QED BY <3>2, <2>4 DEF Closes
  <2> QED BY <2>3, <2>4
<1>5. AskedOnSocket'
  <2> SUFFICES ASSUME NEW h \in asking'
               PROVE  h.socket # None /\ \A u \in Users : device[u] = h.socket => u = h.userId /\ linked[u]
    BY DEF AskedOnSocket
  <2>1. CASE h \in asking
    BY <2>1 DEF ChatInv, AskedOnSocket
  <2>2. CASE h \notin asking
    <3>1. PICK u \in Users : Heard(u) /\ h.userId = u /\ h.socket = device[u]
      BY <2>2 DEF Asks
    <3>2. device[u] \in Sockets
      BY <3>1, LinkedDevice DEF Heard
    <3> QED BY <3>1, <3>2, NoneAssumption DEF Heard, ChatInv, SocketsOwn
  <2> QED BY <2>1, <2>2
<1> QED BY <1>1, <1>2, <1>3, <1>4, <1>5

\* Who will wait after a step, waited before it or is told now.
LEMMA StillWaits ==
    ASSUME ChatInv, NEW u \in Users, NEW v \in Users, Heard(u), NEW p,
           p = session[u][v] \/ p # "pending",
           WillWait(wire'[device[u]], p, v)
    PROVE  /\ wire'[device[u]] = wire[device[u]] => u # v /\ Owed(u, v)
           /\ \A e \in ServerEvent :
                 /\ wire'[device[u]] = Append(wire[device[u]], e)
                 /\ ~(e.type = "session:requested" /\ e.peer = v)
                 => ~About(e, v) /\ u # v /\ Owed(u, v)
<1> DEFINE q == wire[device[u]]
<1>1. q \in Seq(ServerEvent)
  BY LinkedDevice DEF Heard, ChatInv, MirrorTypeOK
<1>2. WillWait(q, p, v) => WillWait(q, session[u][v], v)
  BY DEF WillWait
<1>3. WillWait(q, p, v) => u # v /\ Owed(u, v)
  BY <1>2 DEF ChatInv, WaitsOwed
<1>4. wire'[device[u]] = q => WillWait(q, p, v)
  OBVIOUS
<1>5. ASSUME NEW e \in ServerEvent, wire'[device[u]] = Append(q, e),
             ~(e.type = "session:requested" /\ e.peer = v)
      PROVE  ~About(e, v) /\ WillWait(q, p, v)
  <2>1. WillWait(Append(q, e), p, v)
    BY <1>5
  <2> HIDE DEF q
  <2> QED BY <1>1, <1>5, <2>1, AppendWait
<1> QED BY <1>3, <1>4, <1>5

\* What is owed stays owed if its request is neither finished nor resolved.
LEMMA StaysOwed ==
    ASSUME NEW u \in Users, NEW v \in Users, Owed(u, v), device'[u] = device[u],
           \A h \in asking : h.userId = u /\ h.to = v /\ h.socket = device[u] => h \in asking',
           Recorded(u, v) => Recorded(u, v)'
    PROVE  Owed(u, v)'
BY DEF Owed

\* A request stays recorded while its entry and its timer stay.
LEMMA StaysRecorded ==
    ASSUME NEW u \in Users, NEW v \in Users, Recorded(u, v),
           pending'[pairKey(u, v)] = pending[pairKey(u, v)],
           \A t \in timers : t = pending[pairKey(u, v)] => t \in timers'
    PROVE  Recorded(u, v)'
BY DEF Recorded, getPendingSession, pairKey

\* With the types, all but the debts.
LEMMA QuietKept ==
    ASSUME ChatInv, IInv', Writes, Closes, Asks, sockUser' = sockUser, verifying' \subseteq verifying,
           Quiet, Remember, WaitsOwed'
    PROVE  ChatInv'
<1>1. NewUntouched' /\ VerifyingAlone' /\ SocketsOwn' /\ LinkedRegistered' /\ AskedOnSocket'
  BY OthersKept DEF Quiet
<1>2. MirrorTypeOK'
  BY DEF ChatInv, IInv, MirrorTypeOK, TypeOK, Writes, Quiet, mirror, Remember
<1> QED BY <1>1, <1>2 DEF ChatInv

\* The event for the socket a user is registered with reaches the user's app, and
\* nobody else's.
LEMMA Telling ==
    ASSUME ChatInv, NEW a \in Users, NEW e \in ServerEvent, Post({To(connections[a], e)}),
           e.type \notin {"auth:ok", "session:requested"}
    PROVE  /\ Writes
           /\ \A u \in Users : Heard(u) =>
                 /\ u = a => wire'[device[u]] = Append(wire[device[u]], e)
                 /\ u # a => wire'[device[u]] = wire[device[u]]
<1> DEFINE m == To(connections[a], e)
<1>1. m.socket = connections[a] /\ m.event = e
  BY DEF To
<1>2. /\ wire' \in [Sockets -> Seq(ServerEvent)]
      /\ \A x \in Sockets :
                 \/ wire'[x] = wire[x] /\ (Readable(x) => m.socket # x)
                 \/ Readable(x) /\ m.socket = x /\ wire'[x] = Append(wire[x], m.event)
  <2>1. \A n \in {m} : n.event \in ServerEvent
    BY <1>1
  <2>2. MirrorTypeOK /\ Post({m})
    BY DEF ChatInv
  <2> HIDE DEF m
  <2> QED BY <2>1, <2>2, PostEffect
<1> HIDE DEF m
<1>3. Writes
  BY <1>1, <1>2 DEF Writes, Written
<1>4. ASSUME NEW u \in Users, Heard(u)
      PROVE  /\ u = a => wire'[device[u]] = Append(wire[device[u]], e)
             /\ u # a => wire'[device[u]] = wire[device[u]]
  <2>1. device[u] \in Sockets /\ connections[u] = device[u] /\ sockUser[device[u]] = u
    BY <1>4, LinkedDevice DEF Heard
  <2>2. Readable(device[u])
    BY <1>4 DEF Heard, Readable
  <2>3. u # a => connections[a] # device[u]
    BY <2>1, NoneAssumption DEF ChatInv, SocketsOwn
  <2> QED BY <1>1, <1>2, <2>1, <2>2, <2>3
<1> QED BY <1>3, <1>4

\* The answer to a request reaches the app that asked, on the socket it asked on,
\* and what the other is told reaches only the other.
Answers(h, T, S, both) ==
    /\ Writes
    /\ \A u \in Users : Heard(u) =>
          /\ device[u] = h.socket =>
                 u = h.userId /\ wire'[device[u]] = Append(wire[device[u]], Event(T, h.to))
          /\ device[u] # h.socket /\ (u # h.to \/ ~both) => wire'[device[u]] = wire[device[u]]
          /\ device[u] # h.socket /\ u = h.to /\ both =>
                 wire'[device[u]] = Append(wire[device[u]], Event(S, h.userId))

LEMMA Answering ==
    ASSUME ChatInv, NEW h \in asking,
           NEW T \in {"session:requested", "session:accepted", "session:request_failed"},
           NEW S \in {"session:request", "session:accepted"}, NEW both \in BOOLEAN, NEW msgs,
           both => msgs = {To(h.socket, Event(T, h.to)), To(connections[h.to], Event(S, h.userId))},
           ~both => msgs = {To(h.socket, Event(T, h.to))},
           Post(msgs)
    PROVE  Answers(h, T, S, both)
<1> DEFINE m == To(h.socket, Event(T, h.to))
           n == To(connections[h.to], Event(S, h.userId))
           e == Event(T, h.to)
           f == Event(S, h.userId)
<1>0. h.userId \in Users /\ h.to \in Users /\ h.userId # h.to /\ h.socket \in Sockets
  BY DEF ChatInv, IInv, DistinctUsers, TypeOK, Asking, AskedOnSocket
<1>1. /\ m.socket = h.socket /\ m.event = e /\ n.socket = connections[h.to] /\ n.event = f
      /\ e.type = T /\ f.type = S /\ e.peer = h.to /\ f.peer = h.userId
  BY DEF To, Event
<1>2. e \in ServerEvent /\ f \in ServerEvent
  BY <1>0 DEF Event, ServerEvent
<1>3. MirrorTypeOK /\ Post(msgs) /\ (~both => msgs = {m}) /\ (both => msgs = {m, n})
  BY DEF ChatInv
<1> HIDE DEF m, n, e, f
<1>4. \A k \in msgs : k.event \in ServerEvent
  BY <1>1, <1>2, <1>3
<1>5. /\ wire' \in [Sockets -> Seq(ServerEvent)]
      /\ \A x \in Sockets :
                 \/ wire'[x] = wire[x] /\ (Readable(x) => \A k \in msgs : k.socket # x)
                 \/ Readable(x) /\ \E k \in msgs : k.socket = x /\ wire'[x] = Append(wire[x], k.event)
  BY <1>3, <1>4, PostEffect
<1>6. ASSUME NEW x \in Sockets
      PROVE  /\ Readable(x) /\ x # h.socket /\ (~both \/ x # connections[h.to]) => wire'[x] = wire[x]
             /\ Readable(x) /\ x = h.socket /\ x # connections[h.to] => wire'[x] = Append(wire[x], e)
             /\ Readable(x) /\ x # h.socket /\ x = connections[h.to] /\ both => wire'[x] = Append(wire[x], f)
             /\ \/ wire'[x] = wire[x]
                \/ Readable(x) /\ wire'[x] = Append(wire[x], e) /\ x = h.socket
                \/ Readable(x) /\ wire'[x] = Append(wire[x], f)
  BY <1>1, <1>3, <1>5
<1>7. Writes
  <2> SUFFICES ASSUME NEW x \in Sockets, wire'[x] # wire[x]
               PROVE  \E g \in ServerEvent : Written(x, g)
    BY <1>5 DEF Writes
  <2>1. CASE Readable(x) /\ wire'[x] = Append(wire[x], e) /\ x = h.socket
    <3>1. \E u \in Users : device[u] = x /\ linked[u]
      BY <2>1 DEF Readable, ChatInv, AskedOnSocket
    <3> QED BY <1>1, <1>2, <2>1, <3>1 DEF Written
  <2>2. CASE Readable(x) /\ wire'[x] = Append(wire[x], f)
    BY <1>1, <1>2, <2>2 DEF Written
  <2> QED BY <1>6, <2>1, <2>2
<1>8. ASSUME NEW u \in Users, Heard(u)
      PROVE  /\ device[u] = h.socket => u = h.userId /\ wire'[device[u]] = Append(wire[device[u]], e)
             /\ device[u] # h.socket /\ (u # h.to \/ ~both) => wire'[device[u]] = wire[device[u]]
             /\ device[u] # h.socket /\ u = h.to /\ both => wire'[device[u]] = Append(wire[device[u]], f)
  <2>1. device[u] \in Sockets /\ connections[u] = device[u] /\ sockUser[device[u]] = u
    BY <1>8, LinkedDevice DEF Heard
  <2>2. Readable(device[u])
    BY <1>8 DEF Heard, Readable
  <2>3. u # h.to => connections[h.to] # device[u]
    BY <1>0, <2>1, NoneAssumption DEF ChatInv, SocketsOwn
  <2>4. device[u] = h.socket => u = h.userId
    BY DEF ChatInv, AskedOnSocket
  <2> QED BY <1>0, <1>6, <2>1, <2>2, <2>3, <2>4
<1> QED BY <1>7, <1>8 DEF m, n, e, f, Answers

\* A handler that finishes touches no connection.
LEMMA NothingOpens ==
    ASSUME sockState' = sockState, connections' = connections, asking' \subseteq asking
    PROVE  Closes /\ Asks
<1>1. Closes
  BY DEF Closes
<1>2. Asks
  BY DEF Asks
<1> QED BY <1>1, <1>2

\* Two users have one key in either order.
LEMMA PairOf ==
    ASSUME NEW a, NEW b, NEW c, NEW d, pairKey(a, b) = pairKey(c, d)
    PROVE  (a = c /\ b = d) \/ (a = d /\ b = c)
<1>1. a \in {c, d} /\ b \in {c, d} /\ c \in {a, b} /\ d \in {a, b}
  BY DEF pairKey
<1>2. (a = c \/ a = d) /\ (b = c \/ b = d) /\ (c = a \/ c = b) /\ (d = a \/ d = b)
  BY <1>1
<1> QED BY <1>2

\* StillWaits for the handlers that leave the screens alone.
LEMMA WaitsQuietly ==
    ASSUME ChatInv, NEW u \in Users, NEW v \in Users, Quiet, sockState' = sockState,
           Heard(u)', WillWait(wire'[device'[u]], session'[u][v], v)
    PROVE  /\ Heard(u) /\ device'[u] = device[u]
           /\ wire'[device[u]] = wire[device[u]] => u # v /\ Owed(u, v)
           /\ \A e \in ServerEvent :
                 /\ wire'[device[u]] = Append(wire[device[u]], e)
                 /\ ~(e.type = "session:requested" /\ e.peer = v)
                 => ~About(e, v) /\ u # v /\ Owed(u, v)
<1>1. Heard(u) /\ device'[u] = device[u] /\ session'[u][v] = session[u][v]
  BY DEF Heard, Quiet, mirror
<1>2. WillWait(wire'[device[u]], session[u][v], v)
  BY <1>1
<1> QED BY <1>1, <1>2, StillWaits

\* The handlers that answer and record nothing.
LEMMA AnsweredKept ==
    ASSUME ChatInv, IInv', NEW h \in asking,
           RelayNotApproved(h) \/ RelayAlreadyActive(h) \/ RelayTargetOffline(h)
    PROVE  ChatInv'
<1>1. /\ asking' = asking \ {h} /\ Quiet /\ Remember
      /\ UNCHANGED <<sockState, sockUser, connections, verifying, active, pending, timers>>
  BY DEF RelayNotApproved, NotApproved, RelayAlreadyActive, AlreadyActive, RelayTargetOffline,
         TargetOffline, Finish, conns, sessions
<1>2. PICK T \in {"session:accepted", "session:request_failed"} : Post({To(h.socket, Event(T, h.to))})
  BY DEF RelayNotApproved, RelayAlreadyActive, RelayTargetOffline
<1>3. /\ Writes
      /\ \A u \in Users : Heard(u) =>
            /\ device[u] = h.socket =>
                   u = h.userId /\ wire'[device[u]] = Append(wire[device[u]], Event(T, h.to))
            /\ device[u] # h.socket => wire'[device[u]] = wire[device[u]]
  <2> DEFINE msgs == {To(h.socket, Event(T, h.to))}
             both == FALSE
  <2>1. Post(msgs) /\ T \in {"session:requested", "session:accepted", "session:request_failed"}
    BY <1>2
  <2>2. msgs = {To(h.socket, Event(T, h.to))} /\ both \in BOOLEAN /\ ~both
    OBVIOUS
  <2> HIDE DEF msgs, both
  <2>3. Answers(h, T, "session:accepted", both)
    BY <2>1, <2>2, Answering
  <2> QED BY <2>2, <2>3 DEF Answers
<1>4. WaitsOwed'
  <2> SUFFICES ASSUME NEW u \in Users, NEW v \in Users, Heard(u)',
                      WillWait(wire'[device'[u]], session'[u][v], v)
               PROVE  u # v /\ Owed(u, v)'
    BY DEF WaitsOwed
  <2>1. /\ Heard(u) /\ device'[u] = device[u]
        /\ wire'[device[u]] = wire[device[u]] => u # v /\ Owed(u, v)
        /\ \A k \in ServerEvent :
              /\ wire'[device[u]] = Append(wire[device[u]], k)
              /\ ~(k.type = "session:requested" /\ k.peer = v)
              => ~About(k, v) /\ u # v /\ Owed(u, v)
    BY <1>1, WaitsQuietly
  <2>2. Event(T, h.to) \in ServerEvent /\ Event(T, h.to).type = T /\ Event(T, h.to).peer = h.to
    BY DEF Event, ServerEvent, ChatInv, IInv, TypeOK, Asking
  <2>3. u # v /\ Owed(u, v) /\ (device[u] = h.socket => v # h.to)
    BY <1>3, <2>1, <2>2 DEF About
  <2>4. Recorded(u, v) => Recorded(u, v)'
    BY <1>1 DEF Recorded, getPendingSession, pairKey
  <2> QED BY <1>1, <2>1, <2>3, <2>4, StaysOwed
<1>5. Closes /\ Asks
  BY <1>1, NothingOpens
<1> QED BY <1>1, <1>3, <1>4, <1>5, QuietKept

\* Crossing requests: both who waited are told.
LEMMA GlareKept ==
    ASSUME ChatInv, IInv', NEW h \in asking, RelayGlareAccept(h)
    PROVE  ChatInv'
<1>1. /\ asking' = asking \ {h} /\ Quiet /\ Remember /\ ReversePending(h)
      /\ resolveSession(h.userId, h.to, TRUE)
      /\ UNCHANGED <<sockState, sockUser, connections, verifying, timers>>
  BY DEF RelayGlareAccept, GlareAccept, Finish, conns
<1>2. h.userId \in Users /\ h.to \in Users /\ h.userId # h.to /\ h.socket # None
  BY DEF ChatInv, IInv, DistinctUsers, TypeOK, Asking, AskedOnSocket
<1> DEFINE e == Event("session:accepted", h.to)
           f == Event("session:accepted", h.userId)
           msgs == {To(h.socket, e), To(connections[h.to], f)}
<1>3. Post(msgs)
  BY <1>2 DEF RelayGlareAccept
<1>4. /\ Writes
      /\ \A u \in Users : Heard(u) =>
            /\ device[u] = h.socket => u = h.userId /\ wire'[device[u]] = Append(wire[device[u]], e)
            /\ device[u] # h.socket /\ u # h.to => wire'[device[u]] = wire[device[u]]
            /\ device[u] # h.socket /\ u = h.to => wire'[device[u]] = Append(wire[device[u]], f)
  <2> DEFINE both == TRUE
             T == "session:accepted"
  <2>1. /\ both => msgs = {To(h.socket, Event(T, h.to)), To(connections[h.to], Event(T, h.userId))}
        /\ ~both => msgs = {To(h.socket, Event(T, h.to))}
        /\ both \in BOOLEAN /\ both /\ e = Event(T, h.to) /\ f = Event(T, h.userId)
        /\ T \in {"session:requested", "session:accepted", "session:request_failed"}
        /\ T \in {"session:request", "session:accepted"}
    OBVIOUS
  <2> HIDE DEF msgs, both, e, f, T
  <2>2. Answers(h, T, T, both)
    BY <1>3, <2>1, Answering
  <2> QED BY <2>1, <2>2 DEF Answers
<1>5. /\ e \in ServerEvent /\ e.type = "session:accepted" /\ e.peer = h.to
      /\ f \in ServerEvent /\ f.type = "session:accepted" /\ f.peer = h.userId
  BY <1>2 DEF Event, ServerEvent
<1>6. \A k \in PairKeys : pending'[k] = IF k = pairKey(h.userId, h.to) THEN None ELSE pending[k]
  BY <1>1, <1>2, ResolveEffect DEF ChatInv, IInv
<1> HIDE DEF e, f
<1>7. WaitsOwed'
  <2> SUFFICES ASSUME NEW u \in Users, NEW v \in Users, Heard(u)',
                      WillWait(wire'[device'[u]], session'[u][v], v)
               PROVE  u # v /\ Owed(u, v)'
    BY DEF WaitsOwed
  <2>1. /\ Heard(u) /\ device'[u] = device[u]
        /\ wire'[device[u]] = wire[device[u]] => u # v /\ Owed(u, v)
        /\ \A k \in ServerEvent :
              /\ wire'[device[u]] = Append(wire[device[u]], k)
              /\ ~(k.type = "session:requested" /\ k.peer = v)
              => ~About(k, v) /\ u # v /\ Owed(u, v)
    BY <1>1, WaitsQuietly
  <2>2. /\ u # v /\ Owed(u, v)
        /\ device[u] = h.socket => u = h.userId /\ v # h.to
        /\ device[u] # h.socket /\ u = h.to => v # h.userId
    BY <1>4, <1>5, <2>1 DEF About
  <2>3. Recorded(u, v) => Recorded(u, v)'
    <3> SUFFICES ASSUME Recorded(u, v) PROVE Recorded(u, v)'
      OBVIOUS
    <3>1. pairKey(u, v) # pairKey(h.userId, h.to)
      <4> SUFFICES ASSUME pairKey(u, v) = pairKey(h.userId, h.to) PROVE FALSE
        OBVIOUS
      <4>1. (u = h.userId /\ v = h.to) \/ (u = h.to /\ v = h.userId)
        BY PairOf
      <4>2. pending[pairKey(u, v)].requesterId = h.to
        BY <1>1 DEF ReversePending, getPendingSession, pairKey
      <4>3. pending[pairKey(u, v)].requesterId = u
        BY DEF Recorded, getPendingSession
      <4>4. u = h.to /\ v = h.userId
        BY <1>2, <4>1, <4>2, <4>3
      <4>5. device[u] # h.socket
        BY <1>2, <4>4, <2>2
      <4> QED BY <2>2, <4>4, <4>5
    <3>2. pairKey(u, v) \in PairKeys
      BY <2>2, PairKeyFacts
    <3> QED BY <1>1, <1>6, <3>1, <3>2, StaysRecorded
  <2> QED BY <1>1, <2>1, <2>2, <2>3, StaysOwed
<1>8. Closes /\ Asks
  BY <1>1, NothingOpens
<1> QED BY <1>1, <1>4, <1>7, <1>8, QuietKept

\* The request that is recorded is owed to the app that is told so.
LEMMA RecordKept ==
    ASSUME ChatInv, IInv', NEW h \in asking, RelayRecordRequest(h)
    PROVE  ChatInv'
<1> DEFINE request == [requesterId |-> h.userId, targetId |-> h.to, requestedAt |-> clock]
           key == pairKey(h.userId, h.to)
           T == "session:requested"
           S == "session:request"
           msgs == {To(h.socket, Event(T, h.to)), To(connections[h.to], Event(S, h.userId))}
           both == TRUE
<1>1. h.userId \in Users /\ h.to \in Users /\ h.userId # h.to /\ h.socket # None /\ key \in PairKeys
  BY PairKeyFacts DEF ChatInv, IInv, DistinctUsers, TypeOK, Asking, AskedOnSocket
<1>2. /\ asking' = asking \ {h} /\ Quiet /\ Remember /\ ~ReversePending(h)
      /\ pending' = [pending EXCEPT ![key] = request] /\ timers' = timers \cup {request}
      /\ sockState' = sockState /\ connections' = connections /\ sockUser' = sockUser /\ verifying' = verifying
  BY <1>1 DEF RelayRecordRequest, RecordRequest, Finish, conns
<1>3. Post(msgs)
  BY <1>1 DEF RelayRecordRequest
<1>4. Answers(h, T, S, both)
  <2>1. /\ both => msgs = {To(h.socket, Event(T, h.to)), To(connections[h.to], Event(S, h.userId))}
        /\ ~both => msgs = {To(h.socket, Event(T, h.to))}
        /\ both \in BOOLEAN
        /\ T \in {"session:requested", "session:accepted", "session:request_failed"}
        /\ S \in {"session:request", "session:accepted"}
    OBVIOUS
  <2> HIDE DEF T, S, msgs, both
  <2> QED BY <1>3, <2>1, Answering
<1> DEFINE e == Event(T, h.to)
           f == Event(S, h.userId)
<1>5. /\ e \in ServerEvent /\ e.peer = h.to /\ f \in ServerEvent /\ f.type = "session:request"
  BY <1>1 DEF Event, ServerEvent
<1>6. /\ Writes
      /\ \A u \in Users : Heard(u) =>
            \/ wire'[device[u]] = wire[device[u]]
            \/ u = h.userId /\ wire'[device[u]] = Append(wire[device[u]], e)
            \/ wire'[device[u]] = Append(wire[device[u]], f)
  <2> HIDE DEF e, f
  <2>1. Answers(h, T, S, TRUE)
    BY <1>4
  <2> QED BY <2>1 DEF Answers, e, f
<1> HIDE DEF e, f, request, key
<1>7. /\ pending'[key] = request /\ \A k \in PairKeys \ {key} : pending'[k] = pending[k]
  BY <1>1, <1>2 DEF ChatInv, IInv, TypeOK
<1>8. WaitsOwed'
  <2> SUFFICES ASSUME NEW u \in Users, NEW v \in Users, Heard(u)',
                      WillWait(wire'[device'[u]], session'[u][v], v)
               PROVE  u # v /\ Owed(u, v)'
    BY DEF WaitsOwed
  <2>1. CASE u = h.userId /\ v = h.to
    <3>1. pending'[pairKey(u, v)] = request /\ request \in timers' /\ request.requesterId = u
      BY <1>2, <1>7, <2>1 DEF key, request
    <3>2. Recorded(u, v)'
      BY <3>1 DEF Recorded, getPendingSession, pairKey
    <3> QED BY <1>1, <2>1, <3>2 DEF Owed
  <2>2. CASE ~(u = h.userId /\ v = h.to)
    <3>1. /\ Heard(u) /\ device'[u] = device[u]
          /\ wire'[device[u]] = wire[device[u]] => u # v /\ Owed(u, v)
          /\ \A k \in ServerEvent :
                /\ wire'[device[u]] = Append(wire[device[u]], k)
                /\ ~(k.type = "session:requested" /\ k.peer = v)
                => ~About(k, v) /\ u # v /\ Owed(u, v)
      BY <1>2, WaitsQuietly
    <3>2. u # v /\ Owed(u, v)
      BY <1>5, <1>6, <2>2, <3>1
    <3>3. Recorded(u, v) => Recorded(u, v)'
      <4> SUFFICES ASSUME Recorded(u, v) PROVE Recorded(u, v)'
        OBVIOUS
      <4>1. pending[pairKey(u, v)] # None /\ pending[pairKey(u, v)].requesterId = u
        <5>1. None \notin timers
          BY NoneAssumption DEF ChatInv, IInv, TypeOK
        <5> QED BY <5>1 DEF Recorded, getPendingSession
      <4>2. pairKey(u, v) # key
        <5> SUFFICES ASSUME pairKey(u, v) = key PROVE FALSE
          OBVIOUS
        <5>1. (u = h.userId /\ v = h.to) \/ (u = h.to /\ v = h.userId)
          BY PairOf DEF key
        <5>2. u = h.to
          BY <2>2, <5>1
        <5> QED BY <1>2, <4>1, <5>2 DEF ReversePending, getPendingSession, pairKey, key
      <4>3. pairKey(u, v) \in PairKeys
        BY <3>2, PairKeyFacts
      <4> QED BY <1>2, <1>7, <4>2, <4>3, StaysRecorded
    <3>4. \A g \in asking : g.userId = u /\ g.to = v => g \in asking'
      BY <1>2, <2>2
    <3> QED BY <3>1, <3>2, <3>3, <3>4, StaysOwed
  <2> QED BY <2>1, <2>2
<1>9. Closes /\ Asks
  BY <1>2, NothingOpens
<1> QED BY <1>2, <1>6, <1>8, <1>9, QuietKept

\* A handler that writes nothing.
LEMMA PostNothing ==
    ASSUME ChatInv, Post({})
    PROVE  Writes /\ \A x \in Sockets : wire'[x] = wire[x]
<1>1. /\ wire' \in [Sockets -> Seq(ServerEvent)]
      /\ \A x \in Sockets : wire'[x] = wire[x]
  BY PostEffect DEF ChatInv
<1> QED BY <1>1 DEF Writes

\* The time is over: who still waits is told.
LEMMA TimeoutKept ==
    ASSUME ChatInv, IInv', NEW t \in timers, RelayTimeout(t)
    PROVE  ChatInv'
<1> DEFINE a == t.requesterId
           b == t.targetId
           e == Event("session:rejected", b)
<1>1. a \in Users /\ b \in Users /\ a # b /\ pairKey(a, b) \in PairKeys /\ t # None
  BY PairKeyFacts, NoneAssumption DEF ChatInv, IInv, DistinctUsers, TypeOK, PendingSession
<1>2. /\ Quiet /\ Remember /\ timers' = timers \ {t} /\ asking' = asking
      /\ sockState' = sockState /\ connections' = connections /\ sockUser' = sockUser /\ verifying' = verifying
  BY DEF RelayTimeout, RequestTimeout, conns
<1>3. e \in ServerEvent /\ e.type = "session:rejected" /\ e.peer = b
  BY <1>1 DEF Event, ServerEvent
<1>4. /\ StillPending(t) => pending' = [pending EXCEPT ![pairKey(a, b)] = None] /\ Post({To(connections[a], e)})
      /\ ~StillPending(t) => pending' = pending /\ Post({})
  BY DEF RelayTimeout, RequestTimeout
<1> HIDE DEF e, a, b
<1>5. /\ Writes
      /\ \A u \in Users : Heard(u) =>
            /\ StillPending(t) /\ u = a => wire'[device[u]] = Append(wire[device[u]], e)
            /\ ~StillPending(t) \/ u # a => wire'[device[u]] = wire[device[u]]
  <2>1. CASE StillPending(t)
    BY <1>1, <1>3, <1>4, <2>1, Telling
  <2>2. CASE ~StillPending(t)
    BY <1>4, <2>2, PostNothing, LinkedDevice DEF Heard
  <2> QED BY <2>1, <2>2
<1>6. \A k \in PairKeys : pending[k] = t => k = pairKey(a, b)
  BY <1>1 DEF ChatInv, IInv, PendingKeyed, a, b
<1>7. WaitsOwed'
  <2> SUFFICES ASSUME NEW u \in Users, NEW v \in Users, Heard(u)',
                      WillWait(wire'[device'[u]], session'[u][v], v)
               PROVE  u # v /\ Owed(u, v)'
    BY DEF WaitsOwed
  <2>1. /\ Heard(u) /\ device'[u] = device[u]
        /\ wire'[device[u]] = wire[device[u]] => u # v /\ Owed(u, v)
        /\ \A k \in ServerEvent :
              /\ wire'[device[u]] = Append(wire[device[u]], k)
              /\ ~(k.type = "session:requested" /\ k.peer = v)
              => ~About(k, v) /\ u # v /\ Owed(u, v)
    BY <1>2, WaitsQuietly
  <2>2. u # v /\ Owed(u, v) /\ (StillPending(t) /\ u = a => v # b)
    BY <1>3, <1>5, <2>1 DEF About
  <2>3. Recorded(u, v) => Recorded(u, v)'
    <3> SUFFICES ASSUME Recorded(u, v) PROVE Recorded(u, v)'
      OBVIOUS
    <3>1. pending[pairKey(u, v)].requesterId = u /\ pairKey(u, v) \in PairKeys
      BY <2>2, PairKeyFacts DEF Recorded, getPendingSession
    <3>2. pending[pairKey(u, v)] # t
      <4> SUFFICES ASSUME pending[pairKey(u, v)] = t PROVE FALSE
        OBVIOUS
      <4>1. pairKey(u, v) = pairKey(a, b) /\ u = a
        BY <1>6, <3>1 DEF a
      <4>2. v = b
        BY <1>1, <2>2, <4>1, PairOf
      <4>3. StillPending(t)
        BY <4>1 DEF StillPending, getPendingSession, a, b
      <4> QED BY <2>2, <4>1, <4>2, <4>3
    <3>3. StillPending(t) => pending[pairKey(a, b)] = t
      BY DEF StillPending, getPendingSession, a, b
    <3>4. pending'[pairKey(u, v)] = pending[pairKey(u, v)]
      BY <1>1, <1>4, <3>1, <3>2, <3>3 DEF ChatInv, IInv, TypeOK
    <3> QED BY <1>2, <3>2, <3>4, StaysRecorded
  <2> QED BY <1>2, <2>1, <2>2, <2>3, StaysOwed
<1>8. Closes /\ Asks
  BY <1>2, NothingOpens
<1> QED BY <1>2, <1>5, <1>7, <1>8, QuietKept

\* Who accepts or declines resolves the request of the other, who is told.
LEMMA RespondKept ==
    ASSUME ChatInv, IInv', NEW w \in Users, NEW x \in Users, NEW accept \in BOOLEAN,
           RespondToRequest(w, x, accept)
    PROVE  ChatInv'
<1> DEFINE e == Event(IF accept THEN "session:accepted" ELSE "session:rejected", w)
           Reaches == Heard(w) /\ Answerable(device[w], x)
<1>0. TypeOK /\ MirrorTypeOK
  BY DEF ChatInv, MirrorTypeOK
<1>1. /\ UNCHANGED <<device, linked>> /\ Remember
      /\ incoming' = [incoming EXCEPT ![w] = @ \ {x}]
      /\ IF accept THEN Set(w, x, "accepted") ELSE UNCHANGED session
      /\ Reaches => SessionRespond(device[w], x, accept) /\ Post({To(connections[x], e)})
      /\ ~Reaches => UNCHANGED <<vars, wire>>
  BY DEF RespondToRequest, Answered, FrameArrives, Heard
<1>2. /\ asking' = asking /\ timers' = timers
      /\ sockState' = sockState /\ connections' = connections /\ sockUser' = sockUser /\ verifying' = verifying
  <2>1. CASE Reaches
    BY <1>1, <2>1 DEF SessionRespond, conns
  <2>2. CASE ~Reaches
    BY <1>1, <2>2 DEF vars
  <2> QED BY <2>1, <2>2
<1>3. /\ session' \in [Users -> [Users -> SessionState]]
      /\ \A u, v \in Users : session'[u][v] = session[u][v] \/ session'[u][v] # "pending"
  <2>1. CASE accept
    <3>1. session' = [session EXCEPT ![w][x] = "accepted"] /\ session \in [Users -> [Users -> SessionState]]
      BY <1>0, <1>1, <2>1 DEF Set, MirrorTypeOK
    <3> QED BY <3>1 DEF SessionState
  <2>2. CASE ~accept
    BY <1>0, <1>1, <2>2 DEF MirrorTypeOK
  <2> QED BY <2>1, <2>2
<1>4. e \in ServerEvent /\ e.type \in {"session:accepted", "session:rejected"} /\ e.peer = w
  BY DEF Event, ServerEvent
<1>5. ASSUME Reaches
      PROVE  /\ w # x /\ pairKey(w, x) \in PairKeys /\ pending[pairKey(w, x)].requesterId = x
             /\ \A k \in PairKeys : pending'[k] = IF k = pairKey(w, x) THEN None ELSE pending[k]
  <2>1. device[w] \in Sockets /\ sockUser[device[w]] = w
    BY <1>5, LinkedDevice DEF Heard
  <2>2. w # x /\ pending[pairKey(x, w)].requesterId = x
    BY <1>5, <2>1 DEF Answerable, getPendingSession
  <2>3. resolveSession(w, x, accept)
    BY <1>1, <1>5, <2>1 DEF SessionRespond
  <2>4. pairKey(x, w) = pairKey(w, x)
    BY DEF pairKey
  <2> QED BY <1>0, <2>2, <2>3, <2>4, ResolveEffect
<1> HIDE DEF e, Reaches
<1>6. /\ Writes
      /\ \A u \in Users : Heard(u) =>
            /\ Reaches /\ u = x => wire'[device[u]] = Append(wire[device[u]], e)
            /\ ~Reaches \/ u # x => wire'[device[u]] = wire[device[u]]
  <2>1. CASE Reaches
    <3>1. e.type \notin {"auth:ok", "session:requested"}
      BY <1>4
    <3> QED BY <1>1, <1>4, <2>1, <3>1, Telling
  <2>2. CASE ~Reaches
    BY <1>0, <1>1, <2>2 DEF Writes, MirrorTypeOK
  <2> QED BY <2>1, <2>2
<1>7. WaitsOwed'
  <2> SUFFICES ASSUME NEW u \in Users, NEW v \in Users, Heard(u)',
                      WillWait(wire'[device'[u]], session'[u][v], v)
               PROVE  u # v /\ Owed(u, v)'
    BY DEF WaitsOwed
  <2>1. Heard(u) /\ device'[u] = device[u]
    BY <1>1, <1>2 DEF Heard
  <2>2. /\ wire'[device[u]] = wire[device[u]] => u # v /\ Owed(u, v)
        /\ \A k \in ServerEvent :
              /\ wire'[device[u]] = Append(wire[device[u]], k)
              /\ ~(k.type = "session:requested" /\ k.peer = v)
              => ~About(k, v) /\ u # v /\ Owed(u, v)
    <3> DEFINE p == session'[u][v]
    <3>1. WillWait(wire'[device[u]], p, v) /\ (p = session[u][v] \/ p # "pending")
      BY <1>3, <2>1
    <3> HIDE DEF p
    <3> QED BY <2>1, <3>1, StillWaits
  <2>3. u # v /\ Owed(u, v) /\ (Reaches /\ u = x => v # w)
    BY <1>4, <1>6, <2>1, <2>2 DEF About
  <2>4. Recorded(u, v) => Recorded(u, v)'
    <3> SUFFICES ASSUME Recorded(u, v) PROVE Recorded(u, v)'
      OBVIOUS
    <3>1. pending[pairKey(u, v)].requesterId = u /\ pairKey(u, v) \in PairKeys
      BY <2>3, PairKeyFacts DEF Recorded, getPendingSession
    <3>2. CASE Reaches
      <4>1. pairKey(u, v) # pairKey(w, x)
        BY <1>5, <2>3, <3>1, <3>2, PairOf
      <4> QED BY <1>2, <1>5, <3>1, <3>2, <4>1, StaysRecorded
    <3>3. CASE ~Reaches
      BY <1>1, <1>2, <3>3, StaysRecorded DEF vars
    <3> QED BY <3>2, <3>3
  <2> QED BY <1>2, <2>1, <2>3, <2>4, StaysOwed
<1>8. NewUntouched' /\ VerifyingAlone' /\ SocketsOwn' /\ LinkedRegistered' /\ AskedOnSocket'
  <2>1. Closes /\ Asks
    BY <1>2, NothingOpens
  <2> QED BY <1>1, <1>2, <1>6, <2>1, OthersKept
<1>9. MirrorTypeOK'
  <2>1. TypeOK' /\ active' \subseteq PairKeys
    BY DEF IInv, TypeOK
  <2>2. incoming' \in [Users -> SUBSET Users]
    BY <1>0, <1>1 DEF MirrorTypeOK
  <2> QED BY <1>0, <1>1, <1>3, <1>6, <2>1, <2>2 DEF MirrorTypeOK, Remember, Writes
<1> QED BY <1>7, <1>8, <1>9 DEF ChatInv

\* A request for a chat is owed from the frame on.
LEMMA RequestKept ==
    ASSUME ChatInv, IInv', NEW w \in Users, NEW x \in Users, RequestChat(w, x)
    PROVE  ChatInv'
<1>0. TypeOK /\ MirrorTypeOK
  BY DEF ChatInv, MirrorTypeOK
<1>1. /\ UNCHANGED <<wire, device, linked, incoming, opened>> /\ w # x
      /\ session' = [session EXCEPT ![w][x] = "pending"]
      /\ Heard(w) => SessionRequest(device[w], x)
      /\ ~Heard(w) => UNCHANGED vars
  BY DEF RequestChat, Set, FrameArrives, Heard
<1> DEFINE request == [userId |-> w, to |-> x, socket |-> device[w]]
<1>2. /\ pending' = pending /\ timers' = timers
      /\ sockState' = sockState /\ connections' = connections /\ sockUser' = sockUser /\ verifying' = verifying
      /\ asking \subseteq asking'
      /\ Heard(w) => asking' = asking \cup {request}
      /\ ~Heard(w) => asking' = asking
  <2>1. CASE Heard(w)
    <3>1. device[w] \in Sockets /\ connections[w] = device[w] /\ sockUser[device[w]] = w
      BY <2>1, LinkedDevice DEF Heard
    <3> QED BY <1>1, <2>1, <3>1 DEF SessionRequest, conns, sessions
  <2>2. CASE ~Heard(w)
    BY <1>1, <2>2 DEF vars
  <2> QED BY <2>1, <2>2
<1>3. /\ session' \in [Users -> [Users -> SessionState]]
      /\ \A u, v \in Users : ~(u = w /\ v = x) => session'[u][v] = session[u][v]
  <2>1. session \in [Users -> [Users -> SessionState]]
    BY <1>0 DEF MirrorTypeOK
  <2> QED BY <1>1, <2>1 DEF SessionState
<1>4. Writes
  BY <1>0, <1>1 DEF Writes, MirrorTypeOK
<1>5. Closes /\ Asks
  <2>1. Closes
    BY <1>2 DEF Closes
  <2>2. Asks
    BY <1>2 DEF Asks
  <2> QED BY <2>1, <2>2
<1>6. WaitsOwed'
  <2> SUFFICES ASSUME NEW u \in Users, NEW v \in Users, Heard(u)',
                      WillWait(wire'[device'[u]], session'[u][v], v)
               PROVE  u # v /\ Owed(u, v)'
    BY DEF WaitsOwed
  <2>1. Heard(u) /\ device' = device /\ wire'[device[u]] = wire[device[u]]
    BY <1>1, <1>2 DEF Heard
  <2>2. CASE u = w /\ v = x
    <3>1. request \in asking' /\ request.userId = u /\ request.to = v /\ request.socket = device'[u]
      BY <1>2, <2>1, <2>2
    <3> HIDE DEF request
    <3> QED BY <1>1, <2>2, <3>1 DEF Owed
  <2>3. CASE ~(u = w /\ v = x)
    <3>1. WillWait(wire[device[u]], session[u][v], v)
      BY <1>3, <2>1, <2>3
    <3>2. u # v /\ Owed(u, v)
      BY <2>1, <3>1 DEF ChatInv, WaitsOwed
    <3>3. Recorded(u, v) => Recorded(u, v)'
      BY <1>2 DEF Recorded, getPendingSession, pairKey
    <3>4. asking \subseteq asking'
      BY <1>2
    <3> QED BY <2>1, <3>2, <3>3, <3>4, StaysOwed
  <2> QED BY <2>2, <2>3
<1>7. NewUntouched' /\ VerifyingAlone' /\ SocketsOwn' /\ LinkedRegistered' /\ AskedOnSocket'
  BY <1>1, <1>2, <1>4, <1>5, OthersKept
<1>8. MirrorTypeOK'
  <2>1. TypeOK'
    BY DEF IInv
  <2> QED BY <1>0, <1>1, <1>3, <1>4, <2>1 DEF MirrorTypeOK, Writes
<1> QED BY <1>6, <1>7, <1>8 DEF ChatInv

\* A user has gone: whoever waited for the user is told.
LEMMA ClosedKept ==
    ASSUME ChatInv, IInv', NEW s \in Sockets, RelaySocketClosed(s)
    PROVE  ChatInv'
<1> DEFINE w == sockUser[s]
           gone == isRegistered(w, s)
           notice(v) == Event(IF getPendingSession(w, v).requesterId = w
                              THEN "session:request_withdrawn" ELSE "session:rejected", w)
<1>0. TypeOK /\ MirrorTypeOK
  BY DEF ChatInv, MirrorTypeOK
<1>1. /\ sockState[s] = "open" /\ sockState' = [sockState EXCEPT ![s] = "closed"]
      /\ gone => connections' = [connections EXCEPT ![w] = None]
      /\ gone => pending' = [k \in PairKeys |-> IF w \in k THEN None ELSE pending[k]]
      /\ ~gone => connections' = connections /\ pending' = pending
      /\ sockUser' = sockUser /\ verifying' = verifying /\ asking' = asking /\ timers' = timers
      /\ Quiet /\ Remember
  BY DEF RelaySocketClosed, SocketClosed, clearSessionsFor, sessions
<1>2. /\ gone => Post(Notices(w)) /\ w \in Users /\ connections[w] = s
      /\ ~gone => Post({})
  BY <1>0 DEF RelaySocketClosed, isRegistered, TypeOK
<1> HIDE DEF gone, w, notice
<1>3. ASSUME gone
      PROVE  /\ Writes
             /\ \A x \in Sockets :
                   \/ wire'[x] = wire[x] /\ (Readable(x) => \A v \in PendingWith(w) : connections[v] # x)
                   \/ Readable(x) /\ \E v \in PendingWith(w) :
                          connections[v] = x /\ wire'[x] = Append(wire[x], notice(v))
  <2>1. \A v \in PendingWith(w) : notice(v) \in ServerEvent /\ notice(v).type \in {"session:request_withdrawn", "session:rejected"}
    BY <1>2, <1>3 DEF Event, ServerEvent, notice
  <2>2. Notices(w) = {To(connections[v], notice(v)) : v \in PendingWith(w)}
    BY DEF Notices, notice
  <2>3. \A v : To(connections[v], notice(v)).socket = connections[v] /\ To(connections[v], notice(v)).event = notice(v)
    BY DEF To
  <2>4. /\ \A m \in Notices(w) : \E v \in PendingWith(w) : m.socket = connections[v] /\ m.event = notice(v)
        /\ \A v \in PendingWith(w) : \E m \in Notices(w) : m.socket = connections[v]
    BY <2>2, <2>3
  <2>5. \A m \in Notices(w) : m.event \in ServerEvent
    BY <2>1, <2>4
  <2>6. /\ wire' \in [Sockets -> Seq(ServerEvent)]
        /\ \A x \in Sockets :
              \/ wire'[x] = wire[x] /\ (Readable(x) => \A m \in Notices(w) : m.socket # x)
              \/ Readable(x) /\ \E m \in Notices(w) : m.socket = x /\ wire'[x] = Append(wire[x], m.event)
    BY <1>0, <1>2, <1>3, <2>5, PostEffect
  <2>7. \A x \in Sockets :
           \/ wire'[x] = wire[x] /\ (Readable(x) => \A v \in PendingWith(w) : connections[v] # x)
           \/ Readable(x) /\ \E v \in PendingWith(w) :
                  connections[v] = x /\ wire'[x] = Append(wire[x], notice(v))
    BY <2>4, <2>6
  <2>8. Writes
    BY <2>1, <2>6, <2>7 DEF Writes, Written
  <2> QED BY <2>7, <2>8
<1>4. Writes /\ (~gone => \A x \in Sockets : wire'[x] = wire[x])
  BY <1>2, <1>3, PostNothing
<1>5. Closes /\ Asks
  <2>1. \A x \in Sockets : sockState'[x] = sockState[x] \/ (sockState[x] = "open" /\ sockState'[x] = "closed")
    BY <1>0, <1>1 DEF TypeOK
  <2>2. \A u \in Users : \/ connections'[u] = connections[u]
                         \/ connections'[u] = None /\ connections[u] # None
                            /\ sockState'[connections[u]] = "closed"
    BY <1>0, <1>1, <1>2, NoneAssumption DEF TypeOK
  <2>3. Asks
    BY <1>1 DEF Asks
  <2> QED BY <2>1, <2>2, <2>3 DEF Closes
<1>6. WaitsOwed'
  <2> SUFFICES ASSUME NEW u \in Users, NEW v \in Users, Heard(u)',
                      WillWait(wire'[device'[u]], session'[u][v], v)
               PROVE  u # v /\ Owed(u, v)'
    BY DEF WaitsOwed
  <2>1. linked[u] /\ device'[u] = device[u] /\ session'[u][v] = session[u][v] /\ sockState'[device[u]] = "open"
    BY <1>1 DEF Heard, Quiet, mirror
  <2>2. device[u] \in Sockets
    BY <2>1, LinkedDevice
  <2>3. device[u] # s /\ Heard(u)
    BY <1>0, <1>1, <2>1, <2>2 DEF TypeOK, Heard
  <2>4. connections[u] = device[u] /\ sockUser[device[u]] = u
    BY <2>1, <2>3, LinkedDevice DEF Heard
  <2>5. Readable(device[u])
    BY <2>3 DEF Readable, Heard
  <2>6. /\ wire'[device[u]] = wire[device[u]] => u # v /\ Owed(u, v)
        /\ \A k \in ServerEvent :
              /\ wire'[device[u]] = Append(wire[device[u]], k)
              /\ ~(k.type = "session:requested" /\ k.peer = v)
              => ~About(k, v) /\ u # v /\ Owed(u, v)
    <3>1. WillWait(wire'[device[u]], session[u][v], v)
      BY <2>1
    <3> QED BY <2>3, <3>1, StillWaits
  <2>7. ASSUME gone
        PROVE  /\ u # v /\ Owed(u, v)
               /\ u # w
               /\ u \in PendingWith(w) => ~About(notice(u), v)
    <3>1. \A y \in PendingWith(w) : connections[y] = device[u] => y = u
      BY <2>2, <2>4, NoneAssumption DEF PendingWith, ChatInv, SocketsOwn
    <3>2. \/ wire'[device[u]] = wire[device[u]] /\ u \notin PendingWith(w)
          \/ wire'[device[u]] = Append(wire[device[u]], notice(u))
      BY <1>3, <2>2, <2>4, <2>5, <2>7, <3>1
    <3>3. notice(u) \in ServerEvent /\ notice(u).type \in {"session:request_withdrawn", "session:rejected"}
      BY <1>2, <2>7 DEF Event, ServerEvent, notice
    <3>4. u # w
      BY <1>2, <2>3, <2>4, <2>7
    <3> QED BY <2>6, <3>2, <3>3, <3>4
  <2>8. u # v /\ Owed(u, v)
    BY <1>4, <2>2, <2>6, <2>7
  <2>9. Recorded(u, v) => Recorded(u, v)'
    <3> SUFFICES ASSUME Recorded(u, v) PROVE Recorded(u, v)'
      OBVIOUS
    <3>1. pairKey(u, v) \in PairKeys /\ pending[pairKey(u, v)].requesterId = u /\ pending[pairKey(u, v)] # None
      <4>1. None \notin timers
        BY <1>0, NoneAssumption DEF TypeOK
      <4> QED BY <2>8, <4>1, PairKeyFacts DEF Recorded, getPendingSession
    <3>2. CASE gone
      <4>1. v # w
        <5> SUFFICES ASSUME v = w PROVE FALSE
          OBVIOUS
        <5>1. getPendingSession(w, u) = pending[pairKey(u, v)]
          BY DEF getPendingSession, pairKey
        <5>2. u \in PendingWith(w)
          BY <2>8, <3>1, <5>1 DEF PendingWith
        <5>3. notice(u).type = "session:rejected" /\ notice(u).peer = v
          BY <2>8, <3>1, <5>1 DEF notice, Event
        <5> QED BY <2>7, <3>2, <5>2, <5>3 DEF About
      <4>2. w \notin pairKey(u, v)
        BY <2>7, <3>2, <4>1 DEF pairKey
      <4>3. pending'[pairKey(u, v)] = pending[pairKey(u, v)]
        BY <1>1, <3>1, <3>2, <4>2
      <4> QED BY <1>1, <4>3, StaysRecorded
    <3>3. CASE ~gone
      BY <1>1, <3>3, StaysRecorded
    <3> QED BY <3>2, <3>3
  <2> QED BY <1>1, <2>1, <2>8, <2>9, StaysOwed
<1> QED BY <1>1, <1>4, <1>5, <1>6, QuietKept

\* The user who signs in had not been told so on this socket, nor registered on
\* the one that replaced it.
LEMMA VerifiedKept ==
    ASSUME ChatInv, IInv', ChecksInTurn, NEW s \in Sockets, NEW w \in Users, RelayAuthVerified(s, w)
    PROVE  ChatInv'
<1> DEFINE e == Event("auth:ok", w)
           m == To(s, e)
<1>0. TypeOK /\ MirrorTypeOK
  BY DEF ChatInv, MirrorTypeOK
<1>1. /\ <<s, w>> \in verifying /\ verifying' = verifying \ {<<s, w>>}
      /\ sockUser' = [sockUser EXCEPT ![s] = w] /\ connections' = [connections EXCEPT ![w] = s]
      /\ sockState' = sockState /\ asking' = asking /\ pending' = pending /\ timers' = timers
      /\ Quiet /\ Remember /\ Post({m})
  BY DEF RelayAuthVerified, AuthVerified, sessions
<1>2. e \in ServerEvent /\ e.type = "auth:ok" /\ m.socket = s /\ m.event = e
  BY DEF Event, ServerEvent, To
<1> HIDE DEF e, m
<1>3. /\ sockUser[s] = None /\ (device[w] = s => ~linked[w]) /\ sockState[s] # "new"
      /\ \A u \in Users : device[u] = s \/ <<s, u>> \in verifying => u = w
  BY <1>1 DEF ChatInv, VerifyingAlone, NewUntouched
<1>4. /\ wire' \in [Sockets -> Seq(ServerEvent)]
      /\ \A x \in Sockets : wire'[x] = wire[x] \/ (x = s /\ wire'[x] = Append(wire[x], e))
  <2>1. \A n \in {m} : n.event \in ServerEvent
    BY <1>2
  <2> QED BY <1>0, <1>1, <1>2, <2>1, PostEffect
<1>5. /\ sockUser'[s] = w /\ connections'[w] = s
      /\ \A x \in Sockets \ {s} : sockUser'[x] = sockUser[x]
      /\ \A u \in Users \ {w} : connections'[u] = connections[u]
      /\ device' = device /\ linked' = linked
  BY <1>0, <1>1 DEF TypeOK, Quiet
<1>14. device[w] \in {None, s} \/ connections[w] # device[w]
  <2>1. connections[w] # s /\ s # None
    BY <1>3, NoneAssumption DEF ChatInv, SocketsOwn
  <2> QED BY <1>5, <2>1 DEF ChecksInTurn
<1>6. NewUntouched'
  BY <1>1, <1>3, <1>4, <1>5 DEF ChatInv, NewUntouched
<1>7. VerifyingAlone'
  <2> SUFFICES ASSUME NEW x \in Sockets, NEW u \in Users, <<x, u>> \in verifying'
               PROVE  /\ sockUser'[x] = None /\ (device'[u] = x => ~linked'[u]) /\ ~SaysOk(wire'[x])
                      /\ \A y \in Users : device'[y] = x \/ <<x, y>> \in verifying' => y = u
    BY DEF VerifyingAlone
  <2>1. x # s /\ <<x, u>> \in verifying /\ verifying' \subseteq verifying
    BY <1>1, <1>3
  <2>2. wire'[x] = wire[x] /\ sockUser'[x] = sockUser[x]
    BY <1>4, <1>5, <2>1
  <2> QED BY <1>5, <2>1, <2>2 DEF ChatInv, VerifyingAlone
<1>8. SocketsOwn'
  BY <1>0, <1>3, <1>5, NoneAssumption DEF ChatInv, SocketsOwn, TypeOK
<1>9. LinkedRegistered'
  <2> SUFFICES ASSUME NEW u \in Users, device[u] # None
               PROVE  /\ sockState[device[u]] = "open" /\ (linked[u] \/ SaysOk(wire'[device[u]]))
                            => connections'[u] = device[u]
                      /\ ~linked[u] => ~Asked(wire'[device[u]])
    BY <1>1, <1>5 DEF LinkedRegistered, ChatInv
  <2>1. device[u] \in Sockets /\ wire[device[u]] \in Seq(ServerEvent)
    BY <1>0 DEF MirrorTypeOK
  <2>2. CASE device[u] = s
    <3>1. u = w
      BY <1>3, <2>2
    <3>2. Asked(wire'[s]) => Asked(wire[s])
      <4>1. wire[s] \in Seq(ServerEvent) /\ (wire'[s] = wire[s] \/ wire'[s] = Append(wire[s], e))
        BY <1>4, <2>1, <2>2
      <4>2. Asked(Append(wire[s], e)) => Asked(wire[s])
        BY <1>2, <4>1, AppendSays
      <4> QED BY <4>1, <4>2
    <3> QED BY <1>5, <2>2, <3>1, <3>2 DEF ChatInv, LinkedRegistered
  <2>3. CASE device[u] # s
    <3>1. wire'[device[u]] = wire[device[u]]
      BY <1>4, <2>1, <2>3
    <3>2. CASE u = w
      <4>1. ~(sockState[device[u]] = "open" /\ (linked[u] \/ SaysOk(wire[device[u]])))
        BY <1>14, <2>3, <3>2 DEF ChatInv, LinkedRegistered
      <4> QED BY <3>1, <4>1 DEF ChatInv, LinkedRegistered
    <3>3. CASE u # w
      BY <1>5, <3>1, <3>3 DEF ChatInv, LinkedRegistered
    <3> QED BY <3>2, <3>3
  <2> QED BY <2>2, <2>3
<1>10. AskedOnSocket'
  BY <1>1, <1>5 DEF ChatInv, AskedOnSocket
<1>11. WaitsOwed'
  <2> SUFFICES ASSUME NEW u \in Users, NEW v \in Users, Heard(u)',
                      WillWait(wire'[device'[u]], session'[u][v], v)
               PROVE  u # v /\ Owed(u, v)'
    BY DEF WaitsOwed
  <2>1. Heard(u) /\ device'[u] = device[u] /\ session'[u][v] = session[u][v]
    BY <1>1 DEF Heard, Quiet, mirror
  <2>2. device[u] \in Sockets /\ device[u] # s
    BY <1>3, <2>1, LinkedDevice DEF Heard
  <2>3. wire'[device[u]] = wire[device[u]]
    BY <1>4, <2>2
  <2>4. u # v /\ Owed(u, v)
    BY <2>1, <2>3 DEF ChatInv, WaitsOwed
  <2>5. Recorded(u, v) => Recorded(u, v)'
    BY <1>1 DEF Recorded, getPendingSession, pairKey
  <2> QED BY <1>1, <2>1, <2>4, <2>5, StaysOwed
<1>12. MirrorTypeOK'
  BY <1>1, <1>4 DEF ChatInv, IInv, MirrorTypeOK, TypeOK, Quiet, mirror, Remember
<1> QED BY <1>6, <1>7, <1>8, <1>9, <1>10, <1>11, <1>12 DEF ChatInv

\* A token that is refused closes its socket.
LEMMA RejectedKept ==
    ASSUME ChatInv, IInv', NEW s \in Sockets, NEW w \in Users, RelayAuthRejected(s, w)
    PROVE  ChatInv'
<1>1. /\ <<s, w>> \in verifying /\ verifying' = verifying \ {<<s, w>>}
      /\ sockState' = [sockState EXCEPT ![s] = "closed"]
      /\ sockUser' = sockUser /\ connections' = connections /\ asking' = asking /\ pending' = pending
      /\ timers' = timers /\ Quiet /\ Remember /\ Post({})
  BY DEF RelayAuthRejected, AuthRejected, sessions
<1>2. Writes /\ \A x \in Sockets : wire'[x] = wire[x]
  BY <1>1, PostNothing
<1>3. Closes /\ Asks
  <2>1. sockState[s] # "new"
    BY <1>1 DEF ChatInv, NewUntouched
  <2>2. \A x \in Sockets : sockState'[x] = sockState[x] \/ (sockState[x] = "open" /\ sockState'[x] = "closed")
    BY <1>1, <2>1 DEF ChatInv, IInv, TypeOK
  <2>3. Asks
    BY <1>1 DEF Asks
  <2> QED BY <1>1, <2>2, <2>3 DEF Closes
<1>4. WaitsOwed'
  <2> SUFFICES ASSUME NEW u \in Users, NEW v \in Users, Heard(u)',
                      WillWait(wire'[device'[u]], session'[u][v], v)
               PROVE  u # v /\ Owed(u, v)'
    BY DEF WaitsOwed
  <2>1. linked[u] /\ device'[u] = device[u] /\ session'[u][v] = session[u][v] /\ sockState'[device[u]] = "open"
    BY <1>1 DEF Heard, Quiet, mirror
  <2>2. device[u] \in Sockets
    BY <2>1, LinkedDevice
  <2>3. Heard(u) /\ wire'[device[u]] = wire[device[u]]
    BY <1>2, <1>3, <2>1, <2>2 DEF Heard, Closes
  <2>4. u # v /\ Owed(u, v)
    BY <2>1, <2>3 DEF ChatInv, WaitsOwed
  <2>5. Recorded(u, v) => Recorded(u, v)'
    BY <1>1 DEF Recorded, getPendingSession, pairKey
  <2> QED BY <1>1, <2>1, <2>4, <2>5, StaysOwed
<1> QED BY <1>1, <1>2, <1>3, <1>4, QuietKept

\* A new socket: the app has no other.
LEMMA ConnectKept ==
    ASSUME ChatInv, IInv', NEW u \in Users, NEW s \in Sockets, Connect(u, s)
    PROVE  ChatInv'
<1>0. TypeOK /\ MirrorTypeOK
  BY DEF ChatInv, MirrorTypeOK
<1>1. /\ device[u] = None /\ sockState[s] = "new"
      /\ sockState' = [sockState EXCEPT ![s] = "open"] /\ verifying' = verifying \cup {<<s, u>>}
      /\ device' = [device EXCEPT ![u] = s]
      /\ sockUser' = sockUser /\ connections' = connections /\ asking' = asking /\ pending' = pending
      /\ timers' = timers /\ active' = active
      /\ wire' = wire /\ linked' = linked /\ session' = session /\ incoming' = incoming /\ opened' = opened
  BY DEF Connect, Authenticate, sessions, mirror
<1>2. /\ wire[s] = <<>> /\ sockUser[s] = None /\ ~linked[u]
      /\ \A w \in Users : <<s, w>> \notin verifying /\ device[w] # s /\ connections[w] # s
      /\ \A h \in asking : h.socket # s
  BY <1>1 DEF ChatInv, NewUntouched, LinkedRegistered
<1>3. /\ device'[u] = s /\ (\A w \in Users \ {u} : device'[w] = device[w])
      /\ sockState'[s] = "open" /\ \A x \in Sockets \ {s} : sockState'[x] = sockState[x]
  BY <1>0, <1>1 DEF MirrorTypeOK, TypeOK
<1>4. ~SaysOk(<<>>) /\ ~Asked(<<>>)
  BY DEF SaysOk, Asked
<1>5. NewUntouched'
  <2> SUFFICES ASSUME NEW x \in Sockets, sockState'[x] = "new"
               PROVE  /\ wire'[x] = <<>> /\ sockUser'[x] = None
                      /\ \A w \in Users : <<x, w>> \notin verifying' /\ device'[w] # x /\ connections'[w] # x
                      /\ \A h \in asking' : h.socket # x
    BY DEF NewUntouched
  <2>1. x # s /\ sockState[x] = "new"
    BY <1>3
  <2> QED BY <1>1, <1>3, <2>1 DEF ChatInv, NewUntouched
<1>6. VerifyingAlone'
  <2> SUFFICES ASSUME NEW x \in Sockets, NEW w \in Users, <<x, w>> \in verifying'
               PROVE  /\ sockUser'[x] = None /\ (device'[w] = x => ~linked'[w]) /\ ~SaysOk(wire'[x])
                      /\ \A y \in Users : device'[y] = x \/ <<x, y>> \in verifying' => y = w
    BY DEF VerifyingAlone
  <2>1. CASE x = s
    <3>1. w = u /\ \A y \in Users : <<s, y>> \in verifying' => y = u
      BY <1>1, <1>2, <2>1
    <3> QED BY <1>1, <1>2, <1>3, <1>4, <2>1, <3>1
  <2>2. CASE x # s
    <3>1. <<x, w>> \in verifying /\ \A y \in Users : <<x, y>> \in verifying' => <<x, y>> \in verifying
      BY <1>1, <2>2
    <3>2. /\ sockUser[x] = None /\ (device[w] = x => ~linked[w]) /\ ~SaysOk(wire[x])
          /\ \A y \in Users : device[y] = x \/ <<x, y>> \in verifying => y = w
      BY <3>1 DEF ChatInv, VerifyingAlone
    <3> QED BY <1>1, <1>3, <2>2, <3>1, <3>2
  <2> QED BY <2>1, <2>2
<1>7. SocketsOwn'
  <2>1. \A w \in Users : connections'[w] # None => sockUser'[connections'[w]] = w
    BY <1>1 DEF ChatInv, SocketsOwn
  <2>2. ASSUME NEW w \in Users, NEW y \in Users, device'[w] # None, device'[w] = device'[y] PROVE w = y
    <3>1. w = u <=> y = u
      BY <1>2, <1>3, <2>2
    <3>2. CASE w # u
      BY <1>3, <2>2, <3>1, <3>2 DEF ChatInv, SocketsOwn
    <3> QED BY <3>1, <3>2
  <2> QED BY <2>1, <2>2 DEF SocketsOwn
<1>8. LinkedRegistered'
  <2> SUFFICES ASSUME NEW w \in Users
               PROVE  /\ linked'[w] => device'[w] # None
                      /\ device'[w] # None /\ sockState'[device'[w]] = "open" /\ (linked'[w] \/ SaysOk(wire'[device'[w]]))
                            => connections'[w] = device'[w]
                      /\ device'[w] # None /\ ~linked'[w] => ~Asked(wire'[device'[w]])
    BY DEF LinkedRegistered
  <2>1. CASE w = u
    BY <1>1, <1>2, <1>3, <1>4, <2>1
  <2>2. CASE w # u
    <3>1. device'[w] = device[w] /\ device[w] # s /\ device[w] \in Sockets \cup {None}
      BY <1>0, <1>2, <1>3, <2>2 DEF MirrorTypeOK
    <3> QED BY <1>1, <1>3, <3>1 DEF ChatInv, LinkedRegistered
  <2> QED BY <2>1, <2>2
<1>9. AskedOnSocket'
  BY <1>1, <1>2, <1>3 DEF ChatInv, AskedOnSocket
<1>10. WaitsOwed'
  <2> SUFFICES ASSUME NEW w \in Users, NEW v \in Users, Heard(w)',
                      WillWait(wire'[device'[w]], session'[w][v], v)
               PROVE  w # v /\ Owed(w, v)'
    BY DEF WaitsOwed
  <2>1. linked[w] /\ w # u /\ device'[w] = device[w]
    BY <1>1, <1>2, <1>3 DEF Heard
  <2>2. device[w] \in Sockets /\ device[w] # s
    BY <1>2, <2>1, LinkedDevice
  <2>3. Heard(w)
    BY <1>3, <2>1, <2>2 DEF Heard
  <2>4. w # v /\ Owed(w, v)
    BY <1>1, <2>1, <2>3 DEF ChatInv, WaitsOwed
  <2>5. Recorded(w, v) => Recorded(w, v)'
    BY <1>1 DEF Recorded, getPendingSession, pairKey
  <2> QED BY <1>1, <2>1, <2>4, <2>5, StaysOwed
<1>11. MirrorTypeOK'
  <2>1. TypeOK' /\ device' \in [Users -> Sockets \cup {None}]
    BY <1>0, <1>1 DEF IInv, MirrorTypeOK
  <2> QED BY <1>0, <1>1, <2>1 DEF MirrorTypeOK
<1> QED BY <1>5, <1>6, <1>7, <1>8, <1>9, <1>10, <1>11 DEF ChatInv

\* What is thrown away with the socket is owed to nobody.
LEMMA DropKept ==
    ASSUME ChatInv, IInv', NEW u \in Users, Drop(u)
    PROVE  ChatInv'
<1>0. TypeOK /\ MirrorTypeOK
  BY DEF ChatInv, MirrorTypeOK
<1>1. /\ device[u] # None /\ device' = [device EXCEPT ![u] = None] /\ linked' = [linked EXCEPT ![u] = FALSE]
      /\ wire' = [wire EXCEPT ![device[u]] = <<>>]
      /\ UNCHANGED vars /\ session' = session /\ incoming' = incoming /\ opened' = opened
  BY DEF Drop, mirror
<1>2. /\ sockState' = sockState /\ sockUser' = sockUser /\ connections' = connections /\ asking' = asking
      /\ pending' = pending /\ timers' = timers /\ verifying' = verifying
  BY <1>1 DEF vars
<1>3. /\ device'[u] = None /\ ~linked'[u]
      /\ \A w \in Users \ {u} : device'[w] = device[w] /\ linked'[w] = linked[w]
      /\ \A x \in Sockets : wire'[x] = wire[x] \/ wire'[x] = <<>>
      /\ \A x \in Sockets : x # device[u] => wire'[x] = wire[x]
  BY <1>0, <1>1 DEF MirrorTypeOK
<1>4. ~SaysOk(<<>>) /\ ~Asked(<<>>)
  BY DEF SaysOk, Asked
<1>5. NewUntouched'
  <2>1. \A w \in Users : device'[w] = device[w] \/ device'[w] = None
    BY <1>3
  <2> QED BY <1>2, <1>3, <2>1, NoneAssumption DEF ChatInv, NewUntouched
<1>6. VerifyingAlone'
  <2>1. \A x \in Sockets : SaysOk(wire'[x]) => SaysOk(wire[x])
    BY <1>3, <1>4
  <2>2. \A w \in Users : (device'[w] = device[w] \/ device'[w] = None) /\ (linked'[w] => linked[w])
    BY <1>3
  <2> QED BY <1>2, <2>1, <2>2, NoneAssumption DEF ChatInv, VerifyingAlone
<1>7. SocketsOwn'
  BY <1>2, <1>3 DEF ChatInv, SocketsOwn
<1>8. \A w \in Users \ {u} : device[w] # None => device[w] \in Sockets /\ wire'[device[w]] = wire[device[w]]
  BY <1>0, <1>3 DEF ChatInv, SocketsOwn, MirrorTypeOK
<1>9. LinkedRegistered'
  <2> SUFFICES ASSUME NEW w \in Users
               PROVE  /\ linked'[w] => device'[w] # None
                      /\ device'[w] # None /\ sockState'[device'[w]] = "open" /\ (linked'[w] \/ SaysOk(wire'[device'[w]]))
                            => connections'[w] = device'[w]
                      /\ device'[w] # None /\ ~linked'[w] => ~Asked(wire'[device'[w]])
    BY DEF LinkedRegistered
  <2>1. CASE w = u
    BY <1>3, <2>1
  <2>2. CASE w # u
    BY <1>2, <1>3, <1>8, <2>2 DEF ChatInv, LinkedRegistered
  <2> QED BY <2>1, <2>2
<1>10. AskedOnSocket'
  BY <1>2, <1>3 DEF ChatInv, AskedOnSocket
<1>11. WaitsOwed'
  <2> SUFFICES ASSUME NEW w \in Users, NEW v \in Users, Heard(w)',
                      WillWait(wire'[device'[w]], session'[w][v], v)
               PROVE  w # v /\ Owed(w, v)'
    BY DEF WaitsOwed
  <2>1. w # u /\ Heard(w) /\ device'[w] = device[w]
    BY <1>2, <1>3 DEF Heard
  <2>2. wire'[device[w]] = wire[device[w]]
    BY <1>8, <2>1 DEF Heard, ChatInv, LinkedRegistered
  <2>3. w # v /\ Owed(w, v)
    BY <1>1, <2>1, <2>2 DEF ChatInv, WaitsOwed
  <2>4. Recorded(w, v) => Recorded(w, v)'
    BY <1>2 DEF Recorded, getPendingSession, pairKey
  <2> QED BY <1>2, <2>1, <2>3, <2>4, StaysOwed
<1>12. MirrorTypeOK'
  <2>1. <<>> \in Seq(ServerEvent)
    OBVIOUS
  <2>2. TypeOK'
    BY DEF IInv
  <2> QED BY <1>0, <1>1, <2>1, <2>2 DEF MirrorTypeOK
<1> QED BY <1>5, <1>6, <1>7, <1>9, <1>10, <1>11, <1>12 DEF ChatInv

\* What the store makes of an event.
LEMMA HandleEffect ==
    ASSUME MirrorTypeOK, NEW u \in Users, NEW e \in ServerEvent, Handle(u, e)
    PROVE  /\ session' \in [Users -> [Users -> SessionState]] /\ incoming' \in [Users -> SUBSET Users]
           /\ \A w \in Users \ {u} : session'[w] = session[w]
           /\ \A v \in Users : \/ session'[u][v] # "pending"
                               \/ session'[u][v] = session[u][v] /\ ~About(e, v)
                               \/ e.type = "session:requested" /\ e.peer = v
           /\ e.type = "auth:ok" => \A v \in Users : session'[u][v] = "none"
<1>0. /\ session \in [Users -> [Users -> SessionState]] /\ incoming \in [Users -> SUBSET Users]
      /\ e.peer \in Users
      /\ \A t \in {"none", "pending", "accepted", "rejected"} : t \in SessionState
  BY DEF MirrorTypeOK, ServerEvent, SessionState
<1>1. CASE e.type = "auth:ok" /\ session' = [session EXCEPT ![u] = [v \in Users |-> "none"]]
           /\ incoming' = [incoming EXCEPT ![u] = {}]
  BY <1>0, <1>1
<1>2. CASE e.type = "session:request" /\ incoming' = [incoming EXCEPT ![u] = @ \cup {e.peer}] /\ session' = session
  BY <1>0, <1>2 DEF About
<1>3. CASE e.type = "session:request_withdrawn" /\ incoming' = [incoming EXCEPT ![u] = @ \ {e.peer}] /\ session' = session
  BY <1>0, <1>3 DEF About
<1>4. ASSUME NEW t \in {"pending", "accepted", "rejected"}, e.type # "auth:ok",
             session' = [session EXCEPT ![u][e.peer] = t], incoming' = incoming,
             t = "pending" => e.type = "session:requested"
      PROVE  /\ session' \in [Users -> [Users -> SessionState]] /\ incoming' \in [Users -> SUBSET Users]
             /\ \A w \in Users \ {u} : session'[w] = session[w]
             /\ \A v \in Users : \/ session'[u][v] # "pending"
                                 \/ session'[u][v] = session[u][v] /\ ~About(e, v)
                                 \/ e.type = "session:requested" /\ e.peer = v
  <2>1. session' \in [Users -> [Users -> SessionState]]
    BY <1>0, <1>4
  <2>2. \A w \in Users \ {u} : session'[w] = session[w]
    BY <1>0, <1>4
  <2>3. session'[u][e.peer] = t /\ \A v \in Users : v # e.peer => session'[u][v] = session[u][v]
    BY <1>0, <1>4
  <2>4. \A v \in Users : v # e.peer => ~About(e, v)
    BY <1>4 DEF About
  <2> QED BY <1>0, <1>4, <2>1, <2>2, <2>3, <2>4
<1>5. CASE e.type = "session:requested" /\ Set(u, e.peer, "pending") /\ incoming' = incoming
  BY <1>4, <1>5 DEF Set
<1>6. CASE e.type = "session:accepted" /\ Set(u, e.peer, "accepted") /\ incoming' = incoming
  BY <1>4, <1>6 DEF Set
<1>7. CASE e.type \in {"session:rejected", "session:request_failed"} /\ Set(u, e.peer, "rejected") /\ incoming' = incoming
  BY <1>4, <1>7 DEF Set
<1> QED BY <1>1, <1>2, <1>3, <1>5, <1>6, <1>7 DEF Handle

\* What is read was counted on; and auth:ok ends all waiting.
LEMMA ReceiveKept ==
    ASSUME ChatInv, IInv', NEW u \in Users, Receive(u)
    PROVE  ChatInv'
<1> DEFINE s == device[u]
           q == wire[s]
           e == Head(q)
<1>0. TypeOK /\ MirrorTypeOK
  BY DEF ChatInv, MirrorTypeOK
<1>1. /\ s # None /\ q # <<>> /\ wire' = [wire EXCEPT ![s] = Tail(q)]
      /\ linked' = [linked EXCEPT ![u] = @ \/ e.type = "auth:ok"]
      /\ Handle(u, e) /\ UNCHANGED vars /\ device' = device /\ opened' = opened
  BY <1>0 DEF Receive
<1>2. /\ sockState' = sockState /\ sockUser' = sockUser /\ connections' = connections /\ asking' = asking
      /\ pending' = pending /\ timers' = timers /\ verifying' = verifying
  BY <1>1 DEF vars
<1>3. s \in Sockets /\ q \in Seq(ServerEvent)
  BY <1>0, <1>1 DEF MirrorTypeOK
<1>4. /\ wire'[s] = Tail(q) /\ \A x \in Sockets \ {s} : wire'[x] = wire[x]
      /\ wire' \in [Sockets -> Seq(ServerEvent)] /\ e \in ServerEvent
  <2>1. Tail(q) \in Seq(ServerEvent) /\ e \in ServerEvent
    BY <1>1, <1>3, TailAt
  <2> HIDE DEF q, e
  <2> QED BY <1>0, <1>1, <1>3, <2>1 DEF MirrorTypeOK
<1>5. /\ SaysOk(Tail(q)) => SaysOk(q)
      /\ e.type = "auth:ok" => SaysOk(q)
      /\ Asked(Tail(q)) => Asked(q)
  BY <1>1, <1>3, TailSays
<1>6. /\ \A w \in Users \ {u} : linked'[w] = linked[w]
      /\ linked[u] => linked'[u]
      /\ linked'[u] => linked[u] \/ e.type = "auth:ok"
      /\ linked' \in [Users -> BOOLEAN]
  <2> DEFINE ok == e.type = "auth:ok"
  <2>1. linked' = [linked EXCEPT ![u] = linked[u] \/ ok] /\ linked \in [Users -> BOOLEAN]
    BY <1>0, <1>1 DEF MirrorTypeOK
  <2> HIDE DEF ok
  <2>2. linked'[u] = (linked[u] \/ ok) /\ \A w \in Users \ {u} : linked'[w] = linked[w]
    BY <2>1
  <2>3. linked' \in [Users -> BOOLEAN]
    BY <2>1
  <2> QED BY <2>2, <2>3 DEF ok
<1>7. /\ session' \in [Users -> [Users -> SessionState]] /\ incoming' \in [Users -> SUBSET Users]
      /\ \A w \in Users \ {u} : session'[w] = session[w]
      /\ \A v \in Users : \/ session'[u][v] # "pending"
                          \/ session'[u][v] = session[u][v] /\ ~About(e, v)
                          \/ e.type = "session:requested" /\ e.peer = v
      /\ e.type = "auth:ok" => \A v \in Users : session'[u][v] = "none"
  BY <1>0, <1>1, <1>4, HandleEffect
<1>8. \A w \in Users \ {u} : device[w] # None => device[w] \in Sockets \ {s}
  BY <1>0, <1>1 DEF ChatInv, SocketsOwn, MirrorTypeOK
<1> HIDE DEF e, q
<1>9. NewUntouched'
  BY <1>1, <1>2, <1>4 DEF ChatInv, NewUntouched
<1>10. VerifyingAlone'
  <2> SUFFICES ASSUME NEW x \in Sockets, NEW w \in Users, <<x, w>> \in verifying
               PROVE  /\ sockUser'[x] = None /\ (device'[w] = x => ~linked'[w]) /\ ~SaysOk(wire'[x])
                      /\ \A y \in Users : device'[y] = x \/ <<x, y>> \in verifying' => y = w
    BY <1>2 DEF VerifyingAlone
  <2>1. /\ sockUser[x] = None /\ (device[w] = x => ~linked[w]) /\ ~SaysOk(wire[x])
        /\ \A y \in Users : device[y] = x \/ <<x, y>> \in verifying => y = w
    BY DEF ChatInv, VerifyingAlone
  <2>2. ~SaysOk(wire'[x])
    BY <1>4, <1>5, <2>1 DEF q
  <2>3. device[w] = x => ~linked'[w]
    BY <1>1, <1>5, <1>6, <2>1 DEF q
  <2> QED BY <1>1, <1>2, <2>1, <2>2, <2>3
<1>11. SocketsOwn'
  BY <1>1, <1>2 DEF ChatInv, SocketsOwn
<1>12. LinkedRegistered'
  <2> SUFFICES ASSUME NEW w \in Users
               PROVE  /\ linked'[w] => device[w] # None
                      /\ device[w] # None /\ sockState[device[w]] = "open" /\ (linked'[w] \/ SaysOk(wire'[device[w]]))
                            => connections[w] = device[w]
                      /\ device[w] # None /\ ~linked'[w] => ~Asked(wire'[device[w]])
    BY <1>1, <1>2 DEF LinkedRegistered
  <2>1. CASE w = u
    BY <1>1, <1>4, <1>5, <1>6, <2>1 DEF ChatInv, LinkedRegistered, q
  <2>2. CASE w # u
    BY <1>4, <1>6, <1>8, <2>2 DEF ChatInv, LinkedRegistered
  <2> QED BY <2>1, <2>2
<1>13. AskedOnSocket'
  BY <1>1, <1>2, <1>6 DEF ChatInv, AskedOnSocket
<1>14. WaitsOwed'
  <2> SUFFICES ASSUME NEW w \in Users, NEW v \in Users, Heard(w)',
                      WillWait(wire'[device[w]], session'[w][v], v)
               PROVE  w # v /\ Owed(w, v)'
    BY <1>1 DEF WaitsOwed
  <2>1. Heard(w) /\ WillWait(wire[device[w]], session[w][v], v)
    <3>1. CASE w # u
      <4>1. Heard(w)
        BY <1>1, <1>2, <1>6, <3>1 DEF Heard
      <4>2. device[w] # None
        BY <4>1 DEF Heard, ChatInv, LinkedRegistered
      <4> QED BY <1>4, <1>7, <1>8, <3>1, <4>1, <4>2
    <3>2. CASE w = u
      <4>1. WillWait(Tail(q), session'[u][v], v)
        BY <1>4, <3>2
      <4>2. linked[u]
        <5> SUFFICES ASSUME ~linked[u] PROVE FALSE
          OBVIOUS
        <5>1. e.type = "auth:ok" /\ session'[u][v] = "none"
          BY <1>6, <1>7, <3>2 DEF Heard
        <5>2. Asked(Tail(q))
          BY <4>1, <5>1 DEF WillWait, Asked
        <5> QED BY <1>1, <1>5, <5>2 DEF ChatInv, LinkedRegistered, q
      <4>3. WillWait(q, session[u][v], v)
        <5> DEFINE r == session'[u][v]
                   p == session[u][v]
        <5>1. /\ WillWait(Tail(q), r, v)
              /\ \/ r # "pending"
                 \/ r = p /\ ~About(Head(q), v)
                 \/ Head(q).type = "session:requested" /\ Head(q).peer = v
          BY <1>7, <4>1 DEF e
        <5> HIDE DEF r, p
        <5>2. WillWait(q, p, v)
          BY <1>1, <1>3, <5>1, TailWait DEF q
        <5> QED BY <5>2 DEF p
      <4> QED BY <1>1, <1>2, <3>2, <4>2, <4>3 DEF Heard, q
    <3> QED BY <3>1, <3>2
  <2>2. w # v /\ Owed(w, v)
    BY <2>1 DEF ChatInv, WaitsOwed
  <2>3. Recorded(w, v) => Recorded(w, v)'
    BY <1>2 DEF Recorded, getPendingSession, pairKey
  <2> QED BY <1>1, <1>2, <2>2, <2>3, StaysOwed
<1>15. MirrorTypeOK'
  <2>1. TypeOK'
    BY DEF IInv
  <2> QED BY <1>0, <1>1, <1>4, <1>6, <1>7, <2>1 DEF MirrorTypeOK
<1> QED BY <1>9, <1>10, <1>11, <1>12, <1>13, <1>14, <1>15 DEF ChatInv

\* What the devices and the relay do together is a step of the relay.
LEMMA ChatStep == ChatInv /\ [ChatNext]_allVars => [Next]_vars
<1> SUFFICES ASSUME ChatInv, ChatNext PROVE [Next]_vars
  BY DEF allVars
<1>1. ASSUME NEW s \in Sockets, NEW u \in Users, FinishAuth(s, u) \/ Connect(u, s) PROVE [Next]_vars
  <2>1. AuthVerified(s, u) \/ AuthRejected(s, u) \/ Authenticate(s, u)
    BY <1>1 DEF FinishAuth, RelayAuthVerified, RelayAuthRejected, Connect
  <2> QED BY <2>1 DEF Next, Server, Clients
<1>2. ASSUME NEW s \in Sockets, RelaySocketClosed(s) PROVE [Next]_vars
  BY <1>2 DEF RelaySocketClosed, Next, Clients
<1>3. ASSUME NEW h \in asking, FinishRequest(h) PROVE [Next]_vars
  <2>1. NotApproved(h) \/ AlreadyActive(h) \/ GlareAccept(h) \/ TargetOffline(h) \/ RecordRequest(h)
    BY <1>3 DEF FinishRequest, RelayNotApproved, RelayAlreadyActive, RelayGlareAccept, RelayTargetOffline,
                RelayRecordRequest
  <2> QED BY <2>1 DEF Next, Server
<1>4. ASSUME NEW t \in timers, RelayTimeout(t) PROVE [Next]_vars
  BY <1>4 DEF RelayTimeout, Next, Server
<1>5. ASSUME NEW u \in Users, Drop(u) \/ Receive(u) PROVE [Next]_vars
  BY <1>5 DEF Drop, Receive
<1>6. ASSUME NEW u \in Users, NEW v \in Users, RequestChat(u, v) PROVE [Next]_vars
  <2>1. CASE FrameArrives(u)
    <3>1. device[u] \in Sockets /\ SessionRequest(device[u], v)
      BY <1>6, <2>1, LinkedDevice DEF RequestChat, FrameArrives
    <3> QED BY <3>1 DEF Next, Clients
  <2>2. CASE ~FrameArrives(u)
    BY <1>6, <2>2 DEF RequestChat
  <2> QED BY <2>1, <2>2
<1>7. ASSUME NEW u \in Users, NEW v \in Users, NEW accept \in BOOLEAN, RespondToRequest(u, v, accept)
      PROVE  [Next]_vars
  <2>1. CASE FrameArrives(u) /\ Answerable(device[u], v)
    <3>1. device[u] \in Sockets /\ SessionRespond(device[u], v, accept)
      BY <1>7, <2>1, LinkedDevice DEF RespondToRequest, Answered, FrameArrives
    <3> QED BY <3>1 DEF Next, Clients
  <2>2. CASE ~(FrameArrives(u) /\ Answerable(device[u], v))
    BY <1>7, <2>2 DEF RespondToRequest, Answered
  <2> QED BY <2>1, <2>2
<1> QED BY <1>1, <1>2, <1>3, <1>4, <1>5, <1>6, <1>7 DEF ChatNext

\* Before anyone has connected nobody waits.
LEMMA ChatInvInit == Init2 => ChatInv
<1> SUFFICES ASSUME Init2 PROVE ChatInv
  OBVIOUS
<1>1. IInv /\ Init
  BY InitIInv DEF Init2
<1>2. MirrorTypeOK
  <2>1. <<>> \in Seq(ServerEvent) /\ "none" \in SessionState
    BY DEF SessionState
  <2> QED BY <1>1, <2>1 DEF Init2, MirrorTypeOK, IInv
<1>3. NewUntouched /\ VerifyingAlone /\ SocketsOwn /\ LinkedRegistered /\ AskedOnSocket /\ WaitsOwed
  BY <1>1, NoneAssumption DEF Init2, Init, NewUntouched, VerifyingAlone, SocketsOwn, LinkedRegistered,
     AskedOnSocket, WaitsOwed, Heard
<1> QED BY <1>1, <1>2, <1>3 DEF ChatInv

\* One lemma per action, above; here they are put together.
LEMMA ChatInvStep == ChatInv /\ [ChatNext]_allVars /\ [ChecksInTurn]_allVars => ChatInv'
<1> SUFFICES ASSUME ChatInv, [ChatNext]_allVars, [ChecksInTurn]_allVars PROVE ChatInv'
  OBVIOUS
<1>0. IInv'
  BY ChatStep, IInvPreserved DEF ChatInv
<1>4. ChecksInTurn
  BY DEF ChecksInTurn, allVars, vars
<1>1. ASSUME NEW s \in Sockets, NEW u \in Users, FinishAuth(s, u) \/ Connect(u, s) PROVE ChatInv'
  BY <1>0, <1>1, <1>4, VerifiedKept, RejectedKept, ConnectKept DEF FinishAuth
<1>2. ASSUME NEW h \in asking, FinishRequest(h) PROVE ChatInv'
  BY <1>0, <1>2, AnsweredKept, GlareKept, RecordKept DEF FinishRequest
<1>3. CASE UNCHANGED allVars
  <2>1. /\ sockState' = sockState /\ sockUser' = sockUser /\ connections' = connections /\ verifying' = verifying
        /\ pending' = pending /\ asking' = asking /\ timers' = timers
        /\ wire' = wire /\ device' = device /\ linked' = linked /\ session' = session /\ incoming' = incoming
        /\ opened' = opened
    BY <1>3 DEF allVars, appVars, vars, mirror
  <2>2. Writes /\ Closes /\ Asks
    BY <2>1 DEF ChatInv, MirrorTypeOK, Writes, Closes, Asks
  <2>3. NewUntouched' /\ VerifyingAlone' /\ SocketsOwn' /\ LinkedRegistered' /\ AskedOnSocket'
    BY <2>1, <2>2, OthersKept
  <2>4. MirrorTypeOK'
    BY <1>0, <2>1 DEF ChatInv, MirrorTypeOK, IInv
  <2>5. WaitsOwed'
    BY <2>1 DEF ChatInv, WaitsOwed, Heard, Owed, Recorded, getPendingSession, pairKey
  <2> QED BY <1>0, <2>3, <2>4, <2>5 DEF ChatInv
<1> QED BY <1>0, <1>1, <1>2, <1>3, ClosedKept, TimeoutKept, DropKept, ReceiveKept, RequestKept, RespondKept DEF ChatNext

\* Nobody waits for nothing: a chat screen that says "Waiting for ... to accept"
\* (chatSessionStore.ts), on a good connection with every event read, waits for a
\* request that handleSessionRequest is checking or that is recorded with its 60 s
\* timer, whichever glare, answer, timeout, close or reconnect came before: as long
\* as no verification (index.ts 379) of a socket the app has left ends well after
\* that of the socket it opened instead.
THEOREM WaitsAnswered == ChatSpec /\ [][ChecksInTurn]_allVars => []NobodyWaitsForNothing
<1>1. ChatInv => NobodyWaitsForNothing
  <2> SUFFICES ASSUME ChatInv, NEW u \in Users, NEW v \in Users, session[u][v] = "pending", Settled(u)
               PROVE  \/ \E h \in asking : h.userId = u /\ h.to = v
                      \/ getPendingSession(u, v) \in {t \in timers : t.requesterId = u}
    BY DEF NobodyWaitsForNothing
  <2>1. Heard(u) /\ wire[device[u]] = <<>>
    BY DEF Settled, FrameArrives, Heard
  <2>2. WillWait(wire[device[u]], session[u][v], v)
    BY <2>1 DEF WillWait
  <2> QED BY <2>1, <2>2 DEF ChatInv, WaitsOwed, Owed, Recorded
<1>2. ChatInv /\ [ChatNext]_allVars /\ [ChecksInTurn]_allVars => ChatInv'
  BY ChatInvStep
<1> QED BY <1>1, <1>2, ChatInvInit, PTL DEF ChatSpec
=============================================================================
