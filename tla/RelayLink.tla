------------------------------ MODULE RelayLink ------------------------------
(***************************************************************************)
(* The app's one connection to the relay, app/src/lib/relayClient.ts: the  *)
(* socket and its authentication, the reconnect timer, the connect timeout, *)
(* the watchdog and the probe after a return to the foreground.            *)
(*                                                                         *)
(* A socket may be dead without anybody knowing; the operating system may  *)
(* or may not report it later.  Delays are what a timer may do, so the     *)
(* back-off number is left out.  The token is the account it belongs to.   *)
(***************************************************************************)
EXTENDS Integers

CONSTANTS Accounts, NoOne,
          MaxCalls,   \* bound: sign-ins, sign-outs, returns to the foreground
          MaxFaults   \* bound: failed, lost, silently dead or refused connections

ASSUME RelayLinkAssumption ==
    MaxCalls \in Nat /\ MaxFaults \in Nat /\ NoOne \notin Accounts /\ NoOne \notin BOOLEAN

VARIABLES
    link,     \* the fields of RelayClient
    client,   \* supabase.auth: the account whose token getSession returns
    linkCalls, linkFaults

linkVars == <<link, client, linkCalls, linkFaults>>

\* `asked' is the token sendAuth started with, `got' the one it will send, and
\* `fell' whether that is the old one, for want of an answer of the provider.
Socket == [ready : {"connecting", "open"}, auth : {"no", "asking", "asked", "sent"},
           asked : Accounts \cup {NoOne}, got : Accounts \cup {NoOne}, fell : BOOLEAN,
           as : Accounts \cup {NoOne}, dead : BOOLEAN]
Link == [token : Accounts \cup {NoOne}, userId : Accounts \cup {NoOne}, manuallyClosed : BOOLEAN,
         socket : Socket \cup {NoOne}, status : {"idle", "connecting", "connected", "reconnecting"},
         reconnectTimer : BOOLEAN, watchdog : BOOLEAN,
         probe : BOOLEAN \cup {NoOne}]   \* the timer, and whether a frame came since

LinkTypeOK ==
    /\ link \in Link
    /\ client \in Accounts \cup {NoOne}
    /\ linkCalls \in Nat /\ linkFaults \in Nat

-----------------------------------------------------------------------------
(* Parts of the client.  A Bad... operator is the same operator with a     *)
(* mistake in it, and no action uses it.                                   *)

NewSocket == [ready |-> "connecting", auth |-> "no", asked |-> NoOne, got |-> NoOne, fell |-> FALSE,
              as |-> NoOne, dead |-> FALSE]

\* openSocket: the old socket is detached and closed, its connect timer with
\* it; the new one counts as just heard from.
OpenSocket(l) ==
    [l EXCEPT !.socket = NewSocket, !.status = "connecting", !.reconnectTimer = FALSE, !.watchdog = TRUE,
              !.probe = IF @ = NoOne THEN NoOne ELSE TRUE]

DiscardSocket(l) == [l EXCEPT !.socket = NoOne]

\* One pending attempt is enough; none after an intentional close.
BadScheduleReconnect(l) == IF l.manuallyClosed THEN l ELSE [l EXCEPT !.status = "reconnecting"]
ScheduleReconnect(l) ==
    IF l.manuallyClosed THEN l ELSE [l EXCEPT !.status = "reconnecting", !.reconnectTimer = TRUE]

ReconnectNow(l) ==
    IF l.manuallyClosed \/ l.token = NoOne THEN l ELSE ScheduleReconnect(DiscardSocket(l))

BadConnectTo(l, a) ==
    LET m == [l EXCEPT !.manuallyClosed = FALSE, !.token = a, !.userId = a]
    IN  IF l.socket # NoOne THEN m ELSE OpenSocket(m)
ConnectTo(l, a) ==
    LET same == l.userId \in {NoOne, a}
        m == [l EXCEPT !.manuallyClosed = FALSE, !.token = a, !.userId = a]
    IN  IF l.socket # NoOne /\ same THEN m ELSE OpenSocket(m)

BadDisconnect(l) ==
    [l EXCEPT !.manuallyClosed = TRUE, !.token = NoOne, !.userId = NoOne, !.socket = NoOne,
              !.probe = NoOne, !.watchdog = FALSE, !.status = "idle"]
Disconnect(l) ==
    [l EXCEPT !.manuallyClosed = TRUE, !.token = NoOne, !.userId = NoOne, !.socket = NoOne,
              !.reconnectTimer = FALSE, !.probe = NoOne, !.watchdog = FALSE, !.status = "idle"]

\* onclose: the socket is gone, by the relay, the network or the system.
BadClosed(l) == [l EXCEPT !.socket = NoOne, !.status = "reconnecting"]
Closed(l) ==
    IF l.manuallyClosed THEN [l EXCEPT !.socket = NoOne, !.status = "idle"]
    ELSE ScheduleReconnect([l EXCEPT !.socket = NoOne])

InitialLink ==
    [token |-> NoOne, userId |-> NoOne, manuallyClosed |-> FALSE, socket |-> NoOne, status |-> "idle",
     reconnectTimer |-> FALSE, watchdog |-> FALSE, probe |-> NoOne]

LinkInit == link = InitialLink /\ client = NoOne /\ linkCalls = 0 /\ linkFaults = 0

-----------------------------------------------------------------------------
(* The socket                                                              *)

Ready(state) == link.socket # NoOne /\ link.socket.ready = state
LinkQuiet == UNCHANGED <<client, linkCalls>>
NoFault == UNCHANGED linkFaults
Fault == linkFaults < MaxFaults /\ linkFaults' = linkFaults + 1

\* onopen: sendAuth starts to fetch a current token.
SocketOpens ==
    /\ Ready("connecting") /\ ~link.socket.dead
    /\ link' = [link EXCEPT !.socket.ready = "open", !.socket.auth = "asking", !.socket.asked = link.token]
    /\ LinkQuiet /\ NoFault

\* The token provider answers, or fails: then the token sendAuth began with.
TokenFetched ==
    /\ Ready("open") /\ link.socket.auth = "asking"
    /\ \E t \in {client, NoOne} :
         link' = [link EXCEPT !.socket.auth = "asked", !.socket.got = IF t = NoOne THEN link.socket.asked ELSE t,
                                 !.socket.fell = t = NoOne]
    /\ LinkQuiet /\ NoFault

SendAuth ==
    /\ Ready("open") /\ link.socket.auth = "asked"
    /\ link' = [link EXCEPT !.socket.auth = "sent"]
    /\ LinkQuiet /\ NoFault

\* auth:ok is the first frame of a connection that is really good.
AuthOk ==
    /\ Ready("open") /\ link.socket.auth = "sent" /\ link.socket.as = NoOne /\ ~link.socket.dead
    /\ link.socket.got # NoOne
    /\ link' = [link EXCEPT !.socket.as = link.socket.got, !.status = "connected",
                            !.probe = IF @ = NoOne THEN NoOne ELSE TRUE]
    /\ LinkQuiet /\ NoFault

\* Any other frame of the relay, its pings among them.
Frame ==
    /\ Ready("open") /\ link.socket.as # NoOne /\ ~link.socket.dead
    /\ link.probe = FALSE
    /\ link' = [link EXCEPT !.probe = TRUE]
    /\ LinkQuiet /\ NoFault

\* The connection fails, is cut, or the relay refuses the token and closes.
SocketCloses ==
    /\ link.socket # NoOne
    /\ link' = Closed(link)
    /\ Fault /\ LinkQuiet

\* The network or the phone's sleep kills the connection and nobody is told.
SocketDies ==
    /\ link.socket # NoOne /\ ~link.socket.dead
    /\ link' = [link EXCEPT !.socket.dead = TRUE]
    /\ Fault /\ LinkQuiet

DeathReported ==
    /\ link.socket # NoOne /\ link.socket.dead
    /\ link' = Closed(link)
    /\ LinkQuiet /\ NoFault

-----------------------------------------------------------------------------
(* Timers                                                                  *)

ReconnectTimer ==
    /\ link.reconnectTimer
    /\ link' = OpenSocket(link)
    /\ LinkQuiet /\ NoFault

\* Armed for as long as the socket has not opened.
ConnectTimeout ==
    /\ Ready("connecting") /\ link.socket.dead
    /\ link' = ReconnectNow(link)
    /\ LinkQuiet /\ NoFault

\* Only an authenticated connection is watched.
BadWatchdog == FALSE /\ UNCHANGED linkVars
Watchdog ==
    /\ link.watchdog /\ ~link.manuallyClosed
    /\ link.socket # NoOne /\ link.socket.dead /\ link.status = "connected"
    /\ link' = ReconnectNow(link)
    /\ LinkQuiet /\ NoFault

Foreground ==
    /\ linkCalls < MaxCalls /\ linkCalls' = linkCalls + 1
    /\ ~link.manuallyClosed /\ link.token # NoOne
    /\ IF link.socket = NoOne
         THEN link' = ReconnectNow(link)
         ELSE /\ link.socket.ready = "open" /\ link.status = "connected"
              /\ link' = [link EXCEPT !.probe = FALSE]
    /\ UNCHANGED client /\ NoFault

ProbeTimer ==
    /\ link.probe # NoOne
    /\ link' = IF link.probe THEN [link EXCEPT !.probe = NoOne]
               ELSE ReconnectNow([link EXCEPT !.probe = NoOne])
    /\ LinkQuiet /\ NoFault

-----------------------------------------------------------------------------
(* Its callers, in short; module AccountSession has them at length         *)

LogIn(a) ==
    /\ linkCalls < MaxCalls /\ linkCalls' = linkCalls + 1
    /\ client' = a
    /\ link' = ConnectTo(link, a)
    /\ NoFault

LogOut ==
    /\ linkCalls < MaxCalls /\ linkCalls' = linkCalls + 1
    /\ client # NoOne
    /\ client' = NoOne
    /\ link' = Disconnect(link)
    /\ NoFault

LinkStep ==
    \/ SocketOpens \/ TokenFetched \/ SendAuth \/ AuthOk \/ Frame
    \/ SocketCloses \/ SocketDies \/ DeathReported
    \/ ReconnectTimer \/ ConnectTimeout \/ Watchdog \/ ProbeTimer

LinkNext == LinkStep \/ Foreground \/ LogOut \/ \E a \in Accounts : LogIn(a)

\* The app's own timers fire, and a live network and relay answer.  The system
\* need not ever report a dead socket.
LinkFairness ==
    /\ WF_linkVars(SocketOpens) /\ WF_linkVars(TokenFetched) /\ WF_linkVars(SendAuth) /\ WF_linkVars(AuthOk)
    /\ WF_linkVars(ReconnectTimer) /\ WF_linkVars(ConnectTimeout) /\ WF_linkVars(Watchdog)

LinkSpec == LinkInit /\ [][LinkNext]_linkVars /\ LinkFairness

-----------------------------------------------------------------------------
(* Properties                                                              *)

\* The connect timer is cleared when a socket opens, and the watchdog and the
\* probe look at authenticated ones: nothing of the app looks after this one.
Unwatched == Ready("open") /\ link.socket.dead /\ link.status # "connected"

\* Whatever is lost, refused or silently dead, a client that nobody closed ends up
\* with a working connection: in every other state there is a timer, an attempt
\* or an answer under way (scheduleReconnect, the connect timer, the watchdog).
\* A socket that dies between its opening and auth:ok is the one place where the
\* client can stay for ever, unless the system reports it (DeadIsTornDown).
ComesBack ==
    (link.token # NoOne) ~>
        (\/ link.manuallyClosed
         \/ link.status = "connected" /\ ~link.socket.dead
         \/ Unwatched)

\* After disconnect() nothing that was under way opens a connection: no timer,
\* no socket, no answer to a question asked before.
ClosedIsQuiet ==
    link.manuallyClosed =>
        link.socket = NoOne /\ ~link.reconnectTimer /\ link.probe = NoOne /\ link.status = "idle"

\* What the header promises of a connection over which nothing arrives: it is
\* torn down.  The watchdog looks at authenticated connections only.
DeadIsTornDown ==
    (link.socket # NoOne /\ link.socket.dead) ~> (link.socket = NoOne \/ ~link.socket.dead)

=============================================================================
