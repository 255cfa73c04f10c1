----------------------------- MODULE PushPings -----------------------------
(***************************************************************************)
(* The relay's push notifications to one recipient, server/src/pushPing.ts, *)
(* and the handlers of server/src/index.ts that ask for them.  A handler   *)
(* fetches the sender's name first, so several pings of a kind may be on   *)
(* their way when the cooldown is checked, and the push itself takes time. *)
(***************************************************************************)
EXTENDS Integers, FiniteSets

CONSTANTS Devices,     \* the recipient's, each with its push token
          LongPause, ShortPause,  \* the cooldowns of 60 and of 5 seconds
          MaxMoment,   \* bound: Date.now()
          MaxNaming    \* bound: getUsername calls of a kind under way

ASSUME PushAssumption ==
    /\ LongPause \in Nat /\ ShortPause \in Nat /\ MaxMoment \in Nat /\ MaxNaming \in Nat
    /\ IsFiniteSet(Devices)

VARIABLES
    moment,      \* Date.now()
    naming,      \* per kind, the getUsername calls under way
    lastPing,    \* lastPingAt and the like: per kind, when the recipient was last pinged
    tokens,      \* device_push_tokens and users.push_token
    gone,        \* devices from which the app has been removed
    sends,       \* requests to Expo under way: the tokens read
    pushed       \* history: per kind, the number of pushes and when the last one was decided

pingVars == <<moment, naming, lastPing, tokens, gone, sends, pushed>>

Kinds == {"message", "call", "session_request", "contact_request"}
Pause(k) == IF k \in {"message", "contact_request"} THEN LongPause ELSE ShortPause

PingInit ==
    /\ moment = LongPause + ShortPause
    /\ naming = [k \in Kinds |-> 0]
    /\ lastPing = [k \in Kinds |-> 0]
    /\ tokens = Devices /\ gone = {} /\ sends = {}
    /\ pushed = [k \in Kinds |-> [n |-> 0, at |-> 0]]

\* A message or a session request to one who is offline, a request or a ring
\* whether they are or not, and a contact request that exists.
Trigger(k) ==
    /\ naming[k] < MaxNaming
    /\ naming' = [naming EXCEPT ![k] = @ + 1]
    /\ UNCHANGED <<moment, lastPing, tokens, gone, sends, pushed>>

\* The four ping functions: the check and the stamp are one step.
CoolingDown(k) == moment - lastPing[k] < Pause(k)
\* A Bad... operator is the same operator with a mistake in it, and no action uses it.
BadStamp(k) == IF sends = {} THEN [lastPing EXCEPT ![k] = moment] ELSE lastPing
Stamp(k) == [lastPing EXCEPT ![k] = moment]

Ping(k) ==
    /\ naming[k] > 0
    /\ naming' = [naming EXCEPT ![k] = @ - 1]
    /\ IF CoolingDown(k) THEN UNCHANGED <<lastPing, sends, pushed>>
       ELSE /\ lastPing' = Stamp(k)
            /\ sends' = IF tokens = {} THEN sends ELSE sends \cup {tokens}
            /\ pushed' = [pushed EXCEPT ![k] = [n |-> @.n + 1, at |-> moment]]
    /\ UNCHANGED <<moment, tokens, gone>>

\* sendExpoPush: Expo answers with a ticket for each token, or not at all;
\* removePushToken for those of a device that is not registered any more
Tickets(to) ==
    /\ to \in sends /\ sends' = sends \ {to}
    /\ tokens' \in {tokens, tokens \ (to \cap gone)}
    /\ UNCHANGED <<moment, naming, lastPing, gone, pushed>>

Uninstall(d) ==
    /\ d \notin gone /\ gone' = gone \cup {d}
    /\ UNCHANGED <<moment, naming, lastPing, tokens, sends, pushed>>

TimeGoesOn ==
    /\ moment < MaxMoment /\ moment' = moment + 1
    /\ UNCHANGED <<naming, lastPing, tokens, gone, sends, pushed>>

PingNext ==
    \/ \E k \in Kinds : Trigger(k) \/ Ping(k)
    \/ \E to \in sends : Tickets(to)
    \/ \E d \in Devices : Uninstall(d)
    \/ TimeGoesOn

PingSpec == PingInit /\ [][PingNext]_pingVars
-----------------------------------------------------------------------------
\* However many handlers ask at once and however long Expo takes, two pushes of
\* one kind to one recipient are at least its cooldown apart (PING_COOLDOWN_MS
\* and the others; the check and the stamp have no await between them).
PingsSpaced ==
    [][\A k \in Kinds : pushed[k].n > 0 /\ pushed'[k].n > pushed[k].n
                            => pushed'[k].at - pushed[k].at >= Pause(k)]_pushed
=============================================================================
