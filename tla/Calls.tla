------------------------------- MODULE Calls -------------------------------
(***************************************************************************)
(* Two-party calls: app/src/state/callStore.ts on every device, the relay's *)
(* call:signal handler of server/src/index.ts between them, and the ring   *)
(* records of server/src/state.ts that are replayed to a reconnecting app. *)
(*                                                                         *)
(* A signal waits at the relay for areApprovedContacts (`frames'), then on *)
(* its way to the other device (`wire').  The awaits of the store, for the *)
(* microphone and inside WebRTC, are entries of `working'; what follows an *)
(* await runs whatever has become of the call.  WebRTC and the network are *)
(* modelled by what the store sees of them.  Candidates, audio routes, the *)
(* call log and whether a call has video are left out.                     *)
(***************************************************************************)
EXTENDS Integers, SequencesExt

CONSTANTS Users, None,
          SlowChecks,  \* may approval checks come back out of order, or fail
          MicGranted,  \* may getUserMedia succeed
          MaxRings,    \* bound: calls placed
          MaxCuts,     \* bound: lost connections, killed apps, restarts of the relay
          MaxFrames    \* bound: signals in one queue when a button is pressed

ASSUME CallsAssumption ==
    /\ SlowChecks \in BOOLEAN /\ MicGranted \in BOOLEAN
    /\ MaxRings \in Nat /\ MaxCuts \in Nat /\ MaxFrames \in Nat
    /\ None \notin Users

VARIABLES
    online,   \* users connected to the relay
    frames,   \* per sender, the call:signal handlers waiting for the approval check
    wire,     \* per receiver, the signals forwarded to the device
    rings,    \* RelayState.activeRings: callee -> caller or None
    phase,    \* callStore.phase; callStore.incoming is set exactly in 'ringing-in'
    peer,     \* callStore.peerId
    timers,   \* the armed timers of the store
    calls,    \* number of the store's current or last call
    working,  \* the continuations after an await of the store
    pc,       \* the module's RTCPeerConnection
    mics,     \* the calls whose microphone tracks run: their connection is not closed
    rung, cuts,
    picked    \* history: per user, the numbers of the calls they placed or accepted

relay == <<online, frames, wire, rings>>
store == <<phase, peer, timers, calls>>
media == <<working, pc, mics>>
vars == <<relay, store, media, rung, cuts, picked>>

Resolving == {"accept", "decline", "busy", "timeout", "hangup"}
CallSignal == [kind : {"ring", "offer", "answer"} \cup Resolving, from : Users, to : Users, pc : Nat]
Signal(kind, u, v, id) == [kind |-> kind, from |-> u, to |-> v, pc |-> id]

\* A connection is numbered by the call it was made in; `remote' is the other
\* connection, once its description is set.
Connection == [id : Nat, remote : {None} \cup (Users \X Nat),
               state : {"new", "connected", "disconnected"}]
Work == [step : {"callerMedia", "calleeMedia", "makeOffer", "makeAnswer", "takeAnswer"},
         to : Users, call : Nat]

Phases == {"idle", "ringing-out", "ringing-in", "connecting", "active", "ended"}

TypeOK ==
    /\ online \subseteq Users
    /\ frames \in [Users -> Seq(CallSignal)]
    /\ wire \in [Users -> Seq(CallSignal)]
    /\ rings \in [Users -> Users \cup {None}]
    /\ phase \in [Users -> Phases]
    /\ peer \in [Users -> Users \cup {None}]
    /\ timers \in [Users -> SUBSET {"ring", "connecting", "ice", "ended"}]
    /\ calls \in [Users -> Nat]
    /\ working \in [Users -> SUBSET Work]
    /\ pc \in [Users -> {None} \cup Connection]
    /\ mics \in [Users -> SUBSET Nat]
    /\ rung \in Nat /\ cuts \in Nat
    /\ picked \in [Users -> SUBSET Nat]
    /\ \A u \in Users : pc[u] # None => pc[u].id \in mics[u]

-----------------------------------------------------------------------------
(* Parts of the store.  A Bad... operator is the same operator with a      *)
(* mistake in it, and no action uses it.                                   *)

\* relayClient.send: without a connection the signal is lost.
Send(u, v, kind, id) ==
    frames' = IF u \in online THEN [frames EXCEPT ![u] = Append(@, Signal(kind, u, v, id))] ELSE frames

Enter(u, p, v) == phase' = [phase EXCEPT ![u] = p] /\ peer' = [peer EXCEPT ![u] = v]

\* endCall: everything of the call is torn down, and nobody is told.
BadTeardown(u) ==
    /\ mics' = IF pc[u] = None THEN mics ELSE [mics EXCEPT ![u] = @ \ {pc[u].id}]
    /\ pc' = pc
Teardown(u) ==
    /\ mics' = IF pc[u] = None THEN mics ELSE [mics EXCEPT ![u] = @ \ {pc[u].id}]
    /\ pc' = [pc EXCEPT ![u] = None]
BadEndCall(u) ==
    /\ phase' = [phase EXCEPT ![u] = "ended"]
    /\ timers' = [timers EXCEPT ![u] = {}]
    /\ Teardown(u)
    /\ UNCHANGED <<peer, calls>>
EndCall(u) ==
    /\ phase' = [phase EXCEPT ![u] = "ended"]
    /\ timers' = [timers EXCEPT ![u] = {"ended"}]
    /\ Teardown(u)
    /\ UNCHANGED <<peer, calls>>

Start(u, step, v) == working' = [working EXCEPT ![u] = @ \cup {[step |-> step, to |-> v, call |-> calls[u]]}]
Continue(u, w) == w \in working[u] /\ working' = [working EXCEPT ![u] = @ \ {w}]

Init ==
    /\ online = {}
    /\ frames = [u \in Users |-> <<>>]
    /\ wire = [u \in Users |-> <<>>]
    /\ rings = [u \in Users |-> None]
    /\ phase = [u \in Users |-> "idle"]
    /\ peer = [u \in Users |-> None]
    /\ timers = [u \in Users |-> {}]
    /\ calls = [u \in Users |-> 0]
    /\ working = [u \in Users |-> {}]
    /\ pc = [u \in Users |-> None]
    /\ mics = [u \in Users |-> {}]
    /\ rung = 0 /\ cuts = 0
    /\ picked = [u \in Users |-> {}]

-----------------------------------------------------------------------------
(* Buttons and timers                                                      *)

Room(u) == Len(frames[u]) < MaxFrames /\ \A v \in Users : Len(wire[v]) < MaxFrames

Ring(u, v) ==
    /\ phase[u] = "idle" /\ u # v
    /\ Room(u) /\ rung < MaxRings
    /\ rung' = rung + 1
    /\ Enter(u, "ringing-out", v)
    /\ calls' = [calls EXCEPT ![u] = @ + 1]
    /\ timers' = [timers EXCEPT ![u] = @ \cup {"ring"}]
    /\ Send(u, v, "ring", 0)
    /\ picked' = [picked EXCEPT ![u] = @ \cup {calls'[u]}]
    /\ UNCHANGED <<online, wire, rings, media, cuts>>

Accept(u) ==
    /\ phase[u] = "ringing-in"
    /\ Room(u)
    /\ Enter(u, "connecting", peer[u])
    /\ timers' = [timers EXCEPT ![u] = {"connecting"}]
    /\ Send(u, peer[u], "accept", 0)
    /\ Start(u, "calleeMedia", peer[u])
    /\ picked' = [picked EXCEPT ![u] = @ \cup {calls[u]}]
    /\ UNCHANGED <<online, wire, rings, calls, pc, mics, rung, cuts>>

Decline(u) ==
    /\ phase[u] = "ringing-in"
    /\ Room(u)
    /\ Send(u, peer[u], "decline", 0)
    /\ Enter(u, "idle", None)
    /\ UNCHANGED <<online, wire, rings, timers, calls, media, rung, cuts, picked>>

\* The button stays on the call screen while it shows how the call ended.
Hangup(u) ==
    /\ phase[u] \in {"ringing-out", "connecting", "active", "ended"}
    /\ Room(u)
    /\ IF peer[u] # None THEN Send(u, peer[u], "hangup", 0) ELSE UNCHANGED frames
    /\ EndCall(u)
    /\ UNCHANGED <<online, wire, rings, working, rung, cuts, picked>>

\* clearEnded, by the call screen.
ClearEnded(u) ==
    /\ phase[u] = "ended"
    /\ Enter(u, "idle", None)
    /\ timers' = [timers EXCEPT ![u] = @ \ {"ended"}]
    /\ UNCHANGED <<relay, calls, media, rung, cuts, picked>>

Fires(u, timer) == timer \in timers[u]
Unarmed(u, timer) == timers' = [timers EXCEPT ![u] = @ \ {timer}]

RingTimeout(u) ==
    /\ Fires(u, "ring")
    /\ IF phase[u] = "ringing-out"
       THEN Send(u, peer[u], "timeout", 0) /\ EndCall(u)
       ELSE Unarmed(u, "ring") /\ UNCHANGED <<frames, phase, peer, calls, pc, mics>>
    /\ UNCHANGED <<online, wire, rings, working, rung, cuts, picked>>

ConnectingTimeout(u) ==
    /\ Fires(u, "connecting")
    /\ IF phase[u] = "connecting"
       THEN EndCall(u)
       ELSE Unarmed(u, "connecting") /\ UNCHANGED <<phase, peer, calls, pc, mics>>
    /\ UNCHANGED <<relay, working, rung, cuts, picked>>

\* The backstop of endCall.
EndedTimeout(u) ==
    /\ Fires(u, "ended")
    /\ Unarmed(u, "ended")
    /\ IF phase[u] = "ended" THEN Enter(u, "idle", None) ELSE UNCHANGED <<phase, peer>>
    /\ UNCHANGED <<relay, calls, media, rung, cuts, picked>>

-----------------------------------------------------------------------------
(* Signals                                                                 *)

Ignore(u) == UNCHANGED <<frames, store, media>>

OnRing(u, s) ==
    IF phase[u] = "idle"
    THEN /\ Enter(u, "ringing-in", s.from)
         /\ calls' = [calls EXCEPT ![u] = @ + 1]
         /\ UNCHANGED <<frames, timers, media>>
    ELSE IF phase[u] = "ringing-in" /\ peer[u] = s.from
    THEN Ignore(u)
    ELSE Send(u, s.from, "busy", 0) /\ UNCHANGED <<store, media>>

BadPlaced(u, s) == phase[u] \in {"ringing-out", "ringing-in"} /\ peer[u] = s.from
Placed(u, s) == phase[u] = "ringing-out" /\ peer[u] = s.from
BadOnAccept(u, s) ==
    IF Placed(u, s)
    THEN /\ Enter(u, "connecting", s.from)
         /\ timers' = [timers EXCEPT ![u] = @ \cup {"connecting"}]
         /\ Start(u, "callerMedia", s.from)
         /\ UNCHANGED <<frames, calls, pc, mics>>
    ELSE Ignore(u)
OnAccept(u, s) ==
    IF Placed(u, s)
    THEN /\ Enter(u, "connecting", s.from)
         /\ timers' = [timers EXCEPT ![u] = {"connecting"}]
         /\ Start(u, "callerMedia", s.from)
         /\ UNCHANGED <<frames, calls, pc, mics>>
    ELSE Ignore(u)

\* Without a connection of its own the store fails at once, on pc!.
OnOffer(u, s) ==
    IF phase[u] = "connecting" /\ peer[u] = s.from
    THEN IF pc[u] = None
         THEN EndCall(u) /\ UNCHANGED <<frames, working>>
         ELSE /\ pc' = [pc EXCEPT ![u].remote = <<s.from, s.pc>>]
              /\ Start(u, "makeAnswer", s.from)
              /\ UNCHANGED <<frames, store, mics>>
    ELSE Ignore(u)

OnAnswer(u, s) ==
    IF peer[u] = s.from /\ pc[u] # None
    THEN /\ pc' = [pc EXCEPT ![u].remote = <<s.from, s.pc>>]
         /\ Start(u, "takeAnswer", s.from)
         /\ UNCHANGED <<frames, store, mics>>
    ELSE Ignore(u)

OnEnd(u, s) ==
    IF peer[u] = s.from THEN EndCall(u) /\ UNCHANGED <<frames, working>> ELSE Ignore(u)

Receive(u) ==
    LET s == Head(wire[u]) IN
    /\ wire[u] # <<>>
    /\ wire' = [wire EXCEPT ![u] = Tail(@)]
    /\ \/ s.kind = "ring" /\ OnRing(u, s)
       \/ s.kind = "accept" /\ OnAccept(u, s)
       \/ s.kind = "offer" /\ OnOffer(u, s)
       \/ s.kind = "answer" /\ OnAnswer(u, s)
       \/ s.kind \in {"decline", "busy", "timeout", "hangup"} /\ OnEnd(u, s)
    /\ UNCHANGED <<online, rings, rung, cuts, picked>>

-----------------------------------------------------------------------------
(* After an await                                                          *)

\* getUserMedia has answered: startLocalMedia makes the connection, and the
\* caller goes on to the offer.
MediaReady(u, w) ==
    /\ MicGranted
    /\ w \in working[u] /\ w.step \in {"callerMedia", "calleeMedia"}
    /\ mics' = [mics EXCEPT ![u] = @ \cup {w.call}]
    /\ pc' = [pc EXCEPT ![u] = [id |-> w.call, remote |-> None, state |-> "new"]]
    /\ working' = [working EXCEPT ![u] =
            IF w.step = "callerMedia" THEN (@ \ {w}) \cup {[w EXCEPT !.step = "makeOffer"]} ELSE @ \ {w}]
    /\ UNCHANGED <<relay, store, rung, cuts, picked>>

\* Refused, or no such device.
MediaFails(u, w) ==
    /\ Continue(u, w) /\ w.step \in {"callerMedia", "calleeMedia"}
    /\ EndCall(u)
    /\ UNCHANGED <<relay, rung, cuts, picked>>

\* WebRTC has made the description, or thrown: always when the connection was
\* closed meanwhile.
Described(u, w) ==
    /\ Continue(u, w) /\ w.step \in {"makeOffer", "makeAnswer"}
    /\ \/ EndCall(u) /\ UNCHANGED frames
       \/ /\ pc[u] # None
          /\ Send(u, w.to, IF w.step = "makeOffer" THEN "offer" ELSE "answer", pc[u].id)
          /\ UNCHANGED <<store, pc, mics>>
    /\ UNCHANGED <<online, wire, rings, rung, cuts, picked>>

AnswerTaken(u, w) ==
    /\ Continue(u, w) /\ w.step = "takeAnswer"
    /\ UNCHANGED <<store, pc, mics>> \/ EndCall(u)
    /\ UNCHANGED <<relay, rung, cuts, picked>>

-----------------------------------------------------------------------------
(* connectionstatechange and iceconnectionstatechange                      *)

\* Two connections reach each other when each has the other's description.
Reaches(u, v) ==
    /\ pc[u] # None /\ pc[v] # None
    /\ pc[u].remote = <<v, pc[v].id>> /\ pc[v].remote = <<u, pc[u].id>>

Connected(u) ==
    /\ \E v \in Users : Reaches(u, v)
    /\ pc[u].state # "connected"
    /\ pc' = [pc EXCEPT ![u].state = "connected"]
    /\ IF phase[u] = "connecting"
       THEN /\ phase' = [phase EXCEPT ![u] = "active"]
            /\ timers' = [timers EXCEPT ![u] = @ \ {"connecting", "ice"}]
       ELSE Unarmed(u, "ice") /\ UNCHANGED phase
    /\ UNCHANGED <<relay, peer, calls, working, mics, rung, cuts, picked>>

Disconnected(u) ==
    /\ pc[u] # None /\ pc[u].state = "connected"
    /\ pc' = [pc EXCEPT ![u].state = "disconnected"]
    /\ timers' = [timers EXCEPT ![u] = @ \cup {"ice"}]
    /\ UNCHANGED <<relay, phase, peer, calls, working, mics, rung, cuts, picked>>

IceTimeout(u) ==
    /\ Fires(u, "ice")
    /\ IF pc[u] # None /\ pc[u].state = "disconnected"
       THEN EndCall(u)
       ELSE Unarmed(u, "ice") /\ UNCHANGED <<phase, peer, calls, pc, mics>>
    /\ UNCHANGED <<relay, working, rung, cuts, picked>>

ConnectionFailed(u) ==
    /\ pc[u] # None
    /\ EndCall(u)
    /\ UNCHANGED <<relay, working, rung, cuts, picked>>

-----------------------------------------------------------------------------
(* The relay                                                               *)

BadClearRing(u, v) == [c \in Users |-> IF c \in {u, v} THEN None ELSE rings[c]]
clearRingBetween(u, v) ==
    [c \in Users |-> IF <<c, rings[c]>> \in {<<u, v>>, <<v, u>>} THEN None ELSE rings[c]]

\* The check came back: forwarded, and the ring recorded or cleared.
InTurn(u, i) == i \in DOMAIN frames[u] /\ (SlowChecks \/ i = 1)
Forward(u, i) ==
    LET s == frames[u][i] IN
    /\ InTurn(u, i)
    /\ frames' = [frames EXCEPT ![u] = RemoveAt(@, i)]
    /\ wire' = IF s.to \in online THEN [wire EXCEPT ![s.to] = Append(@, s)] ELSE wire
    /\ rings' = IF s.kind = "ring" THEN [rings EXCEPT ![s.to] = u]
                ELSE IF s.kind \in Resolving THEN clearRingBetween(u, s.to)
                ELSE rings
    /\ UNCHANGED <<online, store, media, rung, cuts, picked>>

\* A database error counts as "not a contact".
Refuse(u, i) ==
    /\ SlowChecks /\ InTurn(u, i)
    /\ frames' = [frames EXCEPT ![u] = RemoveAt(@, i)]
    /\ UNCHANGED <<online, wire, rings, store, media, rung, cuts, picked>>

RingStale(u) ==
    /\ rings[u] # None
    /\ rings' = [rings EXCEPT ![u] = None]
    /\ UNCHANGED <<online, frames, wire, store, media, rung, cuts, picked>>

\* auth:ok replays the pending ring.
BadReplay(u) == <<>>
Replay(u) == IF rings[u] = None THEN <<>> ELSE <<Signal("ring", rings[u], u, 0)>>
Connect(u) ==
    /\ u \notin online
    /\ online' = online \cup {u}
    /\ wire' = [wire EXCEPT ![u] = Replay(u)]
    /\ UNCHANGED <<frames, rings, store, media, rung, cuts, picked>>

Cut == cuts < MaxCuts /\ cuts' = cuts + 1

Disconnect(u) ==
    /\ Cut
    /\ u \in online
    /\ online' = online \ {u}
    /\ wire' = [wire EXCEPT ![u] = <<>>]
    /\ UNCHANGED <<frames, rings, store, media, rung, picked>>

\* The operating system ends the app.
Kill(u) ==
    /\ Cut
    /\ online' = online \ {u}
    /\ wire' = [wire EXCEPT ![u] = <<>>]
    /\ Enter(u, "idle", None)
    /\ timers' = [timers EXCEPT ![u] = {}]
    /\ working' = [working EXCEPT ![u] = {}]
    /\ pc' = [pc EXCEPT ![u] = None]
    /\ mics' = [mics EXCEPT ![u] = {}]
    /\ UNCHANGED <<frames, rings, calls, rung, picked>>

RelayRestart ==
    /\ Cut
    /\ online' = {}
    /\ frames' = [u \in Users |-> <<>>]
    /\ wire' = [u \in Users |-> <<>>]
    /\ rings' = [u \in Users |-> None]
    /\ UNCHANGED <<store, media, rung, picked>>

-----------------------------------------------------------------------------

Buttons(u) == (\E v \in Users : Ring(u, v)) \/ Accept(u) \/ Decline(u) \/ Hangup(u) \/ ClearEnded(u)
Timers(u) == RingTimeout(u) \/ ConnectingTimeout(u) \/ EndedTimeout(u) \/ IceTimeout(u)
Awaits(u) ==
    \E w \in working[u] : MediaReady(u, w) \/ MediaFails(u, w) \/ Described(u, w) \/ AnswerTaken(u, w)
Network(u) == Connected(u) \/ Disconnected(u) \/ ConnectionFailed(u)
Relay(u) ==
    \/ \E i \in DOMAIN frames[u] : Forward(u, i) \/ Refuse(u, i)
    \/ RingStale(u) \/ Connect(u) \/ Disconnect(u) \/ Kill(u)

Next ==
    \/ \E u \in Users : Buttons(u) \/ Timers(u) \/ Receive(u) \/ Awaits(u) \/ Network(u) \/ Relay(u)
    \/ RelayRestart

Spec == Init /\ [][Next]_vars

\* The timers of a running app fire.
FairSpec ==
    Spec /\ \A u \in Users :
        WF_vars(RingTimeout(u)) /\ WF_vars(ConnectingTimeout(u)) /\ WF_vars(EndedTimeout(u))

-----------------------------------------------------------------------------
(* Properties                                                              *)

\* No signal from u to v is on its way.
Settled(u, v) == /\ \A i \in DOMAIN frames[u] : frames[u][i].to # v
                 /\ \A i \in DOMAIN wire[v] : wire[v][i].from # u

\* Every phase that has to pass by itself has its timer, and no other phase has
\* one: whichever signals, failures and late continuations arrive, no call keeps
\* ringing, connecting or showing its end for ever, and no timer of an earlier
\* call is left to end a later one.
PhaseTimed ==
    \A u \in Users :
        /\ "ring" \in timers[u] <=> phase[u] = "ringing-out"
        /\ "connecting" \in timers[u] <=> phase[u] = "connecting"
        /\ "ended" \in timers[u] <=> phase[u] = "ended"

\* A microphone is asked for, and runs, only for a call that its user has placed
\* or accepted, whichever signals of earlier calls come in.
AskingForMic(u) == {w \in working[u] : w.step \in {"callerMedia", "calleeMedia"}}
MicNeedsPick ==
    \A u \in Users : mics[u] \cup {w.call : w \in AskingForMic(u)} \subseteq picked[u]

\* A caller is not left ringing somebody who does not know: while the ring is
\* recorded and no signal between the two is on its way, a connected callee who has
\* taken no call yet has it on the screen; also after losing the connection,
\* restarting the app, or declining while there was no connection.
CalleeHearsRing ==
    \A u, v \in Users :
        /\ phase[v] = "ringing-out" /\ peer[v] = u /\ rings[u] = v
        /\ u \in online /\ picked[u] = {} /\ Settled(u, v) /\ Settled(v, u)
        => phase[u] = "ringing-in"

\* A signal between two users clears no ring of a third.
OthersRingKept ==
    [][\A u, c \in Users : \A i \in DOMAIN frames[u] :
          Forward(u, i) /\ rings[c] # None /\ rings'[c] = None
              => {c, rings[c]} = {u, frames[u][i].to}]_vars

\* Ringing out, connecting and the end screen pass: time and again every device is
\* idle, being rung, or in a call, whatever was lost or failed on the way there.
PhaseMovesOn == \A u \in Users : []<>(phase[u] \in {"idle", "ringing-in", "active"})

-----------------------------------------------------------------------------
(* What comments of the code say and the code does not do: TLC finds a     *)
(* counterexample of each, under the .cfg that lists it.                   *)

\* callStore.ts 150-152: the tracks are stopped "so the camera/mic light
\* actually turns off": with no call and nothing under way, no microphone runs.
MicOffAfterCall ==
    \A u \in Users : phase[u] = "idle" /\ working[u] = {} => mics[u] = {}

\* app/call/[id].tsx 20: 'busy' is shown as "They were on another call".
BusyMeansAnotherCall ==
    \A u \in Users : \A i \in DOMAIN wire[u] :
        wire[u][i].kind = "busy" => ~(phase[wire[u][i].from] = "ringing-out" /\ peer[wire[u][i].from] = u)

\* state.ts 98-99: a ring record is "cleared the moment the call resolves one way
\* or another".
RingRecordHasCall ==
    \A c \in Users : rings[c] # None /\ Settled(rings[c], c) =>
        phase[rings[c]] \in {"ringing-out", "connecting"} /\ peer[rings[c]] = c

\* app/incoming-call.tsx 28-30: the ringing screen "auto-dismisses itself once the
\* call is no longer 'incoming' (declined, timed out, caller hung up)".
RingingHasCaller ==
    \A u \in Users : phase[u] = "ringing-in" /\ Settled(peer[u], u) /\ Settled(u, peer[u]) =>
        ~(phase[peer[u]] = "ended" /\ peer[peer[u]] = u)

\* callStore.ts 299-303: an 'accept' takes the ringing caller on to connect, so who
\* sent it is not being rung by that caller still: it answers the ring that is out.
AcceptIsOfThisRing ==
    [][\A u \in Users : phase[u] = "ringing-out" /\ phase'[u] = "connecting"
          => ~(phase[peer[u]] = "ringing-in" /\ peer[peer[u]] = u)]_vars

\* callStore.ts 433-434: after startLocalMedia "the offer arrives shortly", so the
\* callee's connection is there when it does.
OfferFindsConnection ==
    [][\A u \in Users : wire[u] # <<>> /\ Head(wire[u]).kind = "offer" /\ Receive(u)
          /\ phase[u] = "connecting" /\ peer[u] = Head(wire[u]).from => pc[u] # None]_vars

=============================================================================
