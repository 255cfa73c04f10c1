----------------------------- MODULE GroupCalls -----------------------------
(***************************************************************************)
(* Group calls: app/src/state/groupCallStore.ts on the device of every     *)
(* member of one group, whose connections form a mesh, and the relay's     *)
(* call:signal handler, which for a group forwards without waiting.        *)
(*                                                                         *)
(* A handler is an operator from a result to a result: the device it       *)
(* leaves and the signals it sends.  Asking for the microphone is the one  *)
(* await that takes time; the awaits inside WebRTC take none.  Candidates, *)
(* video, streams of others and the audio session are left out; so are     *)
(* the events of a connection another one has replaced in `pcs'.           *)
(***************************************************************************)
EXTENDS Integers, SequencesExt

CONSTANTS Users,     \* members of the group, in the order of their ids
          None,
          Callers,   \* members who may start a call
          Asked,     \* members whose device asks before it opens the microphone
          MaxCalls,  \* bound: calls started
          MaxFaults, \* bound: signals lost, connections that break, ring timers that fire
          MaxSignals \* bound: signals on the way to one device when a button is pressed or a timer fires

ASSUME GroupCallsAssumption ==
    /\ Users \subseteq Int /\ None \notin Users
    /\ MaxCalls \in Nat /\ MaxFaults \in Nat /\ MaxSignals \in Nat

VARIABLES
    dev,    \* the store and the module variables of each device
    net,    \* signals the relay has for each receiver, in the order it took them
    joined, \* history: who ever started or accepted a call
    calls, faults

groupCallVars == <<dev, net, joined, calls, faults>>

Signal(u, kind) == [from |-> u, kind |-> kind]

Pending == {"ringing", "connecting", "connected"}
Statuses == Pending \cup {"none", "declined", "no-answer", "busy", "left", "failed"}
Phases == {"idle", "ringing-out", "ringing-in", "connecting", "active", "ended"}
Kinds == {"ring", "accept", "decline", "busy", "timeout", "hangup", "offer", "answer"}
Answers == [decline |-> "declined", busy |-> "busy", timeout |-> "no-answer"]

\* What waits for the microphone: tryConnectReadyPeers for the peers it found
\* ready, or the offer handler for the offer's sender.
Waiter == [step : {"connect", "offer"}, peers : SUBSET Users]

Device == [phase  : Phases,
           from   : Users \cup {None},        \* incoming.from
           status : [Users -> Statuses],      \* participants; "none": no entry
           ready  : SUBSET Users,             \* readyPeers
           timers : SUBSET Users,             \* ringTimeoutTimers
           self   : BOOLEAN,                  \* selfJoined
           prompt : {"none", "asking", "given", "refused"},  \* localMediaPromise
           waits  : Seq(Waiter),              \* for the present localMediaPromise
           late   : Seq(Waiter),              \* for one that a teardown has forgotten
           mic    : {"none", "live", "stopped"},  \* localStream and its tracks
           pcs    : [Users -> {"none", "new", "offered", "stable", "connected"}]]

Fresh == [phase |-> "idle", from |-> None, status |-> [v \in Users |-> "none"], ready |-> {},
          timers |-> {}, self |-> FALSE, prompt |-> "none", waits |-> <<>>, late |-> <<>>,
          mic |-> "none", pcs |-> [v \in Users |-> "none"]]

GroupCallInit ==
    /\ dev = [u \in Users |-> Fresh]
    /\ net = [u \in Users |-> <<>>]
    /\ joined = [u \in Users |-> FALSE]
    /\ calls = 0
    /\ faults = 0

-----------------------------------------------------------------------------
(***************************************************************************)
(* A result: the device `d' of user `u', and the signals on their way.     *)
(***************************************************************************)

Result(u) == [u |-> u, d |-> dev[u], net |-> net]
Others(r) == Users \ {r.u}
Set(r, d) == [r EXCEPT !.d = d]

\* sendSignal, and broadcastSignal for several
Send(r, peers, kind) ==
    [r EXCEPT !.net = [v \in Users |-> IF v \in peers THEN Append(@[v], Signal(r.u, kind)) ELSE @[v]]]

Mark(r, v, status) == [r EXCEPT !.d.status[v] = status]

\* closePeer: it stops the senders' tracks, which are the device's only ones
ClosePeer(r, v) ==
    Set(r, [r.d EXCEPT !.timers = @ \ {v}, !.ready = @ \ {v}, !.pcs[v] = "none",
                       !.mic = IF r.d.pcs[v] # "none" /\ @ = "live" THEN "stopped" ELSE @])

\* endGroupCall and the teardownAll in it
EndGroupCall(r) ==
    LET told == IF r.d.phase = "idle" THEN {} ELSE {v \in Others(r) : r.d.status[v] \in Pending}
    IN  Set(Send(r, told, "hangup"),
            [Fresh EXCEPT !.phase = "ended", !.status = r.d.status,
                          !.late = r.d.late \o r.d.waits])

SomePending(r) == \E v \in Others(r) : r.d.status[v] \in Pending

MaybeEndIfAlone(r) ==
    IF r.d.phase \in {"active", "connecting"} /\ ~SomePending(r) THEN EndGroupCall(r) ELSE r

MaybeEndIfAllUnanswered(r) ==
    IF /\ r.d.phase \in {"ringing-out", "connecting"}
       /\ ~SomePending(r)
       /\ \E v \in Others(r) : r.d.status[v] # "none"
    THEN EndGroupCall(r) ELSE r

MarkPeerFailed(r, v) == MaybeEndIfAlone(Mark(ClosePeer(r, v), v, "failed"))

\* createPeerConnection for every peer; the one with the lower id offers
Connect(r, peers) ==
    LET offers == {v \in peers : r.u < v} IN
    Send(Set(r, [r.d EXCEPT
            !.pcs = [v \in Users |-> IF v \in offers THEN "offered"
                                     ELSE IF v \in peers THEN "new" ELSE @[v]],
            !.status = [v \in Users |-> IF v \in peers THEN "connecting" ELSE @[v]]]),
         offers, "offer")

\* setRemoteDescription(offer) and the answer
TakeOffer(r, v) ==
    IF r.d.pcs[v] = "offered" THEN MarkPeerFailed(r, v)
    ELSE Send([r EXCEPT !.d.pcs[v] = "stable"], {v}, "answer")

\* Code after `await ensureLocalMedia', when it resolved and when it threw.
\* A second connection for a peer replaces the first in `pcs'.
Resume(r, w) ==
    IF w.step = "connect" THEN Connect(r, w.peers)
    ELSE LET v == CHOOSE v \in w.peers : TRUE
         IN  TakeOffer([r EXCEPT !.d.pcs[v] = "new", !.d.status[v] = "connecting"], v)

Thrown(r, w) ==
    IF w.step = "connect" THEN EndGroupCall(r)
    ELSE MarkPeerFailed(r, CHOOSE v \in w.peers : TRUE)

\* ensureLocalMedia: a refused promise is kept and throws again
Await(r, step, peers) ==
    LET w == [step |-> step, peers |-> peers] IN
    CASE r.d.mic # "none" \/ r.d.prompt = "given" -> Resume(r, w)
      [] r.d.mic = "none" /\ r.d.prompt = "none" /\ r.u \notin Asked ->
             Resume(Set(r, [r.d EXCEPT !.prompt = "given", !.mic = "live"]), w)
      [] r.d.mic = "none" /\ r.d.prompt = "refused" -> Thrown(r, w)
      [] OTHER -> Set(r, [r.d EXCEPT !.prompt = "asking", !.waits = Append(@, w)])

BadTryConnectReadyPeers(r) ==
    LET toConnect == {v \in r.d.ready : r.d.pcs[v] = "none"} IN
    IF r.d.phase = "idle" \/ toConnect = {} THEN r ELSE Await(r, "connect", toConnect)

TryConnectReadyPeers(r) ==
    LET toConnect == {v \in r.d.ready : r.d.pcs[v] = "none"} IN
    IF ~r.d.self \/ r.d.phase = "idle" \/ toConnect = {} THEN r
    ELSE Await(r, "connect", toConnect)

Idle(r) == Set(r, [r.d EXCEPT !.phase = "idle", !.from = None,
                              !.status = [v \in Users |-> "none"]])

-----------------------------------------------------------------------------
(***************************************************************************)
(* The handlers of the signals, for one from `v'.  `elsewhere': a two-     *)
(* party call is under way on this device.  groupId is null when idle.     *)
(***************************************************************************)

OnRing(r, v, elsewhere) ==
    IF r.d.phase = "ringing-in" /\ r.d.from = v THEN r
    ELSE IF r.d.phase # "idle" \/ elsewhere THEN Send(r, {v}, "busy")
    ELSE Set(r, [r.d EXCEPT !.phase = "ringing-in", !.from = v,
                   !.status = [x \in Users |-> IF x = r.u THEN "none" ELSE "ringing"]])

OnAccept(r, v) ==
    IF r.d.phase = "idle" \/ r.d.status[v] = "none" THEN r
    ELSE TryConnectReadyPeers(Set(r, [r.d EXCEPT !.status[v] = "connecting", !.ready = @ \cup {v}]))

OnOffer(r, v) ==
    IF r.d.phase = "idle" THEN r
    ELSE IF r.d.pcs[v] = "none" THEN Await(r, "offer", {v})
    ELSE TakeOffer(r, v)

OnAnswer(r, v) ==
    CASE r.d.pcs[v] = "none" -> r
      [] r.d.pcs[v] = "offered" -> [r EXCEPT !.d.pcs[v] = "stable"]
      [] OTHER -> MarkPeerFailed(r, v)

OnNo(r, v, kind) ==
    IF r.d.phase = "idle" \/ r.d.status[v] = "none" THEN r
    ELSE MaybeEndIfAllUnanswered(Set(r, [r.d EXCEPT !.status[v] = Answers[kind], !.timers = @ \ {v}]))

BadOnHangup(r, v) ==
    IF r.d.phase = "idle" THEN r
    ELSE IF r.d.phase = "ringing-in" THEN Idle(r)
    ELSE MaybeEndIfAlone(Mark(ClosePeer(r, v), v, "left"))

OnHangup(r, v) ==
    IF r.d.phase = "idle" THEN r
    ELSE IF r.d.phase = "ringing-in" /\ r.d.from = v THEN Idle(r)
    ELSE MaybeEndIfAlone(Mark(ClosePeer(r, v), v, "left"))

Handle(r, v, kind, elsewhere) ==
    CASE kind = "ring" -> OnRing(r, v, elsewhere)
      [] kind = "accept" -> OnAccept(r, v)
      [] kind = "offer" -> OnOffer(r, v)
      [] kind = "answer" -> OnAnswer(r, v)
      [] kind = "hangup" -> OnHangup(r, v)
      [] OTHER -> OnNo(r, v, kind)

-----------------------------------------------------------------------------
Does(u, r) ==
    /\ dev' = [dev EXCEPT ![u] = r.d]
    /\ net' = r.net

Room == \A v \in Users : Len(net[v]) < MaxSignals

Receive(u) ==
    /\ net[u] # <<>>
    /\ \E elsewhere \in BOOLEAN :
          LET signal == Head(net[u]) IN
          Does(u, Handle([Result(u) EXCEPT !.net[u] = Tail(@)], signal.from, signal.kind, elsewhere))
    /\ UNCHANGED <<joined, calls, faults>>

\* The relay drops a signal when the receiver is away, or one of the two is
\* no longer a member of the group.
Lose(u) ==
    /\ net[u] # <<>>
    /\ faults < MaxFaults
    /\ faults' = faults + 1
    /\ net' = [net EXCEPT ![u] = Tail(@)]
    /\ UNCHANGED <<dev, joined, calls>>

StartGroupCall(u) ==
    /\ u \in Callers
    /\ dev[u].phase = "idle"
    /\ calls < MaxCalls /\ Room
    /\ LET r == Result(u) IN
       Does(u, Send(Set(r, [r.d EXCEPT !.phase = "ringing-out", !.self = TRUE, !.timers = @ \cup Others(r),
                              !.status = [x \in Users |-> IF x = u THEN "none" ELSE "ringing"]]),
                    Others(r), "ring"))
    /\ joined' = [joined EXCEPT ![u] = TRUE]
    /\ calls' = calls + 1
    /\ UNCHANGED faults

\* the 45 s timer of one target, which an answer from the target leaves armed
RingTimeout(u, v) ==
    /\ v \in dev[u].timers /\ Room
    /\ faults < MaxFaults
    /\ faults' = faults + 1
    /\ LET r == [Result(u) EXCEPT !.d.timers = @ \ {v}] IN
       Does(u, IF r.d.phase = "idle" THEN r
               ELSE MaybeEndIfAllUnanswered(Mark(Send(r, {v}, "timeout"), v, "no-answer")))
    /\ UNCHANGED <<joined, calls>>

AcceptCall(u) ==
    /\ dev[u].phase = "ringing-in" /\ Room
    /\ LET r == Result(u) IN
       Does(u, TryConnectReadyPeers(
                   Send(Set(r, [r.d EXCEPT !.phase = "connecting", !.from = None, !.self = TRUE,
                                           !.ready = @ \cup {r.d.from}]),
                        Others(r), "accept")))
    /\ joined' = [joined EXCEPT ![u] = TRUE]
    /\ UNCHANGED <<calls, faults>>

DeclineCall(u) ==
    /\ dev[u].phase = "ringing-in" /\ Room
    /\ Does(u, Idle(Send(Result(u), Users \ {u}, "decline")))
    /\ UNCHANGED <<joined, calls, faults>>

\* Leave, on the call screen; once more in 'ended' would only restart its timer
Leave(u) ==
    /\ dev[u].phase \in {"ringing-out", "connecting", "active"} /\ Room
    /\ Does(u, EndGroupCall(Result(u)))
    /\ UNCHANGED <<joined, calls, faults>>

\* the user answers the system's microphone question
MediaAnswered(u) ==
    \E live, granted \in BOOLEAN :
       LET d == dev[u]
           due == IF live THEN d.waits ELSE d.late
           r == Set(Result(u), [d EXCEPT
                       !.waits = IF live THEN <<>> ELSE @,
                       !.late = IF live THEN @ ELSE <<>>,
                       !.prompt = IF ~live THEN @ ELSE IF granted THEN "given" ELSE "refused",
                       !.mic = IF granted THEN "live" ELSE @])
       IN  /\ due # <<>>
           /\ Does(u, IF granted THEN FoldLeft(Resume, r, due) ELSE FoldLeft(Thrown, r, due))
           /\ UNCHANGED <<joined, calls, faults>>

BadConnected(u, v) ==
    /\ dev[u].pcs[v] = "stable" /\ dev[v].pcs[u] \in {"stable", "connected"}
    /\ dev' = [dev EXCEPT ![u].pcs[v] = "connected", ![u].status[v] = "connected", ![u].phase = "active"]
    /\ UNCHANGED <<net, joined, calls, faults>>

\* connectionstatechange: connected
Connected(u, v) ==
    /\ dev[u].pcs[v] = "stable" /\ dev[v].pcs[u] \in {"stable", "connected"}
    /\ dev' = [dev EXCEPT ![u].pcs[v] = "connected", ![u].status[v] = "connected",
                          ![u].phase = IF @ \in {"idle", "ended"} THEN @ ELSE "active"]
    /\ UNCHANGED <<net, joined, calls, faults>>

\* the connection fails, or stays disconnected for 10 s, or never comes up in 30 s
PeerFails(u, v) ==
    /\ dev[u].pcs[v] # "none" /\ Room
    /\ faults < MaxFaults
    /\ faults' = faults + 1
    /\ Does(u, MarkPeerFailed(Result(u), v))
    /\ UNCHANGED <<joined, calls>>

NeverUp(u, v) == dev[u].pcs[v] # "connected" /\ PeerFails(u, v)

\* clearEnded, or the 2.5 s timer, which do the same
ClearEnded(u) ==
    /\ dev[u].phase = "ended"
    /\ dev' = [dev EXCEPT ![u] = [Idle(Result(u)).d EXCEPT !.mic = "none"]]
    /\ UNCHANGED <<net, joined, calls, faults>>

GroupCallNext == \E u, v \in Users :
    \/ Receive(u) \/ Lose(u) \/ RingTimeout(u, v) \/ Connected(u, v) \/ PeerFails(u, v)
    \/ StartGroupCall(u) \/ AcceptCall(u) \/ DeclineCall(u) \/ Leave(u)
    \/ MediaAnswered(u) \/ ClearEnded(u)

GroupCallSpec == GroupCallInit /\ [][GroupCallNext]_groupCallVars

\* Signals arrive, timers fire, the system's question is answered.
GroupCallFairSpec == GroupCallSpec
    /\ \A u \in Users :
         /\ WF_groupCallVars(Receive(u)) /\ WF_groupCallVars(MediaAnswered(u))
         /\ WF_groupCallVars(ClearEnded(u))
         /\ \A v \in Users : WF_groupCallVars(RingTimeout(u, v)) /\ WF_groupCallVars(NeverUp(u, v))

-----------------------------------------------------------------------------
(***************************************************************************)
(* What holds of every call.                                               *)
(***************************************************************************)

GroupCallTypeOK ==
    \A u \in Users :
       /\ DOMAIN dev[u] = DOMAIN Fresh
       /\ dev[u].phase \in Phases /\ dev[u].from \in Users \cup {None}
       /\ dev[u].status \in [Users -> Statuses]
       /\ dev[u].pcs \in [Users -> {"none", "new", "offered", "stable", "connected"}]
       /\ \A i \in DOMAIN dev[u].waits : dev[u].waits[i] \in Waiter
       /\ \A i \in DOMAIN dev[u].late : dev[u].late[i] \in Waiter
       /\ \A i \in DOMAIN net[u] : net[u][i] \in [from : Users, kind : Kinds]

\* A device whose user never started or accepted a call opens no microphone and
\* no connection, whatever the others in the roster have done: an accept it
\* hears while it still rings only marks a peer ready, and nobody offers to it.
SilentUntilJoined == \A u \in Users : ~joined[u] =>
    /\ dev[u].mic = "none" /\ dev[u].waits = <<>> /\ dev[u].late = <<>>
    /\ \A v \in Users : dev[u].pcs[v] = "none"

\* A call that is over is not resurrected: continuations and connections that
\* outlive the teardown bring no device from 'idle' or 'ended' back into a call.
NotResurrected == [][\A u \in Users :
    dev[u].phase \in {"idle", "ended"} => dev'[u].phase \notin {"connecting", "active"}]_groupCallVars

\* A ringing device stops ringing without an answer only when the one who rang
\* it has left; another invitee that leaves does not dismiss the ring.
OnlyCallerCancels == [][\A u \in Users :
    dev[u].phase = "ringing-in" /\ dev'[u].phase = "idle" =>
        \/ Signal(u, "decline") \in Range(net'[dev[u].from])
        \/ dev[dev[u].from].phase \in {"ended", "idle"}]_groupCallVars

\* Of two members one makes the offer: never both.
NoGlare == \A u, v \in Users : ~(dev[u].pcs[v] = "offered" /\ dev[v].pcs[u] = "offered")

-----------------------------------------------------------------------------
(***************************************************************************)
(* What the code's comments say and the code does not keep.                *)
(***************************************************************************)

\* groupCallStore.ts:316 and 334: a peer that fails or leaves does not end the
\* call of those still connected; they go on hearing this device.
DocHeardByAll == \A u, v \in Users :
    dev[u].pcs[v] = "connected" /\ dev[u].phase = "active" => dev[u].mic = "live"

\* A peer that is connected is shown as connected.
DocConnectedShown == \A u, v \in Users :
    dev[u].pcs[v] = "connected" /\ dev[u].phase = "active" => dev[u].status[v] = "connected"

\* groupCallStore.ts:645: no ring is left on a device after its timeout.
DocRingStops == \A u \in Users : dev[u].phase = "ringing-in" ~> dev[u].phase # "ringing-in"

\* Somebody who calls is not left calling for ever.
DocCallerMovesOn == \A u \in Users : dev[u].phase = "ringing-out" ~> dev[u].phase # "ringing-out"

\* The microphone is off when no call is on.
DocMicOff == \A u \in Users : dev[u].phase \in {"idle", "ringing-in"} => dev[u].mic # "live"
=============================================================================
