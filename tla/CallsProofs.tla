----------------------------- MODULE CallsProofs -----------------------------
(***************************************************************************)
(* Proofs about Calls, for any number of users, calls, lost connections    *)
(* and restarts, with checks that overtake each other and with or without  *)
(* a microphone: type correctness, that every passing phase has its timer, *)
(* that no microphone is asked for without a pick, and that no ring of a   *)
(* third user is cleared; and, unless the database fails on a signal that  *)
(* resolves a call, that no caller is left ringing somebody who does not   *)
(* know.                                                                   *)
(***************************************************************************)
EXTENDS Calls, TLAPS

\* Whoever rings, is rung or connects has somebody at the other end.
PeerKnown == \A u \in Users : phase[u] \in {"ringing-out", "ringing-in", "connecting"} => peer[u] # None

\* A call that rings out was placed by its user: this makes MicNeedsPick
\* inductive, since an accept turns it into one that asks for the microphone.
PlacedIsPicked == \A u \in Users : phase[u] = "ringing-out" => calls[u] \in picked[u]

StoreInv == PeerKnown /\ PhaseTimed /\ PlacedIsPicked
IInv == TypeOK /\ StoreInv /\ MicNeedsPick

-----------------------------------------------------------------------------
(* Signals                                                                 *)

LEMMA SignalType ==
    ASSUME NEW u \in Users, NEW v \in Users, NEW id \in Nat,
           NEW kind \in {"ring", "offer", "answer"} \cup Resolving
    PROVE  Signal(kind, u, v, id) \in CallSignal
BY DEF Signal, CallSignal

LEMMA SendType ==
    ASSUME TypeOK, NEW u \in Users, NEW v \in Users, NEW id \in Nat,
           NEW kind \in {"ring", "offer", "answer"} \cup Resolving, Send(u, v, kind, id)
    PROVE  frames' \in [Users -> Seq(CallSignal)]
<1>1. Append(frames[u], Signal(kind, u, v, id)) \in Seq(CallSignal)
  BY SignalType DEF TypeOK
<1>2. QED
  BY <1>1 DEF Send, TypeOK

LEMMA RemoveAtType ==
    ASSUME NEW s \in Seq(CallSignal), NEW i \in DOMAIN s
    PROVE  s[i] \in CallSignal /\ RemoveAt(s, i) \in Seq(CallSignal)
<1>1. SubSeq(s, 1, i - 1) \in Seq(CallSignal) /\ SubSeq(s, i + 1, Len(s)) \in Seq(CallSignal)
  OBVIOUS
<1>2. QED
  BY <1>1 DEF RemoveAt

LEMMA HeadType ==
    ASSUME NEW s \in Seq(CallSignal), s # <<>>
    PROVE  Head(s) \in CallSignal /\ Tail(s) \in Seq(CallSignal)
OBVIOUS

\* A connection stays one when its state or its other end is set.
LEMMA ConnectionSet ==
    ASSUME NEW c \in Connection, NEW state \in {"connected", "disconnected"}, NEW v \in Users, NEW id \in Nat
    PROVE  [c EXCEPT !.state = state] \in Connection /\ [c EXCEPT !.remote = <<v, id>>] \in Connection
<1> DEFINE Ends == {None} \cup (Users \X Nat)
<1>1. <<v, id>> \in Ends
  OBVIOUS
<1>2. Connection = [id : Nat, remote : Ends, state : {"new", "connected", "disconnected"}]
  BY DEF Connection
<1> HIDE DEF Ends
<1>3. QED
  BY <1>1, <1>2

-----------------------------------------------------------------------------
(* The end of a call                                                       *)

\* endCall leaves the end screen with its timer and nothing else.
LEMMA EndCallStore ==
    ASSUME TypeOK, StoreInv, NEW u \in Users, EndCall(u), UNCHANGED picked
    PROVE  /\ phase' \in [Users -> Phases] /\ peer' \in [Users -> Users \cup {None}]
           /\ timers' \in [Users -> SUBSET {"ring", "connecting", "ice", "ended"}]
           /\ calls' \in [Users -> Nat]
           /\ StoreInv'
BY DEF EndCall, TypeOK, StoreInv, PeerKnown, PhaseTimed, PlacedIsPicked, Phases

\* It takes the connection and its microphone, and no other microphone runs.
LEMMA TeardownMedia ==
    ASSUME TypeOK, NEW u \in Users, Teardown(u)
    PROVE  /\ pc' \in [Users -> {None} \cup Connection]
           /\ mics' \in [Users -> SUBSET Nat]
           /\ \A v \in Users : pc'[v] # None => pc'[v].id \in mics'[v]
           /\ \A v \in Users : mics'[v] \subseteq mics[v]
BY DEF Teardown, TypeOK

\* No work is added: MicNeedsPick is kept if no microphone is.
LEMMA NoNewWork ==
    ASSUME TypeOK, MicNeedsPick, \A v \in Users : mics'[v] \subseteq mics[v],
           \A v \in Users : working'[v] \subseteq working[v],
           \A v \in Users : picked[v] \subseteq picked'[v]
    PROVE  MicNeedsPick'
BY DEF MicNeedsPick, AskingForMic

-----------------------------------------------------------------------------
LEMMA InitIInv == Init => IInv
BY CallsAssumption DEF Init, IInv, TypeOK, StoreInv, PeerKnown, PhaseTimed, PlacedIsPicked, MicNeedsPick,
   AskingForMic, Phases

-----------------------------------------------------------------------------
(* Buttons and timers                                                      *)

LEMMA ButtonsKeep == ASSUME IInv, NEW u \in Users, Buttons(u) PROVE IInv'
<1> USE DEF IInv
<1>1. ASSUME NEW v \in Users, Ring(u, v) PROVE IInv'
  <2>1. TypeOK'
    <3>1. frames' \in [Users -> Seq(CallSignal)]
      BY <1>1, SendType DEF Ring
    <3>2. phase' \in [Users -> Phases] /\ peer' \in [Users -> Users \cup {None}]
      BY <1>1 DEF Ring, Enter, TypeOK, Phases
    <3>3. calls' \in [Users -> Nat] /\ picked' \in [Users -> SUBSET Nat]
      BY <1>1 DEF Ring, TypeOK
    <3>4. QED
      BY <1>1, <3>1, <3>2, <3>3 DEF Ring, TypeOK, media
  <2>2. StoreInv'
    BY <1>1, CallsAssumption DEF Ring, Enter, TypeOK, StoreInv, PeerKnown, PhaseTimed, PlacedIsPicked
  <2>3. MicNeedsPick'
    BY <1>1, NoNewWork DEF Ring, TypeOK, media
  <2>4. QED
    BY <2>1, <2>2, <2>3
<1>2. CASE Accept(u)
  <2>1. peer[u] \in Users
    BY <1>2 DEF Accept, TypeOK, StoreInv, PeerKnown
  <2>2. TypeOK'
    <3>1. frames' \in [Users -> Seq(CallSignal)]
      BY <1>2, <2>1, SendType DEF Accept, Resolving
    <3>2. working' \in [Users -> SUBSET Work]
      BY <1>2, <2>1 DEF Accept, Start, TypeOK, Work
    <3>3. phase' \in [Users -> Phases] /\ peer' \in [Users -> Users \cup {None}]
      BY <1>2 DEF Accept, Enter, TypeOK, Phases
    <3>4. picked' \in [Users -> SUBSET Nat] /\ timers' \in [Users -> SUBSET {"ring", "connecting", "ice", "ended"}]
      BY <1>2 DEF Accept, TypeOK
    <3>5. QED
      BY <1>2, <3>1, <3>2, <3>3, <3>4 DEF Accept, TypeOK
  <2>3. StoreInv'
    BY <1>2, <2>1, CallsAssumption DEF Accept, Enter, TypeOK, StoreInv, PeerKnown, PhaseTimed, PlacedIsPicked
  <2>4. MicNeedsPick'
    BY <1>2 DEF Accept, Start, TypeOK, MicNeedsPick, AskingForMic
  <2>5. QED
    BY <2>2, <2>3, <2>4
<1>3. CASE Decline(u)
  <2>1. TypeOK'
    <3>1. peer[u] \in Users
      BY <1>3 DEF Decline, TypeOK, StoreInv, PeerKnown
    <3>2. frames' \in [Users -> Seq(CallSignal)]
      BY <1>3, <3>1, SendType DEF Decline, Resolving
    <3>3. QED
      BY <1>3, <3>2 DEF Decline, Enter, TypeOK, Phases, media
  <2>2. StoreInv'
    BY <1>3 DEF Decline, Enter, TypeOK, StoreInv, PeerKnown, PhaseTimed, PlacedIsPicked
  <2>3. MicNeedsPick'
    BY <1>3, NoNewWork DEF Decline, media
  <2>4. QED
    BY <2>1, <2>2, <2>3
<1>4. CASE Hangup(u)
  <2>1. frames' \in [Users -> Seq(CallSignal)]
    BY <1>4, SendType DEF Hangup, TypeOK, Resolving
  <2>2. QED
    BY <1>4, <2>1, EndCallStore, TeardownMedia, NoNewWork DEF Hangup, EndCall, TypeOK
<1>5. CASE ClearEnded(u)
  <2>1. TypeOK' /\ StoreInv'
    BY <1>5 DEF ClearEnded, Enter, TypeOK, StoreInv, PeerKnown, PhaseTimed, PlacedIsPicked, Phases, relay, media
  <2>2. QED
    BY <1>5, <2>1, NoNewWork DEF ClearEnded, media
<1>6. QED
  BY <1>1, <1>2, <1>3, <1>4, <1>5 DEF Buttons

\* A timer that finds its phase ends the call; one that does not is forgotten.
LEMMA TimersKeep == ASSUME IInv, NEW u \in Users, Timers(u) PROVE IInv'
<1> USE DEF IInv
<1>1. CASE RingTimeout(u)
  <2>1. CASE phase[u] = "ringing-out"
    <3>1. peer[u] \in Users
      BY <2>1 DEF TypeOK, StoreInv, PeerKnown
    <3>2. frames' \in [Users -> Seq(CallSignal)]
      BY <1>1, <2>1, <3>1, SendType DEF RingTimeout, Resolving
    <3>3. QED
      BY <1>1, <2>1, <3>2, EndCallStore, TeardownMedia, NoNewWork DEF RingTimeout, EndCall, TypeOK
  <2>2. CASE phase[u] # "ringing-out"
    BY <1>1, <2>2 DEF RingTimeout, Fires, StoreInv, PhaseTimed
  <2>3. QED
    BY <2>1, <2>2
<1>2. CASE ConnectingTimeout(u)
  <2>1. CASE phase[u] = "connecting"
    BY <1>2, <2>1, EndCallStore, TeardownMedia, NoNewWork DEF ConnectingTimeout, EndCall, TypeOK, relay
  <2>2. CASE phase[u] # "connecting"
    BY <1>2, <2>2 DEF ConnectingTimeout, Fires, StoreInv, PhaseTimed
  <2>3. QED
    BY <2>1, <2>2
<1>3. CASE EndedTimeout(u)
  <2>1. phase[u] = "ended"
    BY <1>3 DEF EndedTimeout, Fires, StoreInv, PhaseTimed
  <2>2. /\ phase' = [phase EXCEPT ![u] = "idle"] /\ peer' = [peer EXCEPT ![u] = None]
        /\ timers' = [timers EXCEPT ![u] = @ \ {"ended"}]
        /\ UNCHANGED <<online, frames, wire, rings, calls, working, pc, mics, rung, cuts, picked>>
    BY <1>3, <2>1 DEF EndedTimeout, Unarmed, Enter, relay, media
  <2> HIDE <1>3
  <2>3. TypeOK'
    BY <2>2 DEF TypeOK, Phases
  <2>4. StoreInv'
    BY <2>1, <2>2 DEF TypeOK, StoreInv, PeerKnown, PhaseTimed, PlacedIsPicked
  <2>5. QED
    BY <2>2, <2>3, <2>4, NoNewWork
<1>4. CASE IceTimeout(u)
  <2>1. CASE pc[u] # None /\ pc[u].state = "disconnected"
    BY <1>4, <2>1, EndCallStore, TeardownMedia, NoNewWork DEF IceTimeout, EndCall, TypeOK, relay
  <2>2. CASE ~(pc[u] # None /\ pc[u].state = "disconnected")
    <3>1. UNCHANGED <<phase, peer, calls, pc, mics, working, relay, rung, cuts, picked>> /\ Unarmed(u, "ice")
      BY <1>4, <2>2 DEF IceTimeout
    <3>2. TypeOK' /\ StoreInv'
      BY <3>1 DEF Unarmed, TypeOK, StoreInv, PeerKnown, PhaseTimed, PlacedIsPicked, relay
    <3>3. QED
      BY <3>1, <3>2, NoNewWork
  <2>3. QED
    BY <2>1, <2>2
<1>5. QED
  BY <1>1, <1>2, <1>3, <1>4 DEF Timers

-----------------------------------------------------------------------------
(* Signals, awaits and the network                                         *)

LEMMA ReceiveKeeps == ASSUME IInv, NEW u \in Users, Receive(u) PROVE IInv'
<1> USE DEF IInv
<1> DEFINE s == Head(wire[u])
<1>1. s \in CallSignal /\ wire' \in [Users -> Seq(CallSignal)] /\ UNCHANGED <<online, rings, rung, cuts, picked>>
  <2>1. wire[u] \in Seq(CallSignal) /\ wire[u] # <<>> /\ wire' = [wire EXCEPT ![u] = Tail(wire[u])]
    BY DEF Receive, TypeOK
  <2>2. QED
    BY <2>1, HeadType DEF Receive, TypeOK
<1>2. s.from \in Users /\ s.from # None /\ s.pc \in Nat
  BY <1>1, CallsAssumption DEF CallSignal
<1> HIDE DEF s
<1>3. CASE Ignore(u)
  <2>1. TypeOK' /\ StoreInv'
    BY <1>1, <1>3 DEF Ignore, store, media, TypeOK, StoreInv, PeerKnown, PhaseTimed, PlacedIsPicked
  <2>2. QED
    BY <1>1, <1>3, <2>1, NoNewWork DEF Ignore, media
<1>4. CASE EndCall(u) /\ UNCHANGED <<frames, working>>
  BY <1>1, <1>4, EndCallStore, TeardownMedia, NoNewWork DEF EndCall, TypeOK
<1>5. CASE OnRing(u, s)
  <2>1. CASE phase[u] = "idle"
    <3>1. /\ phase' = [phase EXCEPT ![u] = "ringing-in"] /\ peer' = [peer EXCEPT ![u] = s.from]
          /\ calls' = [calls EXCEPT ![u] = @ + 1]
          /\ UNCHANGED <<frames, timers, working, pc, mics>>
      BY <1>5, <2>1 DEF OnRing, Enter, media
    <3>2. TypeOK'
      <4>1. phase' \in [Users -> Phases] /\ peer' \in [Users -> Users \cup {None}] /\ calls' \in [Users -> Nat]
        BY <1>2, <3>1 DEF TypeOK, Phases
      <4>2. QED
        BY <1>1, <3>1, <4>1 DEF TypeOK
    <3>3. StoreInv'
      BY <1>1, <1>2, <2>1, <3>1 DEF TypeOK, StoreInv, PeerKnown, PhaseTimed, PlacedIsPicked
    <3>4. QED
      BY <1>1, <3>1, <3>2, <3>3, NoNewWork
  <2>2. CASE phase[u] # "idle" /\ ~(phase[u] = "ringing-in" /\ peer[u] = s.from)
    <3>1. Send(u, s.from, "busy", 0) /\ UNCHANGED <<store, media>>
      BY <1>5, <2>2 DEF OnRing
    <3>2. frames' \in [Users -> Seq(CallSignal)]
      BY <1>2, <3>1, SendType DEF Resolving
    <3>3. TypeOK' /\ StoreInv'
      BY <1>1, <3>1, <3>2 DEF store, media, TypeOK, StoreInv, PeerKnown, PhaseTimed, PlacedIsPicked
    <3>4. QED
      BY <1>1, <3>1, <3>3, NoNewWork DEF media
  <2>3. QED
    BY <1>3, <1>5, <2>1, <2>2 DEF OnRing
<1>6. CASE OnAccept(u, s)
  <2>1. CASE Placed(u, s)
    <3>1. /\ Enter(u, "connecting", s.from) /\ timers' = [timers EXCEPT ![u] = {"connecting"}]
          /\ Start(u, "callerMedia", s.from) /\ UNCHANGED <<frames, calls, pc, mics>>
      BY <1>6, <2>1 DEF OnAccept
    <3>2. working' \in [Users -> SUBSET Work]
      BY <1>2, <3>1 DEF Start, TypeOK, Work
    <3>3. TypeOK'
      BY <1>1, <1>2, <3>1, <3>2 DEF Enter, TypeOK, Phases
    <3>4. StoreInv'
      BY <1>1, <1>2, <3>1 DEF Enter, TypeOK, StoreInv, PeerKnown, PhaseTimed, PlacedIsPicked
    <3>5. calls[u] \in picked[u]
      BY <2>1 DEF Placed, StoreInv, PlacedIsPicked
    <3>6. MicNeedsPick'
      BY <1>1, <3>1, <3>5 DEF Start, TypeOK, MicNeedsPick, AskingForMic
    <3>7. QED
      BY <3>3, <3>4, <3>6
  <2>2. QED
    BY <1>3, <1>6, <2>1 DEF OnAccept
<1>7. ASSUME NEW step \in {"makeAnswer", "takeAnswer"}, pc[u] # None,
             pc' = [pc EXCEPT ![u].remote = <<s.from, s.pc>>],
             Start(u, step, s.from), UNCHANGED <<frames, store, mics>>
      PROVE  IInv'
  <2>1. pc' \in [Users -> {None} \cup Connection] /\ \A v \in Users : pc'[v] # None => pc'[v].id \in mics'[v]
    <3>1. pc[u] \in Connection
      BY <1>7 DEF TypeOK
    <3>2. [pc[u] EXCEPT !.remote = <<s.from, s.pc>>] \in Connection
      BY <1>2, <3>1, ConnectionSet
    <3>3. QED
      BY <1>7, <3>2 DEF TypeOK, Connection
  <2>2. working' \in [Users -> SUBSET Work]
    BY <1>2, <1>7 DEF Start, TypeOK, Work
  <2>3. TypeOK' /\ StoreInv'
    BY <1>1, <1>7, <2>1, <2>2 DEF store, TypeOK, StoreInv, PeerKnown, PhaseTimed, PlacedIsPicked
  <2>4. MicNeedsPick'
    BY <1>1, <1>7 DEF Start, TypeOK, MicNeedsPick, AskingForMic
  <2>5. QED
    BY <2>3, <2>4
<1>8. CASE OnOffer(u, s)
  BY <1>3, <1>4, <1>7, <1>8 DEF OnOffer
<1>9. CASE OnAnswer(u, s)
  BY <1>3, <1>7, <1>9 DEF OnAnswer
<1>10. CASE OnEnd(u, s)
  BY <1>3, <1>4, <1>10 DEF OnEnd
<1>11. QED
  BY <1>5, <1>6, <1>8, <1>9, <1>10 DEF Receive, s

LEMMA AwaitsKeep == ASSUME IInv, NEW u \in Users, Awaits(u) PROVE IInv'
<1> USE DEF IInv
<1> PICK w \in working[u] : MediaReady(u, w) \/ MediaFails(u, w) \/ Described(u, w) \/ AnswerTaken(u, w)
  BY DEF Awaits
<1>1. w \in Work
  BY DEF TypeOK
<1>2. CASE MediaReady(u, w)
  <2>1. [id |-> w.call, remote |-> None, state |-> "new"] \in Connection
    BY <1>1 DEF Connection, Work
  <2>2. [w EXCEPT !.step = "makeOffer"] \in Work /\ [w EXCEPT !.step = "makeOffer"].step = "makeOffer"
    BY <1>1 DEF Work
  <2>3. working' \in [Users -> SUBSET Work]
    BY <1>2, <2>2 DEF MediaReady, TypeOK
  <2> TypeOK'
    <3>1. pc' = [pc EXCEPT ![u] = [id |-> w.call, remote |-> None, state |-> "new"]]
          /\ mics' = [mics EXCEPT ![u] = @ \cup {w.call}] /\ w.call \in Nat
      BY <1>1, <1>2 DEF MediaReady, Work
    <3>2. pc' \in [Users -> {None} \cup Connection] /\ mics' \in [Users -> SUBSET Nat]
      BY <2>1, <3>1 DEF TypeOK
    <3>3. \A v \in Users : pc'[v] # None => pc'[v].id \in mics'[v]
      BY <3>1 DEF TypeOK
    <3>4. QED
      BY <1>2, <2>3, <3>2, <3>3 DEF MediaReady, relay, store, TypeOK
  <2>4. TypeOK' /\ StoreInv'
    BY <1>2 DEF MediaReady, store, StoreInv, PeerKnown, PhaseTimed, PlacedIsPicked
  <2>5. MicNeedsPick'
    <3>1. w.call \in picked[u]
      BY <1>2 DEF MediaReady, MicNeedsPick, AskingForMic
    <3>2. \A v \in Users : AskingForMic(v)' \subseteq AskingForMic(v)
      BY <1>2, <2>2 DEF MediaReady, AskingForMic, TypeOK
    <3>3. QED
      BY <1>2, <3>1, <3>2 DEF MediaReady, MicNeedsPick, TypeOK
  <2>6. QED
    BY <2>4, <2>5
<1>3. CASE Continue(u, w) /\ EndCall(u) /\ UNCHANGED <<relay, rung, cuts, picked>>
  BY <1>3, EndCallStore, TeardownMedia, NoNewWork DEF Continue, EndCall, TypeOK, relay
<1>4. CASE Continue(u, w) /\ UNCHANGED <<relay, store, pc, mics, rung, cuts, picked>>
  <2>1. TypeOK' /\ StoreInv'
    BY <1>4 DEF Continue, relay, store, TypeOK, StoreInv, PeerKnown, PhaseTimed, PlacedIsPicked
  <2>2. QED
    BY <1>4, <2>1, NoNewWork DEF Continue, TypeOK
<1>5. ASSUME Continue(u, w), pc[u] # None, NEW kind \in {"offer", "answer"}, Send(u, w.to, kind, pc[u].id),
             UNCHANGED <<online, wire, rings, store, pc, mics, rung, cuts, picked>>
      PROVE  IInv'
  <2>1. pc[u].id \in Nat /\ w.to \in Users
    BY <1>1, <1>5 DEF TypeOK, Connection, Work
  <2>2. frames' \in [Users -> Seq(CallSignal)]
    BY <1>5, <2>1, SendType
  <2>3. TypeOK' /\ StoreInv'
    BY <1>5, <2>2 DEF Continue, store, TypeOK, StoreInv, PeerKnown, PhaseTimed, PlacedIsPicked
  <2>4. QED
    BY <1>5, <2>3, NoNewWork DEF Continue, TypeOK
<1>6. CASE MediaFails(u, w)
  BY <1>3, <1>6 DEF MediaFails
<1>7. CASE Described(u, w)
  <2>1. CASE EndCall(u) /\ UNCHANGED frames
    BY <1>3, <1>7, <2>1 DEF Described, relay
  <2>2. CASE /\ pc[u] # None
             /\ Send(u, w.to, IF w.step = "makeOffer" THEN "offer" ELSE "answer", pc[u].id)
             /\ UNCHANGED <<store, pc, mics>>
    <3>1. CASE w.step = "makeOffer"
      BY <1>5, <1>7, <2>2, <3>1 DEF Described
    <3>2. CASE w.step # "makeOffer"
      BY <1>5, <1>7, <2>2, <3>2 DEF Described
    <3>3. QED
      BY <3>1, <3>2
  <2>3. QED
    BY <1>7, <2>1, <2>2 DEF Described
<1>8. CASE AnswerTaken(u, w)
  BY <1>3, <1>4, <1>8 DEF AnswerTaken
<1>9. QED
  BY <1>2, <1>6, <1>7, <1>8

LEMMA NetworkKeeps == ASSUME IInv, NEW u \in Users, Network(u) PROVE IInv'
<1> USE DEF IInv
<1>1. ASSUME NEW state \in {"connected", "disconnected"}, pc[u] # None,
             pc' = [pc EXCEPT ![u].state = state], UNCHANGED mics
      PROVE  pc' \in [Users -> {None} \cup Connection] /\ \A v \in Users : pc'[v] # None => pc'[v].id \in mics'[v]
  <2> pc[u] \in Connection
    BY <1>1 DEF TypeOK
  <2>1. [pc[u] EXCEPT !.state = state] \in Connection
    BY ConnectionSet, CallsAssumption
  <2>2. QED
    BY <1>1, <2>1 DEF TypeOK, Connection
<1>2. CASE Connected(u)
  <2>1. pc[u] # None
    BY <1>2 DEF Connected, Reaches
  <2>2. pc' \in [Users -> {None} \cup Connection] /\ \A v \in Users : pc'[v] # None => pc'[v].id \in mics'[v]
    BY <1>1, <1>2, <2>1 DEF Connected
  <2>3. UNCHANGED <<online, frames, wire, rings, peer, calls, working, mics, rung, cuts, picked>>
    BY <1>2 DEF Connected, relay
  <2>4. CASE phase[u] = "connecting"
    <3>1. /\ phase' = [phase EXCEPT ![u] = "active"]
          /\ timers' = [timers EXCEPT ![u] = @ \ {"connecting", "ice"}]
      BY <1>2, <2>4 DEF Connected
    <3> HIDE <1>2
    <3>2. TypeOK'
      BY <2>2, <2>3, <3>1 DEF TypeOK, Phases
    <3>3. StoreInv'
      BY <2>3, <2>4, <3>1 DEF TypeOK, StoreInv, PeerKnown, PhaseTimed, PlacedIsPicked
    <3>4. QED
      BY <2>3, <3>2, <3>3, NoNewWork
  <2>5. CASE phase[u] # "connecting"
    <3>1. timers' = [timers EXCEPT ![u] = @ \ {"ice"}] /\ UNCHANGED phase
      BY <1>2, <2>5 DEF Connected, Unarmed
    <3> HIDE <1>2
    <3>2. TypeOK'
      BY <2>2, <2>3, <3>1 DEF TypeOK
    <3>3. StoreInv'
      BY <2>3, <3>1 DEF TypeOK, StoreInv, PeerKnown, PhaseTimed, PlacedIsPicked
    <3>4. QED
      BY <2>3, <3>2, <3>3, NoNewWork
  <2>6. QED
    BY <2>4, <2>5
<1>3. CASE Disconnected(u)
  <2>1. pc' \in [Users -> {None} \cup Connection] /\ \A v \in Users : pc'[v] # None => pc'[v].id \in mics'[v]
    BY <1>1, <1>3 DEF Disconnected
  <2>2. /\ timers' = [timers EXCEPT ![u] = @ \cup {"ice"}]
        /\ UNCHANGED <<online, frames, wire, rings, phase, peer, calls, working, mics, rung, cuts, picked>>
    BY <1>3 DEF Disconnected, relay
  <2>3. TypeOK'
    BY <2>1, <2>2 DEF TypeOK
  <2>4. StoreInv'
    BY <2>2 DEF TypeOK, StoreInv, PeerKnown, PhaseTimed, PlacedIsPicked
  <2>5. QED
    BY <2>2, <2>3, <2>4, NoNewWork
<1>4. CASE ConnectionFailed(u)
  BY <1>4, EndCallStore, TeardownMedia, NoNewWork DEF ConnectionFailed, EndCall, TypeOK, relay
<1>5. QED
  BY <1>2, <1>3, <1>4 DEF Network

-----------------------------------------------------------------------------
(* The relay                                                               *)

\* No app is touched by what the relay and the connection do.
LEMMA StoreKept ==
    ASSUME IInv, UNCHANGED <<store, media, picked>>
    PROVE  StoreInv' /\ MicNeedsPick'
BY DEF IInv, StoreInv, PeerKnown, PhaseTimed, PlacedIsPicked, MicNeedsPick, AskingForMic, store, media

LEMMA RelayKeeps == ASSUME IInv, NEW u \in Users, Relay(u) PROVE IInv'
<1> USE DEF IInv
<1>1. ASSUME NEW i \in DOMAIN frames[u], Forward(u, i) PROVE IInv'
  <2>1. frames[u] \in Seq(CallSignal)
    BY DEF TypeOK
  <2>2. frames[u][i] \in CallSignal /\ RemoveAt(frames[u], i) \in Seq(CallSignal)
    BY <2>1, RemoveAtType
  <2>3. frames[u][i].to \in Users
    BY <2>2 DEF CallSignal
  <2>4. frames' \in [Users -> Seq(CallSignal)]
    BY <1>1, <2>2 DEF Forward, TypeOK
  <2>5. wire' \in [Users -> Seq(CallSignal)]
    <3>1. Append(wire[frames[u][i].to], frames[u][i]) \in Seq(CallSignal)
      BY <2>2, <2>3 DEF TypeOK
    <3>2. QED
      BY <1>1, <2>3, <3>1 DEF Forward, TypeOK
  <2>6. rings' \in [Users -> Users \cup {None}]
    BY <1>1, <2>3 DEF Forward, clearRingBetween, TypeOK
  <2>7. TypeOK'
    BY <1>1, <2>4, <2>5, <2>6 DEF Forward, store, media, TypeOK
  <2>8. QED
    BY <1>1, <2>7, StoreKept DEF Forward
<1>2. ASSUME NEW i \in DOMAIN frames[u], Refuse(u, i) PROVE IInv'
  <2>1. RemoveAt(frames[u], i) \in Seq(CallSignal)
    BY RemoveAtType DEF TypeOK
  <2>2. TypeOK'
    BY <1>2, <2>1 DEF Refuse, store, media, TypeOK
  <2>3. QED
    BY <1>2, <2>2, StoreKept DEF Refuse
<1>3. CASE RingStale(u)
  <2>1. TypeOK'
    BY <1>3 DEF RingStale, store, media, TypeOK
  <2>2. QED
    BY <1>3, <2>1, StoreKept DEF RingStale
<1>4. CASE Connect(u)
  <2>1. Replay(u) \in Seq(CallSignal)
    <3>1. CASE rings[u] = None
      BY <3>1 DEF Replay
    <3>2. CASE rings[u] # None
      <4>1. Signal("ring", rings[u], u, 0) \in CallSignal
        BY <3>2, SignalType DEF TypeOK
      <4>2. QED
        BY <3>2, <4>1 DEF Replay
    <3>3. QED
      BY <3>1, <3>2
  <2>2. TypeOK'
    BY <1>4, <2>1 DEF Connect, store, media, TypeOK
  <2>3. QED
    BY <1>4, <2>2, StoreKept DEF Connect
<1>5. CASE Disconnect(u)
  <2>1. TypeOK'
    BY <1>5 DEF Disconnect, Cut, store, media, TypeOK
  <2>2. QED
    BY <1>5, <2>1, StoreKept DEF Disconnect
<1>6. CASE Kill(u)
  <2>1. TypeOK'
    BY <1>6 DEF Kill, Cut, Enter, TypeOK, Phases
  <2>2. StoreInv'
    BY <1>6 DEF Kill, Enter, TypeOK, StoreInv, PeerKnown, PhaseTimed, PlacedIsPicked
  <2>3. MicNeedsPick'
    BY <1>6 DEF Kill, TypeOK, MicNeedsPick, AskingForMic
  <2>4. QED
    BY <2>1, <2>2, <2>3
<1>7. QED
  BY <1>1, <1>2, <1>3, <1>4, <1>5, <1>6 DEF Relay

LEMMA RestartKeeps == ASSUME IInv, RelayRestart PROVE IInv'
<1>1. TypeOK'
  BY CallsAssumption DEF IInv, RelayRestart, Cut, store, media, TypeOK
<1>2. QED
  BY <1>1, StoreKept DEF RelayRestart, IInv

LEMMA IInvStep == IInv /\ [Next]_vars => IInv'
<1> SUFFICES ASSUME IInv, [Next]_vars PROVE IInv'
  OBVIOUS
<1>1. CASE UNCHANGED vars
  <2>1. TypeOK'
    BY <1>1 DEF IInv, vars, relay, store, media, TypeOK
  <2>2. QED
    BY <1>1, <2>1, StoreKept DEF IInv, vars
<1>2. CASE Next
  BY <1>2, ButtonsKeep, TimersKeep, ReceiveKeeps, AwaitsKeep, NetworkKeeps, RelayKeeps, RestartKeeps DEF Next
<1>3. QED
  BY <1>1, <1>2

LEMMA Inductive == Spec => []IInv
BY InitIInv, IInvStep, PTL DEF Spec

-----------------------------------------------------------------------------
(* The theorems                                                            *)

\* Type correctness: each variable keeps its kind, and the connection of an
\* app has its own microphone running.
THEOREM CallsTyped == Spec => []TypeOK
BY Inductive, PTL DEF IInv

\* Every phase that has to pass by itself has its timer and no other phase has
\* it, for any number of users, calls, lost connections and restarts.
THEOREM Timed == Spec => []PhaseTimed
BY Inductive, PTL DEF IInv, StoreInv

\* No microphone is asked for but for a call its user placed or accepted.
THEOREM Picked == Spec => []MicNeedsPick
BY Inductive, PTL DEF IInv

\* A signal between two users clears no ring of a third, whichever signals of
\* whom come back from the check in between.
THEOREM ThirdRingKept == Spec => OthersRingKept
<1> DEFINE Clears(u, i, c) == Forward(u, i) /\ rings[c] # None /\ rings'[c] = None
           Kept == \A u, c \in Users : \A i \in DOMAIN frames[u] :
                     Clears(u, i, c) => {c, rings[c]} = {u, frames[u][i].to}
<1>1. IInv => [Kept]_vars
  <2>1. ASSUME TypeOK, NEW u \in Users, NEW c \in Users, NEW i \in DOMAIN frames[u], Clears(u, i, c)
        PROVE  {c, rings[c]} = {u, frames[u][i].to}
    <3>1. frames[u][i].to \in Users /\ frames[u][i].to # None /\ u # None
      <4>1. frames[u] \in Seq(CallSignal)
        BY <2>1 DEF TypeOK
      <4>2. frames[u][i] \in CallSignal
        BY <4>1
      <4>3. QED
        BY <4>2, CallsAssumption DEF CallSignal
    <3>2. rings' = clearRingBetween(u, frames[u][i].to)
      BY <2>1, <3>1 DEF Forward, TypeOK
    <3>3. QED
      BY <2>1, <3>2 DEF clearRingBetween
  <2>2. QED
    BY <2>1 DEF IInv
<1>2. QED
  BY <1>1, Inductive, PTL DEF OthersRingKept

-----------------------------------------------------------------------------
(* The caller who rings                                                   *)

\* u's ring from v is on its way to u's device, on the screen, or resolved by a signal of u's.
RingOnWay(u, v) == \E i \in 1..Len(wire[u]) : wire[u][i].kind = "ring" /\ wire[u][i].from = v
Resolves(u, v) == \E i \in 1..Len(frames[u]) : frames[u][i].to = v /\ frames[u][i].kind \in Resolving
Heard(u, v) == RingOnWay(u, v) \/ Resolves(u, v) \/ (phase[u] = "ringing-in" /\ peer[u] = v)
RingsHeard == \A u, v \in Users : rings[u] = v /\ u \in online /\ picked[u] = {} => Heard(u, v)

\* A signal that ends an earlier call of the recorded caller comes before the ring.
RingBehind(u, k) == \E i \in (k + 1)..Len(wire[u]) : wire[u][i].kind = "ring" /\ wire[u][i].from = rings[u]
RingsLast == \A u \in Users : \A k \in 1..Len(wire[u]) :
    wire[u][k].kind \in Resolving /\ wire[u][k].from = rings[u] => RingBehind(u, k)

\* Who has not picked a call has been rung at most.
Unpicked == \A u \in Users : picked[u] = {} =>
    phase[u] \in {"idle", "ringing-in", "ended"} /\ working[u] = {} /\ pc[u] = None

Delivered ==
    /\ \A u \in Users : wire[u] # <<>> => u \in online
    /\ \A u \in Users : \A i \in 1..Len(frames[u]) : frames[u][i].from = u

RingInv == RingsHeard /\ RingsLast /\ Unpicked /\ Delivered

LEMMA RingInvInit == Init => RingInv
BY DEF Init, RingInv, RingsHeard, RingsLast, Unpicked, Delivered

\* Frames are only added, by the users they come from.
FramesKept ==
    /\ \A w \in Users : \A i \in 1..Len(frames[w]) : i \in 1..Len(frames'[w]) /\ frames'[w][i] = frames[w][i]
    /\ \A w \in Users : \A i \in 1..Len(frames'[w]) : frames'[w][i].from = w

LEMMA SendKeeps ==
    ASSUME TypeOK, Delivered, NEW u \in Users, NEW v, NEW kind, NEW id, Send(u, v, kind, id)
    PROVE  /\ FramesKept
           /\ u \in online /\ kind \in Resolving => Resolves(u, v)'
<1> DEFINE n == Len(frames[u])
           s == Signal(kind, u, v, id)
<1>1. frames \in [Users -> Seq(CallSignal)] /\ frames[u] \in Seq(CallSignal) /\ n \in Nat
  BY DEF TypeOK
<1>2. s.from = u /\ s.to = v /\ s.kind = kind
  BY DEF Signal
<1>3. \A w \in Users : \A i \in 1..Len(frames[w]) : frames[w][i].from = w
  BY DEF Delivered
<1> HIDE DEF s
<1>4. CASE u \in online
  <2>1. frames' = [frames EXCEPT ![u] = Append(frames[u], s)]
    BY <1>4 DEF Send, s
  <2>2. frames'[u] = Append(frames[u], s) /\ \A w \in Users : w # u => frames'[w] = frames[w]
    BY <1>1, <2>1
  <2>3. Len(frames'[u]) = n + 1 /\ frames'[u][n + 1] = s /\ \A i \in 1..n : frames'[u][i] = frames[u][i]
    BY <1>1, <2>2
  <2>4. n + 1 \in 1..(n + 1) /\ (\A i \in 1..n : i \in 1..(n + 1)) /\ \A i \in 1..(n + 1) : i \in 1..n \/ i = n + 1
    BY <1>1
  <2>5. FramesKept
    <3>1. \A w \in Users : \A i \in 1..Len(frames[w]) : i \in 1..Len(frames'[w]) /\ frames'[w][i] = frames[w][i]
      BY <2>2, <2>3, <2>4
    <3>2. \A w \in Users : \A i \in 1..Len(frames'[w]) : frames'[w][i].from = w
      BY <1>2, <1>3, <2>2, <2>3, <2>4
    <3>3. QED
      BY <3>1, <3>2 DEF FramesKept
  <2>6. kind \in Resolving => Resolves(u, v)'
    BY <1>2, <2>3, <2>4 DEF Resolves
  <2>7. QED
    BY <2>5, <2>6
<1>5. CASE u \notin online
  BY <1>3, <1>5 DEF Send, FramesKept
<1>6. QED
  BY <1>4, <1>5

LEMMA ResolvesKept == ASSUME FramesKept, NEW u \in Users, NEW v, Resolves(u, v) PROVE Resolves(u, v)'
BY DEF FramesKept, Resolves

\* A step of one device that takes nothing from the wire.
LEMMA DeviceStep ==
    ASSUME RingInv, NEW u \in Users, FramesKept, UNCHANGED <<online, wire, rings>>,
           \A w \in Users \ {u} : /\ phase'[w] = phase[w] /\ peer'[w] = peer[w] /\ picked'[w] = picked[w]
                                  /\ working'[w] = working[w] /\ pc'[w] = pc[w],
           picked[u] \subseteq picked'[u],
           picked'[u] = {} => phase'[u] \in {"idle", "ringing-in", "ended"} /\ working'[u] = {} /\ pc'[u] = None,
           \A v \in Users : picked'[u] = {} /\ phase[u] = "ringing-in" /\ peer[u] = v /\ u \in online =>
               (phase'[u] = "ringing-in" /\ peer'[u] = v) \/ Resolves(u, v)'
    PROVE  RingInv'
<1>1. Unpicked'
  BY DEF RingInv, Unpicked
<1>2. Delivered'
  BY DEF RingInv, Delivered, FramesKept
<1>3. RingsLast'
  BY DEF RingInv, RingsLast, RingBehind
<1>4. ASSUME NEW w \in Users, NEW v \in Users, rings'[w] = v, w \in online', picked'[w] = {} PROVE Heard(w, v)'
  <2>1. picked[w] = {} /\ Heard(w, v)
    BY <1>4 DEF RingInv, RingsHeard
  <2>2. CASE RingOnWay(w, v)
    BY <2>2 DEF Heard, RingOnWay
  <2>3. CASE Resolves(w, v)
    BY <2>3, ResolvesKept DEF Heard
  <2>4. CASE phase[w] = "ringing-in" /\ peer[w] = v
    <3>1. CASE w = u
      BY <1>4, <2>4, <3>1 DEF Heard
    <3>2. CASE w # u
      BY <2>4, <3>2 DEF Heard
    <3>3. QED
      BY <3>1, <3>2
  <2>5. QED
    BY <2>1, <2>2, <2>3, <2>4 DEF Heard
<1>5. RingsHeard'
  BY <1>4 DEF RingsHeard
<1>6. QED
  BY <1>1, <1>2, <1>3, <1>5 DEF RingInv

LEMMA NoFramesKept == ASSUME Delivered, UNCHANGED frames PROVE FramesKept
BY DEF Delivered, FramesKept

\* Who has picked a call is not owed any.
LEMMA PickedStep ==
    ASSUME TypeOK, RingInv, NEW u \in Users, picked[u] # {}, picked' = picked,
           FramesKept, UNCHANGED <<online, wire, rings>>,
           \A w \in Users \ {u} : /\ phase'[w] = phase[w] /\ peer'[w] = peer[w]
                                  /\ working'[w] = working[w] /\ pc'[w] = pc[w]
    PROVE  RingInv'
<1>1. picked'[u] # {} /\ picked[u] \subseteq picked'[u]
  OBVIOUS
<1>2. QED
  BY <1>1, DeviceStep

LEMMA EndCallElsewhere ==
    ASSUME TypeOK, NEW u \in Users, EndCall(u)
    PROVE  /\ \A w \in Users \ {u} : phase'[w] = phase[w] /\ peer'[w] = peer[w] /\ pc'[w] = pc[w]
           /\ phase'[u] = "ended" /\ pc'[u] = None /\ peer' = peer
BY DEF EndCall, Teardown, TypeOK

LEMMA ButtonsHeard == ASSUME IInv, RingInv, NEW u \in Users, Buttons(u) PROVE RingInv'
<1> USE DEF IInv
<1>1. TypeOK /\ Delivered /\ Unpicked
  BY DEF RingInv
<1>2. ASSUME NEW v \in Users, Ring(u, v) PROVE RingInv'
  <2>1. FramesKept
    BY <1>1, <1>2, SendKeeps DEF Ring
  <2>2. /\ UNCHANGED <<online, wire, rings, working, pc>> /\ calls'[u] \in picked'[u] /\ picked[u] \subseteq picked'[u]
        /\ \A w \in Users \ {u} : phase'[w] = phase[w] /\ peer'[w] = peer[w] /\ picked'[w] = picked[w]
    BY <1>1, <1>2 DEF Ring, Enter, media, TypeOK
  <2>3. picked'[u] # {}
    BY <2>2
  <2>4. QED
    BY <2>1, <2>2, <2>3, DeviceStep
<1>3. CASE Accept(u)
  <2>1. FramesKept
    BY <1>1, <1>3, SendKeeps DEF Accept
  <2>2. /\ UNCHANGED <<online, wire, rings, pc>> /\ calls[u] \in picked'[u] /\ picked[u] \subseteq picked'[u]
        /\ \A w \in Users \ {u} : /\ phase'[w] = phase[w] /\ peer'[w] = peer[w] /\ picked'[w] = picked[w]
                                  /\ working'[w] = working[w]
    BY <1>1, <1>3 DEF Accept, Enter, Start, TypeOK
  <2>3. picked'[u] # {}
    BY <2>2
  <2>4. QED
    BY <2>1, <2>2, <2>3, DeviceStep
<1>4. CASE Decline(u)
  <2> PICK v \in Users : v = peer[u]
    BY <1>1, <1>4, CallsAssumption DEF Decline, TypeOK, StoreInv, PeerKnown
  <2>1. Send(u, v, "decline", 0) /\ "decline" \in Resolving
    BY <1>4 DEF Decline, Resolving
  <2>2. FramesKept /\ (u \in online => Resolves(u, v)')
    BY <1>1, <2>1, SendKeeps
  <2>3. /\ UNCHANGED <<online, wire, rings, working, pc, picked>> /\ phase'[u] = "idle"
        /\ \A w \in Users \ {u} : phase'[w] = phase[w] /\ peer'[w] = peer[w]
    BY <1>1, <1>4 DEF Decline, Enter, media, TypeOK
  <2>4. picked'[u] = {} => phase'[u] \in {"idle", "ringing-in", "ended"} /\ working'[u] = {} /\ pc'[u] = None
    BY <1>1, <2>3 DEF Unpicked
  <2>5. \A x \in Users : peer[u] = x /\ u \in online => Resolves(u, x)'
    BY <2>2
  <2>6. QED
    BY <2>2, <2>3, <2>4, <2>5, DeviceStep
<1>5. CASE Hangup(u)
  <2>1. FramesKept
    BY <1>1, <1>5, SendKeeps, NoFramesKept DEF Hangup
  <2>2. UNCHANGED <<online, wire, rings, working, picked>> /\ EndCall(u) /\ phase[u] # "ringing-in"
    BY <1>5 DEF Hangup
  <2>3. /\ \A w \in Users \ {u} : phase'[w] = phase[w] /\ peer'[w] = peer[w] /\ pc'[w] = pc[w]
        /\ phase'[u] = "ended" /\ pc'[u] = None
    BY <1>1, <2>2, EndCallElsewhere
  <2>4. picked'[u] = {} => phase'[u] \in {"idle", "ringing-in", "ended"} /\ working'[u] = {} /\ pc'[u] = None
    BY <1>1, <2>2, <2>3 DEF Unpicked
  <2>5. QED
    BY <2>1, <2>2, <2>3, <2>4, DeviceStep
<1>6. CASE ClearEnded(u)
  <2>1. FramesKept
    BY <1>1, <1>6, NoFramesKept DEF ClearEnded, relay
  <2>2. /\ UNCHANGED <<online, wire, rings, working, pc, picked>> /\ phase[u] = "ended" /\ phase'[u] = "idle"
        /\ \A w \in Users \ {u} : phase'[w] = phase[w] /\ peer'[w] = peer[w]
    BY <1>1, <1>6 DEF ClearEnded, Enter, relay, media, TypeOK
  <2>3. picked'[u] = {} => phase'[u] \in {"idle", "ringing-in", "ended"} /\ working'[u] = {} /\ pc'[u] = None
    BY <1>1, <2>2 DEF Unpicked
  <2>4. QED
    BY <2>1, <2>2, <2>3, DeviceStep
<1>7. QED
  BY <1>2, <1>3, <1>4, <1>5, <1>6 DEF Buttons

LEMMA TimersHeard == ASSUME IInv, RingInv, NEW u \in Users, Timers(u) PROVE RingInv'
<1> USE DEF IInv
<1>1. TypeOK /\ Delivered /\ Unpicked
  BY DEF RingInv
<1>2. ASSUME FramesKept, picked[u] # {}, EndCall(u), UNCHANGED <<online, wire, rings, working, picked>> PROVE RingInv'
  BY <1>1, <1>2, EndCallElsewhere, PickedStep
<1>3. ASSUME UNCHANGED <<relay, phase, peer, working, pc, picked>> PROVE RingInv'
  BY <1>3 DEF relay, RingInv, RingsHeard, Heard, RingOnWay, Resolves, RingsLast, RingBehind, Unpicked, Delivered
<1>4. CASE RingTimeout(u)
  <2>1. CASE phase[u] = "ringing-out"
    <3>1. picked[u] # {}
      BY <1>1, <2>1 DEF Unpicked
    <3>2. FramesKept
      BY <1>1, <1>4, <2>1, SendKeeps DEF RingTimeout
    <3>3. QED
      BY <1>2, <1>4, <2>1, <3>1, <3>2 DEF RingTimeout
  <2>2. CASE phase[u] # "ringing-out"
    BY <1>3, <1>4, <2>2 DEF RingTimeout, relay
  <2>3. QED
    BY <2>1, <2>2
<1>5. CASE ConnectingTimeout(u)
  <2>1. CASE phase[u] = "connecting"
    <3>1. picked[u] # {}
      BY <1>1, <2>1 DEF Unpicked
    <3>2. FramesKept
      BY <1>1, <1>5, NoFramesKept DEF ConnectingTimeout, relay
    <3>3. QED
      BY <1>2, <1>5, <2>1, <3>1, <3>2 DEF ConnectingTimeout, relay
  <2>2. CASE phase[u] # "connecting"
    BY <1>3, <1>5, <2>2 DEF ConnectingTimeout
  <2>3. QED
    BY <2>1, <2>2
<1>6. CASE IceTimeout(u)
  <2>1. CASE pc[u] # None /\ pc[u].state = "disconnected"
    <3>1. picked[u] # {}
      BY <1>1, <2>1 DEF Unpicked
    <3>2. FramesKept
      BY <1>1, <1>6, NoFramesKept DEF IceTimeout, relay
    <3>3. QED
      BY <1>2, <1>6, <2>1, <3>1, <3>2 DEF IceTimeout, relay
  <2>2. CASE ~(pc[u] # None /\ pc[u].state = "disconnected")
    BY <1>3, <1>6, <2>2 DEF IceTimeout
  <2>3. QED
    BY <2>1, <2>2
<1>7. CASE EndedTimeout(u)
  <2>1. FramesKept /\ UNCHANGED <<online, wire, rings, working, pc, picked>>
    BY <1>1, <1>7, NoFramesKept DEF EndedTimeout, relay, media
  <2>2. CASE phase[u] = "ended"
    <3>1. /\ phase'[u] = "idle"
          /\ \A w \in Users \ {u} : phase'[w] = phase[w] /\ peer'[w] = peer[w]
      BY <1>1, <1>7, <2>2 DEF EndedTimeout, Enter, TypeOK
    <3>2. picked'[u] = {} => phase'[u] \in {"idle", "ringing-in", "ended"} /\ working'[u] = {} /\ pc'[u] = None
      BY <1>1, <2>1, <3>1 DEF Unpicked
    <3>3. QED
      BY <2>1, <2>2, <3>1, <3>2, DeviceStep
  <2>3. CASE phase[u] # "ended"
    BY <1>3, <1>7, <2>3 DEF EndedTimeout, media
  <2>4. QED
    BY <2>2, <2>3
<1>8. QED
  BY <1>4, <1>5, <1>6, <1>7 DEF Timers

\* Only who has picked a call waits for the microphone or has a connection.
LEMMA MediaHeard == ASSUME IInv, RingInv, NEW u \in Users, Awaits(u) \/ Network(u) PROVE RingInv'
<1> USE DEF IInv
<1>1. TypeOK /\ Delivered /\ Unpicked
  BY DEF RingInv
<1>2. ASSUME NEW w \in working[u], MediaReady(u, w) PROVE RingInv'
  <2>1. FramesKept /\ UNCHANGED <<online, wire, rings, phase, peer, picked>> /\ picked[u] # {}
    BY <1>1, <1>2, NoFramesKept DEF MediaReady, relay, store, Unpicked
  <2>2. \A x \in Users \ {u} : working'[x] = working[x] /\ pc'[x] = pc[x]
    BY <1>1, <1>2 DEF MediaReady, TypeOK
  <2>3. QED
    BY <1>1, <2>1, <2>2, PickedStep
<1>3. ASSUME NEW w \in working[u], Continue(u, w), EndCall(u) \/ UNCHANGED <<phase, peer, pc>>,
             FramesKept, UNCHANGED <<online, wire, rings, picked>>
      PROVE  RingInv'
  <2>1. picked[u] # {}
    BY <1>1, <1>3 DEF Unpicked
  <2>2. \A x \in Users \ {u} : /\ phase'[x] = phase[x] /\ peer'[x] = peer[x]
                               /\ working'[x] = working[x] /\ pc'[x] = pc[x]
    BY <1>1, <1>3, EndCallElsewhere DEF Continue, TypeOK
  <2>3. QED
    BY <1>1, <1>3, <2>1, <2>2, PickedStep
<1>4. ASSUME NEW w \in working[u], MediaFails(u, w) \/ AnswerTaken(u, w) PROVE RingInv'
  <2>1. FramesKept
    BY <1>1, <1>4, NoFramesKept DEF MediaFails, AnswerTaken, relay
  <2>2. QED
    BY <1>3, <1>4, <2>1 DEF MediaFails, AnswerTaken, relay, store
<1>5. ASSUME NEW w \in working[u], Described(u, w) PROVE RingInv'
  <2>1. FramesKept
    BY <1>1, <1>5, NoFramesKept, SendKeeps DEF Described
  <2>2. QED
    BY <1>3, <1>5, <2>1 DEF Described, store
<1>6. CASE Awaits(u)
  BY <1>2, <1>4, <1>5, <1>6 DEF Awaits
<1>7. CASE Network(u)
  <2>1. pc[u] # None /\ UNCHANGED <<relay, working, picked>>
    BY <1>7 DEF Network, Connected, Disconnected, ConnectionFailed, Reaches
  <2>2. \A x \in Users \ {u} : phase'[x] = phase[x] /\ peer'[x] = peer[x] /\ pc'[x] = pc[x]
    BY <1>1, <1>7, EndCallElsewhere DEF Network, Connected, Disconnected, ConnectionFailed, TypeOK
  <2>3. picked[u] # {}
    BY <1>1, <2>1 DEF Unpicked
  <2>4. FramesKept
    BY <1>1, <2>1, NoFramesKept DEF relay
  <2>5. QED
    BY <1>1, <2>1, <2>2, <2>3, <2>4, PickedStep DEF relay
<1>8. QED
  BY <1>6, <1>7

LEMMA TailElements ==
    ASSUME NEW x \in Seq(CallSignal), x # <<>>
    PROVE  /\ Len(x) > 0 /\ Head(x) = x[1] /\ Len(Tail(x)) = Len(x) - 1
           /\ \A i \in 1..(Len(x) - 1) : Tail(x)[i] = x[i + 1]
OBVIOUS

\* What is read is gone from the wire, and nothing else is.
LEMMA WireTail ==
    ASSUME TypeOK, RingsLast, NEW u \in Users, wire[u] # <<>>, NEW s, s = Head(wire[u]),
           wire' = [wire EXCEPT ![u] = Tail(@)], UNCHANGED rings
    PROVE  /\ RingsLast'
           /\ \A v \in Users : RingOnWay(u, v) => RingOnWay(u, v)' \/ (s.kind = "ring" /\ s.from = v)
           /\ \A v \in Users : s.kind \in Resolving /\ s.from = v /\ rings[u] = v => RingOnWay(u, v)'
           /\ \A w \in Users \ {u} : wire'[w] = wire[w]
<1> DEFINE n == Len(wire[u])
<1>1. wire[u] \in Seq(CallSignal) /\ n \in Nat /\ n > 0 /\ s = wire[u][1]
  BY TailElements DEF TypeOK
<1>2. wire'[u] = Tail(wire[u]) /\ \A w \in Users \ {u} : wire'[w] = wire[w]
  BY DEF TypeOK
<1>3. Len(wire'[u]) = n - 1 /\ \A i \in 1..(n - 1) : wire'[u][i] = wire[u][i + 1]
  BY <1>1, <1>2, TailElements
<1>4. 1 \in 1..n /\ \A i \in 1..n : i = 1 \/ (i - 1 \in 1..(n - 1) /\ wire'[u][i - 1] = wire[u][i])
  BY <1>1, <1>3
<1>5. RingsLast'
  <2>1. ASSUME NEW k \in 1..(n - 1), wire'[u][k].kind \in Resolving, wire'[u][k].from = rings[u] PROVE RingBehind(u, k)'
    <3>1. k + 1 \in 1..n /\ wire[u][k + 1] = wire'[u][k]
      BY <1>1, <1>3
    <3>2. RingBehind(u, k + 1)
      BY <2>1, <3>1 DEF RingsLast
    <3>3. PICK i \in (k + 2)..n : wire[u][i].kind = "ring" /\ wire[u][i].from = rings[u]
      BY <3>2 DEF RingBehind
    <3>4. i \in 1..n /\ i # 1 /\ i - 1 \in (k + 1)..(n - 1)
      BY <1>1, <3>3
    <3>5. wire'[u][i - 1] = wire[u][i]
      BY <1>4, <3>4
    <3>6. QED
      BY <1>3, <3>3, <3>4, <3>5 DEF RingBehind
  <2>2. ASSUME NEW w \in Users, w # u, NEW k \in 1..Len(wire'[w]),
               wire'[w][k].kind \in Resolving, wire'[w][k].from = rings'[w]
        PROVE  RingBehind(w, k)'
    BY <1>2, <2>2 DEF RingsLast, RingBehind
  <2>3. QED
    BY <1>3, <2>1, <2>2 DEF RingsLast
<1>6. ASSUME NEW v \in Users, RingOnWay(u, v) PROVE RingOnWay(u, v)' \/ (s.kind = "ring" /\ s.from = v)
  <2>1. PICK i \in 1..n : wire[u][i].kind = "ring" /\ wire[u][i].from = v
    BY <1>6 DEF RingOnWay
  <2>2. QED
    BY <1>1, <1>3, <1>4, <2>1 DEF RingOnWay
<1>7. ASSUME NEW v \in Users, s.kind \in Resolving, s.from = v, rings[u] = v PROVE RingOnWay(u, v)'
  <2>1. RingBehind(u, 1)
    BY <1>1, <1>4, <1>7 DEF RingsLast
  <2>2. PICK i \in 2..n : wire[u][i].kind = "ring" /\ wire[u][i].from = rings[u]
    BY <2>1 DEF RingBehind
  <2>3. i \in 1..n /\ i # 1
    BY <1>1, <2>2
  <2>4. QED
    BY <1>3, <1>4, <1>7, <2>2, <2>3 DEF RingOnWay
<1>8. QED
  BY <1>2, <1>5, <1>6, <1>7

\* What a signal does to one who has picked no call.
RungBy(u, v) == phase[u] = "ringing-in" /\ peer[u] = v
LEMMA SignalTaken ==
    ASSUME TypeOK, Delivered, Unpicked, NEW u \in Users, u \in online, picked[u] = {},
           NEW s \in CallSignal, s = Head(wire[u]), Receive(u)
    PROVE  /\ UNCHANGED <<working, pc>>
           /\ phase'[u] \in {"idle", "ringing-in", "ended"}
           /\ s.kind = "ring" => RungBy(u, s.from)' \/ Resolves(u, s.from)'
           /\ \A v \in Users : RungBy(u, v) => RungBy(u, v)' \/ (s.kind \in Resolving /\ s.from = v)
<1>1. s.from \in Users /\ pc[u] = None /\ phase[u] \in {"idle", "ringing-in", "ended"}
  BY DEF CallSignal, Unpicked
<1>2. CASE Ignore(u) /\ (s.kind = "ring" => RungBy(u, s.from))
  BY <1>1, <1>2 DEF Ignore, store, media, RungBy
<1>3. CASE s.kind = "ring" /\ OnRing(u, s)
  <2>1. CASE phase[u] = "idle"
    BY <1>1, <1>3, <2>1 DEF OnRing, Enter, media, RungBy, TypeOK
  <2>2. CASE RungBy(u, s.from)
    BY <1>2, <1>3, <2>2 DEF OnRing, RungBy
  <2>3. CASE phase[u] # "idle" /\ ~RungBy(u, s.from)
    <3>1. Send(u, s.from, "busy", 0) /\ UNCHANGED <<store, media>> /\ "busy" \in Resolving
      BY <1>3, <2>3 DEF OnRing, RungBy, Resolving
    <3>2. Resolves(u, s.from)'
      BY <3>1, SendKeeps
    <3>3. QED
      BY <1>1, <3>1, <3>2 DEF store, media, RungBy
  <2>4. QED
    BY <2>1, <2>2, <2>3
<1>4. CASE s.kind = "accept" /\ OnAccept(u, s)
  BY <1>1, <1>2, <1>4 DEF OnAccept, Placed
<1>5. CASE s.kind = "offer" /\ OnOffer(u, s)
  BY <1>1, <1>2, <1>5 DEF OnOffer
<1>6. CASE s.kind = "answer" /\ OnAnswer(u, s)
  BY <1>1, <1>2, <1>6 DEF OnAnswer
<1>7. CASE s.kind \in {"decline", "busy", "timeout", "hangup"} /\ OnEnd(u, s)
  <2>1. CASE peer[u] = s.from
    <3>1. EndCall(u) /\ UNCHANGED working /\ s.kind \in Resolving /\ s.kind # "ring"
      BY <1>7, <2>1 DEF OnEnd, Resolving
    <3>2. phase'[u] = "ended" /\ pc' = pc
      BY <1>1, <3>1 DEF EndCall, Teardown, TypeOK
    <3>3. QED
      BY <2>1, <3>1, <3>2 DEF RungBy
  <2>2. CASE peer[u] # s.from
    BY <1>2, <1>7, <2>2 DEF OnEnd
  <2>3. QED
    BY <2>1, <2>2
<1>8. QED
  BY <1>3, <1>4, <1>5, <1>6, <1>7 DEF Receive

\* A signal changes its receiver's device only.
LEMMA SignalElsewhere ==
    ASSUME TypeOK, Delivered, NEW u \in Users, NEW s \in CallSignal, s = Head(wire[u]), Receive(u)
    PROVE  /\ FramesKept
           /\ \A w \in Users \ {u} : /\ phase'[w] = phase[w] /\ peer'[w] = peer[w]
                                     /\ working'[w] = working[w] /\ pc'[w] = pc[w]
<1> DEFINE Elsewhere == \A w \in Users \ {u} : /\ phase'[w] = phase[w] /\ peer'[w] = peer[w]
                                               /\ working'[w] = working[w] /\ pc'[w] = pc[w]
<1>1. s.from \in Users
  BY DEF CallSignal
<1>2. CASE Ignore(u)
  BY <1>2, NoFramesKept DEF Ignore, store, media
<1>3. CASE EndCall(u) /\ UNCHANGED <<frames, working>>
  BY <1>3, NoFramesKept, EndCallElsewhere
<1>4. CASE OnRing(u, s)
  <2>1. FramesKept
    BY <1>1, <1>4, NoFramesKept, SendKeeps DEF OnRing, Ignore
  <2>2. Elsewhere
    BY <1>4 DEF OnRing, Ignore, Enter, store, media, TypeOK
  <2>3. QED
    BY <2>1, <2>2
<1>5. CASE OnAccept(u, s)
  <2>1. FramesKept
    BY <1>5, NoFramesKept DEF OnAccept, Ignore
  <2>2. Elsewhere
    BY <1>5 DEF OnAccept, Ignore, Enter, Start, store, media, TypeOK
  <2>3. QED
    BY <2>1, <2>2
<1>6. ASSUME NEW step, pc' = [pc EXCEPT ![u].remote = <<s.from, s.pc>>],
             Start(u, step, s.from), UNCHANGED <<frames, store, mics>>
      PROVE  FramesKept /\ Elsewhere
  BY <1>6, NoFramesKept DEF Start, store, TypeOK
<1>7. CASE OnOffer(u, s)
  BY <1>2, <1>3, <1>6, <1>7 DEF OnOffer
<1>8. CASE OnAnswer(u, s)
  BY <1>2, <1>6, <1>8 DEF OnAnswer
<1>9. CASE OnEnd(u, s)
  BY <1>2, <1>3, <1>9 DEF OnEnd
<1>10. QED
  BY <1>4, <1>5, <1>7, <1>8, <1>9 DEF Receive

LEMMA ReceiveHeard == ASSUME IInv, RingInv, NEW u \in Users, Receive(u) PROVE RingInv'
<1> USE DEF IInv
<1>1. /\ TypeOK /\ Delivered /\ Unpicked /\ RingsLast
      /\ wire[u] # <<>> /\ wire' = [wire EXCEPT ![u] = Tail(@)] /\ UNCHANGED <<online, rings, picked>>
  BY DEF RingInv, Receive
<1>2. u \in online /\ Head(wire[u]) \in CallSignal
  BY <1>1, HeadType DEF Delivered, TypeOK
<1> PICK s \in CallSignal : s = Head(wire[u])
  BY <1>2
<1>3. /\ RingsLast'
      /\ \A v \in Users : RingOnWay(u, v) => RingOnWay(u, v)' \/ (s.kind = "ring" /\ s.from = v)
      /\ \A v \in Users : s.kind \in Resolving /\ s.from = v /\ rings[u] = v => RingOnWay(u, v)'
      /\ \A w \in Users \ {u} : wire'[w] = wire[w]
  BY <1>1, WireTail
<1>4. /\ FramesKept
      /\ \A w \in Users \ {u} : /\ phase'[w] = phase[w] /\ peer'[w] = peer[w]
                                /\ working'[w] = working[w] /\ pc'[w] = pc[w]
  BY <1>1, SignalElsewhere
<1>5. picked[u] = {} =>
          /\ UNCHANGED <<working, pc>>
          /\ phase'[u] \in {"idle", "ringing-in", "ended"}
          /\ s.kind = "ring" => RungBy(u, s.from)' \/ Resolves(u, s.from)'
          /\ \A v \in Users : RungBy(u, v) => RungBy(u, v)' \/ (s.kind \in Resolving /\ s.from = v)
  BY <1>1, <1>2, SignalTaken
<1>6. Delivered'
  BY <1>1, <1>2, <1>3, <1>4 DEF Delivered, FramesKept
<1>7. Unpicked'
  BY <1>1, <1>4, <1>5 DEF Unpicked
<1>8. ASSUME NEW w \in Users, NEW v \in Users, rings'[w] = v, w \in online', picked'[w] = {} PROVE Heard(w, v)'
  <2>1. picked[w] = {} /\ rings[w] = v /\ Heard(w, v)
    BY <1>1, <1>8 DEF RingInv, RingsHeard
  <2>2. CASE Resolves(w, v)
    BY <1>4, <2>2, ResolvesKept DEF Heard
  <2>3. CASE w # u /\ (RingOnWay(w, v) \/ RungBy(w, v))
    BY <1>3, <1>4, <2>3 DEF Heard, RingOnWay, RungBy
  <2>4. CASE w = u /\ RingOnWay(u, v)
    BY <1>3, <1>5, <2>1, <2>4 DEF Heard, RungBy
  <2>5. CASE w = u /\ RungBy(u, v)
    BY <1>3, <1>5, <2>1, <2>5 DEF Heard, RungBy
  <2>6. QED
    BY <2>1, <2>2, <2>3, <2>4, <2>5 DEF Heard, RungBy
<1>9. QED
  BY <1>3, <1>6, <1>7, <1>8 DEF RingInv, RingsHeard

LEMMA ConcatElements ==
    ASSUME NEW a \in Seq(CallSignal), NEW b \in Seq(CallSignal)
    PROVE  /\ Len(a \o b) = Len(a) + Len(b)
           /\ \A k \in 1..Len(a) : (a \o b)[k] = a[k]
           /\ \A k \in 1..(Len(a) + Len(b)) : k > Len(a) => (a \o b)[k] = b[k - Len(a)]
OBVIOUS

LEMMA RemoveAtElements ==
    ASSUME NEW x \in Seq(CallSignal), NEW i \in 1..Len(x)
    PROVE  /\ Len(RemoveAt(x, i)) = Len(x) - 1
           /\ \A k \in 1..(Len(x) - 1) : RemoveAt(x, i)[k] = IF k < i THEN x[k] ELSE x[k + 1]
<1> DEFINE a == SubSeq(x, 1, i - 1)
           b == SubSeq(x, i + 1, Len(x))
<1>1. Len(x) \in Nat /\ i \in Nat /\ 1 <= i /\ i <= Len(x)
  OBVIOUS
<1>2. a \in Seq(CallSignal) /\ Len(a) = i - 1 /\ \A k \in 1..(i - 1) : a[k] = x[k]
  BY <1>1
<1>3. b \in Seq(CallSignal) /\ Len(b) = Len(x) - i /\ \A k \in 1..(Len(x) - i) : b[k] = x[i + k]
  BY <1>1
<1>4. RemoveAt(x, i) = a \o b
  BY DEF RemoveAt
<1> HIDE DEF a, b
<1>5. Len(a \o b) = Len(x) - 1
  <2>1. Len(a \o b) = Len(a) + Len(b)
    BY <1>2, <1>3, ConcatElements
  <2>2. QED
    BY <1>1, <1>2, <1>3, <2>1
<1>6. ASSUME NEW k \in 1..(Len(x) - 1) PROVE (a \o b)[k] = IF k < i THEN x[k] ELSE x[k + 1]
  <2>1. CASE k < i
    <3>1. k \in 1..(i - 1) /\ k \in 1..Len(a)
      BY <1>1, <1>2, <2>1
    <3>2. (a \o b)[k] = a[k]
      BY <1>2, <1>3, <3>1, ConcatElements
    <3>3. QED
      BY <1>2, <2>1, <3>1, <3>2
  <2>2. CASE ~(k < i)
    <3>1. k - Len(a) = k + 1 - i /\ k + 1 - i \in 1..(Len(x) - i) /\ k > Len(a) /\ i + (k + 1 - i) = k + 1
      BY <1>1, <1>2, <2>2
    <3>2. (a \o b)[k] = b[k + 1 - i]
      <4>1. k \in 1..(Len(a) + Len(b))
        BY <1>1, <1>2, <1>3
      <4>2. (a \o b)[k] = b[k - Len(a)]
        BY <1>2, <1>3, <3>1, <4>1, ConcatElements
      <4>3. QED
        BY <3>1, <4>2
    <3>3. b[k + 1 - i] = x[i + (k + 1 - i)]
      BY <1>3, <3>1
    <3>4. QED
      BY <2>2, <3>1, <3>2, <3>3
  <2>3. QED
    BY <2>1, <2>2
<1>7. QED
  BY <1>4, <1>5, <1>6

ResolvesBut(u, s) ==
    \A w, x \in Users : Resolves(w, x) => Resolves(w, x)' \/ (w = u /\ s.to = x /\ s.kind \in Resolving)

\* A check that has ended takes its signal and no other from its sender's handlers.
LEMMA FrameTaken ==
    ASSUME TypeOK, Delivered, NEW u \in Users, NEW i \in DOMAIN frames[u],
           frames' = [frames EXCEPT ![u] = RemoveAt(@, i)], NEW s, s = frames[u][i]
    PROVE  /\ s \in CallSignal /\ s.from = u
           /\ \A w \in Users : \A k \in 1..Len(frames'[w]) : frames'[w][k].from = w
           /\ ResolvesBut(u, s)
<1> DEFINE n == Len(frames[u])
<1>1. frames[u] \in Seq(CallSignal) /\ n \in Nat /\ i \in 1..n
  BY DEF TypeOK
<1>2. frames'[u] = RemoveAt(frames[u], i) /\ \A w \in Users \ {u} : frames'[w] = frames[w]
  BY DEF TypeOK
<1>3. /\ Len(frames'[u]) = n - 1
      /\ \A k \in 1..(n - 1) : frames'[u][k] = IF k < i THEN frames[u][k] ELSE frames[u][k + 1]
  BY <1>1, <1>2, RemoveAtElements
<1>4. \A k \in 1..(n - 1) : k \in 1..n /\ k + 1 \in 1..n
  BY <1>1
<1>5. \A k \in 1..n : k < i => k \in 1..(n - 1) /\ frames'[u][k] = frames[u][k]
  BY <1>1, <1>3
<1>6. \A k \in 1..n : i < k => k - 1 \in 1..(n - 1) /\ frames'[u][k - 1] = frames[u][k]
  BY <1>1, <1>3
<1>7. s \in CallSignal /\ s.from = u
  <2>1. \A y \in Seq(CallSignal) : \A k \in 1..Len(y) : y[k] \in CallSignal
    OBVIOUS
  <2>2. QED
    BY <1>1, <2>1 DEF Delivered
<1>8. \A w \in Users : \A k \in 1..Len(frames'[w]) : frames'[w][k].from = w
  <2>1. ASSUME NEW k \in 1..(n - 1) PROVE frames'[u][k].from = u
    <3>1. \A j \in 1..n : frames[u][j].from = u
      BY DEF Delivered
    <3>2. QED
      BY <1>3, <1>4, <3>1
  <2>2. \A w \in Users \ {u} : \A k \in 1..Len(frames'[w]) : frames'[w][k].from = w
    BY <1>2 DEF Delivered
  <2>3. QED
    BY <1>3, <2>1, <2>2
<1>9. ASSUME NEW w \in Users, NEW x \in Users, Resolves(w, x)
      PROVE  Resolves(w, x)' \/ (w = u /\ s.to = x /\ s.kind \in Resolving)
  <2>1. CASE w # u
    BY <1>2, <1>9, <2>1 DEF Resolves
  <2>2. CASE w = u
    <3>1. PICK k \in 1..n : frames[u][k].to = x /\ frames[u][k].kind \in Resolving
      BY <1>9, <2>2 DEF Resolves
    <3>2. k = i \/ k < i \/ i < k
      BY <1>1
    <3>3. CASE k = i
      BY <2>2, <3>1, <3>3
    <3>4. CASE k < i
      BY <1>3, <1>5, <2>2, <3>1, <3>4 DEF Resolves
    <3>5. CASE i < k
      BY <1>3, <1>6, <2>2, <3>1, <3>5 DEF Resolves
    <3>6. QED
      BY <3>2, <3>3, <3>4, <3>5
  <2>3. QED
    BY <2>1, <2>2
<1>10. QED
  BY <1>7, <1>8, <1>9 DEF ResolvesBut

LEMMA AppendElements ==
    ASSUME NEW x \in Seq(CallSignal), NEW s \in CallSignal
    PROVE  /\ Len(x) \in Nat /\ Len(Append(x, s)) = Len(x) + 1 /\ Append(x, s)[Len(x) + 1] = s
           /\ \A k \in 1..Len(x) : Append(x, s)[k] = x[k]
OBVIOUS

\* The wires only grow, by the signal forwarded.
Grown(v, s) ==
    /\ \A w \in Users : Len(wire[w]) \in Nat
    /\ \A w \in Users : \A k \in 1..Len(wire[w]) : k \in 1..Len(wire'[w]) /\ wire'[w][k] = wire[w][k]
    /\ \A w \in Users : \A k \in 1..Len(wire'[w]) :
           k \in 1..Len(wire[w]) \/ (w = v /\ v \in online /\ wire'[w][k] = s)
    /\ v \in online => /\ Len(wire[v]) + 1 \in 1..Len(wire'[v]) /\ wire'[v][Len(wire[v]) + 1] = s
                       /\ \A k \in 1..Len(wire[v]) : Len(wire[v]) + 1 \in (k + 1)..Len(wire'[v])

LEMMA WireGrows ==
    ASSUME TypeOK, NEW v \in Users, NEW s \in CallSignal,
           wire' = IF v \in online THEN [wire EXCEPT ![v] = Append(@, s)] ELSE wire
    PROVE  Grown(v, s)
<1> DEFINE n == Len(wire[v])
<1>1. \A w \in Users : Len(wire[w]) \in Nat
  BY DEF TypeOK
<1>2. CASE v \notin online
  BY <1>1, <1>2 DEF Grown
<1>3. CASE v \in online
  <2>1. wire'[v] = Append(wire[v], s) /\ wire[v] \in Seq(CallSignal) /\ \A w \in Users \ {v} : wire'[w] = wire[w]
    BY <1>3 DEF TypeOK
  <2>2. n \in Nat /\ Len(wire'[v]) = n + 1 /\ wire'[v][n + 1] = s /\ \A k \in 1..n : wire'[v][k] = wire[v][k]
    BY <2>1, AppendElements
  <2>3. \A k \in 1..(n + 1) : k \in 1..n \/ k = n + 1
    BY <2>2
  <2>4. n + 1 \in 1..(n + 1) /\ \A k \in 1..n : k \in 1..(n + 1) /\ n + 1 \in (k + 1)..(n + 1)
    BY <2>2
  <2>5. QED
    BY <1>1, <1>3, <2>1, <2>2, <2>3, <2>4 DEF Grown
<1>4. QED
  BY <1>2, <1>3

LEMMA ForwardHeard ==
    ASSUME TypeOK, RingInv, NEW u \in Users, NEW i \in DOMAIN frames[u], Forward(u, i)
    PROVE  RingInv'
<1> PICK s : s = frames[u][i]
  OBVIOUS
<1>1. /\ s \in CallSignal /\ s.from = u
      /\ \A w \in Users : \A k \in 1..Len(frames'[w]) : frames'[w][k].from = w
      /\ \A w, x \in Users : Resolves(w, x) => Resolves(w, x)' \/ (w = u /\ s.to = x /\ s.kind \in Resolving)
  <2>1. Delivered /\ frames' = [frames EXCEPT ![u] = RemoveAt(@, i)]
    BY DEF RingInv, Forward
  <2>2. s \in CallSignal /\ s.from = u
    BY <2>1, FrameTaken
  <2>3. \A w \in Users : \A k \in 1..Len(frames'[w]) : frames'[w][k].from = w
    BY <2>1, FrameTaken
  <2>4. ResolvesBut(u, s)
    BY <2>1, FrameTaken
  <2>5. QED
    BY <2>2, <2>3, <2>4 DEF ResolvesBut
<1> PICK v \in Users : v = s.to
  BY <1>1 DEF CallSignal
<1>2. /\ wire' = IF v \in online THEN [wire EXCEPT ![v] = Append(@, s)] ELSE wire
      /\ rings' = IF s.kind = "ring" THEN [rings EXCEPT ![v] = u]
                  ELSE IF s.kind \in Resolving THEN clearRingBetween(u, v) ELSE rings
      /\ UNCHANGED <<online, phase, peer, working, pc, picked>>
  BY DEF Forward, store, media
<1>3. /\ \A w \in Users : Len(wire[w]) \in Nat
      /\ \A w \in Users : \A k \in 1..Len(wire[w]) : k \in 1..Len(wire'[w]) /\ wire'[w][k] = wire[w][k]
      /\ \A w \in Users : \A k \in 1..Len(wire'[w]) :
             k \in 1..Len(wire[w]) \/ (w = v /\ v \in online /\ wire'[w][k] = s)
      /\ v \in online => /\ Len(wire[v]) + 1 \in 1..Len(wire'[v]) /\ wire'[v][Len(wire[v]) + 1] = s
                         /\ \A k \in 1..Len(wire[v]) : Len(wire[v]) + 1 \in (k + 1)..Len(wire'[v])
  <2>1. Grown(v, s)
    BY <1>1, <1>2, WireGrows
  <2>2. QED
    BY <2>1 DEF Grown
\* What is recorded afterwards was recorded before, or is this ring.
<1>4. ASSUME NEW w \in Users, rings'[w] # None
      PROVE  \/ rings'[w] = rings[w] /\ ~(s.kind \in Resolving /\ <<w, rings[w]>> \in {<<u, v>>, <<v, u>>})
             \/ w = v /\ s.kind = "ring" /\ rings'[w] = u
  <2>1. CASE s.kind = "ring"
    BY <1>2, <2>1 DEF TypeOK, Resolving
  <2>2. CASE s.kind \in Resolving
    BY <1>2, <1>4, <2>2 DEF clearRingBetween, Resolving
  <2>3. CASE s.kind # "ring" /\ s.kind \notin Resolving
    BY <1>2, <2>3
  <2>4. QED
    BY <2>1, <2>2, <2>3
<1>5. "ring" \notin Resolving /\ u # None
  BY CallsAssumption DEF Resolving
<1>6. RingsHeard'
  <2>1. ASSUME NEW w \in Users, NEW x \in Users, rings'[w] = x, w \in online', picked'[w] = {} PROVE Heard(w, x)'
    <3>1. CASE w = v /\ s.kind = "ring" /\ rings'[w] = u
      BY <1>1, <1>2, <1>3, <2>1, <3>1 DEF Heard, RingOnWay
    <3>2. CASE rings'[w] = rings[w] /\ ~(s.kind \in Resolving /\ <<w, rings[w]>> \in {<<u, v>>, <<v, u>>})
      <4>1. Heard(w, x)
        BY <1>2, <2>1, <3>2 DEF RingInv, RingsHeard
      <4>2. RingOnWay(w, x) => RingOnWay(w, x)'
        BY <1>3 DEF RingOnWay
      <4>3. Resolves(w, x) => Resolves(w, x)'
        BY <1>1, <2>1, <3>2
      <4>4. QED
        BY <1>2, <4>1, <4>2, <4>3 DEF Heard
    <3>3. x # None
      BY CallsAssumption
    <3>4. QED
      BY <1>4, <2>1, <3>1, <3>2, <3>3
  <2>2. QED
    BY <2>1 DEF RingsHeard
<1>7. RingsLast'
  <2>1. ASSUME NEW w \in Users, NEW k \in 1..Len(wire'[w]), wire'[w][k].kind \in Resolving, wire'[w][k].from = rings'[w]
        PROVE  RingBehind(w, k)'
    <3>1. rings'[w] # None
      <4>1. wire[w] \in Seq(CallSignal)
        BY DEF TypeOK
      <4>2. \A j \in 1..Len(wire[w]) : wire[w][j] \in CallSignal
        BY <4>1
      <4>3. wire'[w][k] \in CallSignal
        BY <1>1, <1>3, <4>2
      <4>4. QED
        BY <2>1, <4>3, CallsAssumption DEF CallSignal
    <3>2. CASE w = v /\ s.kind = "ring" /\ rings'[w] = u
      <4>1. k \in 1..Len(wire[v])
        BY <1>3, <1>5, <2>1, <3>2
      <4>2. v \in online
        BY <4>1, <1>3 DEF RingInv, Delivered
      <4>3. QED
        BY <1>1, <1>3, <3>2, <4>1, <4>2 DEF RingBehind
    <3>3. CASE rings'[w] = rings[w] /\ ~(s.kind \in Resolving /\ <<w, rings[w]>> \in {<<u, v>>, <<v, u>>})
      <4>1. k \in 1..Len(wire[w])
        BY <1>1, <1>3, <2>1, <3>3
      <4>2. RingBehind(w, k)
        BY <1>3, <2>1, <3>3, <4>1 DEF RingInv, RingsLast
      <4>3. PICK j \in (k + 1)..Len(wire[w]) : wire[w][j].kind = "ring" /\ wire[w][j].from = rings[w]
        BY <4>2 DEF RingBehind
      <4>4. j \in 1..Len(wire[w])
        BY <1>3, <4>1, <4>3
      <4>5. j \in (k + 1)..Len(wire'[w]) /\ wire'[w][j] = wire[w][j]
        <5>1. j \in 1..Len(wire'[w]) /\ wire'[w][j] = wire[w][j]
          BY <1>3, <4>4
        <5>2. k \in Nat /\ j \in Nat /\ k + 1 <= j
          BY <1>3, <4>1, <4>3
        <5>3. QED
          BY <5>1, <5>2
      <4>6. QED
        BY <3>3, <4>3, <4>5 DEF RingBehind
    <3>4. QED
      BY <1>4, <3>1, <3>2, <3>3
  <2>2. QED
    BY <2>1 DEF RingsLast
<1>8. Unpicked'
  BY <1>2 DEF RingInv, Unpicked
<1>9. Delivered'
  <2>1. \A w \in Users : wire'[w] # <<>> => w \in online'
    BY <1>2 DEF RingInv, Delivered
  <2>2. QED
    BY <1>1, <2>1 DEF Delivered
<1>10. QED
  BY <1>6, <1>7, <1>8, <1>9 DEF RingInv

\* A device whose connection is made or lost has no more than its ring on the wire.
LEMMA WireReset ==
    ASSUME TypeOK, RingInv, NEW u \in Users, UNCHANGED <<frames, rings, picked>>,
           \A w \in Users \ {u} : w \in online' <=> w \in online,
           wire' = [wire EXCEPT ![u] = IF u \in online' THEN Replay(u) ELSE <<>>],
           \A w \in Users \ {u} : /\ phase'[w] = phase[w] /\ peer'[w] = peer[w]
                                  /\ working'[w] = working[w] /\ pc'[w] = pc[w],
           picked[u] = {} => phase'[u] \in {"idle", "ringing-in", "ended"} /\ working'[u] = {} /\ pc'[u] = None
    PROVE  RingInv'
<1>1. \A w \in Users \ {u} : wire'[w] = wire[w]
  BY DEF TypeOK
<1>2. wire'[u] = IF u \in online' THEN Replay(u) ELSE <<>>
  BY DEF TypeOK
<1>3. CASE u \in online' /\ rings[u] # None
  <2>1. Len(wire'[u]) = 1 /\ wire'[u][1].kind = "ring" /\ wire'[u][1].from = rings[u]
    BY <1>2, <1>3 DEF Replay, Signal
  <2>2. RingOnWay(u, rings[u])' /\ \A k \in 1..Len(wire'[u]) : wire'[u][k].kind \notin Resolving
    BY <2>1 DEF RingOnWay, Resolving
  <2>3. QED
    BY <1>1, <1>3, <2>1, <2>2
    DEF RingInv, RingsHeard, Heard, RingOnWay, Resolves, RingsLast, RingBehind, Unpicked, Delivered
<1>4. CASE u \notin online' \/ rings[u] = None
  <2>1. wire'[u] = <<>> /\ Len(wire'[u]) = 0
    BY <1>2, <1>4 DEF Replay
  <2>2. QED
    BY <1>1, <1>4, <2>1, CallsAssumption
    DEF RingInv, RingsHeard, Heard, RingOnWay, Resolves, RingsLast, RingBehind, Unpicked, Delivered
<1>5. QED
  BY <1>3, <1>4

\* No signal that resolves a call is refused for an error of the database.
ResolvingPass ==
    \A u \in Users : \A i \in DOMAIN frames[u] :
        Refuse(u, i) => frames[u][i].kind \notin Resolving \/ Forward(u, i)

LEMMA RelayHeard == ASSUME ResolvingPass, IInv, RingInv, NEW u \in Users, Relay(u) PROVE RingInv'
<1>1. TypeOK /\ Unpicked
  BY DEF IInv, RingInv
<1>2. ASSUME NEW i \in DOMAIN frames[u], Forward(u, i) PROVE RingInv'
  BY <1>1, <1>2, ForwardHeard
<1>3. ASSUME NEW i \in DOMAIN frames[u], Refuse(u, i) PROVE RingInv'
  <2>1. CASE Forward(u, i)
    BY <1>2, <2>1
  <2>2. CASE ~Forward(u, i)
    <3> PICK s : s = frames[u][i]
      OBVIOUS
    <3>1. s.kind \notin Resolving
      BY <1>3, <2>2 DEF ResolvingPass
    <3>2. /\ UNCHANGED <<online, wire, rings, phase, peer, working, pc, picked>>
          /\ frames' = [frames EXCEPT ![u] = RemoveAt(@, i)]
      BY <1>3 DEF Refuse, store, media
    <3>3. /\ \A w \in Users : \A k \in 1..Len(frames'[w]) : frames'[w][k].from = w
          /\ \A w, x \in Users : Resolves(w, x) => Resolves(w, x)'
      <4>1. \A w \in Users : \A k \in 1..Len(frames'[w]) : frames'[w][k].from = w
        BY <1>1, <3>2, FrameTaken DEF RingInv
      <4>2. ResolvesBut(u, s)
        BY <1>1, <3>2, FrameTaken DEF RingInv
      <4>3. QED
        BY <3>1, <4>1, <4>2 DEF ResolvesBut
    <3>4. RingsHeard'
      BY <3>2, <3>3 DEF RingInv, RingsHeard, Heard, RingOnWay
    <3>5. QED
      BY <3>2, <3>3, <3>4 DEF RingInv, RingsLast, RingBehind, Unpicked, Delivered
  <2>3. QED
    BY <2>1, <2>2
<1>4. CASE RingStale(u)
  <2>1. /\ rings'[u] = None /\ \A w \in Users \ {u} : rings'[w] = rings[w]
        /\ UNCHANGED <<online, frames, wire, phase, peer, working, pc, picked>>
    BY <1>1, <1>4 DEF RingStale, store, media, TypeOK
  <2>2. \A k \in 1..Len(wire[u]) : wire[u][k].from # None
    <3>1. wire[u] \in Seq(CallSignal)
      BY <1>1 DEF TypeOK
    <3>2. \A k \in 1..Len(wire[u]) : wire[u][k] \in CallSignal
      BY <3>1
    <3>3. QED
      BY <3>2, CallsAssumption DEF CallSignal
  <2>3. RingsHeard'
    BY <2>1, CallsAssumption DEF RingInv, RingsHeard, Heard, RingOnWay, Resolves
  <2>4. RingsLast'
    BY <2>1, <2>2 DEF RingInv, RingsLast, RingBehind
  <2>5. QED
    BY <2>1, <2>3, <2>4 DEF RingInv, Unpicked, Delivered
<1>5. CASE Connect(u)
  BY <1>1, <1>5, WireReset DEF Connect, store, media, Unpicked
<1>6. CASE Disconnect(u)
  BY <1>1, <1>6, WireReset DEF Disconnect, store, media, Unpicked
<1>7. CASE Kill(u)
  <2>1. /\ UNCHANGED <<frames, rings, picked>> /\ online' = online \ {u} /\ wire' = [wire EXCEPT ![u] = <<>>]
        /\ phase' = [phase EXCEPT ![u] = "idle"] /\ peer' = [peer EXCEPT ![u] = None]
        /\ working' = [working EXCEPT ![u] = {}] /\ pc' = [pc EXCEPT ![u] = None]
    BY <1>7 DEF Kill, Enter
  <2>2. /\ phase'[u] = "idle" /\ working'[u] = {} /\ pc'[u] = None
        /\ \A w \in Users \ {u} : /\ phase'[w] = phase[w] /\ peer'[w] = peer[w]
                                  /\ working'[w] = working[w] /\ pc'[w] = pc[w]
    BY <1>1, <2>1 DEF TypeOK
  <2>3. QED
    BY <1>1, <2>1, <2>2, WireReset
<1>8. QED
  BY <1>2, <1>3, <1>4, <1>5, <1>6, <1>7 DEF Relay

\* The relay's restart takes every connection, every signal and every record.
LEMMA RestartHeard == ASSUME RingInv, RelayRestart PROVE RingInv'
BY CallsAssumption DEF RelayRestart, store, media, RingInv, RingsHeard, RingsLast, Unpicked, Delivered

LEMMA RingStep == ASSUME [ResolvingPass]_vars, IInv, RingInv, [Next]_vars PROVE RingInv'
<1>1. CASE UNCHANGED vars
  BY <1>1 DEF vars, relay, store, media, RingInv, RingsHeard, Heard, RingOnWay, Resolves, RingsLast, RingBehind,
              Unpicked, Delivered
<1>2. CASE Next /\ ResolvingPass
  BY <1>2, ButtonsHeard, TimersHeard, ReceiveHeard, MediaHeard, RelayHeard, RestartHeard DEF Next
<1>3. QED
  BY <1>1, <1>2

LEMMA HeardRings == ASSUME RingInv PROVE CalleeHearsRing
BY DEF RingInv, RingsHeard, Heard, RingOnWay, Resolves, CalleeHearsRing, Settled

\* A caller is not left ringing somebody who does not know, in whichever order the
\* approval checks come back, unless the database fails on a signal that resolves a
\* call: a ring the relay has recorded is on its way to a connected callee who has
\* taken no call, is on the screen, or is being resolved by the callee.
THEOREM RingHeard == Spec /\ [][ResolvingPass]_vars => []CalleeHearsRing
<1>1. Init => IInv /\ RingInv
  BY InitIInv, RingInvInit
<1>2. IInv /\ RingInv /\ [Next]_vars /\ [ResolvingPass]_vars => IInv' /\ RingInv'
  BY IInvStep, RingStep
<1>3. IInv /\ RingInv => CalleeHearsRing
  BY HeardRings
<1>4. QED
  BY <1>1, <1>2, <1>3, PTL DEF Spec
=============================================================================
