-------------------------- MODULE GroupCallsProofs --------------------------
(***************************************************************************)
(* Proofs about GroupCalls: a device whose user has not joined stays       *)
(* silent, and a call that is over is not resurrected, for any number of   *)
(* members, calls and faults.                                              *)
(*                                                                         *)
(* Neither property is inductive.  A device that has not joined stays      *)
(* silent because nobody offers to it and nothing waits for its            *)
(* microphone, and nobody offers to it because every peer another device   *)
(* knows to be ready has joined.  So the invariant (CallInv) is about what *)
(* each device knows of the others, and about what the signals on their    *)
(* way tell it.  The handlers are operators from a result to a result, and *)
(* so the lemmas go by operator: `Comes' says what a handler may make of a *)
(* result, and composes.                                                   *)
(***************************************************************************)
EXTENDS GroupCalls, FoldTheorems, TLAPS

Sent == [from : Users, kind : Kinds]
Results == [u : Users, d : Device, net : [Users -> Seq(Sent)]]

WaitersOf(J) == {w \in Waiter : w.peers \subseteq J /\ w.peers # {}}

\* Whom a device knows to be ready, or hears from, has joined; J is who has.
Known(d, J) ==
    /\ d.ready \subseteq J /\ d.from \in J \cup {None}
    /\ d.waits \in Seq(WaitersOf(J)) /\ d.late \in Seq(WaitersOf(J))
    /\ d.phase = "ringing-in" => d.from # None

\* Rings, accepts and offers come from members who have joined, and an offer goes to one.
Allowed(v, s, J) ==
    /\ s.kind \in {"ring", "accept", "offer"} => s.from \in J
    /\ s.kind = "offer" => v \in J
Told(n, J) == \A v \in Users : \A i \in 1..Len(n[v]) : Allowed(v, n[v][i], J)

Good(J) == {r \in Results : Known(r.d, J) /\ Told(r.net, J)}

Quiet(d) == d.mic = "none" /\ d.waits = <<>> /\ d.late = <<>> /\ (\A v \in Users : d.pcs[v] = "none") /\ ~d.self
Over(d) == d.phase \notin {"connecting", "active"}

\* What a handler makes of a result.
Comes(r, q, J) ==
    /\ q \in Good(J) /\ q.u = r.u
    /\ Over(r.d) => Over(q.d)
    /\ r.u \notin J => (Quiet(r.d) => Quiet(q.d))

\* What one operator after the other makes of a result.
LEMMA ComesOn ==
    ASSUME NEW J, NEW r, NEW q, NEW p, Comes(r, q, J), Comes(q, p, J)
    PROVE  Comes(r, p, J)
  BY DEF Comes

\* What a result and a device are made of.
LEMMA ResultFields ==
    ASSUME NEW r \in Results
    PROVE  r.u \in Users /\ r.d \in Device /\ r.net \in [Users -> Seq(Sent)]
  BY DEF Results

LEMMA DeviceFields ==
    ASSUME NEW d \in Device
    PROVE  /\ d.phase \in Phases /\ d.from \in Users \cup {None} /\ d.status \in [Users -> Statuses]
           /\ d.ready \subseteq Users /\ d.timers \subseteq Users /\ d.self \in BOOLEAN
           /\ d.prompt \in {"none", "asking", "given", "refused"} /\ d.waits \in Seq(Waiter) /\ d.late \in Seq(Waiter)
           /\ d.mic \in {"none", "live", "stopped"}
           /\ d.pcs \in [Users -> {"none", "new", "offered", "stable", "connected"}]
  BY DEF Device

\* A result with another device.
LEMMA SetKeeps ==
    ASSUME NEW r \in Results, NEW d \in Device
    PROVE  /\ Set(r, d) \in Results
           /\ Set(r, d).u = r.u /\ Set(r, d).d = d /\ Set(r, d).net = r.net
  BY DEF Results, Set

LEMMA SetComes ==
    ASSUME NEW J, NEW r \in Good(J), NEW d \in Device, Known(d, J),
           Over(r.d) => Over(d), r.u \notin J => (Quiet(r.d) => Quiet(d))
    PROVE  Comes(r, Set(r, d), J)
  BY SetKeeps DEF Good, Comes

\* Whoever has joined may ring, accept, and offer to those who have.
LEMMA SendKeeps ==
    ASSUME NEW r \in Results, NEW peers, NEW kind \in Kinds, NEW J, Told(r.net, J),
           kind \in {"ring", "accept", "offer"} => r.u \in J, kind = "offer" => peers \subseteq J
    PROVE  /\ Send(r, peers, kind) \in Results
           /\ Send(r, peers, kind).u = r.u /\ Send(r, peers, kind).d = r.d
           /\ Told(Send(r, peers, kind).net, J)
  <1> DEFINE s == Signal(r.u, kind)
             n == [v \in Users |-> IF v \in peers THEN Append(r.net[v], s) ELSE r.net[v]]
  <1>1. s \in Sent /\ s.from = r.u /\ s.kind = kind
    BY ResultFields DEF Sent, Signal
  <1>2. Send(r, peers, kind) = [r EXCEPT !.net = n]
    BY DEF Send
  <1> HIDE DEF s
  <1>3. n \in [Users -> Seq(Sent)]
    BY <1>1, ResultFields
  <1>4. ASSUME NEW v \in Users, NEW i \in 1..Len(n[v]) PROVE Allowed(v, n[v][i], J)
    <2>1. r.net[v] \in Seq(Sent)
      BY ResultFields
    <2>2. CASE v \notin peers
      BY <1>4, <2>2 DEF Told
    <2>3. CASE v \in peers
      <3>1. n[v] = Append(r.net[v], s)
        BY <2>3
      <3>2. CASE i = Len(r.net[v]) + 1
        BY <1>1, <2>1, <2>3, <3>1, <3>2 DEF Allowed
      <3>3. CASE i # Len(r.net[v]) + 1
        BY <1>4, <2>1, <3>1, <3>3 DEF Told
      <3>4. QED
        BY <3>2, <3>3
    <2>4. QED
      BY <2>2, <2>3
  <1> HIDE DEF n
  <1>5. [r EXCEPT !.net = n] \in Results /\ [r EXCEPT !.net = n].u = r.u
        /\ [r EXCEPT !.net = n].d = r.d /\ [r EXCEPT !.net = n].net = n
    BY <1>3 DEF Results
  <1>6. Told(n, J)
    BY <1>4 DEF Told
  <1>7. QED
    BY <1>2, <1>5, <1>6

LEMMA SendComes ==
    ASSUME NEW J, NEW r \in Good(J), NEW peers, NEW kind \in Kinds,
           kind \in {"ring", "accept", "offer"} => r.u \in J, kind = "offer" => peers \subseteq J
    PROVE  Comes(r, Send(r, peers, kind), J) /\ Send(r, peers, kind).d = r.d
  BY SendKeeps DEF Good, Comes

\* The status of a peer, and what closes its connection.
LEMMA MarkKeeps ==
    ASSUME NEW J, NEW r \in Good(J), NEW v, NEW status \in Statuses
    PROVE  Comes(r, Mark(r, v, status), J)
  <1> DEFINE d == [r.d EXCEPT !.status[v] = status]
  <1>1. r \in Results /\ Known(r.d, J)
    BY DEF Good
  <1>2. Mark(r, v, status) = Set(r, d)
    BY <1>1 DEF Mark, Set, Results
  <1>3. d \in Device
    BY <1>1, ResultFields DEF Device
  <1>4. /\ d.ready = r.d.ready /\ d.from = r.d.from /\ d.waits = r.d.waits /\ d.late = r.d.late /\ d.phase = r.d.phase
        /\ d.mic = r.d.mic /\ d.pcs = r.d.pcs /\ d.self = r.d.self
    BY <1>1, ResultFields DEF Device
  <1> HIDE DEF d
  <1>5. Known(d, J) /\ (Over(r.d) => Over(d)) /\ (Quiet(r.d) => Quiet(d))
    BY <1>1, <1>4 DEF Known, Over, Quiet
  <1>6. QED
    BY <1>2, <1>3, <1>5, SetComes

LEMMA CloseKeeps ==
    ASSUME NEW J, NEW r \in Good(J), NEW v
    PROVE  Comes(r, ClosePeer(r, v), J)
  <1> DEFINE d == [r.d EXCEPT !.timers = @ \ {v}, !.ready = @ \ {v}, !.pcs[v] = "none",
                       !.mic = IF r.d.pcs[v] # "none" /\ @ = "live" THEN "stopped" ELSE @]
  <1>1. r \in Results /\ Known(r.d, J) /\ r.d \in Device
    BY ResultFields DEF Good
  <1>2. ClosePeer(r, v) = Set(r, d)
    BY DEF ClosePeer
  <1>3. d \in Device
    BY <1>1 DEF Device
  <1>4. /\ d.ready \subseteq r.d.ready /\ d.from = r.d.from /\ d.waits = r.d.waits /\ d.late = r.d.late
        /\ d.phase = r.d.phase /\ d.self = r.d.self
        /\ r.d.mic = "none" => d.mic = "none"
        /\ \A x \in Users : r.d.pcs[x] = "none" => d.pcs[x] = "none"
    BY <1>1 DEF Device
  <1> HIDE DEF d
  <1>5. Known(d, J) /\ (Over(r.d) => Over(d)) /\ (Quiet(r.d) => Quiet(d))
    BY <1>1, <1>4 DEF Known, Over, Quiet
  <1>6. QED
    BY <1>2, <1>3, <1>5, SetComes

\* The end of a call leaves what waited for the microphone to the late ones.
LEMMA EndKeeps ==
    ASSUME NEW J, NEW r \in Good(J)
    PROVE  Comes(r, EndGroupCall(r), J)
  <1> DEFINE told == IF r.d.phase = "idle" THEN {} ELSE {v \in Others(r) : r.d.status[v] \in Pending}
             s == Send(r, told, "hangup")
             w == r.d.late \o r.d.waits
             d == [Fresh EXCEPT !.phase = "ended", !.status = r.d.status, !.late = w]
  <1>1. r \in Results /\ Known(r.d, J) /\ r.d \in Device
    BY ResultFields DEF Good
  <1>2. EndGroupCall(r) = Set(s, d)
    BY DEF EndGroupCall
  <1>3. Comes(r, s, J) /\ s.d = r.d
    BY SendComes DEF Kinds
  <1>4. w \in Seq(WaitersOf(J)) /\ w \in Seq(Waiter) /\ (r.d.late = <<>> /\ r.d.waits = <<>> => w = <<>>)
    BY <1>1, DeviceFields DEF Known
  <1> HIDE DEF w, s
  <1>5. d \in Device
    <2> DEFINE none == [v \in Users |-> "none"]
    <2>1. Fresh = [phase |-> "idle", from |-> None, status |-> none, ready |-> {},
                   timers |-> {}, self |-> FALSE, prompt |-> "none", waits |-> <<>>, late |-> <<>>,
                   mic |-> "none", pcs |-> none]
      BY DEF Fresh
    <2>2. /\ <<>> \in Seq(Waiter) /\ r.d.status \in [Users -> Statuses]
          /\ none \in [Users -> {"none", "new", "offered", "stable", "connected"}]
      BY <1>1, DeviceFields
    <2> HIDE DEF none
    <2>3. FALSE \in BOOLEAN /\ "ended" \in Phases /\ "idle" \in Phases
      BY DEF Phases
    <2>4. none \in [Users -> Statuses]
      BY DEF none, Statuses
    <2>5. Fresh \in Device
      BY <2>1, <2>2, <2>3, <2>4 DEF Device
    <2>6. QED
      BY <1>4, <2>2, <2>3, <2>5 DEF Device
  <1>6. /\ d.ready = {} /\ d.from = None /\ d.waits = <<>> /\ d.late = w /\ d.phase = "ended" /\ d.self = FALSE
        /\ d.mic = "none" /\ \A v \in Users : d.pcs[v] = "none"
    BY DEF Fresh
  <1> HIDE DEF d
  <1>7. Known(d, J) /\ Over(d) /\ (Quiet(r.d) => Quiet(d))
    BY <1>1, <1>4, <1>6 DEF Known, Over, Quiet
  <1>8. Comes(s, Set(s, d), J)
    BY <1>3, <1>5, <1>7, SetComes DEF Comes
  <1>9. QED
    BY <1>2, <1>3, <1>8, ComesOn

LEMMA StayComes == ASSUME NEW J, NEW r \in Good(J) PROVE Comes(r, r, J)
  BY DEF Comes

LEMMA MaybeKeeps ==
    ASSUME NEW J, NEW r \in Good(J)
    PROVE  Comes(r, MaybeEndIfAlone(r), J) /\ Comes(r, MaybeEndIfAllUnanswered(r), J)
  BY EndKeeps, StayComes DEF MaybeEndIfAlone, MaybeEndIfAllUnanswered

LEMMA FailedKeeps ==
    ASSUME NEW J, NEW r \in Good(J), NEW v
    PROVE  Comes(r, MarkPeerFailed(r, v), J)
  <1> DEFINE c == ClosePeer(r, v)
             m == Mark(c, v, "failed")
  <1>1. Comes(r, c, J)
    BY CloseKeeps
  <1> HIDE DEF c
  <1>2. Comes(c, m, J)
    BY <1>1, MarkKeeps DEF Comes, Statuses
  <1>3. m \in Good(J)
    BY <1>2 DEF Comes
  <1>4. MarkPeerFailed(r, v) = MaybeEndIfAlone(m)
    BY DEF MarkPeerFailed, c
  <1> HIDE DEF m
  <1>5. Comes(m, MaybeEndIfAlone(m), J)
    BY <1>3, MaybeKeeps
  <1>6. QED
    BY <1>1, <1>2, <1>4, <1>5, ComesOn
-----------------------------------------------------------------------------
(* Connections, which a device makes whose user has joined.                *)

\* Offers to peers that have joined.
LEMMA ConnectKeeps ==
    ASSUME NEW J, NEW r \in Good(J), r.u \in J, NEW peers, peers \subseteq J
    PROVE  Comes(r, Connect(r, peers), J)
  <1> DEFINE offers == {v \in peers : r.u < v}
             d == [r.d EXCEPT
                    !.pcs = [v \in Users |-> IF v \in offers THEN "offered"
                                             ELSE IF v \in peers THEN "new" ELSE @[v]],
                    !.status = [v \in Users |-> IF v \in peers THEN "connecting" ELSE @[v]]]
  <1>1. r \in Results /\ Known(r.d, J) /\ r.d \in Device
    BY ResultFields DEF Good
  <1>2. Connect(r, peers) = Send(Set(r, d), offers, "offer")
    BY DEF Connect
  <1>3. d \in Device
    BY <1>1 DEF Device, Statuses, Pending
  <1>4. /\ d.ready = r.d.ready /\ d.from = r.d.from /\ d.waits = r.d.waits /\ d.late = r.d.late /\ d.phase = r.d.phase
    BY <1>1 DEF Device
  <1> HIDE DEF d
  <1>5. Comes(r, Set(r, d), J)
    BY <1>1, <1>3, <1>4, SetComes DEF Known, Over
  <1>6. offers \subseteq J
    OBVIOUS
  <1> HIDE DEF offers
  <1>7. Comes(Set(r, d), Send(Set(r, d), offers, "offer"), J)
    BY <1>5, <1>6, SendComes DEF Comes, Kinds
  <1>8. QED
    BY <1>2, <1>5, <1>7, ComesOn

LEMMA PcsKeeps ==
    ASSUME NEW J, NEW r \in Good(J), r.u \in J, NEW v,
           NEW c \in {"none", "new", "offered", "stable", "connected"}
    PROVE  Comes(r, [r EXCEPT !.d.pcs[v] = c], J)
  <1> DEFINE d == [r.d EXCEPT !.pcs[v] = c]
  <1>1. r \in Results /\ Known(r.d, J) /\ r.d \in Device
    BY ResultFields DEF Good
  <1>2. [r EXCEPT !.d.pcs[v] = c] = Set(r, d)
    BY <1>1 DEF Set, Results
  <1>3. d \in Device
    BY <1>1 DEF Device
  <1>4. d.ready = r.d.ready /\ d.from = r.d.from /\ d.waits = r.d.waits /\ d.late = r.d.late /\ d.phase = r.d.phase
    BY <1>1 DEF Device
  <1> HIDE DEF d
  <1>5. QED
    BY <1>1, <1>2, <1>3, <1>4, SetComes DEF Known, Over

LEMMA TakeKeeps ==
    ASSUME NEW J, NEW r \in Good(J), r.u \in J, NEW v
    PROVE  Comes(r, TakeOffer(r, v), J)
  <1>1. CASE r.d.pcs[v] = "offered"
    BY <1>1, FailedKeeps DEF TakeOffer
  <1>2. CASE r.d.pcs[v] # "offered"
    <2> DEFINE p == [r EXCEPT !.d.pcs[v] = "stable"]
    <2>1. Comes(r, p, J)
      BY PcsKeeps
    <2>2. TakeOffer(r, v) = Send(p, {v}, "answer")
      BY <1>2 DEF TakeOffer
    <2> HIDE DEF p
    <2>3. Comes(p, Send(p, {v}, "answer"), J)
      BY <2>1, SendComes DEF Comes, Kinds
    <2>4. QED
      BY <2>1, <2>2, <2>3, ComesOn
  <1>3. QED
    BY <1>1, <1>2

\* What follows the microphone's promise, resolved or thrown.
LEMMA ResumeKeeps ==
    ASSUME NEW J, NEW r \in Good(J), r.u \in J, NEW w \in WaitersOf(J)
    PROVE  Comes(r, Resume(r, w), J) /\ Comes(r, Thrown(r, w), J)
  <1>1. w.step \in {"connect", "offer"} /\ w.peers \subseteq J
    BY DEF WaitersOf, Waiter
  <1>2. Comes(r, Thrown(r, w), J)
    BY EndKeeps, FailedKeeps DEF Thrown
  <1>3. CASE w.step = "connect"
    BY <1>1, <1>2, <1>3, ConnectKeeps DEF Resume
  <1>4. CASE w.step # "connect"
    <2> DEFINE v == CHOOSE v \in w.peers : TRUE
               p == [r EXCEPT !.d.pcs[v] = "new"]
               m == Mark(p, v, "connecting")
    <2>1. Resume(r, w) = TakeOffer([r EXCEPT !.d.pcs[v] = "new", !.d.status[v] = "connecting"], v)
      BY <1>4 DEF Resume
    <2> HIDE DEF v
    <2>2. Comes(r, p, J)
      BY PcsKeeps
    <2>3. [r EXCEPT !.d.pcs[v] = "new", !.d.status[v] = "connecting"] = m
      BY DEF Mark
    <2> HIDE DEF p
    <2>4. Comes(p, m, J)
      BY <2>2, MarkKeeps DEF Comes, Statuses, Pending
    <2> HIDE DEF m
    <2>5. Comes(m, TakeOffer(m, v), J)
      BY <2>2, <2>4, TakeKeeps DEF Comes
    <2>6. QED
      BY <1>2, <2>1, <2>2, <2>3, <2>4, <2>5, ComesOn
  <1>5. QED
    BY <1>3, <1>4

\* Asking for the microphone.
LEMMA AwaitKeeps ==
    ASSUME NEW J, NEW r \in Good(J), r.u \in J, NEW step \in {"connect", "offer"},
           NEW peers, peers \subseteq J, peers \subseteq Users, peers # {}
    PROVE  Comes(r, Await(r, step, peers), J)
  <1> DEFINE w == [step |-> step, peers |-> peers]
             g == [r.d EXCEPT !.prompt = "given", !.mic = "live"]
             a == [r.d EXCEPT !.prompt = "asking", !.waits = Append(@, w)]
  <1>1. r \in Results /\ Known(r.d, J) /\ r.d \in Device /\ r.d.waits \in Seq(Waiter)
    BY ResultFields, DeviceFields DEF Good
  <1>2. w \in Waiter /\ w.peers = peers /\ w \in WaitersOf(J)
    BY DEF Waiter, WaitersOf
  <1>3. \/ Await(r, step, peers) = Resume(r, w)
        \/ Await(r, step, peers) = Resume(Set(r, g), w)
        \/ Await(r, step, peers) = Thrown(r, w)
        \/ Await(r, step, peers) = Set(r, a)
    BY DEF Await
  <1> HIDE DEF w
  <1>4. Comes(r, Set(r, g), J)
    <2>1. g \in Device
      BY <1>1 DEF Device
    <2>2. g.ready = r.d.ready /\ g.from = r.d.from /\ g.waits = r.d.waits /\ g.late = r.d.late /\ g.phase = r.d.phase
      BY <1>1 DEF Device
    <2> HIDE DEF g
    <2>3. QED
      BY <1>1, <2>1, <2>2, SetComes DEF Known, Over
  <1> HIDE DEF g
  <1>5. Comes(Set(r, g), Resume(Set(r, g), w), J)
    BY <1>2, <1>4, ResumeKeeps DEF Comes
  <1>6. Comes(r, Set(r, a), J)
    <2>1. Append(r.d.waits, w) \in Seq(Waiter) /\ Append(r.d.waits, w) \in Seq(WaitersOf(J))
      BY <1>1, <1>2 DEF Known
    <2>2. a \in Device
      BY <1>1, <2>1 DEF Device
    <2>3. a.ready = r.d.ready /\ a.from = r.d.from /\ a.waits = Append(r.d.waits, w) /\ a.late = r.d.late
          /\ a.phase = r.d.phase
      BY <1>1 DEF Device
    <2> HIDE DEF a
    <2>4. Known(a, J) /\ (Over(r.d) => Over(a))
      BY <1>1, <2>1, <2>3 DEF Known, Over
    <2>5. QED
      BY <2>2, <2>4, SetComes
  <1> HIDE DEF a
  <1>7. QED
    BY <1>2, <1>3, <1>4, <1>5, <1>6, ResumeKeeps, ComesOn

LEMMA TryKeeps ==
    ASSUME NEW J, NEW r \in Good(J), r.d.self => r.u \in J
    PROVE  Comes(r, TryConnectReadyPeers(r), J)
  <1> DEFINE toConnect == {v \in r.d.ready : r.d.pcs[v] = "none"}
  <1>1. toConnect \subseteq J /\ toConnect \subseteq Users
    BY ResultFields, DeviceFields DEF Good, Known
  <1>2. TryConnectReadyPeers(r) = r \/ (r.d.self /\ toConnect # {} /\ TryConnectReadyPeers(r) = Await(r, "connect", toConnect))
    BY DEF TryConnectReadyPeers
  <1> HIDE DEF toConnect
  <1>3. QED
    BY <1>1, <1>2, AwaitKeeps, StayComes
-----------------------------------------------------------------------------
(* Signals.                                                                *)

\* A declined or cancelled ring.
LEMMA IdleKeeps == ASSUME NEW J, NEW r \in Good(J)
    PROVE Comes(r, Idle(r), J) /\ Idle(r).d.phase = "idle" /\ Idle(r).net = r.net
  <1> DEFINE d == [r.d EXCEPT !.phase = "idle", !.from = None, !.status = [v \in Users |-> "none"]]
  <1>1. r \in Results /\ Known(r.d, J) /\ r.d \in Device
    BY ResultFields DEF Good
  <1>2. d \in Device
    BY <1>1 DEF Device, Phases, Statuses
  <1>3. /\ d.ready = r.d.ready /\ d.from = None /\ d.waits = r.d.waits /\ d.late = r.d.late /\ d.phase = "idle"
        /\ d.mic = r.d.mic /\ d.pcs = r.d.pcs /\ d.self = r.d.self
    BY <1>1 DEF Device
  <1> HIDE DEF d
  <1>4. Known(d, J) /\ Over(d) /\ (Quiet(r.d) => Quiet(d))
    BY <1>1, <1>3 DEF Known, Over, Quiet
  <1>5. Idle(r) = Set(r, d)
    BY DEF Idle, d
  <1>6. QED
    BY <1>1, <1>2, <1>3, <1>4, <1>5, SetComes, SetKeeps

LEMMA RingKeeps ==
    ASSUME NEW J, NEW r \in Good(J), NEW v \in J, v \in Users, NEW elsewhere \in BOOLEAN
    PROVE  Comes(r, OnRing(r, v, elsewhere), J)
  <1> DEFINE d == [r.d EXCEPT !.phase = "ringing-in", !.from = v,
                     !.status = [x \in Users |-> IF x = r.u THEN "none" ELSE "ringing"]]
  <1>1. r \in Results /\ Known(r.d, J) /\ r.d \in Device
    BY ResultFields DEF Good
  <1>2. d \in Device
    BY <1>1 DEF Device, Phases, Statuses, Pending
  <1>3. /\ d.ready = r.d.ready /\ d.from = v /\ d.waits = r.d.waits /\ d.late = r.d.late /\ d.phase = "ringing-in"
        /\ d.mic = r.d.mic /\ d.pcs = r.d.pcs /\ d.self = r.d.self
    BY <1>1 DEF Device
  <1>4. OnRing(r, v, elsewhere) \in {r, Send(r, {v}, "busy"), Set(r, d)}
    BY DEF OnRing
  <1> HIDE DEF d
  <1>5. Known(d, J) /\ Over(d) /\ (Quiet(r.d) => Quiet(d))
    BY <1>1, <1>3, GroupCallsAssumption DEF Known, Over, Quiet
  <1>6. Comes(r, Set(r, d), J)
    BY <1>2, <1>5, SetComes
  <1>7. Comes(r, Send(r, {v}, "busy"), J)
    BY SendComes DEF Kinds
  <1>8. QED
    BY <1>4, <1>6, <1>7, StayComes

LEMMA AcceptKeeps ==
    ASSUME NEW J, NEW r \in Good(J), r.u \in J \/ Quiet(r.d), NEW v \in J, v \in Users
    PROVE  Comes(r, OnAccept(r, v), J)
  <1> DEFINE d == [r.d EXCEPT !.status[v] = "connecting", !.ready = @ \cup {v}]
  <1>1. r \in Results /\ Known(r.d, J) /\ r.d \in Device
    BY ResultFields DEF Good
  <1>2. d \in Device
    BY <1>1 DEF Device, Statuses, Pending
  <1>3. /\ d.ready = r.d.ready \cup {v} /\ d.from = r.d.from /\ d.waits = r.d.waits /\ d.late = r.d.late /\ d.phase = r.d.phase
        /\ d.mic = r.d.mic /\ d.pcs = r.d.pcs /\ d.self = r.d.self
    BY <1>1 DEF Device
  <1>4. OnAccept(r, v) \in {r, TryConnectReadyPeers(Set(r, d))}
    BY DEF OnAccept
  <1> HIDE DEF d
  <1>5. Known(d, J) /\ (Over(r.d) => Over(d)) /\ (Quiet(r.d) => Quiet(d)) /\ (d.self => r.u \in J)
    BY <1>1, <1>3 DEF Known, Over, Quiet
  <1>6. Comes(r, Set(r, d), J) /\ Set(r, d).d = d /\ Set(r, d).u = r.u
    BY <1>1, <1>2, <1>5, SetComes, SetKeeps
  <1>7. Comes(Set(r, d), TryConnectReadyPeers(Set(r, d)), J)
    BY <1>5, <1>6, TryKeeps DEF Comes
  <1>8. QED
    BY <1>4, <1>6, <1>7, StayComes, ComesOn

LEMMA OfferKeeps ==
    ASSUME NEW J, NEW r \in Good(J), r.u \in J, NEW v \in J, v \in Users
    PROVE  Comes(r, OnOffer(r, v), J)
  <1>1. {v} \subseteq J /\ {v} \subseteq Users /\ {v} # {}
    OBVIOUS
  <1>2. Comes(r, Await(r, "offer", {v}), J)
    BY <1>1, AwaitKeeps
  <1>3. QED
    BY <1>2, TakeKeeps, StayComes DEF OnOffer

LEMMA AnswerKeeps ==
    ASSUME NEW J, NEW r \in Good(J), r.u \in J \/ Quiet(r.d), NEW v \in Users
    PROVE  Comes(r, OnAnswer(r, v), J)
  <1>1. CASE r.u \in J
    BY <1>1, PcsKeeps, FailedKeeps, StayComes DEF OnAnswer
  <1>2. CASE Quiet(r.d)
    BY <1>2, StayComes DEF OnAnswer, Quiet
  <1>3. QED
    BY <1>1, <1>2

LEMMA NoKeeps ==
    ASSUME NEW J, NEW r \in Good(J), NEW v, NEW kind \in {"decline", "busy", "timeout"}
    PROVE  Comes(r, OnNo(r, v, kind), J)
  <1> DEFINE d == [r.d EXCEPT !.status[v] = Answers[kind], !.timers = @ \ {v}]
  <1>1. r \in Results /\ Known(r.d, J) /\ r.d \in Device
    BY ResultFields DEF Good
  <1>2. Answers[kind] \in Statuses
    <2>1. Answers["decline"] = "declined" /\ Answers["busy"] = "busy" /\ Answers["timeout"] = "no-answer"
      BY DEF Answers
    <2>2. QED
      BY <2>1 DEF Statuses
  <1>3. d \in Device
    BY <1>1, <1>2 DEF Device
  <1>4. /\ d.ready = r.d.ready /\ d.from = r.d.from /\ d.waits = r.d.waits /\ d.late = r.d.late /\ d.phase = r.d.phase
        /\ d.mic = r.d.mic /\ d.pcs = r.d.pcs /\ d.self = r.d.self
    BY <1>1 DEF Device
  <1>5. OnNo(r, v, kind) \in {r, MaybeEndIfAllUnanswered(Set(r, d))}
    BY DEF OnNo
  <1> HIDE DEF d
  <1>6. Known(d, J) /\ (Over(r.d) => Over(d)) /\ (Quiet(r.d) => Quiet(d))
    BY <1>1, <1>4 DEF Known, Over, Quiet
  <1>7. Comes(r, Set(r, d), J)
    BY <1>3, <1>6, SetComes
  <1>8. Comes(Set(r, d), MaybeEndIfAllUnanswered(Set(r, d)), J)
    BY <1>7, MaybeKeeps DEF Comes
  <1>9. QED
    BY <1>5, <1>7, <1>8, StayComes, ComesOn

LEMMA HangupKeeps ==
    ASSUME NEW J, NEW r \in Good(J), NEW v
    PROVE  Comes(r, OnHangup(r, v), J)
  <1> DEFINE c == ClosePeer(r, v)
             m == Mark(c, v, "left")
  <1>1. OnHangup(r, v) \in {r, Idle(r), MaybeEndIfAlone(m)}
    BY DEF OnHangup
  <1>2. Comes(r, c, J)
    BY CloseKeeps
  <1> HIDE DEF c
  <1>3. Comes(c, m, J)
    BY <1>2, MarkKeeps DEF Comes, Statuses
  <1> HIDE DEF m
  <1>4. Comes(m, MaybeEndIfAlone(m), J)
    BY <1>3, MaybeKeeps DEF Comes
  <1>5. QED
    BY <1>1, <1>2, <1>3, <1>4, IdleKeeps, StayComes, ComesOn

\* Every signal, for a device that has joined or is quiet.
LEMMA HandleKeeps ==
    ASSUME NEW J, NEW r \in Good(J), r.u \in J \/ Quiet(r.d), NEW s \in Sent, Allowed(r.u, s, J),
           NEW elsewhere \in BOOLEAN
    PROVE  Comes(r, Handle(r, s.from, s.kind, elsewhere), J)
  <1>1. s.from \in Users /\ s.kind \in Kinds
    BY DEF Sent
  <1>2. CASE s.kind = "ring"
    BY <1>1, <1>2, RingKeeps DEF Handle, Allowed
  <1>3. CASE s.kind = "accept"
    BY <1>1, <1>3, AcceptKeeps DEF Handle, Allowed
  <1>4. CASE s.kind = "offer"
    BY <1>1, <1>4, OfferKeeps DEF Handle, Allowed
  <1>5. CASE s.kind = "answer"
    BY <1>1, <1>5, AnswerKeeps DEF Handle
  <1>6. CASE s.kind = "hangup"
    BY <1>1, <1>6, HangupKeeps DEF Handle
  <1>7. CASE s.kind \in {"decline", "busy", "timeout"}
    BY <1>1, <1>7, NoKeeps DEF Handle
  <1>8. QED
    BY <1>1, <1>2, <1>3, <1>4, <1>5, <1>6, <1>7 DEF Kinds
-----------------------------------------------------------------------------
(* What waited for the microphone goes on, or fails: folds over a sequence. *)

\* All that waited goes on, one after the other.
LEMMA ResumeAll ==
    ASSUME NEW J, NEW q \in Seq(WaitersOf(J)), NEW S, NEW r \in S,
           \A x \in S : \A w \in WaitersOf(J) : Resume(x, w) \in S
    PROVE  FoldLeft(Resume, r, q) \in S
  <1> DEFINE n == Len(q)
             it == CHOOSE it : it = [s \in SUBSET (DOMAIN q) |->
                        IF s = {} THEN r ELSE Resume(it[s \ {Max(s)}], q[Max(s)])]
             g == [p \in S \X (1..n) |-> Resume(p[1], q[p[2]])]
  <1>1. n \in Nat /\ DOMAIN q = 1..n /\ \A i \in 1..n : q[i] \in WaitersOf(J)
    OBVIOUS
  <1>2. FoldLeft(Resume, r, q) = it[DOMAIN q]
    BY Zenon DEF FoldLeft, MapThenFoldSet
  <1> HIDE DEF n
  <1>3. \A x \in S : \A i \in 1..n : g[<<x, i>>] = Resume(x, q[i]) /\ g[<<x, i>>] \in S
    BY <1>1
  <1> HIDE DEF g
  <1>4. PICK f \in [SUBSET (1..n) -> S] : IsFold(f, n, r, g)
    BY <1>1, <1>3, FoldExists DEF HasFold
  <1>5. f = [s \in SUBSET (DOMAIN q) |-> IF s = {} THEN r ELSE Resume(f[s \ {Max(s)}], q[Max(s)])]
    <2>1. ASSUME NEW s \in SUBSET (1..n)
          PROVE  f[s] = IF s = {} THEN r ELSE Resume(f[s \ {Max(s)}], q[Max(s)])
      <3>1. CASE s = {}
        BY <1>4, <3>1 DEF IsFold
      <3>2. CASE s # {}
        <4>1. f[s] = g[<<f[s \ {Max(s)}], Max(s)>>]
          BY <1>4, <3>2 DEF IsFold
        <4>2. Max(s) \in 1..n /\ f[s \ {Max(s)}] \in S
          BY <1>1, <1>4, <3>2, MaxInside
        <4>3. QED
          BY <1>3, <3>2, <4>1, <4>2
      <3>3. QED
        BY <3>1, <3>2
    <2>2. QED
      BY <1>1, <1>4, <2>1
  <1>6. it = [s \in SUBSET (DOMAIN q) |-> IF s = {} THEN r ELSE Resume(it[s \ {Max(s)}], q[Max(s)])]
    BY <1>5
  <1> HIDE DEF it
  <1>7. it[{}] \in S
    BY <1>6
  <1>8. ASSUME NEW k \in Nat, k < n, it[1..k] \in S PROVE it[1..(k + 1)] \in S
    <2> DEFINE s == 1..(k + 1)
    <2>1. s \in SUBSET (DOMAIN q) /\ s # {} /\ Max(s) = k + 1 /\ s \ {k + 1} = 1..k /\ k + 1 \in 1..n
      BY <1>1, <1>8, UpTo
    <2> HIDE DEF s
    <2>2. it[s] = Resume(it[s \ {Max(s)}], q[Max(s)])
      BY <1>6, <2>1
    <2>3. it[s] = Resume(it[1..k], q[k + 1]) /\ q[k + 1] \in WaitersOf(J)
      BY <1>1, <2>1, <2>2
    <2>4. it[s] \in S
      BY <1>8, <2>3
    <2>5. QED
      BY <2>4 DEF s
  <1>9. it[1..n] \in S
    BY <1>1, <1>7, <1>8, FoldIn
  <1>10. QED
    BY <1>1, <1>2, <1>9

\* All that waited fails, one after the other.
LEMMA ThrownAll ==
    ASSUME NEW J, NEW q \in Seq(WaitersOf(J)), NEW S, NEW r \in S,
           \A x \in S : \A w \in WaitersOf(J) : Thrown(x, w) \in S
    PROVE  FoldLeft(Thrown, r, q) \in S
  <1> DEFINE n == Len(q)
             it == CHOOSE it : it = [s \in SUBSET (DOMAIN q) |->
                        IF s = {} THEN r ELSE Thrown(it[s \ {Max(s)}], q[Max(s)])]
             g == [p \in S \X (1..n) |-> Thrown(p[1], q[p[2]])]
  <1>1. n \in Nat /\ DOMAIN q = 1..n /\ \A i \in 1..n : q[i] \in WaitersOf(J)
    OBVIOUS
  <1>2. FoldLeft(Thrown, r, q) = it[DOMAIN q]
    BY Zenon DEF FoldLeft, MapThenFoldSet
  <1> HIDE DEF n
  <1>3. \A x \in S : \A i \in 1..n : g[<<x, i>>] = Thrown(x, q[i]) /\ g[<<x, i>>] \in S
    BY <1>1
  <1> HIDE DEF g
  <1>4. PICK f \in [SUBSET (1..n) -> S] : IsFold(f, n, r, g)
    BY <1>1, <1>3, FoldExists DEF HasFold
  <1>5. f = [s \in SUBSET (DOMAIN q) |-> IF s = {} THEN r ELSE Thrown(f[s \ {Max(s)}], q[Max(s)])]
    <2>1. ASSUME NEW s \in SUBSET (1..n)
          PROVE  f[s] = IF s = {} THEN r ELSE Thrown(f[s \ {Max(s)}], q[Max(s)])
      <3>1. CASE s = {}
        BY <1>4, <3>1 DEF IsFold
      <3>2. CASE s # {}
        <4>1. f[s] = g[<<f[s \ {Max(s)}], Max(s)>>]
          BY <1>4, <3>2 DEF IsFold
        <4>2. Max(s) \in 1..n /\ f[s \ {Max(s)}] \in S
          BY <1>1, <1>4, <3>2, MaxInside
        <4>3. QED
          BY <1>3, <3>2, <4>1, <4>2
      <3>3. QED
        BY <3>1, <3>2
    <2>2. QED
      BY <1>1, <1>4, <2>1
  <1>6. it = [s \in SUBSET (DOMAIN q) |-> IF s = {} THEN r ELSE Thrown(it[s \ {Max(s)}], q[Max(s)])]
    BY <1>5
  <1> HIDE DEF it
  <1>7. it[{}] \in S
    BY <1>6
  <1>8. ASSUME NEW k \in Nat, k < n, it[1..k] \in S PROVE it[1..(k + 1)] \in S
    <2> DEFINE s == 1..(k + 1)
    <2>1. s \in SUBSET (DOMAIN q) /\ s # {} /\ Max(s) = k + 1 /\ s \ {k + 1} = 1..k /\ k + 1 \in 1..n
      BY <1>1, <1>8, UpTo
    <2> HIDE DEF s
    <2>2. it[s] = Thrown(it[s \ {Max(s)}], q[Max(s)])
      BY <1>6, <2>1
    <2>3. it[s] = Thrown(it[1..k], q[k + 1]) /\ q[k + 1] \in WaitersOf(J)
      BY <1>1, <2>1, <2>2
    <2>4. it[s] \in S
      BY <1>8, <2>3
    <2>5. QED
      BY <2>4 DEF s
  <1>9. it[1..n] \in S
    BY <1>1, <1>7, <1>8, FoldIn
  <1>10. QED
    BY <1>1, <1>2, <1>9
-----------------------------------------------------------------------------
(* The invariant, and the steps that keep it.                              *)

Joined == {u \in Users : joined[u]}

CallInv ==
    /\ dev \in [Users -> Device] /\ net \in [Users -> Seq(Sent)] /\ joined \in [Users -> BOOLEAN]
    /\ Told(net, Joined)
    /\ \A u \in Users : Known(dev[u], Joined) /\ (~joined[u] => Quiet(dev[u]))

Ended(d) == d.phase \in {"idle", "ended"}

\* Who has joined stays so, and what is known of fewer is known of more.
LEMMA MoreJoined ==
    ASSUME NEW J, NEW K, J \subseteq K, NEW r \in Good(J)
    PROVE  r \in Good(K)
  <1>1. WaitersOf(J) \subseteq WaitersOf(K)
    BY DEF WaitersOf
  <1>2. \A q \in Seq(WaitersOf(J)) : q \in Seq(WaitersOf(K))
    BY <1>1
  <1>3. r \in Results /\ Known(r.d, J) /\ Told(r.net, J)
    BY DEF Good
  <1>4. Known(r.d, K)
    BY <1>2, <1>3 DEF Known
  <1>5. Told(r.net, K)
    BY <1>3 DEF Told, Allowed
  <1>6. QED
    BY <1>3, <1>4, <1>5 DEF Good

\* A result with another device whose knowledge is right.
LEMMA SetGood ==
    ASSUME NEW J, NEW r \in Good(J), NEW d \in Device, Known(d, J)
    PROVE  Set(r, d) \in Good(J) /\ Set(r, d).d = d /\ Set(r, d).u = r.u
  BY SetKeeps DEF Good

\* What a handler starts from.
LEMMA ResultGood ==
    ASSUME CallInv, NEW u \in Users
    PROVE  /\ Result(u) \in Good(Joined) /\ Result(u).u = u /\ Result(u).d = dev[u] /\ Result(u).net = net
           /\ dev[u] \in Device /\ (u \in Joined \/ Quiet(dev[u]))
  <1>1. Result(u) \in Results
    BY DEF CallInv, Results, Result
  <1>2. QED
    BY <1>1 DEF CallInv, Good, Result, Joined

\* A step of one device that ends in a good result.
LEMMA DoesStep ==
    ASSUME CallInv, NEW u \in Users, NEW r \in Good(Joined'), Does(u, r),
           joined' \in [Users -> BOOLEAN], Joined \subseteq Joined',
           u \notin Joined' => Quiet(r.d), Ended(dev[u]) => Over(r.d)
    PROVE  CallInv' /\ \A v \in Users : Ended(dev[v]) => Over(dev'[v])
  <1>1. /\ r.d \in Device /\ r.net \in [Users -> Seq(Sent)] /\ Known(r.d, Joined') /\ Told(r.net, Joined')
    BY ResultFields DEF Good
  <1>2. dev' = [dev EXCEPT ![u] = r.d] /\ net' = r.net /\ dev \in [Users -> Device]
    BY DEF Does, CallInv
  <1>3. dev' \in [Users -> Device]
    BY <1>1, <1>2
  <1>4. ASSUME NEW v \in Users
        PROVE  Known(dev'[v], Joined') /\ (~joined'[v] => Quiet(dev'[v])) /\ (Ended(dev[v]) => Over(dev'[v]))
    <2>1. CASE v = u
      <3>1. dev'[v] = r.d
        BY <1>2, <2>1
      <3>2. ~joined'[v] => v \notin Joined'
        BY DEF Joined
      <3>3. QED
        BY <1>1, <2>1, <3>1, <3>2
    <2>2. CASE v # u
      <3>1. dev'[v] = dev[v]
        BY <1>2, <2>2
      <3>2. Result(v) \in Good(Joined')  /\ Result(v).d = dev[v]
        BY ResultGood, MoreJoined
      <3>3. ~joined'[v] => ~joined[v]
        BY DEF Joined
      <3>4. Ended(dev[v]) => Over(dev[v])
        BY DEF Ended, Over
      <3>5. ~joined[v] => Quiet(dev[v])
        BY DEF CallInv
      <3>6. QED
        BY <3>1, <3>2, <3>3, <3>4, <3>5 DEF Good
    <2>3. QED
      BY <2>1, <2>2
  <1>5. QED
    BY <1>1, <1>2, <1>3, <1>4 DEF CallInv

\* The same when nobody joins and a handler made the result.
LEMMA HandlerStep ==
    ASSUME CallInv, NEW u \in Users, NEW q \in Good(Joined), q.u = u, q.d = dev[u],
           NEW r, Comes(q, r, Joined), Does(u, r), UNCHANGED joined
    PROVE  CallInv' /\ \A v \in Users : Ended(dev[v]) => Over(dev'[v])
  <1>1. Joined' = Joined /\ joined' \in [Users -> BOOLEAN]
    BY DEF Joined, CallInv
  <1>2. u \notin Joined => Quiet(dev[u])
    BY ResultGood
  <1>3. Ended(dev[u]) => Over(dev[u])
    BY DEF Ended, Over
  <1>4. r \in Good(Joined) /\ (u \notin Joined => Quiet(r.d)) /\ (Ended(dev[u]) => Over(r.d))
    BY <1>2, <1>3 DEF Comes
  <1>5. QED
    BY <1>1, <1>4, DoesStep

\* The oldest signal is taken off, and it was allowed.
LEMMA TailTold ==
    ASSUME CallInv, NEW u \in Users, net[u] # <<>>
    PROVE  /\ [net EXCEPT ![u] = Tail(@)] \in [Users -> Seq(Sent)]
           /\ Told([net EXCEPT ![u] = Tail(@)], Joined)
           /\ Head(net[u]) \in Sent /\ Allowed(u, Head(net[u]), Joined)
  <1> DEFINE n == [net EXCEPT ![u] = Tail(@)]
  <1>1. net \in [Users -> Seq(Sent)] /\ net[u] \in Seq(Sent) /\ Told(net, Joined)
    BY DEF CallInv
  <1>2. /\ Tail(net[u]) \in Seq(Sent) /\ Len(Tail(net[u])) = Len(net[u]) - 1 /\ Len(net[u]) \in Nat
        /\ \A i \in 1..Len(Tail(net[u])) : Tail(net[u])[i] = net[u][i + 1] /\ i + 1 \in 1..Len(net[u])
    BY <1>1
  <1>3. Head(net[u]) = net[u][1] /\ 1 \in 1..Len(net[u]) /\ Head(net[u]) \in Sent
    BY <1>1
  <1>4. n \in [Users -> Seq(Sent)]
    BY <1>1, <1>2
  <1>5. ASSUME NEW v \in Users, NEW i \in 1..Len(n[v]) PROVE Allowed(v, n[v][i], Joined)
    <2>1. CASE v = u
      <3>1. n[v] = Tail(net[u])
        BY <1>1, <2>1
      <3>2. QED
        BY <1>1, <1>2, <1>5, <2>1, <3>1 DEF Told
    <2>2. CASE v # u
      BY <1>1, <1>5, <2>2 DEF Told
    <2>3. QED
      BY <2>1, <2>2
  <1>6. Allowed(u, Head(net[u]), Joined)
    BY <1>1, <1>3 DEF Told
  <1>7. QED
    BY <1>3, <1>4, <1>5, <1>6 DEF Told

\* The invariant holds after the step, and no device has come back into a call.
StepGood == CallInv' /\ \A v \in Users : Ended(dev[v]) => Over(dev'[v])

\* One lemma for every action.
LEMMA ReceiveStep == ASSUME CallInv, NEW u \in Users, Receive(u) PROVE StepGood
  <1> DEFINE q == [Result(u) EXCEPT !.net[u] = Tail(@)]
             s == Head(net[u])
  <1>1. PICK elsewhere \in BOOLEAN : Does(u, Handle(q, s.from, s.kind, elsewhere))
    BY DEF Receive
  <1>2. net[u] # <<>> /\ UNCHANGED joined
    BY DEF Receive
  <1>3. s \in Sent /\ Allowed(u, s, Joined)
    BY <1>2, TailTold
  <1>4. q = [u |-> u, d |-> dev[u], net |-> [net EXCEPT ![u] = Tail(@)]]
    <2> DEFINE p == Result(u)
    <2>1. p = [u |-> u, d |-> dev[u], net |-> net]
      BY DEF Result
    <2>2. q = [p EXCEPT !.net = [p.net EXCEPT ![u] = Tail(p.net[u])]]
      OBVIOUS
    <2>3. p.net = net
      BY <2>1
    <2> DEFINE t == [net EXCEPT ![u] = Tail(net[u])]
    <2>4. q = [p EXCEPT !.net = t]
      BY <2>2, <2>3
    <2> HIDE DEF p, t, q
    <2>5. q = [u |-> u, d |-> dev[u], net |-> t]
      BY <2>1, <2>4
    <2>6. QED
      BY <2>5 DEF t
  <1> HIDE DEF q, s
  <1>5. q \in Good(Joined) /\ q.u = u /\ q.d = dev[u]
    <2>1. dev[u] \in Device /\ Known(dev[u], Joined)
      BY DEF CallInv
    <2>2. QED
      BY <1>2, <1>4, <2>1, TailTold DEF Good, Results
  <1>6. u \in Joined \/ Quiet(dev[u])
    BY ResultGood
  <1>7. Comes(q, Handle(q, s.from, s.kind, elsewhere), Joined)
    BY <1>3, <1>5, <1>6, HandleKeeps
  <1>8. QED
    BY <1>1, <1>2, <1>5, <1>7, HandlerStep DEF StepGood

LEMMA LoseStep == ASSUME CallInv, NEW u \in Users, Lose(u) PROVE StepGood
  <1>1. net[u] # <<>> /\ net' = [net EXCEPT ![u] = Tail(@)] /\ dev' = dev /\ joined' = joined
    BY DEF Lose
  <1>2. Joined' = Joined
    BY <1>1 DEF Joined
  <1>3. net' \in [Users -> Seq(Sent)] /\ Told(net', Joined)
    BY <1>1, TailTold
  <1>4. CallInv'
    BY <1>1, <1>2, <1>3 DEF CallInv
  <1>5. QED
    BY <1>1, <1>4 DEF StepGood, Ended, Over

LEMMA TimeoutStep == ASSUME CallInv, NEW u \in Users, NEW v \in Users, RingTimeout(u, v) PROVE StepGood
  <1> DEFINE d == [dev[u] EXCEPT !.timers = @ \ {v}]
             r == Set(Result(u), d)
             s == Send(r, {v}, "timeout")
             m == Mark(s, v, "no-answer")
  <1>1. /\ Result(u) \in Good(Joined) /\ Result(u).u = u /\ Result(u).d = dev[u] /\ dev[u] \in Device
        /\ Known(dev[u], Joined)
    BY ResultGood DEF Good
  <1>2. [Result(u) EXCEPT !.d.timers = @ \ {v}] = r
    BY DEF Result, Set
  <1>3. Does(u, IF r.d.phase = "idle" THEN r ELSE MaybeEndIfAllUnanswered(m)) /\ UNCHANGED joined
    BY <1>2 DEF RingTimeout
  <1>4. d \in Device
    BY <1>1 DEF Device
  <1>5. /\ d.ready = dev[u].ready /\ d.from = dev[u].from /\ d.waits = dev[u].waits /\ d.late = dev[u].late
        /\ d.phase = dev[u].phase /\ d.mic = dev[u].mic /\ d.pcs = dev[u].pcs /\ d.self = dev[u].self
    BY <1>1 DEF Device
  <1> HIDE DEF d
  <1>6. Known(d, Joined) /\ (Over(dev[u]) => Over(d)) /\ (Quiet(dev[u]) => Quiet(d))
    BY <1>1, <1>5 DEF Known, Over, Quiet
  <1>7. Comes(Result(u), r, Joined)
    BY <1>1, <1>4, <1>6, SetComes
  <1> HIDE DEF r
  <1>8. Comes(r, s, Joined)
    BY <1>7, SendComes DEF Comes, Kinds
  <1> HIDE DEF s
  <1>9. Comes(s, m, Joined)
    BY <1>8, MarkKeeps DEF Comes, Statuses
  <1> HIDE DEF m
  <1>10. Comes(m, MaybeEndIfAllUnanswered(m), Joined)
    BY <1>9, MaybeKeeps DEF Comes
  <1>11. Comes(Result(u), IF r.d.phase = "idle" THEN r ELSE MaybeEndIfAllUnanswered(m), Joined)
    BY <1>7, <1>8, <1>9, <1>10, ComesOn
  <1>12. QED
    BY <1>1, <1>3, <1>11, HandlerStep DEF StepGood

\* Whoever starts or accepts a call has joined with the same step.
LEMMA JoinStep ==
    ASSUME CallInv, NEW u \in Users, joined' = [joined EXCEPT ![u] = TRUE]
    PROVE  joined' \in [Users -> BOOLEAN] /\ Joined' = Joined \cup {u} /\ Joined' \subseteq Users
  <1>1. joined' \in [Users -> BOOLEAN]
    BY DEF CallInv
  <1>2. QED
    BY <1>1 DEF Joined, CallInv

LEMMA StartStep == ASSUME CallInv, NEW u \in Users, StartGroupCall(u) PROVE StepGood
  <1> DEFINE q == Result(u)
             d == [q.d EXCEPT !.phase = "ringing-out", !.self = TRUE, !.timers = @ \cup Others(q),
                              !.status = [x \in Users |-> IF x = u THEN "none" ELSE "ringing"]]
             r == Set(q, d)
             s == Send(r, Others(q), "ring")
  <1>1. Does(u, s) /\ joined' = [joined EXCEPT ![u] = TRUE]
    BY DEF StartGroupCall
  <1>2. joined' \in [Users -> BOOLEAN] /\ Joined' = Joined \cup {u}
    BY <1>1, JoinStep
  <1>3. q \in Good(Joined') /\ q.u = u /\ q.d = dev[u] /\ q.d \in Device /\ Known(q.d, Joined')
    BY <1>2, ResultGood, MoreJoined DEF Good
  <1> DEFINE o == Others(q)
             t == [x \in Users |-> IF x = u THEN "none" ELSE "ringing"]
  <1>4. o \subseteq Users /\ t \in [Users -> Statuses]
    BY DEF Others, Statuses, Pending
  <1> HIDE DEF o, t, q
  <1>5. d \in Device
    <2>1. "ringing-out" \in Phases /\ TRUE \in BOOLEAN
      BY DEF Phases
    <2>2. d = [q.d EXCEPT !.phase = "ringing-out", !.self = TRUE, !.timers = @ \cup o, !.status = t]
      BY DEF o, t
    <2>3. q.d.timers \cup o \subseteq Users
      BY <1>3, <1>4 DEF Device
    <2> HIDE DEF d
    <2>4. QED
      BY <1>3, <1>4, <2>1, <2>2, <2>3 DEF Device
  <1>6. d.ready = q.d.ready /\ d.from = q.d.from /\ d.waits = q.d.waits /\ d.late = q.d.late /\ d.phase = "ringing-out"
    BY <1>3 DEF Device
  <1> HIDE DEF d
  <1>7. Known(d, Joined') /\ Over(d)
    BY <1>3, <1>6 DEF Known, Over
  <1>8. r \in Good(Joined') /\ r.d = d /\ r.u = u
    BY <1>3, <1>5, <1>7, SetGood
  <1> HIDE DEF r
  <1>9. s \in Good(Joined') /\ s.d = d
    <2>1. r.u \in Joined'
      BY <1>2, <1>8
    <2>2. Comes(r, s, Joined') /\ s.d = r.d
      BY <1>8, <2>1, SendComes DEF Kinds
    <2>3. QED
      BY <1>8, <2>2 DEF Comes
  <1> HIDE DEF s
  <1>10. QED
    BY <1>1, <1>2, <1>7, <1>9, DoesStep DEF StepGood

LEMMA AcceptStep == ASSUME CallInv, NEW u \in Users, AcceptCall(u) PROVE StepGood
  <1> DEFINE q == Result(u)
             d == [q.d EXCEPT !.phase = "connecting", !.from = None, !.self = TRUE, !.ready = @ \cup {q.d.from}]
             r == Set(q, d)
             s == Send(r, Others(q), "accept")
             c == TryConnectReadyPeers(s)
  <1>1. Does(u, c) /\ joined' = [joined EXCEPT ![u] = TRUE] /\ dev[u].phase = "ringing-in"
    BY DEF AcceptCall
  <1>2. joined' \in [Users -> BOOLEAN] /\ Joined' = Joined \cup {u} /\ Joined' \subseteq Users
    BY <1>1, JoinStep
  <1>3. /\ q \in Good(Joined') /\ q.u = u /\ q.d = dev[u] /\ q.d \in Device /\ Known(q.d, Joined')
    BY <1>2, ResultGood, MoreJoined DEF Good
  <1> HIDE DEF q
  <1>4. q.d.from \in Joined' /\ q.d.from \in Users
    BY <1>1, <1>2, <1>3 DEF Known
  <1>5. d \in Device
    <2>1. "connecting" \in Phases /\ TRUE \in BOOLEAN
      BY DEF Phases
    <2>2. QED
      BY <1>3, <1>4, <2>1 DEF Device
  <1>6. /\ d.ready = q.d.ready \cup {q.d.from} /\ d.from = None /\ d.waits = q.d.waits /\ d.late = q.d.late
        /\ d.phase = "connecting"
    BY <1>3 DEF Device
  <1> HIDE DEF d
  <1>7. Known(d, Joined')
    BY <1>3, <1>4, <1>6 DEF Known
  <1>8. r \in Good(Joined') /\ r.u = u
    BY <1>3, <1>5, <1>7, SetGood
  <1> HIDE DEF r
  <1>9. u \in Joined'
    BY <1>2
  <1>10. s \in Good(Joined') /\ s.u = u
    <2>1. Comes(r, s, Joined')
      BY <1>8, <1>9, SendComes DEF Kinds
    <2>2. QED
      BY <1>8, <2>1 DEF Comes
  <1> HIDE DEF s
  <1>11. c \in Good(Joined')
    BY <1>9, <1>10, TryKeeps DEF Comes
  <1> HIDE DEF c
  <1>12. ~Ended(dev[u])
    BY <1>1 DEF Ended
  <1>13. QED
    BY <1>1, <1>2, <1>9, <1>11, <1>12, DoesStep DEF StepGood

LEMMA DeclineStep == ASSUME CallInv, NEW u \in Users, DeclineCall(u) PROVE StepGood
  <1> DEFINE q == Result(u)
             s == Send(q, Users \ {u}, "decline")
  <1>1. q \in Good(Joined) /\ q.u = u /\ q.d = dev[u]
    BY ResultGood
  <1>2. Does(u, Idle(s)) /\ UNCHANGED joined
    BY DEF DeclineCall
  <1> HIDE DEF q
  <1>3. Comes(q, s, Joined)
    BY <1>1, SendComes DEF Kinds
  <1> HIDE DEF s
  <1>4. Comes(s, Idle(s), Joined)
    BY <1>3, IdleKeeps DEF Comes
  <1>5. QED
    BY <1>1, <1>2, <1>3, <1>4, ComesOn, HandlerStep DEF StepGood

LEMMA LeaveStep == ASSUME CallInv, NEW u \in Users, Leave(u) PROVE StepGood
  <1>1. Result(u) \in Good(Joined) /\ Result(u).u = u /\ Result(u).d = dev[u]
    BY ResultGood
  <1>2. Does(u, EndGroupCall(Result(u))) /\ UNCHANGED joined
    BY DEF Leave
  <1>3. Comes(Result(u), EndGroupCall(Result(u)), Joined)
    BY <1>1, EndKeeps
  <1>4. QED
    BY <1>1, <1>2, <1>3, HandlerStep DEF StepGood

LEMMA FailsStep == ASSUME CallInv, NEW u \in Users, NEW v \in Users, PeerFails(u, v) PROVE StepGood
  <1>1. Result(u) \in Good(Joined) /\ Result(u).u = u /\ Result(u).d = dev[u]
    BY ResultGood
  <1>2. Does(u, MarkPeerFailed(Result(u), v)) /\ UNCHANGED joined
    BY DEF PeerFails
  <1>3. Comes(Result(u), MarkPeerFailed(Result(u), v), Joined)
    BY <1>1, FailedKeeps
  <1>4. QED
    BY <1>1, <1>2, <1>3, HandlerStep DEF StepGood

\* What waits for the answer, and the device before what waits goes on.
Due(d, live) == IF live THEN d.waits ELSE d.late
Answered(d, live, granted) ==
    [d EXCEPT !.waits = IF live THEN <<>> ELSE @,
              !.late = IF live THEN @ ELSE <<>>,
              !.prompt = IF ~live THEN @ ELSE IF granted THEN "given" ELSE "refused",
              !.mic = IF granted THEN "live" ELSE @]

\* A device on which something waits for the microphone belongs to one who has joined.
LEMMA MediaStep == ASSUME CallInv, NEW u \in Users, MediaAnswered(u) PROVE StepGood
  <1> DEFINE q == Result(u)
  <1>1. q \in Good(Joined) /\ q.u = u /\ q.d = dev[u] /\ dev[u] \in Device /\ Known(dev[u], Joined)
        /\ (u \in Joined \/ Quiet(dev[u]))
    BY ResultGood DEF Good
  <1> HIDE DEF q
  <1>2. PICK live \in BOOLEAN, granted \in BOOLEAN :
          /\ Due(dev[u], live) # <<>>
          /\ Does(u, IF granted THEN FoldLeft(Resume, Set(Result(u), Answered(dev[u], live, granted)), Due(dev[u], live))
                     ELSE FoldLeft(Thrown, Set(Result(u), Answered(dev[u], live, granted)), Due(dev[u], live)))
          /\ UNCHANGED joined
    BY DEF MediaAnswered, Due, Answered
  <1> DEFINE due == Due(dev[u], live)
             waits == IF live THEN <<>> ELSE dev[u].waits
             late == IF live THEN dev[u].late ELSE <<>>
             prompt == IF ~live THEN dev[u].prompt ELSE IF granted THEN "given" ELSE "refused"
             mic == IF granted THEN "live" ELSE dev[u].mic
             d == [dev[u] EXCEPT !.waits = waits, !.late = late, !.prompt = prompt, !.mic = mic]
             r == Set(q, d)
  <1>3. /\ due # <<>> /\ UNCHANGED joined
        /\ Does(u, IF granted THEN FoldLeft(Resume, r, due) ELSE FoldLeft(Thrown, r, due))
    <2>1. Answered(dev[u], live, granted) = d
      BY DEF Answered
    <2>2. QED
      BY <1>2, <2>1 DEF q
  <1>4. /\ due \in Seq(WaitersOf(Joined)) /\ waits \in Seq(WaitersOf(Joined)) /\ late \in Seq(WaitersOf(Joined))
        /\ waits \in Seq(Waiter) /\ late \in Seq(Waiter)
    BY <1>1, DeviceFields DEF Known, Due
  <1>5. prompt \in {"none", "asking", "given", "refused"} /\ mic \in {"none", "live", "stopped"}
    BY <1>1, DeviceFields
  <1>6. u \in Joined
    BY <1>1, <1>3 DEF Quiet, Due
  <1> HIDE DEF due, waits, late, prompt, mic
  <1>7. d \in Device
    BY <1>1, <1>4, <1>5 DEF Device
  <1>8. d.ready = dev[u].ready /\ d.from = dev[u].from /\ d.waits = waits /\ d.late = late /\ d.phase = dev[u].phase
    BY <1>1 DEF Device
  <1> HIDE DEF d
  <1>9. Known(d, Joined) /\ (Over(dev[u]) => Over(d))
    BY <1>1, <1>4, <1>8 DEF Known, Over
  <1>10. Comes(q, r, Joined)
    BY <1>1, <1>6, <1>7, <1>9, SetComes
  <1> HIDE DEF r
  <1> DEFINE S == {x \in Good(Joined) : Comes(r, x, Joined)}
  <1>11. r \in S /\ r.u = u
    BY <1>1, <1>10, StayComes DEF Comes
  <1>12. ASSUME NEW x \in S, NEW w \in WaitersOf(Joined)
         PROVE  Resume(x, w) \in S /\ Thrown(x, w) \in S
    <2>1. x \in Good(Joined) /\ Comes(r, x, Joined) /\ x.u \in Joined
      BY <1>6, <1>11 DEF Comes
    <2>2. Comes(x, Resume(x, w), Joined) /\ Comes(x, Thrown(x, w), Joined)
      BY <2>1, ResumeKeeps
    <2>3. Comes(r, Resume(x, w), Joined) /\ Comes(r, Thrown(x, w), Joined)
      BY <2>1, <2>2, ComesOn
    <2>4. QED
      BY <2>3 DEF Comes
  <1>13. \A x \in S : Comes(r, x, Joined)
    OBVIOUS
  <1> HIDE DEF S
  <1>14. FoldLeft(Resume, r, due) \in S
    BY <1>4, <1>11, <1>12, ResumeAll
  <1>15. FoldLeft(Thrown, r, due) \in S
    BY <1>4, <1>11, <1>12, ThrownAll
  <1>16. PICK x \in S : Does(u, x)
    BY <1>3, <1>14, <1>15
  <1>17. Comes(q, x, Joined)
    BY <1>10, <1>13, <1>16, ComesOn
  <1>18. QED
    BY <1>1, <1>3, <1>16, <1>17, HandlerStep DEF StepGood

LEMMA ConnectedStep == ASSUME CallInv, NEW u \in Users, NEW v \in Users, Connected(u, v) PROVE StepGood
  <1> DEFINE q == Result(u)
             d == [dev[u] EXCEPT !.pcs[v] = "connected", !.status[v] = "connected",
                                 !.phase = IF @ \in {"idle", "ended"} THEN @ ELSE "active"]
             r == Set(q, d)
  <1>1. q \in Good(Joined) /\ q.u = u /\ q.d = dev[u] /\ q.net = net /\ dev[u] \in Device /\ Known(dev[u], Joined)
        /\ (u \in Joined \/ Quiet(dev[u]))
    BY ResultGood DEF Good
  <1>2. dev[u].pcs[v] = "stable" /\ UNCHANGED <<net, joined>> /\ dev' = [dev EXCEPT ![u] = d]
    BY DEF Connected, CallInv
  <1>3. u \in Joined
    BY <1>1, <1>2 DEF Quiet
  <1> HIDE DEF q
  <1>4. d \in Device
    <2>1. (IF dev[u].phase \in {"idle", "ended"} THEN dev[u].phase ELSE "active") \in Phases
      BY <1>1, DeviceFields DEF Phases
    <2>2. QED
      BY <1>1, <2>1 DEF Device, Statuses, Pending
  <1>5. /\ d.ready = dev[u].ready /\ d.from = dev[u].from /\ d.waits = dev[u].waits /\ d.late = dev[u].late
        /\ d.phase = IF dev[u].phase \in {"idle", "ended"} THEN dev[u].phase ELSE "active"
    BY <1>1 DEF Device
  <1> HIDE DEF d
  <1>6. Known(d, Joined) /\ (Ended(dev[u]) => Over(d))
    BY <1>1, <1>5 DEF Known, Over, Ended
  <1>7. r \in Good(Joined) /\ r.d = d /\ r.net = net
    BY <1>1, <1>4, <1>6, SetGood, SetKeeps DEF Good
  <1> HIDE DEF r
  <1>8. Does(u, r) /\ Joined' = Joined /\ joined' \in [Users -> BOOLEAN]
    BY <1>2, <1>7 DEF Does, Joined, CallInv
  <1>9. QED
    BY <1>3, <1>6, <1>7, <1>8, DoesStep DEF StepGood

LEMMA ClearStep == ASSUME CallInv, NEW u \in Users, ClearEnded(u) PROVE StepGood
  <1> DEFINE q == Result(u)
             i == Idle(q)
             d == [i.d EXCEPT !.mic = "none"]
             r == Set(i, d)
  <1>1. q \in Good(Joined) /\ q.u = u /\ q.d = dev[u] /\ q.net = net
    BY ResultGood
  <1>2. dev' = [dev EXCEPT ![u] = d] /\ UNCHANGED <<net, joined>> /\ i.net = net
    <2>1. i.net = q.net
      BY <1>1, IdleKeeps
    <2>2. QED
      BY <1>1, <2>1 DEF ClearEnded
  <1>3. Comes(q, i, Joined) /\ i.d.phase = "idle"
    BY <1>1, IdleKeeps
  <1> HIDE DEF i, q
  <1>4. i \in Good(Joined) /\ i.d \in Device /\ Known(i.d, Joined)
    BY <1>3, ResultFields DEF Comes, Good
  <1>5. d \in Device
    BY <1>4 DEF Device
  <1>6. /\ d.ready = i.d.ready /\ d.from = i.d.from /\ d.waits = i.d.waits /\ d.late = i.d.late /\ d.phase = i.d.phase
        /\ d.mic = "none" /\ d.pcs = i.d.pcs /\ d.self = i.d.self
    BY <1>4 DEF Device
  <1> HIDE DEF d
  <1>7. Known(d, Joined) /\ (Over(i.d) => Over(d)) /\ (Quiet(i.d) => Quiet(d))
    BY <1>4, <1>6 DEF Known, Over, Quiet
  <1>8. Comes(i, r, Joined) /\ r.d = d /\ r.net = net
    BY <1>2, <1>4, <1>5, <1>7, SetComes, SetKeeps DEF Good
  <1> HIDE DEF r
  <1>9. Does(u, r)
    BY <1>2, <1>8 DEF Does
  <1>10. QED
    BY <1>1, <1>2, <1>3, <1>8, <1>9, ComesOn, HandlerStep DEF StepGood
-----------------------------------------------------------------------------
\* The invariant holds at the start, and every step keeps it.
LEMMA StartsGood == ASSUME GroupCallInit PROVE CallInv
  <1> DEFINE none == [v \in Users |-> "none"]
  <1>1. Fresh = [phase |-> "idle", from |-> None, status |-> none, ready |-> {},
                 timers |-> {}, self |-> FALSE, prompt |-> "none", waits |-> <<>>, late |-> <<>>,
                 mic |-> "none", pcs |-> none]
    BY DEF Fresh
  <1>2. \A v \in Users : none[v] = "none"
    OBVIOUS
  <1>3. none \in [Users -> Statuses] /\ none \in [Users -> {"none", "new", "offered", "stable", "connected"}]
    BY DEF Statuses
  <1> HIDE DEF none
  <1>4. <<>> \in Seq(Waiter) /\ FALSE \in BOOLEAN /\ "idle" \in Phases
    BY DEF Phases
  <1>5. Fresh \in Device
    BY <1>1, <1>3, <1>4 DEF Device
  <1>6. \A J : Known(Fresh, J)
    BY <1>1 DEF Known
  <1>7. Quiet(Fresh)
    BY <1>1, <1>2 DEF Quiet
  <1>8. dev = [u \in Users |-> Fresh] /\ net = [u \in Users |-> <<>>] /\ joined = [u \in Users |-> FALSE]
    BY DEF GroupCallInit
  <1>9. \A u \in Users : <<>> \in Seq(Sent) /\ Len(<<>>) = 0
    OBVIOUS
  <1>10. Told(net, Joined)
    BY <1>8, <1>9 DEF Told
  <1>11. net \in [Users -> Seq(Sent)] /\ dev \in [Users -> Device] /\ joined \in [Users -> BOOLEAN]
    BY <1>5, <1>8, <1>9
  <1>12. QED
    BY <1>6, <1>7, <1>8, <1>10, <1>11 DEF CallInv

LEMMA StepsGood ==
    ASSUME CallInv, [GroupCallNext]_groupCallVars
    PROVE  CallInv' /\ \A v \in Users : Ended(dev[v]) => Over(dev'[v])
  <1>1. CASE UNCHANGED groupCallVars
    <2>1. dev' = dev /\ net' = net /\ joined' = joined
      BY <1>1 DEF groupCallVars
    <2>2. Joined' = Joined
      BY <2>1 DEF Joined
    <2>3. QED
      BY <2>1, <2>2 DEF CallInv, Ended, Over
  <1>2. CASE GroupCallNext
    <2>1. PICK u \in Users, v \in Users :
            \/ Receive(u) \/ Lose(u) \/ RingTimeout(u, v) \/ Connected(u, v) \/ PeerFails(u, v)
            \/ StartGroupCall(u) \/ AcceptCall(u) \/ DeclineCall(u) \/ Leave(u)
            \/ MediaAnswered(u) \/ ClearEnded(u)
      BY <1>2 DEF GroupCallNext
    <2>2. StepGood
      BY <2>1, ReceiveStep, LoseStep, TimeoutStep, ConnectedStep, FailsStep, StartStep, AcceptStep,
         DeclineStep, LeaveStep, MediaStep, ClearStep
    <2>3. QED
      BY <2>2 DEF StepGood
  <1>3. QED
    BY <1>1, <1>2

\* A device whose user never started or accepted a call opens no microphone and no
\* connection, however the signals, answers and timers of the others are ordered.
THEOREM SilenceKept == GroupCallSpec => []SilentUntilJoined
  <1>1. CallInv => SilentUntilJoined
    BY DEF CallInv, SilentUntilJoined, Quiet
  <1>2. GroupCallInit => CallInv
    BY StartsGood
  <1>3. CallInv /\ [GroupCallNext]_groupCallVars => CallInv'
    BY StepsGood
  <1>4. QED
    BY <1>1, <1>2, <1>3, PTL DEF GroupCallSpec

\* No signal, connection or answer about the microphone that outlives a call's end
\* brings the device back into it.
THEOREM CallsStayOver == GroupCallSpec => NotResurrected
  <1>1. CallInv /\ [GroupCallNext]_groupCallVars =>
          [\A u \in Users : dev[u].phase \in {"idle", "ended"} => dev'[u].phase \notin {"connecting", "active"}]_groupCallVars
    BY StepsGood DEF Ended, Over
  <1>2. GroupCallInit => CallInv
    BY StartsGood
  <1>3. CallInv /\ [GroupCallNext]_groupCallVars => CallInv'
    BY StepsGood
  <1>4. QED
    BY <1>1, <1>2, <1>3, PTL DEF GroupCallSpec, NotResurrected
=============================================================================
