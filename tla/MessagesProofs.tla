--------------------------- MODULE MessagesProofs ---------------------------
(***************************************************************************)
(* Proofs about Messages, for any number of messages, cuts and restarts:   *)
(* types; that a message shown as sending is watched; that the ticks are   *)
(* true; that no message is shown twice, and none that was acknowledged is *)
(* shown as failed later.                                                  *)
(*                                                                         *)
(* TicksTrue is about threads and rows. It rests on what may become        *)
(* either: the queue of the database, the snapshot of the start-up load,   *)
(* the events on their way to a device and the flights at the relay. The   *)
(* invariant (TrueInv) says of each that it tells the truth.               *)
(*                                                                         *)
(* An acknowledgement gives a message its final id. That no bubble has     *)
(* that id already rests on a message being pending in one place at a time *)
(* (encrypted, at the relay, or answered and not yet told), and on the     *)
(* database giving a row its final id before it saves the row under it.    *)
(* The invariant (KeysInv) says so, beside TrueInv.                        *)
(***************************************************************************)
EXTENDS Messages, FiniteSetTheorems, SequenceTheorems, TLAPS

Ids == {"temp", "final"}

\* A copy of a message on u's device is of a message there is; its ticks are true
\* if u wrote it, and it has been handed over if u did not.
TrueMessage(u, m) ==
    /\ m \in Message /\ m.n \in DOMAIN author
    /\ author[m.n] = u => (m.status = "sent" => m.n \in handed) /\ (m.status = "read" => m.n \in seen)
    /\ author[m.n] # u => m.n \in handed

TrueMessages(u, M) == IsFiniteSet(M) /\ \A m \in M : TrueMessage(u, m)

TrueCall(u, c) == c.op \in {"save", "rename", "remove"} => TrueMessage(u, c.row)

TrueEvent(e) ==
    /\ e \in Event /\ e.n \in DOMAIN author
    /\ e.kind \in {"text", "sent"} => e.n \in handed
    /\ e.kind = "read" => e.n \in seen

AuthorTyped == author \in Seq(Writers)
FlightsTrue ==
    /\ flights \subseteq Flight
    /\ \A f \in flights : f.n \in DOMAIN author /\ (f.kind = "read" => f.n \in seen)
InboxTrue ==
    /\ inbox \in [Users -> Seq(Event)]
    /\ \A u \in Users : \A i \in 1..Len(inbox[u]) : TrueEvent(inbox[u][i])
ArrivingTrue ==
    /\ arriving \in [Users -> SUBSET Event]
    /\ \A u \in Users : \A e \in arriving[u] : TrueEvent(e)
EncryptingOwn ==
    /\ encrypting \in [Users -> SUBSET (DOMAIN author)]
    /\ \A u \in Users : \A n \in encrypting[u] : author[n] = u
ThreadTrue ==
    /\ thread \in [Users -> SUBSET Message]
    /\ \A u \in Users : TrueMessages(u, thread[u])
TrackedTrue ==
    /\ tracked \in [Users -> SUBSET (DOMAIN author)]
    /\ SendingTracked
RowsTrue ==
    /\ rows \in [Users -> SUBSET Message]
    /\ \A u \in Users : TrueMessages(u, rows[u])
SnapshotTrue ==
    /\ snapshot \in [Users -> SUBSET Message]
    /\ \A u \in Users : TrueMessages(u, snapshot[u])
QueueTrue ==
    /\ queue \in [Users -> Seq(Call)]
    /\ \A u \in Users : \A i \in 1..Len(queue[u]) : TrueCall(u, queue[u][i])
RestTyped ==
    /\ up \subseteq Users
    /\ stage \in [Users -> {"pinned", "rows", "read", "done"}]
    /\ cuts \in Nat
    /\ handed \subseteq DOMAIN author /\ seen \subseteq handed
    /\ wiped \in [Users -> SUBSET (DOMAIN author)]
    /\ undone \in [Users -> SUBSET (DOMAIN author)]

TrueInv ==
    /\ AuthorTyped /\ FlightsTrue /\ InboxTrue /\ ArrivingTrue /\ EncryptingOwn
    /\ ThreadTrue /\ TrackedTrue /\ RowsTrue /\ SnapshotTrue /\ QueueTrue /\ RestTyped


-----------------------------------------------------------------------------
(* Sets, sequences and records.                                            *)

LEMMA SetToSeqElements ==
    ASSUME NEW S, IsFiniteSet(S)
    PROVE  /\ SetToSeq(S) \in [1..Cardinality(S) -> S] /\ Cardinality(S) \in Nat
           /\ SetToSeq(S) \in Seq(S) /\ Len(SetToSeq(S)) = Cardinality(S)
           /\ \A i, j \in 1..Cardinality(S) : SetToSeq(S)[i] = SetToSeq(S)[j] => i = j
  <1>1. Cardinality(S) \in Nat /\ ExistsBijection(1..Cardinality(S), S)
    BY FS_CardinalityType
  <1>2. \E f \in [1..Cardinality(S) -> S] : IsInjective(f)
    BY <1>1 DEF ExistsBijection, Bijection, Injection
  <1>3. SetToSeq(S) \in [1..Cardinality(S) -> S] /\ IsInjective(SetToSeq(S))
    BY <1>2 DEF SetToSeq
  <1>4. SetToSeq(S) \in Seq(S) /\ Len(SetToSeq(S)) = Cardinality(S)
    BY <1>1, <1>3
  <1>5. QED
    BY <1>1, <1>3, <1>4 DEF IsInjective

LEMMA ImageFinite ==
    ASSUME NEW S, IsFiniteSet(S), NEW f
    PROVE  IsFiniteSet({f[x] : x \in S})
  <1> DEFINE T == {f[x] : x \in S}
             g == [x \in S |-> f[x]]
  <1>1. g \in Surjection(S, T)
    BY DEF Surjection
  <1>2. QED
    BY <1>1, FS_Surjection

LEMMA SubsetFinite == ASSUME NEW S, IsFiniteSet(S), NEW T \in SUBSET S PROVE IsFiniteSet(T)
  BY FS_Subset

LEMMA UnionFinite ==
    ASSUME NEW S, NEW T, IsFiniteSet(S), IsFiniteSet(T) PROVE IsFiniteSet(S \cup T)
  BY FS_Union

LEMMA WithFinite ==
    ASSUME NEW M, IsFiniteSet(M), NEW status
    PROVE  IsFiniteSet(With(M, status))
  <1> DEFINE f == [m \in M |-> [m EXCEPT !.status = status]]
  <1>1. With(M, status) = {f[m] : m \in M}
    BY DEF With
  <1> HIDE DEF f
  <1>2. IsFiniteSet({f[m] : m \in M})
    BY ImageFinite, Zenon
  <1>3. QED
    BY <1>1, <1>2

LEMMA WithMessage ==
    ASSUME NEW m \in Message, NEW status \in Statuses
    PROVE  LET w == [m EXCEPT !.status = status] IN
           /\ w \in Message /\ w.n = m.n /\ w.id = m.id /\ w.deleted = m.deleted /\ w.status = status
  BY DEF Message

LEMMA DeletedMessage ==
    ASSUME NEW m \in Message
    PROVE  LET w == [m EXCEPT !.deleted = TRUE] IN
           w \in Message /\ w.n = m.n /\ w.id = m.id /\ w.status = m.status
  BY DEF Message

LEMMA AckedMessage ==
    ASSUME NEW m \in Message
    PROVE  LET w == [m EXCEPT !.id = "final", !.status = "sent"] IN
           w \in Message /\ w.n = m.n /\ w.id = "final" /\ w.status = "sent"
  BY DEF Message, Statuses

LEMMA NewMessageFields ==
    ASSUME NEW n \in Nat, NEW id \in Ids, NEW status \in Statuses
    PROVE  LET w == NewMessage(n, id, status) IN
           w \in Message /\ w.n = n /\ w.id = id /\ w.status = status
  BY DEF NewMessage, Message, Ids

LEMMA SaveCall ==
    ASSUME NEW op \in {"save", "rename", "remove"}, NEW m \in Message
    PROVE  LET c == [op |-> op, row |-> m] IN c \in Call /\ c.op = op /\ c.row = m
  BY DEF Call

LEMMA CallFields ==
    ASSUME NEW c \in Call
    PROVE  /\ c.op \in {"pinned", "load", "clear", "save", "rename", "remove", "amend"}
           /\ c.op \in {"save", "rename", "remove"} => c.row \in Message
           /\ c.op = "amend" => c.n \in Nat /\ c.id \in Ids
  BY DEF Call, Ids

LEMMA MessageFields ==
    ASSUME NEW m \in Message
    PROVE  m.n \in Nat /\ m.id \in Ids /\ m.status \in Statuses /\ m.deleted \in BOOLEAN
  BY DEF Message, Ids

LEMMA EventFields ==
    ASSUME NEW e \in Event
    PROVE  e.n \in Nat /\ e.id \in Ids /\ e.kind \in {"text", "delete", "read", "sent", "failed"}
  BY DEF Event, Ids

LEMMA FlightFields ==
    ASSUME NEW f \in Flight
    PROVE  /\ f.n \in Nat /\ f.id \in Ids /\ f.kind \in {"text", "delete", "read"}
           /\ f.from \in Users /\ f.answer \in BOOLEAN
  BY DEF Flight, Ids

LEMMA OtherUser == ASSUME NEW u \in Users PROVE Other(u) \in Users /\ Other(u) # u
  <1>1. \E v \in Users : v # u
    <2>1. SUFFICES ASSUME Users = {u} PROVE FALSE
      OBVIOUS
    <2>2. Cardinality(Users) = 1
      BY <2>1, FS_Singleton
    <2>3. QED
      BY <2>2, MessagesAssumption
  <1>2. QED
    BY <1>1 DEF Other

-----------------------------------------------------------------------------
(* A step only adds to what has happened.                                  *)

Grows ==
    /\ author' \in Seq(Writers) /\ DOMAIN author \subseteq DOMAIN author'
    /\ \A n \in DOMAIN author : author'[n] = author[n]
    /\ handed \subseteq handed' /\ seen \subseteq seen'

\* TrueMessage and TrueCall in the next state.
TrueNext(u, m) ==
    /\ m \in Message /\ m.n \in DOMAIN author'
    /\ author'[m.n] = u => (m.status = "sent" => m.n \in handed') /\ (m.status = "read" => m.n \in seen')
    /\ author'[m.n] # u => m.n \in handed'
CallNext(u, c) == c \in Call /\ (c.op \in {"save", "rename", "remove"} => TrueNext(u, c.row))

LEMMA StaysTrue ==
    ASSUME Grows, NEW u, NEW m, TrueMessage(u, m)
    PROVE  TrueNext(u, m)
  BY DEF Grows, TrueNext, TrueMessage

LEMMA SavesNext ==
    ASSUME NEW u, NEW M, IsFiniteSet(M), \A m \in M : TrueNext(u, m)
    PROVE  /\ Saves(M) \in Seq(Call) /\ \A i \in 1..Len(Saves(M)) : CallNext(u, Saves(M)[i])
           /\ \A i \in 1..Len(Saves(M)) : \E m \in M : Saves(M)[i] = [op |-> "save", row |-> m]
  <1> DEFINE f == [m \in M |-> [op |-> "save", row |-> m]]
             S == {[op |-> "save", row |-> m] : m \in M}
  <1>1. S = {f[m] : m \in M}
    OBVIOUS
  <1>2. IsFiniteSet(S)
    <2> HIDE DEF f, S
    <2>1. QED
      BY <1>1, ImageFinite, Zenon
  <1>3. \A m \in M : m \in Message
    BY DEF TrueNext
  <1>4. \A c \in S : CallNext(u, c)
    BY <1>3, SaveCall DEF CallNext
  <1>5. Saves(M) \in Seq(S)
    BY <1>2, SetToSeqElements DEF Saves
  <1>6. \A i \in 1..Len(Saves(M)) : Saves(M)[i] \in S
    BY <1>5, ElementOfSeq
  <1>7. S \subseteq Call
    BY <1>4 DEF CallNext
  <1>8. Saves(M) \in Seq(Call)
    BY <1>5, <1>7, SeqMonotonic
  <1>9. QED
    BY <1>4, <1>6, <1>8

LEMMA Standstill ==
    ASSUME TrueInv, UNCHANGED <<author, handed, seen>>
    PROVE  Grows
  BY DEF TrueInv, AuthorTyped, Grows

LEMMA AuthorGrows ==
    ASSUME TrueInv, NEW u \in Writers, author' = Append(author, u), UNCHANGED <<handed, seen>>
    PROVE  /\ Grows
           /\ Len(author') = Len(author) + 1 /\ author'[Len(author) + 1] = u
           /\ DOMAIN author' = DOMAIN author \cup {Len(author) + 1}
  BY DEF TrueInv, AuthorTyped, Grows

\* What a step leaves alone stays true.
LEMMA PartsKept ==
    ASSUME TrueInv, Grows
    PROVE  /\ AuthorTyped'
           /\ UNCHANGED flights => FlightsTrue'
           /\ UNCHANGED inbox => InboxTrue'
           /\ UNCHANGED arriving => ArrivingTrue'
           /\ UNCHANGED encrypting => EncryptingOwn'
           /\ UNCHANGED thread => ThreadTrue'
           /\ UNCHANGED <<thread, tracked>> => TrackedTrue'
           /\ UNCHANGED rows => RowsTrue'
           /\ UNCHANGED snapshot => SnapshotTrue'
           /\ UNCHANGED queue => QueueTrue'
  <1> USE DEF TrueInv, Grows
  <1>0. AuthorTyped'
    BY DEF AuthorTyped
  <1>1. ASSUME UNCHANGED flights PROVE FlightsTrue'
    BY <1>1 DEF FlightsTrue
  <1>2. ASSUME UNCHANGED inbox PROVE InboxTrue'
    BY <1>2 DEF InboxTrue, TrueEvent
  <1>3. ASSUME UNCHANGED arriving PROVE ArrivingTrue'
    BY <1>3 DEF ArrivingTrue, TrueEvent
  <1>4. ASSUME UNCHANGED encrypting PROVE EncryptingOwn'
    BY <1>4 DEF EncryptingOwn
  <1>5. ASSUME UNCHANGED thread PROVE ThreadTrue'
    BY <1>5 DEF ThreadTrue, TrueMessages, TrueMessage
  <1>6. ASSUME UNCHANGED <<thread, tracked>> PROVE TrackedTrue'
    BY <1>6 DEF TrackedTrue, SendingTracked
  <1>7. ASSUME UNCHANGED rows PROVE RowsTrue'
    BY <1>7 DEF RowsTrue, TrueMessages, TrueMessage
  <1>8. ASSUME UNCHANGED snapshot PROVE SnapshotTrue'
    BY <1>8 DEF SnapshotTrue, TrueMessages, TrueMessage
  <1>9. ASSUME UNCHANGED queue PROVE QueueTrue'
    BY <1>9 DEF QueueTrue, TrueCall, TrueMessage
  <1>10. QED
    BY <1>0, <1>1, <1>2, <1>3, <1>4, <1>5, <1>6, <1>7, <1>8, <1>9

\* The thread of one device becomes T.
LEMMA ThreadChanged ==
    ASSUME TrueInv, Grows, NEW u \in Users, NEW T,
           thread' = [thread EXCEPT ![u] = T], IsFiniteSet(T), \A m \in T : TrueNext(u, m)
    PROVE  ThreadTrue'
  <1>1. thread' \in [Users -> SUBSET Message] /\ thread'[u] = T
        /\ \A v \in Users \ {u} : thread'[v] = thread[v]
    BY DEF TrueInv, ThreadTrue, TrueNext
  <1>2. ASSUME NEW v \in Users PROVE TrueMessages(v, thread[v])'
    <2>1. CASE v = u
      BY <1>1, <2>1 DEF TrueMessages, TrueMessage, TrueNext
    <2>2. CASE v # u
      BY <1>1, <2>2, StaysTrue DEF TrueInv, ThreadTrue, TrueMessages, TrueMessage, TrueNext
    <2>3. QED
      BY <2>1, <2>2
  <1>3. QED
    BY <1>1, <1>2 DEF ThreadTrue

\* ... and what it tracks K.
LEMMA TrackingChanged ==
    ASSUME TrueInv, Grows, NEW u \in Users, NEW T, NEW K \in SUBSET (DOMAIN author'),
           thread' = [thread EXCEPT ![u] = T], tracked' = [tracked EXCEPT ![u] = K],
           \A m \in T : m.status = "sending" => author'[m.n] = u /\ m.n \in K
    PROVE  TrackedTrue'
  <1>1. tracked' \in [Users -> SUBSET (DOMAIN author')] /\ tracked'[u] = K
        /\ \A v \in Users \ {u} : tracked'[v] = tracked[v]
    BY DEF TrueInv, TrackedTrue, Grows
  <1>2. thread'[u] = T /\ \A v \in Users \ {u} : thread'[v] = thread[v]
    BY DEF TrueInv, ThreadTrue
  <1>3. ASSUME NEW v \in Users, NEW m \in thread'[v], m.status = "sending"
        PROVE  author'[m.n] = v /\ m.n \in tracked'[v]
    <2>1. CASE v = u
      BY <1>1, <1>2, <1>3, <2>1
    <2>2. CASE v # u
      BY <1>1, <1>2, <1>3, <2>2 DEF TrueInv, TrackedTrue, SendingTracked, ThreadTrue, TrueMessages,
                                    TrueMessage, Grows
    <2>3. QED
      BY <2>1, <2>2
  <1>4. QED
    BY <1>1, <1>3 DEF TrackedTrue, SendingTracked

LEMMA SameTracking ==
    ASSUME TrueInv, Grows, NEW u \in Users, NEW T,
           thread' = [thread EXCEPT ![u] = T], UNCHANGED tracked,
           \A m \in T : m.status = "sending" => \E x \in thread[u] : x.n = m.n /\ x.status = "sending"
    PROVE  TrackedTrue'
  <1>1. tracked' = [tracked EXCEPT ![u] = tracked[u]] /\ tracked[u] \in SUBSET (DOMAIN author')
    BY DEF TrueInv, TrackedTrue, Grows
  <1>2. \A m \in T : m.status = "sending" => author'[m.n] = u /\ m.n \in tracked[u]
    BY DEF TrueInv, TrackedTrue, SendingTracked, ThreadTrue, TrueMessages, TrueMessage, Grows
  <1>3. QED
    BY <1>1, <1>2, TrackingChanged

\* The calls of one device become q.
LEMMA QueueChanged ==
    ASSUME TrueInv, Grows, NEW u \in Users, NEW q \in Seq(Call),
           queue' = [queue EXCEPT ![u] = q], \A i \in 1..Len(q) : CallNext(u, q[i])
    PROVE  QueueTrue'
  <1>1. queue' \in [Users -> Seq(Call)] /\ queue'[u] = q
        /\ \A v \in Users \ {u} : queue'[v] = queue[v]
    BY DEF TrueInv, QueueTrue
  <1>2. ASSUME NEW v \in Users, NEW i \in 1..Len(queue'[v]) PROVE TrueCall(v, queue[v][i])'
    <2>1. CASE v = u
      BY <1>1, <2>1 DEF CallNext, TrueCall, TrueNext, TrueMessage
    <2>2. CASE v # u
      <3>1. queue'[v] = queue[v] /\ TrueCall(v, queue[v][i])
        BY <1>1, <2>2 DEF TrueInv, QueueTrue
      <3>2. QED
        BY <3>1, StaysTrue DEF TrueCall, TrueNext, TrueMessage
    <2>3. QED
      BY <2>1, <2>2
  <1>3. QED
    BY <1>1, <1>2 DEF QueueTrue

LEMMA OldCalls ==
    ASSUME TrueInv, Grows, NEW u \in Users
    PROVE  queue[u] \in Seq(Call) /\ \A i \in 1..Len(queue[u]) : CallNext(u, queue[u][i])
  <1>1. queue[u] \in Seq(Call)
    BY DEF TrueInv, QueueTrue
  <1>2. ASSUME NEW i \in 1..Len(queue[u]) PROVE CallNext(u, queue[u][i])
    <2>1. queue[u][i] \in Call
      BY <1>1, ElementOfSeq
    <2>2. TrueCall(u, queue[u][i])
      BY DEF TrueInv, QueueTrue
    <2>3. QED
      BY <2>1, <2>2, StaysTrue DEF TrueCall, CallNext
  <1>3. QED
    BY <1>1, <1>2

LEMMA CallsJoined ==
    ASSUME NEW u, NEW p \in Seq(Call), NEW q \in Seq(Call),
           \A i \in 1..Len(p) : CallNext(u, p[i]), \A i \in 1..Len(q) : CallNext(u, q[i])
    PROVE  p \o q \in Seq(Call) /\ \A i \in 1..Len(p \o q) : CallNext(u, (p \o q)[i])
  <1>1. /\ p \o q \in Seq(Call) /\ Len(p \o q) = Len(p) + Len(q)
        /\ \A i \in 1..Len(p) + Len(q) : (p \o q)[i] = IF i <= Len(p) THEN p[i] ELSE q[i - Len(p)]
    BY ConcatProperties
  <1>2. Len(p) \in Nat /\ Len(q) \in Nat
    BY LenProperties
  <1>3. ASSUME NEW i \in 1..Len(p \o q) PROVE CallNext(u, (p \o q)[i])
    <2>1. CASE i <= Len(p)
      BY <1>1, <1>2, <2>1
    <2>2. CASE i > Len(p)
      <3>1. i - Len(p) \in 1..Len(q)
        BY <1>1, <1>2, <2>2
      <3>2. (p \o q)[i] = q[i - Len(p)]
        BY <1>1, <1>2, <2>2
      <3>3. QED
        BY <3>1, <3>2
    <2>3. QED
      BY <1>1, <1>2, <2>1, <2>2
  <1>4. QED
    BY <1>1, <1>3

LEMMA LaterTrue ==
    ASSUME TrueInv, Grows, NEW u \in Users, NEW ops \in Seq(Call), Later(u, ops),
           \A i \in 1..Len(ops) : CallNext(u, ops[i])
    PROVE  QueueTrue'
  <1> DEFINE q == queue[u] \o ops
  <1>1. q \in Seq(Call) /\ \A i \in 1..Len(q) : CallNext(u, q[i])
    BY OldCalls, CallsJoined
  <1>2. queue' = [queue EXCEPT ![u] = q]
    BY DEF Later
  <1> HIDE DEF q
  <1>3. QED
    BY <1>1, <1>2, QueueChanged

LEMMA OneCall ==
    ASSUME NEW u, NEW c, CallNext(u, c)
    PROVE  <<c>> \in Seq(Call) /\ \A i \in 1..Len(<<c>>) : CallNext(u, <<c>>[i])
  BY DEF CallNext

LEMMA OldMessages ==
    ASSUME TrueInv, Grows, NEW u \in Users
    PROVE  /\ IsFiniteSet(thread[u]) /\ IsFiniteSet(rows[u]) /\ IsFiniteSet(snapshot[u])
           /\ \A m \in thread[u] \cup rows[u] \cup snapshot[u] :
                 m \in Message /\ TrueMessage(u, m) /\ TrueNext(u, m)
  BY StaysTrue DEF TrueInv, ThreadTrue, RowsTrue, SnapshotTrue, TrueMessages, TrueMessage

\* Change, for messages that are true.
LEMMA ChangeTrue ==
    ASSUME TrueInv, Grows, NEW u \in Users, NEW O, NEW N, Change(u, O, N),
           IsFiniteSet(N), \A m \in N : TrueNext(u, m)
    PROVE  ThreadTrue' /\ QueueTrue'
  <1> DEFINE T == (thread[u] \ O) \cup N
  <1>1. thread' = [thread EXCEPT ![u] = T] /\ Later(u, Saves(N))
    BY DEF Change
  <1>2. IsFiniteSet(T)
    <2>1. IsFiniteSet(thread[u] \ O)
      BY OldMessages, SubsetFinite
    <2>2. QED
      BY <2>1, UnionFinite
  <1>3. \A m \in T : TrueNext(u, m)
    BY OldMessages
  <1> HIDE DEF T
  <1>4. ThreadTrue'
    BY <1>1, <1>2, <1>3, ThreadChanged
  <1>5. QueueTrue'
    BY <1>1, SavesNext, LaterTrue
  <1>6. QED
    BY <1>4, <1>5

\* Messages of the thread, with another status that is true of them.
LEMMA WithTrue ==
    ASSUME TrueInv, Grows, NEW u \in Users, NEW M \in SUBSET (thread[u] \cup snapshot[u]),
           NEW status \in Statuses,
           \A m \in M : author[m.n] = u => status # "sent" /\ (status = "read" => m.n \in seen)
    PROVE  IsFiniteSet(With(M, status)) /\ \A w \in With(M, status) : TrueNext(u, w) /\ w.status = status
  <1>1. IsFiniteSet(M)
    BY OldMessages, SubsetFinite, UnionFinite
  <1>2. ASSUME NEW w \in With(M, status) PROVE TrueNext(u, w) /\ w.status = status
    <2>1. PICK m \in M : w = [m EXCEPT !.status = status]
      BY DEF With
    <2>2. m \in Message /\ TrueNext(u, m) /\ TrueMessage(u, m)
      BY OldMessages
    <2>3. w \in Message /\ w.n = m.n /\ w.status = status
      BY <2>1, <2>2, WithMessage
    <2>4. QED
      BY <2>2, <2>3 DEF TrueNext, TrueMessage, Grows
  <1>3. QED
    BY <1>1, <1>2, WithFinite

LEMMA RestKept ==
    ASSUME TrueInv, Grows, UNCHANGED <<up, stage, cuts, handed, seen, wiped, undone>>
    PROVE  RestTyped'
  BY DEF TrueInv, RestTyped, Grows

-----------------------------------------------------------------------------
(* The user.                                                               *)

LEMMA ComposeTrue ==
    ASSUME TrueInv, NEW u \in Writers, Compose(u), UNCHANGED <<handed, seen>>
    PROVE  /\ Grows /\ EncryptingOwn'
           /\ Len(author') = Len(author) + 1 /\ author'[Len(author')] = u
           /\ tracked' = [tracked EXCEPT ![u] = tracked[u] \cup {Len(author')}]
           /\ tracked[u] \cup {Len(author')} \in SUBSET (DOMAIN author')
           /\ LET o == Optimistic(Len(author')) IN
              TrueNext(u, o) /\ o.n = Len(author') /\ o.id = "temp" /\ o.status = "sending"
  <1>1. u \in Users
    BY MessagesAssumption
  <1>2. /\ Grows /\ Len(author') = Len(author) + 1 /\ author'[Len(author) + 1] = u
        /\ DOMAIN author' = DOMAIN author \cup {Len(author) + 1}
        /\ Len(author) \in Nat
    <2>1. author' = Append(author, u)
      BY DEF Compose
    <2>2. QED
      BY <2>1, AuthorGrows DEF TrueInv, AuthorTyped
  <1>3. /\ tracked' = [tracked EXCEPT ![u] = @ \cup {Len(author) + 1}]
        /\ encrypting' = [encrypting EXCEPT ![u] = @ \cup {Len(author) + 1}]
    BY DEF Compose, trackSend
  <1>4. EncryptingOwn'
    BY <1>1, <1>2, <1>3 DEF TrueInv, EncryptingOwn, Grows
  <1>5. tracked[u] \in SUBSET (DOMAIN author)
    BY <1>1 DEF TrueInv, TrackedTrue
  <1>6. LET o == Optimistic(Len(author')) IN
        TrueNext(u, o) /\ o.n = Len(author') /\ o.id = "temp" /\ o.status = "sending"
    <2> DEFINE o == Optimistic(Len(author'))
    <2>1. o \in Message /\ o.n = Len(author') /\ o.id = "temp" /\ o.status = "sending"
      BY <1>2, NewMessageFields DEF Optimistic, Ids, Statuses
    <2> HIDE DEF o
    <2>2. TrueNext(u, o)
      BY <1>2, <2>1 DEF TrueNext
    <2>3. QED
      BY <2>1, <2>2 DEF o
  <1>7. QED
    BY <1>2, <1>3, <1>4, <1>5, <1>6

LEMMA SendTextTrue ==
    ASSUME TrueInv, NEW u \in Users, SendText(u)
    PROVE  TrueInv'
  <1>1. /\ u \in Writers /\ Compose(u) /\ Change(u, {}, {Optimistic(Len(author'))})
        /\ UNCHANGED <<relay, arriving, stage, snapshot, rows, cuts, history>>
    BY DEF SendText
  <1> DEFINE o == Optimistic(Len(author'))
             T == (thread[u] \ {}) \cup {o}
             K == tracked[u] \cup {Len(author')}
  <1>2. /\ Grows /\ EncryptingOwn' /\ author'[Len(author')] = u
        /\ tracked' = [tracked EXCEPT ![u] = K] /\ K \in SUBSET (DOMAIN author')
        /\ TrueNext(u, o) /\ o.n = Len(author')
    BY <1>1, ComposeTrue DEF history
  <1>3. ThreadTrue' /\ QueueTrue'
    BY <1>1, <1>2, ChangeTrue, FS_Singleton
  <1>4. thread' = [thread EXCEPT ![u] = T]
    BY <1>1 DEF Change
  <1>5. \A m \in T : m.status = "sending" => author'[m.n] = u /\ m.n \in K
    <2>1. \A m \in thread[u] : m.status = "sending" => author'[m.n] = u /\ m.n \in tracked[u]
      BY <1>2, OldMessages DEF TrueInv, TrackedTrue, SendingTracked, TrueMessage, Grows
    <2>2. QED
      BY <1>2, <2>1
  <1> HIDE DEF T, K, o
  <1>6. TrackedTrue'
    BY <1>2, <1>4, <1>5, TrackingChanged
  <1>7. RestTyped'
    BY <1>1, <1>2, RestKept DEF relay, history
  <1>8. QED
    BY <1>1, <1>2, <1>3, <1>6, <1>7, PartsKept DEF TrueInv, relay

LEMMA DiscardTrue ==
    ASSUME TrueInv, NEW u \in Users, NEW m \in thread[u], Discard(u, m)
    PROVE  TrueInv'
  <1> DEFINE T == thread[u] \ {m}
             c == [op |-> "remove", row |-> m]
  <1>1. /\ thread' = [thread EXCEPT ![u] = T] /\ Later(u, <<c>>)
        /\ UNCHANGED <<relay, author, tracked, encrypting, arriving, stage, snapshot, rows, cuts, history>>
    BY DEF Discard
  <1>2. Grows
    BY <1>1, Standstill DEF history
  <1>3. IsFiniteSet(T) /\ (\A x \in T : TrueNext(u, x)) /\ TrueNext(u, m)
    BY <1>2, OldMessages, SubsetFinite
  <1>4. CallNext(u, c)
    BY <1>3, SaveCall DEF CallNext, TrueNext
  <1> HIDE DEF c
  <1>5. ThreadTrue'
    BY <1>1, <1>2, <1>3, ThreadChanged
  <1>6. TrackedTrue'
    <2>1. \A x \in T : x.status = "sending" => \E y \in thread[u] : y.n = x.n /\ y.status = "sending"
      OBVIOUS
    <2>2. UNCHANGED tracked
      BY <1>1
    <2> HIDE DEF T
    <2>3. QED
      BY <1>1, <1>2, <2>1, <2>2, SameTracking
  <1>7. QueueTrue'
    BY <1>1, <1>2, <1>4, OneCall, LaterTrue
  <1>8. RestTyped'
    BY <1>1, <1>2, RestKept DEF relay, history
  <1>9. QED
    BY <1>1, <1>2, <1>5, <1>6, <1>7, <1>8, PartsKept DEF TrueInv, relay

LEMMA RetryTrue ==
    ASSUME TrueInv, NEW u \in Users, NEW m \in thread[u], Retry(u, m)
    PROVE  TrueInv'
  <1> DEFINE o == Optimistic(Len(author'))
             T == (thread[u] \ {m}) \cup {o}
             K == tracked[u] \cup {Len(author')}
             c == [op |-> "remove", row |-> m]
             d == [op |-> "save", row |-> o]
  <1>0. u \in Writers
    BY DEF Retry, discardFailed, TrueInv, ThreadTrue, TrueMessages, TrueMessage, AuthorTyped
  <1>1. /\ Compose(u) /\ thread' = [thread EXCEPT ![u] = T] /\ Later(u, <<c, d>>)
        /\ UNCHANGED <<relay, arriving, stage, snapshot, rows, cuts, history>>
    BY DEF Retry
  <1>2. /\ Grows /\ EncryptingOwn' /\ author'[Len(author')] = u
        /\ tracked' = [tracked EXCEPT ![u] = K] /\ K \in SUBSET (DOMAIN author')
        /\ TrueNext(u, o) /\ o.n = Len(author')
    BY <1>0, <1>1, ComposeTrue DEF history
  <1>3. IsFiniteSet(T) /\ (\A x \in T : TrueNext(u, x)) /\ TrueNext(u, m)
    <2>1. IsFiniteSet(thread[u] \ {m}) /\ IsFiniteSet({o})
      BY <1>2, OldMessages, SubsetFinite, FS_Singleton
    <2>2. QED
      BY <1>2, <2>1, OldMessages, UnionFinite
  <1>4. CallNext(u, c) /\ CallNext(u, d)
    BY <1>2, <1>3, SaveCall DEF CallNext, TrueNext
  <1>5. \A x \in T : x.status = "sending" => author'[x.n] = u /\ x.n \in K
    <2>1. \A x \in thread[u] : x.status = "sending" => author'[x.n] = u /\ x.n \in tracked[u]
      BY <1>2, OldMessages DEF TrueInv, TrackedTrue, SendingTracked, TrueMessage, Grows
    <2>2. QED
      BY <1>2, <2>1
  <1> HIDE DEF T, K, o, c, d
  <1>6. ThreadTrue'
    BY <1>1, <1>2, <1>3, ThreadChanged
  <1>7. TrackedTrue'
    BY <1>1, <1>2, <1>5, TrackingChanged
  <1>8. QueueTrue'
    <2>1. <<c, d>> \in Seq(Call) /\ \A i \in 1..Len(<<c, d>>) : CallNext(u, <<c, d>>[i])
      BY <1>4 DEF CallNext
    <2>2. QED
      BY <1>1, <1>2, <2>1, LaterTrue
  <1>9. RestTyped'
    BY <1>1, <1>2, RestKept DEF relay, history
  <1>10. QED
    BY <1>1, <1>2, <1>6, <1>7, <1>8, <1>9, PartsKept DEF TrueInv, relay

\* What Fly sends is about a message there is; a receipt about one that has been opened.
LEMMA FlyTrue ==
    ASSUME TrueInv, Grows, NEW u \in Users, NEW m \in Message, m.n \in DOMAIN author,
           NEW kind \in {"text", "delete", "read"}, kind = "read" => m.n \in seen', Fly(u, kind, m)
    PROVE  FlightsTrue'
  <1> DEFINE f == [kind |-> kind, n |-> m.n, id |-> m.id, from |-> u, answer |-> TRUE]
  <1>1. f \in Flight /\ f.n = m.n /\ f.kind = kind
    BY MessageFields DEF Flight, Ids
  <1>2. flights' \subseteq flights \cup {f}
    BY DEF Fly
  <1> HIDE DEF f
  <1>3. QED
    BY <1>1, <1>2 DEF TrueInv, FlightsTrue, Grows

LEMMA MarkReadTrue ==
    ASSUME TrueInv, NEW u \in Users, NEW m \in thread[u], MarkRead(u, m)
    PROVE  TrueInv'
  <1> DEFINE new == {x \in thread[u] : author[x.n] # u /\ x.status # "read"}
             N == With(new, "read")
  <1>1. /\ m \in new /\ Fly(u, "read", m) /\ Change(u, new, N)
        /\ seen' = seen \cup {x.n : x \in new}
        /\ UNCHANGED <<up, inbox, author, tracked, encrypting, arriving, stage, snapshot, rows, cuts, handed, wiped, undone>>
    BY DEF MarkRead
  <1>2. Grows
    BY <1>1 DEF TrueInv, AuthorTyped, Grows
  <1>3. IsFiniteSet(N) /\ \A w \in N : TrueNext(u, w) /\ w.status = "read"
    BY <1>2, WithTrue DEF Statuses
  <1>4. thread' = [thread EXCEPT ![u] = (thread[u] \ new) \cup N]
    BY <1>1 DEF Change
  <1>5. \A x \in new : x.n \in handed
    BY <1>2, OldMessages DEF TrueMessage
  <1>6. m \in Message /\ m.n \in DOMAIN author /\ m.n \in seen'
    BY <1>1, <1>2, OldMessages DEF TrueMessage
  <1> HIDE DEF N, new
  <1>7. FlightsTrue'
    BY <1>1, <1>2, <1>6, FlyTrue
  <1>8. ThreadTrue' /\ QueueTrue'
    BY <1>1, <1>2, <1>3, ChangeTrue
  <1>9. TrackedTrue'
    <2> DEFINE T == (thread[u] \ new) \cup N
    <2>1. \A x \in T : x.status = "sending" => \E y \in thread[u] : y.n = x.n /\ y.status = "sending"
      BY <1>3
    <2>2. UNCHANGED tracked /\ thread' = [thread EXCEPT ![u] = T]
      BY <1>1, <1>4
    <2> HIDE DEF T
    <2>3. QED
      BY <1>2, <2>1, <2>2, SameTracking
  <1>10. RestTyped'
    BY <1>1, <1>5 DEF TrueInv, RestTyped
  <1>11. QED
    BY <1>1, <1>2, <1>7, <1>8, <1>9, <1>10, PartsKept DEF TrueInv

LEMMA TombstoneTrue ==
    ASSUME TrueInv, Grows, NEW u \in Users, NEW m \in thread[u], Tombstone(u, m), UNCHANGED tracked
    PROVE  ThreadTrue' /\ QueueTrue' /\ TrackedTrue'
  <1> DEFINE d == [m EXCEPT !.deleted = TRUE]
  <1>1. m \in Message /\ TrueNext(u, m)
    BY OldMessages
  <1>2. d \in Message /\ d.n = m.n /\ d.status = m.status
    BY <1>1, DeletedMessage
  <1>3. Change(u, {m}, {d}) /\ thread' = [thread EXCEPT ![u] = (thread[u] \ {m}) \cup {d}]
    BY DEF Tombstone, Change
  <1> HIDE DEF d
  <1>4. TrueNext(u, d)
    BY <1>1, <1>2 DEF TrueNext
  <1>5. ThreadTrue' /\ QueueTrue'
    BY <1>3, <1>4, ChangeTrue, FS_Singleton
  <1>6. TrackedTrue'
    <2> DEFINE T == (thread[u] \ {m}) \cup {d}
    <2>1. \A x \in T : x.status = "sending" => \E y \in thread[u] : y.n = x.n /\ y.status = "sending"
      BY <1>2
    <2>2. thread' = [thread EXCEPT ![u] = T]
      BY <1>3
    <2> HIDE DEF T
    <2>3. QED
      BY <2>1, <2>2, SameTracking
  <1>7. QED
    BY <1>5, <1>6

LEMMA DeleteTrue ==
    ASSUME TrueInv, NEW u \in Users, NEW m \in thread[u], DeleteLocal(u, m) \/ DeleteForEveryone(u, m)
    PROVE  TrueInv'
  <1>1. /\ Tombstone(u, m)
        /\ UNCHANGED <<up, inbox, author, tracked, encrypting, arriving, stage, snapshot, rows, cuts, history>>
        /\ UNCHANGED flights \/ Fly(u, "delete", m)
    BY DEF DeleteLocal, DeleteForEveryone, relay
  <1>2. Grows
    BY <1>1, Standstill DEF history
  <1>3. ThreadTrue' /\ QueueTrue' /\ TrackedTrue'
    BY <1>1, <1>2, TombstoneTrue
  <1>4. m \in Message /\ m.n \in DOMAIN author
    BY <1>2, OldMessages DEF TrueMessage
  <1>5. FlightsTrue'
    BY <1>1, <1>2, <1>4, FlyTrue, PartsKept
  <1>6. RestTyped'
    BY <1>1, <1>2, RestKept DEF history
  <1>7. QED
    BY <1>1, <1>2, <1>3, <1>5, <1>6, PartsKept DEF TrueInv

LEMMA ClearThreadTrue ==
    ASSUME TrueInv, NEW u \in Users, ClearThread(u)
    PROVE  TrueInv'
  <1> DEFINE c == [op |-> "clear"]
  <1>1. /\ thread' = [thread EXCEPT ![u] = {}] /\ Later(u, <<c>>)
        /\ wiped' = [wiped EXCEPT ![u] = @ \cup {m.n : m \in thread[u]}]
        /\ UNCHANGED <<relay, author, tracked, encrypting, arriving, stage, snapshot, rows, cuts, handed, seen, undone>>
    BY DEF ClearThread
  <1>2. Grows
    BY <1>1, Standstill
  <1>3. CallNext(u, c)
    BY DEF CallNext, Call
  <1> HIDE DEF c
  <1>4. ThreadTrue' /\ TrackedTrue' /\ QueueTrue'
    BY <1>1, <1>2, <1>3, ThreadChanged, SameTracking, FS_EmptySet, OneCall, LaterTrue
  <1>5. {m.n : m \in thread[u]} \subseteq DOMAIN author
    BY <1>2, OldMessages DEF TrueMessage
  <1>6. RestTyped'
    BY <1>1, <1>5 DEF TrueInv, RestTyped, relay
  <1>7. QED
    BY <1>1, <1>2, <1>4, <1>6, PartsKept DEF TrueInv, relay

-----------------------------------------------------------------------------
(* The rest of a send.                                                     *)

LEMMA OldTracking ==
    ASSUME TrueInv, Grows, NEW u \in Users
    PROVE  /\ tracked[u] \in SUBSET (DOMAIN author')
           /\ \A m \in thread[u] : m.status = "sending" => author[m.n] = u /\ author'[m.n] = u /\ m.n \in tracked[u]
  BY DEF TrueInv, TrackedTrue, SendingTracked, ThreadTrue, TrueMessages, TrueMessage, Grows

\* A send settled, after which none of its messages is on 'sending'.
LEMMA SettledTrue ==
    ASSUME TrueInv, Grows, NEW u \in Users, NEW n, settleSend(u, n), NEW T,
           thread' = [thread EXCEPT ![u] = T],
           \A m \in T : m.status = "sending" => m \in thread[u] /\ m \notin Sent(u, n)
    PROVE  TrackedTrue'
  <1> DEFINE K == tracked[u] \ {n}
  <1>1. tracked' = [tracked EXCEPT ![u] = K]
    BY DEF settleSend
  <1>2. K \in SUBSET (DOMAIN author')
    BY OldTracking
  <1>3. \A m \in T : m.status = "sending" => author'[m.n] = u /\ m.n \in K
    BY OldTracking DEF Sent
  <1> HIDE DEF K
  <1>4. QED
    BY <1>1, <1>2, <1>3, TrackingChanged

LEMMA MarkFailedTrue ==
    ASSUME TrueInv, Grows, NEW u \in Users, NEW n \in encrypting[u], MarkFailed(u, n)
    PROVE  ThreadTrue' /\ QueueTrue' /\ TrackedTrue'
  <1> DEFINE failed == NewMessage(n, "temp", "failed")
             T == IF Sent(u, n) = {} THEN thread[u] ELSE (thread[u] \ Sent(u, n)) \cup {failed}
             c == [op |-> "save", row |-> failed]
  <1>1. thread' = [thread EXCEPT ![u] = T] /\ Later(u, <<c>>) /\ settleSend(u, n)
    BY DEF MarkFailed
  <1>2. n \in Nat /\ n \in DOMAIN author /\ author[n] = u
    BY DEF TrueInv, EncryptingOwn, AuthorTyped
  <1>3. failed \in Message /\ failed.n = n /\ failed.status = "failed"
    BY <1>2, NewMessageFields DEF Ids, Statuses
  <1>4. CallNext(u, c) <=> TrueNext(u, failed)
    BY <1>3, SaveCall DEF CallNext
  <1> HIDE DEF failed, c
  <1>5. TrueNext(u, failed)
    BY <1>2, <1>3 DEF TrueNext, Grows
  <1>6. IsFiniteSet(T) /\ \A m \in T : TrueNext(u, m)
    <2>1. IsFiniteSet(thread[u] \ Sent(u, n)) /\ IsFiniteSet({failed})
      BY OldMessages, SubsetFinite, FS_Singleton
    <2>2. IsFiniteSet((thread[u] \ Sent(u, n)) \cup {failed})
      BY <2>1, UnionFinite
    <2>3. QED
      BY <1>5, <2>2, OldMessages
  <1>7. \A m \in T : m.status = "sending" => m \in thread[u] /\ m \notin Sent(u, n)
    BY <1>3
  <1> HIDE DEF T
  <1>8. QED
    BY <1>1, <1>4, <1>5, <1>6, <1>7, ThreadChanged, SettledTrue, OneCall, LaterTrue

LEMMA EncryptedTrue ==
    ASSUME TrueInv, NEW u \in Users, NEW n \in encrypting[u], Encrypted(u, n)
    PROVE  TrueInv'
  <1>1. /\ encrypting' = [encrypting EXCEPT ![u] = @ \ {n}]
        /\ UNCHANGED <<up, inbox, author, arriving, stage, snapshot, rows, cuts, history>>
    BY DEF Encrypted
  <1>2. Grows
    BY <1>1, Standstill DEF history
  <1>3. EncryptingOwn'
    BY <1>1, <1>2 DEF TrueInv, EncryptingOwn, Grows
  <1>4. RestTyped'
    BY <1>1, <1>2, RestKept DEF history
  <1>5. CASE MarkFailed(u, n) /\ UNCHANGED flights
    BY <1>1, <1>2, <1>3, <1>4, <1>5, MarkFailedTrue, PartsKept DEF TrueInv
  <1>6. CASE Fly(u, "text", NewMessage(n, "final", "sent")) /\ UNCHANGED <<thread, tracked, queue>>
    <2> DEFINE m == NewMessage(n, "final", "sent")
    <2>1. n \in Nat /\ n \in DOMAIN author
      BY DEF TrueInv, EncryptingOwn, AuthorTyped
    <2>2. m \in Message /\ m.n = n
      BY <2>1, NewMessageFields DEF Ids, Statuses
    <2> HIDE DEF m
    <2>3. FlightsTrue'
      BY <1>2, <1>6, <2>1, <2>2, FlyTrue DEF m
    <2>4. QED
      BY <1>1, <1>2, <1>3, <1>4, <1>6, <2>3, PartsKept DEF TrueInv
  <1>7. QED
    BY <1>5, <1>6 DEF Encrypted

\* failIfStillSending for the sends N, and tracking K from then on.
LEMMA FailTrue ==
    ASSUME TrueInv, Grows, NEW u \in Users, NEW N, NEW K \in SUBSET (DOMAIN author'),
           failIfStillSending(u, N), tracked' = [tracked EXCEPT ![u] = K], tracked[u] \subseteq K \cup N
    PROVE  ThreadTrue' /\ QueueTrue' /\ TrackedTrue'
  <1> DEFINE S == Sending(u, N)
             F == With(S, "failed")
             T == (thread[u] \ S) \cup F
  <1>1. Change(u, S, F) /\ thread' = [thread EXCEPT ![u] = T]
    BY DEF failIfStillSending, Change
  <1>2. IsFiniteSet(F) /\ \A w \in F : TrueNext(u, w) /\ w.status = "failed"
    <2>1. S \in SUBSET (thread[u] \cup snapshot[u]) /\ "failed" \in Statuses
      BY DEF Sending, Statuses
    <2> HIDE DEF S
    <2>2. QED
      BY <2>1, WithTrue
  <1>3. \A m \in T : m.status = "sending" => author'[m.n] = u /\ m.n \in K
    <2>1. ASSUME NEW m \in T, m.status = "sending" PROVE author'[m.n] = u /\ m.n \in K
      <3>1. m \in thread[u] \ S
        BY <1>2, <2>1
      <3>2. author[m.n] = u /\ author'[m.n] = u /\ m.n \in tracked[u]
        BY <2>1, <3>1, OldTracking
      <3>3. m.n \notin N
        BY <2>1, <3>1, <3>2 DEF Sending
      <3>4. QED
        BY <3>2, <3>3
    <2>2. QED
      BY <2>1
  <1> HIDE DEF S, F, T
  <1>4. QED
    BY <1>1, <1>2, <1>3, ChangeTrue, TrackingChanged

LEMMA SendTimeoutTrue ==
    ASSUME TrueInv, NEW u \in Users, NEW n \in tracked[u], SendTimeout(u, n)
    PROVE  TrueInv'
  <1> DEFINE K == tracked[u] \ {n}
  <1>1. /\ failIfStillSending(u, {n}) /\ tracked' = [tracked EXCEPT ![u] = K]
        /\ UNCHANGED <<relay, author, encrypting, arriving, stage, snapshot, rows, cuts, history>>
    BY DEF SendTimeout, settleSend
  <1>2. Grows
    BY <1>1, Standstill DEF history
  <1>3. K \in SUBSET (DOMAIN author') /\ tracked[u] \subseteq K \cup {n}
    BY <1>2, OldTracking
  <1> HIDE DEF K
  <1>4. ThreadTrue' /\ QueueTrue' /\ TrackedTrue'
    BY <1>1, <1>2, <1>3, FailTrue
  <1>5. RestTyped'
    BY <1>1, <1>2, RestKept DEF relay, history
  <1>6. QED
    BY <1>1, <1>2, <1>4, <1>5, PartsKept DEF TrueInv, relay

-----------------------------------------------------------------------------
(* The relay.                                                              *)

EventOf(kind, f) == [kind |-> kind, n |-> f.n, id |-> f.id]

\* The inboxes `next' are those of `box' with e added to u's.
Told(box, next, u, e) ==
    /\ next \in [Users -> Seq(Event)]
    /\ \A v \in Users : \A i \in 1..Len(next[v]) :
          (next[v][i] = e /\ v = u) \/ (i \in 1..Len(box[v]) /\ next[v][i] = box[v][i])
    /\ \A v \in Users \ {u} : next[v] = box[v]
    /\ Len(next[u]) = Len(box[u]) + 1 /\ next[u][Len(box[u]) + 1] = e
    /\ \A i \in 1..Len(box[u]) : next[u][i] = box[u][i]

LEMMA TellTrue ==
    ASSUME NEW box \in [Users -> Seq(Event)], NEW u \in Users, NEW f \in Flight,
           NEW kind \in {"text", "delete", "read", "sent", "failed"}
    PROVE  /\ EventOf(kind, f) \in Event /\ EventOf(kind, f).kind = kind
           /\ EventOf(kind, f).n = f.n /\ EventOf(kind, f).id = f.id
           /\ Told(box, Tell(box, u, kind, f), u, EventOf(kind, f))
  <1> DEFINE e == EventOf(kind, f)
             next == Tell(box, u, kind, f)
  <1>1. e \in Event /\ e.kind = kind /\ e.n = f.n /\ e.id = f.id
    BY FlightFields DEF Event, Ids, EventOf
  <1>2. next = [box EXCEPT ![u] = Append(box[u], e)]
    BY DEF Tell, EventOf
  <1> HIDE DEF e, next
  <1>3. box[u] \in Seq(Event)
    OBVIOUS
  <1>4. /\ Append(box[u], e) \in Seq(Event) /\ Len(Append(box[u], e)) = Len(box[u]) + 1
        /\ Append(box[u], e)[Len(box[u]) + 1] = e
        /\ \A i \in 1..Len(box[u]) : Append(box[u], e)[i] = box[u][i]
    BY <1>1, <1>3
  <1>5. next \in [Users -> Seq(Event)] /\ next[u] = Append(box[u], e)
        /\ \A v \in Users \ {u} : next[v] = box[v]
    BY <1>2, <1>4
  <1>6. ASSUME NEW v \in Users, NEW i \in 1..Len(next[v])
        PROVE  (next[v][i] = e /\ v = u) \/ (i \in 1..Len(box[v]) /\ next[v][i] = box[v][i])
    <2>1. CASE v = u
      <3>0. Len(next[u]) = Len(box[u]) + 1
        BY <1>4, <1>5
      <3>0a. Len(box[u]) \in Nat
        BY <1>3, LenProperties
      <3>1. i \in 1..(Len(box[u]) + 1)
        BY <2>1, <3>0, <3>0a
      <3>2. CASE i = Len(box[u]) + 1
        BY <1>4, <1>5, <2>1, <3>2
      <3>3. CASE i # Len(box[u]) + 1
        <4>1. i \in 1..Len(box[u])
          BY <3>0a, <3>1, <3>3
        <4>2. QED
          BY <1>4, <1>5, <2>1, <4>1
      <3>4. QED
        BY <3>2, <3>3
    <2>2. CASE v # u
      BY <1>5, <2>2
    <2>3. QED
      BY <2>1, <2>2
  <1>7. QED
    BY <1>1, <1>4, <1>5, <1>6 DEF e, next, Told

BoxTrue(box) ==
    /\ box \in [Users -> Seq(Event)]
    /\ \A v \in Users : \A i \in 1..Len(box[v]) :
          LET e == box[v][i] IN
          /\ e \in Event /\ e.n \in DOMAIN author
          /\ e.kind \in {"text", "sent"} => e.n \in handed'
          /\ e.kind = "read" => e.n \in seen

LEMMA TellBoxTrue ==
    ASSUME NEW box, BoxTrue(box), NEW u \in Users, NEW f \in Flight, f.n \in DOMAIN author,
           NEW kind \in {"text", "delete", "read", "sent", "failed"},
           kind \in {"text", "sent"} => f.n \in handed', kind = "read" => f.n \in seen
    PROVE  BoxTrue(Tell(box, u, kind, f))
  <1>1. box \in [Users -> Seq(Event)]
    BY DEF BoxTrue
  <1> DEFINE e == EventOf(kind, f)
             next == Tell(box, u, kind, f)
  <1>2. e \in Event /\ e.kind = kind /\ e.n = f.n /\ Told(box, next, u, e)
    BY <1>1, TellTrue
  <1> HIDE DEF e, next
  <1>3. BoxTrue(next)
    BY <1>2 DEF BoxTrue, Told
  <1>4. QED
    BY <1>3 DEF next

LEMMA AnswerBoxTrue ==
    ASSUME NEW box, BoxTrue(box), NEW f \in Flight, f.n \in DOMAIN author,
           NEW kind \in {"sent", "failed"}, f.kind = "text" /\ kind = "sent" => f.n \in handed'
    PROVE  BoxTrue(Answer(box, f, kind))
  BY TellBoxTrue, FlightFields DEF Answer

LEMMA RelayTrue ==
    ASSUME TrueInv, NEW f \in flights, Deliver(f) \/ Refuse(f) \/ Lose(f)
    PROVE  TrueInv'
  <1>1. f \in Flight /\ f.n \in DOMAIN author /\ (f.kind = "read" => f.n \in seen)
    BY DEF TrueInv, FlightsTrue
  <1>2. /\ flights' = flights \ {f}
        /\ UNCHANGED <<up, author, store, disk, cuts, seen, wiped, undone>>
        /\ handed' = handed \/ (f.kind = "text" /\ handed' = handed \cup {f.n})
        /\ f.kind = "text" /\ Deliver(f) => f.n \in handed'
    BY DEF Deliver, Refuse, Lose, history
  <1>3. Grows
    BY <1>2 DEF TrueInv, AuthorTyped, Grows
  <1>4. FlightsTrue'
    BY <1>2 DEF TrueInv, FlightsTrue
  <1>5. BoxTrue(inbox)
    BY <1>3 DEF TrueInv, InboxTrue, TrueEvent, BoxTrue, Grows
  <1>6. BoxTrue(inbox')
    <2>1. CASE Deliver(f)
      <3>1. inbox' = Answer(Tell(inbox, Other(f.from), f.kind, f), f, "sent")
        BY <2>1 DEF Deliver
      <3>2. Other(f.from) \in Users /\ f.kind \in {"text", "delete", "read"}
        BY <1>1, OtherUser, FlightFields
      <3>3. BoxTrue(Tell(inbox, Other(f.from), f.kind, f))
        BY <1>1, <1>2, <1>5, <2>1, <3>2, TellBoxTrue
      <3>4. QED
        BY <1>1, <1>2, <2>1, <3>1, <3>3, AnswerBoxTrue
    <2>2. CASE Refuse(f)
      BY <1>1, <1>5, <2>2, AnswerBoxTrue DEF Refuse
    <2>3. CASE Lose(f)
      BY <1>5, <2>3 DEF Lose
    <2>4. QED
      BY <2>1, <2>2, <2>3
  <1>7. InboxTrue'
    BY <1>2, <1>6 DEF BoxTrue, InboxTrue, TrueEvent
  <1>8. RestTyped'
    BY <1>1, <1>2 DEF TrueInv, RestTyped, disk
  <1>9. QED
    BY <1>2, <1>3, <1>4, <1>7, <1>8, PartsKept DEF TrueInv, store, disk

-----------------------------------------------------------------------------
(* Events.                                                                 *)

LEMMA HeadEvent ==
    ASSUME TrueInv, NEW u \in Users, inbox[u] # <<>>
    PROVE  /\ Head(inbox[u]) = inbox[u][1] /\ TrueEvent(inbox[u][1])
           /\ Tail(inbox[u]) \in Seq(Event) /\ Len(inbox[u]) \in Nat
           /\ Len(Tail(inbox[u])) = Len(inbox[u]) - 1 /\ 1 \in 1..Len(inbox[u])
           /\ \A i \in 1..Len(Tail(inbox[u])) : i + 1 \in 1..Len(inbox[u]) /\ Tail(inbox[u])[i] = inbox[u][i + 1]
  <1>1. inbox[u] \in Seq(Event)
    BY DEF TrueInv, InboxTrue
  <1>2. QED
    BY <1>1 DEF TrueInv, InboxTrue

\* The rows that OnSent asks the database to rename, and OnSent's messages.
Acked(S) == {[m EXCEPT !.id = "final", !.status = "sent"] : m \in S}
Renames(M) == SetToSeq({[op |-> "rename", row |-> m] : m \in M})

LEMMA RenamesNext ==
    ASSUME NEW u, NEW M, IsFiniteSet(M), \A m \in M : TrueNext(u, m)
    PROVE  /\ Renames(M) \in Seq(Call) /\ \A i \in 1..Len(Renames(M)) : CallNext(u, Renames(M)[i])
           /\ \A i \in 1..Len(Renames(M)) : \E m \in M : Renames(M)[i] = [op |-> "rename", row |-> m]
           /\ \A i, j \in 1..Len(Renames(M)) : Renames(M)[i] = Renames(M)[j] => i = j
  <1> DEFINE f == [m \in M |-> [op |-> "rename", row |-> m]]
             S == {[op |-> "rename", row |-> m] : m \in M}
  <1>1. S = {f[m] : m \in M}
    OBVIOUS
  <1>2. IsFiniteSet(S)
    <2> HIDE DEF f, S
    <2>1. QED
      BY <1>1, ImageFinite, Zenon
  <1>3. \A m \in M : m \in Message
    BY DEF TrueNext
  <1>4. \A c \in S : CallNext(u, c)
    BY <1>3, SaveCall DEF CallNext
  <1>5. Renames(M) \in Seq(S)
    BY <1>2, SetToSeqElements DEF Renames
  <1>6. \A i \in 1..Len(Renames(M)) : Renames(M)[i] \in S
    BY <1>5, ElementOfSeq
  <1>7. S \subseteq Call
    BY <1>4 DEF CallNext
  <1>8. Renames(M) \in Seq(Call)
    BY <1>5, <1>7, SeqMonotonic
  <1>9. \A i, j \in 1..Len(Renames(M)) : Renames(M)[i] = Renames(M)[j] => i = j
    <2> HIDE DEF S
    <2>1. Renames(M) = SetToSeq(S)
      BY DEF Renames, S
    <2>2. QED
      BY <1>2, <2>1, SetToSeqElements
  <1>10. QED
    BY <1>4, <1>6, <1>8, <1>9

LEMMA AckedNext ==
    ASSUME TrueInv, Grows, NEW u \in Users, NEW n \in handed
    PROVE  /\ IsFiniteSet(Acked(Sent(u, n)))
           /\ \A w \in Acked(Sent(u, n)) :
                 TrueNext(u, w) /\ w.n = n /\ w.id = "final" /\ w.status = "sent"
  <1> DEFINE S == Sent(u, n)
             f == [m \in S |-> [m EXCEPT !.id = "final", !.status = "sent"]]
  <1>1. IsFiniteSet(S)
    BY OldMessages, SubsetFinite DEF Sent
  <1>2. Acked(S) = {f[m] : m \in S}
    BY DEF Acked
  <1>3. IsFiniteSet({f[m] : m \in S})
    <2> HIDE DEF f, S
    <2>1. QED
      BY <1>1, ImageFinite, Zenon
  <1>4. ASSUME NEW w \in Acked(S) PROVE TrueNext(u, w) /\ w.n = n /\ w.id = "final" /\ w.status = "sent"
    <2>1. PICK m \in S : w = [m EXCEPT !.id = "final", !.status = "sent"]
      BY <1>4 DEF Acked
    <2>2. m \in Message /\ TrueNext(u, m) /\ m.n = n
      BY OldMessages DEF Sent
    <2>3. w \in Message /\ w.n = n /\ w.id = "final" /\ w.status = "sent"
      BY <2>1, <2>2, AckedMessage
    <2>4. QED
      BY <2>2, <2>3 DEF TrueNext, Grows
  <1>5. IsFiniteSet(Acked(S))
    BY <1>2, <1>3
  <1>6. QED
    BY <1>4, <1>5

LEMMA OnSentTrue ==
    ASSUME TrueInv, Grows, NEW u \in Users, NEW e, e.n \in handed, OnSent(u, e)
    PROVE  ThreadTrue' /\ QueueTrue' /\ TrackedTrue'
  <1> DEFINE A == Acked(Sent(u, e.n))
             T == (thread[u] \ Sent(u, e.n)) \cup A
  <1>1. settleSend(u, e.n) /\ thread' = [thread EXCEPT ![u] = T] /\ Later(u, Renames(A))
    BY DEF OnSent, Acked, Renames
  <1>2. IsFiniteSet(A) /\ \A w \in A : TrueNext(u, w) /\ w.n = e.n /\ w.status = "sent"
    BY AckedNext
  <1> HIDE DEF A
  <1>3. IsFiniteSet(T) /\ \A m \in T : TrueNext(u, m)
    <2>1. IsFiniteSet(thread[u] \ Sent(u, e.n))
      BY OldMessages, SubsetFinite
    <2>2. QED
      BY <1>2, <2>1, UnionFinite, OldMessages
  <1>4. \A m \in T : m.status = "sending" => m \in thread[u] /\ m \notin Sent(u, e.n)
    BY <1>2
  <1> HIDE DEF T
  <1>5. Renames(A) \in Seq(Call) /\ \A i \in 1..Len(Renames(A)) : CallNext(u, Renames(A)[i])
    BY <1>2, RenamesNext
  <1>6. QED
    BY <1>1, <1>3, <1>4, <1>5, ThreadChanged, SettledTrue, LaterTrue

LEMMA OnFailedTrue ==
    ASSUME TrueInv, Grows, NEW u \in Users, NEW e, OnFailed(u, e)
    PROVE  ThreadTrue' /\ QueueTrue' /\ TrackedTrue'
  <1> DEFINE S == Sent(u, e.n)
             F == With(S, "failed")
             T == (thread[u] \ S) \cup F
  <1>1. settleSend(u, e.n) /\ Change(u, S, F) /\ thread' = [thread EXCEPT ![u] = T]
    BY DEF OnFailed, Change
  <1>2. IsFiniteSet(F) /\ \A w \in F : TrueNext(u, w) /\ w.status = "failed"
    <2>1. S \in SUBSET (thread[u] \cup snapshot[u]) /\ "failed" \in Statuses
      BY DEF Sent, Statuses
    <2> HIDE DEF S
    <2>2. QED
      BY <2>1, WithTrue
  <1>3. \A m \in T : m.status = "sending" => m \in thread[u] /\ m \notin Sent(u, e.n)
    BY <1>2
  <1> HIDE DEF S, F, T
  <1>4. QED
    BY <1>1, <1>2, <1>3, ChangeTrue, SettledTrue

LEMMA OnReadTrue ==
    ASSUME TrueInv, Grows, NEW u \in Users, NEW e, e.n \in seen, OnRead(u, e)
    PROVE  ThreadTrue' /\ QueueTrue' /\ TrackedTrue'
  <1> DEFINE S == Named(u, e)
             F == With(S, "read")
             T == (thread[u] \ S) \cup F
  <1>1. UNCHANGED tracked /\ Change(u, S, F) /\ thread' = [thread EXCEPT ![u] = T]
    BY DEF OnRead, Change
  <1>2. IsFiniteSet(F) /\ \A w \in F : TrueNext(u, w) /\ w.status = "read"
    <2>1. S \in SUBSET (thread[u] \cup snapshot[u]) /\ "read" \in Statuses
      BY DEF Named, Statuses
    <2>2. \A m \in S : m.n \in seen
      BY DEF Named, Key
    <2> HIDE DEF S
    <2>3. QED
      BY <2>1, <2>2, WithTrue
  <1>3. \A m \in T : m.status = "sending" => \E x \in thread[u] : x.n = m.n /\ x.status = "sending"
    BY <1>2
  <1> HIDE DEF S, F, T
  <1>4. QED
    BY <1>1, <1>2, <1>3, ChangeTrue, SameTracking

LEMMA ReceiveTrue ==
    ASSUME TrueInv, NEW u \in Users, Receive(u)
    PROVE  TrueInv'
  <1> DEFINE e == Head(inbox[u])
  <1>1. /\ inbox[u] # <<>> /\ inbox' = [inbox EXCEPT ![u] = Tail(inbox[u])]
        /\ UNCHANGED <<up, flights, author, encrypting, stage, snapshot, rows, cuts, history>>
    BY DEF Receive
  <1>2. Grows
    BY <1>1, Standstill DEF history
  <1>3. TrueEvent(e)
    BY <1>1, HeadEvent
  <1>4. InboxTrue'
    <2>1. inbox' \in [Users -> Seq(Event)] /\ inbox'[u] = Tail(inbox[u])
          /\ \A v \in Users \ {u} : inbox'[v] = inbox[v]
      BY <1>1, HeadEvent DEF TrueInv, InboxTrue
    <2>2. ASSUME NEW v \in Users, NEW i \in 1..Len(inbox'[v]) PROVE TrueEvent(inbox'[v][i])
      <3>1. CASE v = u
        BY <1>1, <2>1, <2>2, <3>1, HeadEvent DEF TrueInv, InboxTrue
      <3>2. CASE v # u
        BY <2>1, <2>2, <3>2 DEF TrueInv, InboxTrue
      <3>3. QED
        BY <3>1, <3>2
    <2>3. QED
      BY <1>1, <2>1, <2>2 DEF InboxTrue, TrueEvent, history
  <1>5. RestTyped'
    BY <1>1, <1>2, RestKept DEF history
  <1> HIDE DEF e
  <1>6. ASSUME ThreadTrue', QueueTrue', TrackedTrue', UNCHANGED arriving PROVE TrueInv'
    BY <1>1, <1>2, <1>4, <1>5, <1>6, PartsKept DEF TrueInv
  <1>7. CASE e.kind = "sent" /\ OnSent(u, e)
    <2>1. e.n \in handed /\ UNCHANGED arriving
      BY <1>3, <1>7 DEF TrueEvent, OnSent
    <2>2. QED
      BY <1>2, <1>6, <1>7, <2>1, OnSentTrue
  <1>8. CASE e.kind = "failed" /\ OnFailed(u, e)
    BY <1>2, <1>6, <1>8, OnFailedTrue DEF OnFailed
  <1>9. CASE e.kind = "read" /\ OnRead(u, e)
    <2>1. e.n \in seen /\ UNCHANGED arriving
      BY <1>3, <1>9 DEF TrueEvent, OnRead
    <2>2. QED
      BY <1>2, <1>6, <1>9, <2>1, OnReadTrue
  <1>10. CASE arriving' = [arriving EXCEPT ![u] = @ \cup {e}] /\ UNCHANGED <<thread, tracked, queue>>
    <2>1. ArrivingTrue'
      BY <1>1, <1>3, <1>10 DEF TrueInv, ArrivingTrue, TrueEvent, history
    <2>2. QED
      BY <1>1, <1>2, <1>4, <1>5, <1>10, <2>1, PartsKept DEF TrueInv
  <1>11. QED
    BY <1>7, <1>8, <1>9, <1>10 DEF Receive, e

LEMMA AddReceivedTrue ==
    ASSUME TrueInv, Grows, NEW u \in Users, NEW e, TrueEvent(e), e.kind = "text",
           AddReceived(u, e), UNCHANGED tracked
    PROVE  ThreadTrue' /\ QueueTrue' /\ TrackedTrue'
  <1>1. CASE UNCHANGED <<thread, queue>>
    BY <1>1, PartsKept
  <1>2. CASE Change(u, {}, {NewMessage(e.n, "final", "delivered")})
    <2> DEFINE m == NewMessage(e.n, "final", "delivered")
               T == (thread[u] \ {}) \cup {m}
    <2>1. e.n \in Nat /\ e.n \in DOMAIN author /\ e.n \in handed
      BY EventFields DEF TrueEvent
    <2>2. m \in Message /\ m.n = e.n /\ m.status = "delivered"
      BY <2>1, NewMessageFields DEF Ids, Statuses
    <2>3. Change(u, {}, {m}) /\ thread' = [thread EXCEPT ![u] = T]
      BY <1>2 DEF Change
    <2> HIDE DEF m
    <2>4. TrueNext(u, m)
      BY <2>1, <2>2 DEF TrueNext, Grows
    <2>5. \A x \in T : x.status = "sending" => \E y \in thread[u] : y.n = x.n /\ y.status = "sending"
      BY <2>2
    <2> HIDE DEF T
    <2>6. TrackedTrue'
      BY <2>3, <2>5, SameTracking
    <2>7. ThreadTrue' /\ QueueTrue'
      BY <2>3, <2>4, ChangeTrue, FS_Singleton
    <2>8. QED
      BY <2>6, <2>7
  <1>3. QED
    BY <1>1, <1>2 DEF AddReceived

LEMMA ApplyToTargetTrue ==
    ASSUME TrueInv, Grows, NEW u \in Users, NEW e, TrueEvent(e),
           ApplyToTarget(u, e), UNCHANGED tracked
    PROVE  ThreadTrue' /\ QueueTrue' /\ TrackedTrue'
  <1>1. CASE Later(u, <<[op |-> "amend", n |-> e.n, id |-> e.id]>>) /\ UNCHANGED thread
    <2> DEFINE c == [op |-> "amend", n |-> e.n, id |-> e.id]
    <2>0. e.n \in Nat /\ e.id \in {"temp", "final"}
      BY EventFields DEF TrueEvent, Ids
    <2>1. CallNext(u, c)
      BY <2>0 DEF CallNext, Call
    <2>2. Later(u, <<c>>)
      BY <1>1
    <2> HIDE DEF c
    <2>3. QED
      BY <1>1, <2>1, <2>2, OneCall, LaterTrue, PartsKept
  <1>2. CASE Change(u, Named(u, e), {[m EXCEPT !.deleted = TRUE] : m \in Named(u, e)})
    <2> DEFINE S == Named(u, e)
               f == [m \in S |-> [m EXCEPT !.deleted = TRUE]]
               D == {[m EXCEPT !.deleted = TRUE] : m \in S}
               T == (thread[u] \ S) \cup D
    <2>1. S \subseteq thread[u]
      BY DEF Named
    <2>2. D = {f[m] : m \in S}
      OBVIOUS
    <2>3. \A d \in D : \E m \in S : d = [m EXCEPT !.deleted = TRUE]
      OBVIOUS
    <2>4. Change(u, S, D) /\ thread' = [thread EXCEPT ![u] = T]
      BY <1>2 DEF Change
    <2> HIDE DEF S, f, D
    <2>5. IsFiniteSet(S)
      BY <2>1, OldMessages, SubsetFinite
    <2>6. IsFiniteSet({f[m] : m \in S})
      BY <2>5, ImageFinite, Zenon
    <2>7. IsFiniteSet(D)
      BY <2>2, <2>6
    <2>8. ASSUME NEW d \in D
          PROVE  TrueNext(u, d) /\ \E m \in S : d.n = m.n /\ d.status = m.status
      <3>1. PICK m \in S : d = [m EXCEPT !.deleted = TRUE]
        BY <2>3
      <3>2. m \in Message /\ TrueNext(u, m)
        BY <2>1, OldMessages
      <3>3. d \in Message /\ d.n = m.n /\ d.status = m.status
        BY <3>1, <3>2, DeletedMessage
      <3>4. QED
        BY <3>2, <3>3 DEF TrueNext
    <2>9. \A x \in T : x.status = "sending" => \E y \in thread[u] : y.n = x.n /\ y.status = "sending"
      BY <2>1, <2>8
    <2> HIDE DEF T
    <2>10. QED
      BY <2>4, <2>7, <2>8, <2>9, ChangeTrue, SameTracking
  <1>3. QED
    BY <1>1, <1>2 DEF ApplyToTarget

LEMMA ArrivedTrue ==
    ASSUME TrueInv, NEW u \in Users, NEW e \in arriving[u], Arrived(u, e)
    PROVE  TrueInv'
  <1>1. /\ arriving' = [arriving EXCEPT ![u] = @ \ {e}]
        /\ UNCHANGED <<relay, author, tracked, encrypting, stage, snapshot, rows, cuts, handed, seen, wiped>>
    BY DEF Arrived
  <1>2. Grows
    BY <1>1, Standstill
  <1>3. TrueEvent(e)
    BY DEF TrueInv, ArrivingTrue
  <1>4. ArrivingTrue'
    BY <1>1 DEF TrueInv, ArrivingTrue, TrueEvent
  <1>5. ThreadTrue' /\ QueueTrue' /\ TrackedTrue'
    BY <1>1, <1>2, <1>3, AddReceivedTrue, ApplyToTargetTrue DEF Arrived
  <1>6. undone' \in [Users -> SUBSET (DOMAIN author)]
    <2>1. undone \in [Users -> SUBSET (DOMAIN author)] /\ e.n \in DOMAIN author
      BY <1>3 DEF TrueInv, RestTyped, TrueEvent
    <2>2. UNCHANGED undone \/ undone' = [undone EXCEPT ![u] = @ \cup (IF e.id = "final" THEN {e.n} ELSE {})]
      BY DEF Arrived
    <2>3. QED
      BY <2>1, <2>2
  <1>7. RestTyped'
    BY <1>1, <1>6 DEF TrueInv, RestTyped, relay
  <1>8. QED
    BY <1>1, <1>2, <1>4, <1>5, <1>7, PartsKept DEF TrueInv, relay

-----------------------------------------------------------------------------
(* The database.                                                           *)

LEMMA HeadCall ==
    ASSUME TrueInv, Grows, NEW u \in Users, queue[u] # <<>>
    PROVE  /\ Head(queue[u]) = queue[u][1] /\ 1 \in 1..Len(queue[u]) /\ CallNext(u, queue[u][1])
           /\ Tail(queue[u]) \in Seq(Call) /\ Len(queue[u]) \in Nat
           /\ Len(Tail(queue[u])) = Len(queue[u]) - 1
           /\ \A i \in 1..Len(Tail(queue[u])) :
                 /\ i + 1 \in 1..Len(queue[u]) /\ Tail(queue[u])[i] = queue[u][i + 1]
                 /\ CallNext(u, Tail(queue[u])[i])
  <1>1. queue[u] \in Seq(Call) /\ \A i \in 1..Len(queue[u]) : CallNext(u, queue[u][i])
    BY OldCalls
  <1>2. QED
    BY <1>1

\* A call carried out, which asks for the calls ops in turn.
LEMMA TailTrue ==
    ASSUME TrueInv, Grows, NEW u \in Users, queue[u] # <<>>, NEW ops \in Seq(Call),
           \A i \in 1..Len(ops) : CallNext(u, ops[i]),
           queue' = [queue EXCEPT ![u] = Tail(queue[u]) \o ops]
    PROVE  QueueTrue'
  <1> DEFINE q == Tail(queue[u]) \o ops
  <1>1. q \in Seq(Call) /\ \A i \in 1..Len(q) : CallNext(u, q[i])
    BY HeadCall, CallsJoined
  <1>2. queue' = [queue EXCEPT ![u] = q]
    OBVIOUS
  <1> HIDE DEF q
  <1>3. QED
    BY <1>1, <1>2, QueueChanged

LEMMA TailOnlyTrue ==
    ASSUME TrueInv, Grows, NEW u \in Users, queue[u] # <<>>, queue' = [queue EXCEPT ![u] = Tail(queue[u])]
    PROVE  QueueTrue'
  BY HeadCall, QueueChanged

LEMMA TailAndOneTrue ==
    ASSUME TrueInv, Grows, NEW u \in Users, queue[u] # <<>>, NEW c, CallNext(u, c),
           queue' = [queue EXCEPT ![u] = Append(Tail(queue[u]), c)]
    PROVE  QueueTrue'
  <1>1. Append(Tail(queue[u]), c) = Tail(queue[u]) \o <<c>>
    BY HeadCall DEF CallNext
  <1>2. QED
    BY <1>1, OneCall, TailTrue

LEMMA RowsChanged ==
    ASSUME TrueInv, Grows, NEW u \in Users, NEW R, rows' = [rows EXCEPT ![u] = R],
           IsFiniteSet(R), \A r \in R : TrueNext(u, r)
    PROVE  RowsTrue'
  <1>1. rows' \in [Users -> SUBSET Message] /\ rows'[u] = R
        /\ \A v \in Users \ {u} : rows'[v] = rows[v]
    BY DEF TrueInv, RowsTrue, TrueNext
  <1>2. ASSUME NEW v \in Users PROVE TrueMessages(v, rows[v])'
    <2>1. CASE v = u
      BY <1>1, <2>1 DEF TrueMessages, TrueMessage, TrueNext
    <2>2. CASE v # u
      BY <1>1, <2>2, StaysTrue DEF TrueInv, RowsTrue, TrueMessages, TrueMessage, TrueNext
    <2>3. QED
      BY <2>1, <2>2
  <1>3. QED
    BY <1>1, <1>2 DEF RowsTrue

LEMMA SnapshotChanged ==
    ASSUME TrueInv, Grows, NEW u \in Users, NEW R, snapshot' = [snapshot EXCEPT ![u] = R],
           IsFiniteSet(R), \A r \in R : TrueNext(u, r)
    PROVE  SnapshotTrue'
  <1>1. snapshot' \in [Users -> SUBSET Message] /\ snapshot'[u] = R
        /\ \A v \in Users \ {u} : snapshot'[v] = snapshot[v]
    BY DEF TrueInv, SnapshotTrue, TrueNext
  <1>2. ASSUME NEW v \in Users PROVE TrueMessages(v, snapshot[v])'
    <2>1. CASE v = u
      BY <1>1, <2>1 DEF TrueMessages, TrueMessage, TrueNext
    <2>2. CASE v # u
      BY <1>1, <2>2, StaysTrue DEF TrueInv, SnapshotTrue, TrueMessages, TrueMessage, TrueNext
    <2>3. QED
      BY <2>1, <2>2
  <1>3. QED
    BY <1>1, <1>2 DEF SnapshotTrue

LEMMA WriteTrue ==
    ASSUME TrueInv, Grows, NEW u \in Users, queue[u] # <<>>, NEW c, CallNext(u, c),
           c.op \in {"save", "remove", "clear"}, Write(u, c)
    PROVE  RowsTrue' /\ QueueTrue'
  <1> DEFINE R == CASE c.op = "save" -> Put(rows[u], c.row)
                    [] c.op = "remove" -> {r \in rows[u] : Key(r) # Key(c.row)}
                    [] c.op = "clear" -> {}
  <1>1. rows' = [rows EXCEPT ![u] = R] /\ queue' = [queue EXCEPT ![u] = Tail(queue[u])]
    BY DEF Write
  <1>2. IsFiniteSet(R) /\ \A r \in R : TrueNext(u, r)
    <2>1. CASE c.op = "save"
      <3>1. R = {x \in rows[u] : Key(x) # Key(c.row)} \cup {c.row}
        BY <2>1 DEF Put
      <3>2. IsFiniteSet({x \in rows[u] : Key(x) # Key(c.row)}) /\ IsFiniteSet({c.row})
        BY OldMessages, SubsetFinite, FS_Singleton
      <3>3. TrueNext(u, c.row)
        BY <2>1 DEF CallNext
      <3> HIDE DEF R
      <3>4. IsFiniteSet(R)
        BY <3>1, <3>2, UnionFinite
      <3>5. QED
        BY <3>1, <3>3, <3>4, OldMessages
    <2>2. CASE c.op = "remove"
      <3>1. R = {r \in rows[u] : Key(r) # Key(c.row)}
        BY <2>2
      <3> HIDE DEF R
      <3>2. QED
        BY <3>1, OldMessages, SubsetFinite
    <2>3. CASE c.op = "clear"
      BY <2>3, FS_EmptySet
    <2>4. QED
      BY <2>1, <2>2, <2>3
  <1> HIDE DEF R
  <1>3. QED
    BY <1>1, <1>2, RowsChanged, TailOnlyTrue

\* What renaming the row of m.n makes of a row.
Renamed(m, r) == IF Key(r) = <<m.n, "temp">> THEN [r EXCEPT !.id = m.id] ELSE r

LEMMA RenamedFields ==
    ASSUME NEW m \in Message, NEW r \in Message
    PROVE  /\ Renamed(m, r) \in Message /\ Renamed(m, r).n = r.n /\ Renamed(m, r).status = r.status
           /\ Key(r) # <<m.n, "temp">> => Renamed(m, r) = r
           /\ Key(r) = <<m.n, "temp">> => Renamed(m, r).id = m.id
  BY DEF Renamed, Message

LEMMA RenameTrue ==
    ASSUME TrueInv, Grows, NEW u \in Users, queue[u] # <<>>, NEW m, TrueNext(u, m), Rename(u, m)
    PROVE  RowsTrue' /\ QueueTrue'
  <1> DEFINE f == [r \in rows[u] |-> Renamed(m, r)]
             R == {Renamed(m, r) : r \in rows[u]}
             c == [op |-> "save", row |-> m]
  <1>1. rows' = [rows EXCEPT ![u] = R] /\ queue' = [queue EXCEPT ![u] = Append(Tail(queue[u]), c)]
    BY DEF Rename, Renamed
  <1>2. m \in Message
    BY DEF TrueNext
  <1>3. CallNext(u, c)
    BY <1>2, SaveCall DEF CallNext
  <1>4. R = {f[r] : r \in rows[u]} /\ \A x \in R : \E r \in rows[u] : x = Renamed(m, r)
    OBVIOUS
  <1> HIDE DEF f, R, c
  <1>5. IsFiniteSet(R)
    <2>1. IsFiniteSet({f[r] : r \in rows[u]})
      BY OldMessages, ImageFinite, Zenon
    <2>2. QED
      BY <1>4, <2>1
  <1>6. ASSUME NEW x \in R PROVE TrueNext(u, x)
    <2>1. PICK r \in rows[u] : x = Renamed(m, r)
      BY <1>4
    <2>2. r \in Message /\ TrueNext(u, r)
      BY OldMessages
    <2>3. x \in Message /\ x.n = r.n /\ x.status = r.status
      BY <1>2, <2>1, <2>2, RenamedFields
    <2>4. QED
      BY <2>2, <2>3 DEF TrueNext
  <1>7. QED
    BY <1>1, <1>3, <1>5, <1>6, RowsChanged, TailAndOneTrue

LEMMA AmendTrue ==
    ASSUME TrueInv, Grows, NEW u \in Users, queue[u] # <<>>, NEW c, Amend(u, c)
    PROVE  QueueTrue'
  <1> DEFINE S == {x \in rows[u] : Key(x) = Key(c)}
             f == [r \in S |-> [r EXCEPT !.deleted = TRUE]]
             D == {[r EXCEPT !.deleted = TRUE] : r \in S}
  <1>1. queue' = [queue EXCEPT ![u] = Tail(queue[u]) \o Saves(D)]
    BY DEF Amend
  <1>2. D = {f[r] : r \in S} /\ \A d \in D : \E r \in S : d = [r EXCEPT !.deleted = TRUE]
    OBVIOUS
  <1>3. S \subseteq rows[u]
    OBVIOUS
  <1> HIDE DEF S, f, D
  <1>4. IsFiniteSet(S)
    BY <1>3, OldMessages, SubsetFinite
  <1>5. IsFiniteSet({f[r] : r \in S})
    BY <1>4, ImageFinite, Zenon
  <1>6. IsFiniteSet(D)
    BY <1>2, <1>5
  <1>7. ASSUME NEW d \in D PROVE TrueNext(u, d)
    <2>1. PICK r \in S : d = [r EXCEPT !.deleted = TRUE]
      BY <1>2
    <2>2. r \in Message /\ TrueNext(u, r)
      BY <1>3, OldMessages
    <2>3. d \in Message /\ d.n = r.n /\ d.status = r.status
      BY <2>1, <2>2, DeletedMessage
    <2>4. QED
      BY <2>2, <2>3 DEF TrueNext
  <1>8. Saves(D) \in Seq(Call) /\ \A i \in 1..Len(Saves(D)) : CallNext(u, Saves(D)[i])
    BY <1>6, <1>7, SavesNext
  <1>9. QED
    BY <1>1, <1>8, TailTrue

LEMMA LoadTrue ==
    ASSUME TrueInv, Grows, NEW u \in Users, queue[u] # <<>>, NEW c, Load(u, c)
    PROVE  SnapshotTrue' /\ QueueTrue' /\ stage' \in [Users -> {"pinned", "rows", "read", "done"}]
  <1>1. CASE c.op = "pinned"
    <2>1. /\ queue' = [queue EXCEPT ![u] = Append(Tail(queue[u]), [op |-> "load"])]
          /\ stage' = [stage EXCEPT ![u] = "rows"] /\ snapshot' = [snapshot EXCEPT ![u] = snapshot[u]]
      BY <1>1 DEF Load
    <2>2. CallNext(u, [op |-> "load"])
      BY DEF CallNext, Call
    <2>3. SnapshotTrue'
      BY <2>1, OldMessages, SnapshotChanged
    <2>4. QueueTrue'
      BY <2>1, <2>2, TailAndOneTrue
    <2>5. QED
      BY <2>1, <2>3, <2>4 DEF TrueInv, RestTyped
  <1>2. CASE c.op # "pinned"
    <2>1. /\ queue' = [queue EXCEPT ![u] = Tail(queue[u])]
          /\ stage' = [stage EXCEPT ![u] = "read"] /\ snapshot' = [snapshot EXCEPT ![u] = rows[u]]
      BY <1>2 DEF Load
    <2>2. SnapshotTrue'
      BY <2>1, OldMessages, SnapshotChanged
    <2>3. QueueTrue'
      BY <2>1, TailOnlyTrue
    <2>4. QED
      BY <2>1, <2>2, <2>3 DEF TrueInv, RestTyped
  <1>3. QED
    BY <1>1, <1>2

LEMMA CarryOutTrue ==
    ASSUME TrueInv, NEW u \in Users, CarryOut(u)
    PROVE  TrueInv'
  <1> DEFINE c == Head(queue[u])
  <1>1. queue[u] # <<>> /\ UNCHANGED <<relay, author, store, cuts, history>>
    BY DEF CarryOut
  <1>2. Grows
    BY <1>1, Standstill DEF history
  <1>3. CallNext(u, c)
    BY <1>1, <1>2, HeadCall
  <1> HIDE DEF c
  <1>4. CASE c.op \in {"save", "remove", "clear"} /\ Write(u, c)
    <2>1. RowsTrue' /\ QueueTrue' /\ UNCHANGED <<stage, snapshot>>
      BY <1>1, <1>2, <1>3, <1>4, WriteTrue DEF Write
    <2>2. QED
      BY <1>1, <1>2, <2>1, PartsKept, RestKept DEF TrueInv, relay, store, history
  <1>5. CASE c.op = "rename" /\ Rename(u, c.row)
    <2>1. TrueNext(u, c.row)
      BY <1>3, <1>5 DEF CallNext
    <2>2. RowsTrue' /\ QueueTrue' /\ UNCHANGED <<stage, snapshot>>
      BY <1>1, <1>2, <1>5, <2>1, RenameTrue DEF Rename
    <2>3. QED
      BY <1>1, <1>2, <2>2, PartsKept, RestKept DEF TrueInv, relay, store, history
  <1>6. CASE c.op = "amend" /\ Amend(u, c)
    <2>1. QueueTrue' /\ UNCHANGED <<stage, snapshot, rows>>
      BY <1>1, <1>2, <1>6, AmendTrue DEF Amend
    <2>2. QED
      BY <1>1, <1>2, <2>1, PartsKept, RestKept DEF TrueInv, relay, store, history
  <1>7. CASE c.op \in {"pinned", "load"} /\ Load(u, c)
    <2>1. /\ SnapshotTrue' /\ QueueTrue' /\ stage' \in [Users -> {"pinned", "rows", "read", "done"}]
          /\ UNCHANGED rows
      BY <1>1, <1>2, <1>7, LoadTrue DEF Load
    <2>2. RestTyped'
      BY <1>1, <2>1 DEF TrueInv, RestTyped, relay, history
    <2>3. QED
      BY <1>1, <1>2, <2>1, <2>2, PartsKept DEF TrueInv, relay, store, history
  <1>8. QED
    BY <1>4, <1>5, <1>6, <1>7 DEF CarryOut, c

LEMMA HydrateTrue ==
    ASSUME TrueInv, NEW u \in Users, Hydrate(u)
    PROVE  TrueInv'
  <1> DEFINE I == Interrupted(u)
             F == With(I, "failed")
             M == (snapshot[u] \ I) \cup F
             L == {m \in thread[u] : Key(m) \notin Keys(M)}
             T == M \cup L
  <1>1. /\ stage' = [stage EXCEPT ![u] = "done"] /\ snapshot' = [snapshot EXCEPT ![u] = {}]
        /\ thread' = [thread EXCEPT ![u] = T] /\ Later(u, Saves(F))
        /\ UNCHANGED <<relay, author, tracked, encrypting, arriving, rows, cuts, history>>
    BY DEF Hydrate, Merge
  <1>2. Grows
    BY <1>1, Standstill DEF history
  <1>3. I \subseteq snapshot[u]
    BY DEF Interrupted
  <1>4. \A m \in snapshot[u] \ I : m.status = "sending" => author[m.n] = u /\ m.n \in tracked[u]
    BY DEF Interrupted
  <1> HIDE DEF I
  <1>5. IsFiniteSet(F) /\ \A w \in F : TrueNext(u, w) /\ w.status = "failed"
    BY <1>2, <1>3, WithTrue DEF Statuses
  <1> HIDE DEF F
  <1>6. IsFiniteSet(M) /\ \A m \in M : TrueNext(u, m)
    <2>1. IsFiniteSet(snapshot[u] \ I)
      BY <1>2, OldMessages, SubsetFinite
    <2>2. QED
      BY <1>2, <1>5, <2>1, UnionFinite, OldMessages
  <1>7. \A m \in M : m.status = "sending" => author[m.n] = u /\ m.n \in tracked[u]
    BY <1>4, <1>5
  <1> HIDE DEF M
  <1>8. IsFiniteSet(T) /\ \A m \in T : TrueNext(u, m)
    <2>1. IsFiniteSet(L)
      BY <1>2, OldMessages, SubsetFinite
    <2>2. QED
      BY <1>2, <1>6, <2>1, UnionFinite, OldMessages
  <1>9. \A m \in T : m.status = "sending" => author'[m.n] = u /\ m.n \in tracked[u]
    BY <1>1, <1>2, <1>7, OldTracking
  <1> HIDE DEF T, L
  <1>10. ThreadTrue'
    BY <1>1, <1>2, <1>8, ThreadChanged
  <1>11. TrackedTrue'
    <2>1. tracked' = tracked /\ tracked \in [Users -> SUBSET (DOMAIN author)]
      BY <1>1 DEF TrueInv, TrackedTrue
    <2>2. tracked' = [tracked EXCEPT ![u] = tracked[u]]
      BY <2>1
    <2>3. tracked[u] \in SUBSET (DOMAIN author')
      BY <1>2, OldTracking
    <2>4. thread' = [thread EXCEPT ![u] = T]
      BY <1>1
    <2>5. \E K \in SUBSET (DOMAIN author') : tracked' = [tracked EXCEPT ![u] = K] /\ K = tracked[u]
      BY <2>2, <2>3
    <2>6. PICK K \in SUBSET (DOMAIN author') : tracked' = [tracked EXCEPT ![u] = K] /\ K = tracked[u]
      BY <2>5
    <2>7. \A m \in T : m.status = "sending" => author'[m.n] = u /\ m.n \in K
      BY <1>9, <2>6
    <2>8. QED
      BY <1>2, <2>4, <2>6, <2>7, TrackingChanged
  <1>12. QueueTrue'
    BY <1>1, <1>2, <1>5, SavesNext, LaterTrue
  <1>13. SnapshotTrue'
    BY <1>1, <1>2, SnapshotChanged, FS_EmptySet
  <1>14. RestTyped'
    BY <1>1 DEF TrueInv, RestTyped, relay, history
  <1>15. QED
    BY <1>1, <1>2, <1>10, <1>11, <1>12, <1>13, <1>14, PartsKept DEF TrueInv, relay

-----------------------------------------------------------------------------
(* Faults.                                                                 *)

LEMMA ConnectTrue ==
    ASSUME TrueInv, NEW u \in Users, Connect(u)
    PROVE  TrueInv'
  <1>1. up' = up \cup {u} /\ UNCHANGED <<flights, inbox, author, store, disk, cuts, history>>
    BY DEF Connect
  <1>2. Grows
    BY <1>1, Standstill DEF history
  <1>3. RestTyped'
    BY <1>1 DEF TrueInv, RestTyped, disk, history
  <1>4. QED
    BY <1>1, <1>2, <1>3, PartsKept DEF TrueInv, store, disk

Unanswered(u, f) == IF f.from = u THEN [f EXCEPT !.answer = FALSE] ELSE f

LEMMA UnansweredFields ==
    ASSUME NEW f \in Flight, NEW u
    PROVE  LET g == Unanswered(u, f) IN
           g \in Flight /\ g.kind = f.kind /\ g.n = f.n /\ g.id = f.id /\ g.from = f.from
  BY DEF Unanswered, Flight

LEMMA OfflineTrue ==
    ASSUME TrueInv, Grows, NEW u \in Users, Offline(u)
    PROVE  FlightsTrue' /\ InboxTrue' /\ up' \subseteq Users /\ cuts' \in Nat
  <1>1. flights' = {Unanswered(u, f) : f \in flights}
    BY DEF Offline, Unanswered
  <1>2. ASSUME NEW g \in flights'
        PROVE  g \in Flight /\ g.n \in DOMAIN author' /\ (g.kind = "read" => g.n \in seen')
    <2>1. PICK f \in flights : g = Unanswered(u, f)
      BY <1>1, <1>2
    <2>2. f \in Flight /\ f.n \in DOMAIN author /\ (f.kind = "read" => f.n \in seen)
      BY DEF TrueInv, FlightsTrue
    <2>3. g \in Flight /\ g.kind = f.kind /\ g.n = f.n
      BY <2>1, <2>2, UnansweredFields
    <2>4. QED
      BY <2>2, <2>3 DEF Grows
  <1>3. FlightsTrue'
    BY <1>2 DEF FlightsTrue
  <1>4. InboxTrue'
    <2>1. inbox' = [inbox EXCEPT ![u] = <<>>]
      BY DEF Offline
    <2>2. inbox' \in [Users -> Seq(Event)] /\ inbox'[u] = <<>>
          /\ \A v \in Users \ {u} : inbox'[v] = inbox[v]
      BY <2>1 DEF TrueInv, InboxTrue
    <2>3. ASSUME NEW v \in Users, NEW i \in 1..Len(inbox'[v]) PROVE TrueEvent(inbox[v][i])'
      <3>1. v # u
        BY <2>2
      <3>2. inbox'[v] = inbox[v] /\ TrueEvent(inbox[v][i])
        BY <2>2, <3>1 DEF TrueInv, InboxTrue
      <3>3. QED
        BY <3>2 DEF TrueEvent, Grows
    <2>4. QED
      BY <2>2, <2>3 DEF InboxTrue
  <1>5. QED
    BY <1>3, <1>4 DEF Offline, TrueInv, RestTyped

LEMMA DisconnectTrue ==
    ASSUME TrueInv, NEW u \in Users, Disconnect(u)
    PROVE  TrueInv'
  <1>1. /\ Offline(u) /\ tracked' = [tracked EXCEPT ![u] = {}] /\ failIfStillSending(u, tracked[u])
        /\ UNCHANGED <<author, encrypting, arriving, stage, snapshot, rows, history>>
    BY DEF Disconnect
  <1>2. Grows
    BY <1>1, Standstill DEF history
  <1>3. FlightsTrue' /\ InboxTrue' /\ up' \subseteq Users /\ cuts' \in Nat
    BY <1>1, <1>2, OfflineTrue
  <1>4. ThreadTrue' /\ QueueTrue' /\ TrackedTrue'
    <2>1. {} \in SUBSET (DOMAIN author') /\ tracked[u] \subseteq {} \cup tracked[u]
      OBVIOUS
    <2>2. QED
      BY <1>1, <1>2, <2>1, FailTrue
  <1>5. RestTyped'
    BY <1>1, <1>3 DEF TrueInv, RestTyped, history
  <1>6. QED
    BY <1>1, <1>2, <1>3, <1>4, <1>5, PartsKept DEF TrueInv

LEMMA KillTrue ==
    ASSUME TrueInv, NEW u \in Users, Kill(u)
    PROVE  TrueInv'
  <1>1. /\ Offline(u) /\ thread' = [thread EXCEPT ![u] = {}] /\ tracked' = [tracked EXCEPT ![u] = {}]
        /\ encrypting' = [encrypting EXCEPT ![u] = {}] /\ arriving' = [arriving EXCEPT ![u] = {}]
        /\ stage' = [stage EXCEPT ![u] = "pinned"] /\ snapshot' = [snapshot EXCEPT ![u] = {}]
        /\ queue' = [queue EXCEPT ![u] = Launched] /\ UNCHANGED <<author, rows, history>>
    BY DEF Kill
  <1>2. Grows
    BY <1>1, Standstill DEF history
  <1>3. FlightsTrue' /\ InboxTrue' /\ up' \subseteq Users /\ cuts' \in Nat
    BY <1>1, <1>2, OfflineTrue
  <1>4. ThreadTrue' /\ SnapshotTrue'
    BY <1>1, <1>2, ThreadChanged, SnapshotChanged, FS_EmptySet
  <1>5. TrackedTrue'
    <2> DEFINE T == {}
               K == {}
    <2>1. thread' = [thread EXCEPT ![u] = T] /\ tracked' = [tracked EXCEPT ![u] = K]
      BY <1>1
    <2>2. K \in SUBSET (DOMAIN author') /\ \A m \in T : m.status = "sending" => author'[m.n] = u /\ m.n \in K
      OBVIOUS
    <2> HIDE DEF T, K
    <2>3. QED
      BY <1>2, <2>1, <2>2, TrackingChanged
  <1>6. QueueTrue'
    <2>1. CallNext(u, [op |-> "pinned"])
      BY DEF CallNext, Call
    <2>2. Launched \in Seq(Call) /\ \A i \in 1..Len(Launched) : CallNext(u, Launched[i])
      BY <2>1, OneCall DEF Launched
    <2>3. QED
      BY <1>1, <1>2, <2>2, QueueChanged
  <1>7. ArrivingTrue' /\ EncryptingOwn'
    BY <1>1 DEF TrueInv, ArrivingTrue, EncryptingOwn, TrueEvent, history
  <1>8. RestTyped'
    BY <1>1, <1>3 DEF TrueInv, RestTyped, history
  <1>9. QED
    BY <1>1, <1>2, <1>3, <1>4, <1>5, <1>6, <1>7, <1>8, PartsKept DEF TrueInv

-----------------------------------------------------------------------------

LEMMA TrueInvInit == Init => TrueInv
  <1> SUFFICES ASSUME Init PROVE TrueInv
    OBVIOUS
  <1> USE DEF Init
  <1>1. AuthorTyped /\ FlightsTrue /\ InboxTrue /\ ArrivingTrue /\ EncryptingOwn /\ RestTyped
    BY DEF AuthorTyped, FlightsTrue, InboxTrue, ArrivingTrue, EncryptingOwn, RestTyped
  <1>2. ThreadTrue /\ TrackedTrue /\ RowsTrue /\ SnapshotTrue
    BY FS_EmptySet DEF ThreadTrue, TrackedTrue, RowsTrue, SnapshotTrue, TrueMessages, SendingTracked
  <1>3. QueueTrue
    <2>1. [op |-> "pinned"] \in Call
      BY DEF Call
    <2>2. QED
      BY <2>1 DEF QueueTrue, Launched, TrueCall
  <1>4. QED
    BY <1>1, <1>2, <1>3 DEF TrueInv

LEMMA TrueInvStep == TrueInv /\ [Next]_vars => TrueInv'
  <1> SUFFICES ASSUME TrueInv, [Next]_vars PROVE TrueInv'
    OBVIOUS
  <1>1. ASSUME NEW u \in Users, User(u) PROVE TrueInv'
    BY <1>1, SendTextTrue, ClearThreadTrue, DiscardTrue, RetryTrue, MarkReadTrue, DeleteTrue DEF User
  <1>2. ASSUME NEW u \in Users, Store(u) PROVE TrueInv'
    BY <1>2, EncryptedTrue, SendTimeoutTrue, ReceiveTrue, ArrivedTrue, CarryOutTrue, HydrateTrue DEF Store
  <1>3. CASE UNCHANGED vars
    <2>1. UNCHANGED <<up, flights, inbox, author, thread, tracked, encrypting, arriving, stage,
                      snapshot, queue, rows, cuts, handed, seen, wiped, undone>>
      BY <1>3 DEF vars, relay, store, disk, history
    <2>2. Grows
      BY <2>1, Standstill
    <2>3. QED
      BY <2>1, <2>2, PartsKept, RestKept DEF TrueInv
  <1>4. QED
    BY <1>1, <1>2, <1>3, ConnectTrue, DisconnectTrue, KillTrue, RelayTrue DEF Next

\* The first invariant holds in every behaviour.
LEMMA SpecTrueInv == Spec => []TrueInv
  BY TrueInvInit, TrueInvStep, PTL DEF Spec

\* Everything the two devices and the relay hold keeps its shape.
THEOREM TypeCorrect == Spec => []TypeOK
  <1>1. TrueInv => TypeOK
    BY DEF TrueInv, AuthorTyped, FlightsTrue, InboxTrue, ArrivingTrue, EncryptingOwn, ThreadTrue,
           TrackedTrue, RowsTrue, SnapshotTrue, QueueTrue, RestTyped, TypeOK
  <1>2. QED
    BY <1>1, SpecTrueInv, PTL

\* A message shown as sending is its writer's and has its timer running, whichever answers,
\* failures, restarts and reloads come in between.
THEOREM SendingsTracked == Spec => []SendingTracked
  <1>1. TrueInv => SendingTracked
    BY DEF TrueInv, TrackedTrue
  <1>2. QED
    BY <1>1, SpecTrueInv, PTL

\* A tick is true: what is shown as sent was handed to the other's device, and what is
\* shown as read was seen there.
THEOREM TicksAreTrue == Spec => []TicksTrue
  <1>1. TrueInv => TicksTrue
    BY DEF TrueInv, ThreadTrue, RowsTrue, TrueMessages, TrueMessage, TicksTrue
  <1>2. QED
    BY <1>1, SpecTrueInv, PTL

-----------------------------------------------------------------------------
(* The ids of the messages: no bubble twice, no acknowledged message failed. *)

Final(n) == <<n, "final">>
UniqueKeys(M) == \A m1, m2 \in M : Key(m1) = Key(m2) => m1 = m2

\* A message under its temporary id is the writer's own, and has not been acknowledged.
Unsent(u, m) == m.id = "temp" => author[m.n] = u /\ m.status \in {"sending", "failed"}

\* Message n is pending while it is encrypted, on its way to the relay, or its answer is
\* on its way back: one after the other.
IsAnswer(e) == e.kind \in {"sent", "failed"}
Answered(u, n) == \E i \in 1..Len(inbox[u]) : IsAnswer(inbox[u][i]) /\ inbox[u][i].n = n
InFlight(n) == \E f \in flights : f.kind = "text" /\ f.n = n
Pending(u, n) == n \in encrypting[u] \/ InFlight(n) \/ Answered(u, n)

FlightsOwn ==
    \A f \in flights :
        /\ f.kind = "text" =>
            /\ f.from = author[f.n] /\ f.id = "final"
            /\ f.n \notin encrypting[f.from] /\ ~Answered(f.from, f.n)
            /\ \A g \in flights : g.kind = "text" /\ g.n = f.n => g = f
        /\ f.kind = "read" => f.id = "final"
\* An event on u's device: a text is the other's, an answer is about a message of u.
OwnEvent(u, e) ==
    /\ e.kind = "text" => author[e.n] # u
    /\ e.kind \in {"text", "read"} => e.id = "final"
AnswersOwn ==
    \A u \in Users : \A i \in 1..Len(inbox[u]) :
        /\ OwnEvent(u, inbox[u][i])
        /\ IsAnswer(inbox[u][i]) =>
            /\ author[inbox[u][i].n] = u /\ inbox[u][i].n \notin encrypting[u]
            /\ \A j \in 1..Len(inbox[u]) : IsAnswer(inbox[u][j]) /\ inbox[u][j].n = inbox[u][i].n => j = i
ArrivingOthers == \A u \in Users : \A e \in arriving[u] : OwnEvent(u, e)
RelayKeys == FlightsOwn /\ AnswersOwn /\ ArrivingOthers

\* The row of message n gets its final id before anything else is saved under it.
Adds(c) == c.op \in {"save", "rename"}
RenamesFirst(R, q) ==
    \A i \in 1..Len(q) : q[i].op = "rename" =>
        /\ q[i].row.id = "final" /\ Key(q[i].row) \notin Keys(R)
        /\ \A j \in 1..(i - 1) : Adds(q[j]) => Key(q[j].row) # Key(q[i].row)

DeviceKeys(u) ==
    /\ UniqueKeys(thread[u]) /\ UniqueKeys(rows[u]) /\ UniqueKeys(snapshot[u])
    /\ \A m \in thread[u] \cup rows[u] \cup snapshot[u] : Unsent(u, m)
    /\ \A i \in 1..Len(queue[u]) : Adds(queue[u][i]) => Unsent(u, queue[u][i].row)
    /\ RenamesFirst(rows[u], queue[u])

AddsKey(q, k) == \E i \in 1..Len(q) : Adds(q[i]) /\ Key(q[i].row) = k
HasFinal(u, n) ==
    \/ Final(n) \in Keys(thread[u]) \/ Final(n) \in Keys(rows[u]) \/ Final(n) \in Keys(snapshot[u])
    \/ AddsKey(queue[u], Final(n))
PendingNotFinal(u) == \A n \in DOMAIN author : author[n] = u /\ Pending(u, n) => ~HasFinal(u, n)

KeysInv == RelayKeys /\ \A u \in Users : DeviceKeys(u) /\ PendingNotFinal(u)

-----------------------------------------------------------------------------
(* Queues and sets of messages.                                            *)

LEMMA CallRow ==
    ASSUME NEW c \in Call
    PROVE  Adds(c) => c.row \in Message
  BY CallFields DEF Adds

LEMMA JoinedCalls ==
    ASSUME NEW p \in Seq(Call), NEW q \in Seq(Call)
    PROVE  /\ Len(p) \in Nat /\ Len(q) \in Nat /\ Len(p \o q) = Len(p) + Len(q)
           /\ \A i \in 1..Len(p \o q) :
                 \/ i \in 1..Len(p) /\ (p \o q)[i] = p[i]
                 \/ i \notin 1..Len(p) /\ i - Len(p) \in 1..Len(q) /\ (p \o q)[i] = q[i - Len(p)]
  <1>1. /\ p \o q \in Seq(Call) /\ Len(p \o q) = Len(p) + Len(q)
        /\ \A i \in 1..Len(p) + Len(q) : (p \o q)[i] = IF i <= Len(p) THEN p[i] ELSE q[i - Len(p)]
    BY ConcatProperties
  <1>2. Len(p) \in Nat /\ Len(q) \in Nat
    BY LenProperties
  <1>3. ASSUME NEW i \in 1..Len(p \o q)
        PROVE  \/ i \in 1..Len(p) /\ (p \o q)[i] = p[i]
               \/ i \notin 1..Len(p) /\ i - Len(p) \in 1..Len(q) /\ (p \o q)[i] = q[i - Len(p)]
    <2>1. CASE i <= Len(p)
      BY <1>1, <1>2, <2>1
    <2>2. CASE i > Len(p)
      <3>1. i - Len(p) \in 1..Len(q) /\ i \notin 1..Len(p)
        BY <1>1, <1>2, <2>2
      <3>2. (p \o q)[i] = q[i - Len(p)]
        BY <1>1, <1>2, <2>2
      <3>3. QED
        BY <3>1, <3>2
    <2>3. QED
      BY <1>1, <1>2, <2>1, <2>2
  <1>4. QED
    BY <1>1, <1>2, <1>3

LEMMA JoinAdds ==
    ASSUME NEW p \in Seq(Call), NEW q \in Seq(Call), NEW k
    PROVE  AddsKey(p \o q, k) => AddsKey(p, k) \/ AddsKey(q, k)
  BY JoinedCalls DEF AddsKey

\* Calls without a rename can be asked for at any time.
LEMMA JoinRenamesFirst ==
    ASSUME NEW R, NEW p \in Seq(Call), NEW q \in Seq(Call), RenamesFirst(R, p),
           \A i \in 1..Len(q) : q[i].op # "rename"
    PROVE  RenamesFirst(R, p \o q)
  <1> DEFINE s == p \o q
  <1>1. /\ Len(p) \in Nat
        /\ \A i \in 1..Len(s) : \/ i \in 1..Len(p) /\ s[i] = p[i]
                                \/ \E j \in 1..Len(q) : s[i] = q[j]
        /\ \A i \in 1..Len(p) : s[i] = p[i]
        /\ Len(s) \in Nat
    <2>1. /\ Len(p) \in Nat /\ Len(q) \in Nat /\ Len(s) = Len(p) + Len(q)
          /\ \A i \in 1..Len(s) :
                 \/ i \in 1..Len(p) /\ s[i] = p[i]
                 \/ i \notin 1..Len(p) /\ i - Len(p) \in 1..Len(q) /\ s[i] = q[i - Len(p)]
      BY JoinedCalls
    <2> HIDE DEF s
    <2>2. \A i \in 1..Len(p) : i \in 1..Len(s)
      BY <2>1
    <2>3. QED
      BY <2>1, <2>2
  <1> HIDE DEF s
  <1>2. ASSUME NEW i \in 1..Len(s), s[i].op = "rename"
        PROVE  /\ s[i].row.id = "final" /\ Key(s[i].row) \notin Keys(R)
               /\ \A j \in 1..(i - 1) : Adds(s[j]) => Key(s[j].row) # Key(s[i].row)
    <2>1. i \in 1..Len(p) /\ s[i] = p[i]
      BY <1>1, <1>2
    <2>2. \A j \in 1..(i - 1) : j \in 1..Len(p) /\ s[j] = p[j]
      BY <1>1, <2>1
    <2>3. QED
      BY <1>2, <2>1, <2>2 DEF RenamesFirst
  <1>3. RenamesFirst(R, s)
    BY <1>2 DEF RenamesFirst
  <1>4. QED
    BY <1>3 DEF s

\* A rename can be asked for while nothing has its new id.
LEMMA JoinRename ==
    ASSUME NEW R, NEW p \in Seq(Call), NEW c \in Call, RenamesFirst(R, p),
           c.row.id = "final", Key(c.row) \notin Keys(R), ~AddsKey(p, Key(c.row))
    PROVE  RenamesFirst(R, p \o <<c>>)
  <1> DEFINE s == p \o <<c>>
  <1>1. /\ Len(p) \in Nat /\ Len(s) = Len(p) + 1
        /\ \A i \in 1..Len(p) : s[i] = p[i]
        /\ s[Len(p) + 1] = c
    OBVIOUS
  <1> HIDE DEF s
  <1>2. ASSUME NEW i \in 1..Len(s), s[i].op = "rename"
        PROVE  /\ s[i].row.id = "final" /\ Key(s[i].row) \notin Keys(R)
               /\ \A j \in 1..(i - 1) : Adds(s[j]) => Key(s[j].row) # Key(s[i].row)
    <2>1. \A j \in 1..(i - 1) : j \in 1..Len(p) /\ s[j] = p[j]
      BY <1>1
    <2>2. CASE i \in 1..Len(p)
      <3>1. s[i] = p[i]
        BY <1>1, <2>2
      <3>2. QED
        BY <1>2, <2>1, <2>2, <3>1 DEF RenamesFirst
    <2>3. CASE i \notin 1..Len(p)
      <3>1. i = Len(p) + 1
        BY <1>1, <2>3
      <3>2. s[i] = c
        BY <1>1, <3>1
      <3>3. QED
        BY <2>1, <3>2 DEF AddsKey
    <2>4. QED
      BY <2>2, <2>3
  <1>3. RenamesFirst(R, s)
    BY <1>2 DEF RenamesFirst
  <1>4. QED
    BY <1>3 DEF s

LEMMA TailCalls ==
    ASSUME NEW p \in Seq(Call), p # <<>>
    PROVE  /\ Len(p) \in Nat /\ 1 \in 1..Len(p) /\ Head(p) = p[1] /\ p[1] \in Call
           /\ Tail(p) \in Seq(Call) /\ Len(Tail(p)) = Len(p) - 1
           /\ \A i \in 1..Len(Tail(p)) : i + 1 \in 1..Len(p) /\ Tail(p)[i] = p[i + 1]
  OBVIOUS

LEMMA TailAdds ==
    ASSUME NEW p \in Seq(Call), p # <<>>, NEW k
    PROVE  AddsKey(Tail(p), k) => AddsKey(p, k)
  BY TailCalls DEF AddsKey

\* The first call carried out, which saves at most its own row.
LEMMA TailRenamesFirst ==
    ASSUME NEW R, NEW p \in Seq(Call), p # <<>>, RenamesFirst(R, p),
           NEW Q, \A k \in Keys(Q) : k \in Keys(R) \/ (Adds(p[1]) /\ k = Key(p[1].row))
    PROVE  RenamesFirst(Q, Tail(p))
  <1> DEFINE s == Tail(p)
  <1>1. /\ Len(p) \in Nat /\ 1 \in 1..Len(p) /\ Len(s) = Len(p) - 1
        /\ \A i \in 1..Len(s) : i + 1 \in 1..Len(p) /\ s[i] = p[i + 1]
    BY TailCalls
  <1> HIDE DEF s
  <1>2. ASSUME NEW i \in 1..Len(s), s[i].op = "rename"
        PROVE  /\ s[i].row.id = "final" /\ Key(s[i].row) \notin Keys(Q)
               /\ \A j \in 1..(i - 1) : Adds(s[j]) => Key(s[j].row) # Key(s[i].row)
    <2>1. i + 1 \in 1..Len(p) /\ s[i] = p[i + 1] /\ 1 \in 1..((i + 1) - 1)
      BY <1>1
    <2>2. /\ s[i].row.id = "final" /\ Key(s[i].row) \notin Keys(R)
          /\ \A j \in 1..((i + 1) - 1) : Adds(p[j]) => Key(p[j].row) # Key(s[i].row)
      BY <1>2, <2>1 DEF RenamesFirst
    <2>3. \A j \in 1..(i - 1) : j + 1 \in 1..((i + 1) - 1) /\ s[j] = p[j + 1]
      BY <1>1
    <2>4. QED
      BY <2>1, <2>2, <2>3
  <1>3. RenamesFirst(Q, s)
    BY <1>2 DEF RenamesFirst
  <1>4. QED
    BY <1>3 DEF s

\* Messages O of T become the messages N, under the same ids.
LEMMA SameIds ==
    ASSUME NEW T, UniqueKeys(T), NEW O \in SUBSET T, NEW N, UniqueKeys(N),
           \A w \in N : \E m \in O : Key(w) = Key(m)
    PROVE  UniqueKeys((T \ O) \cup N) /\ Keys((T \ O) \cup N) \subseteq Keys(T) /\ Keys(N) \subseteq Keys(T)
  BY DEF UniqueKeys, Keys

LEMMA NewId ==
    ASSUME NEW T, UniqueKeys(T), NEW m, Key(m) \notin Keys(T)
    PROVE  UniqueKeys(T \cup {m}) /\ Keys(T \cup {m}) = Keys(T) \cup {Key(m)}
  BY DEF UniqueKeys, Keys

LEMMA FewerIds ==
    ASSUME NEW T, UniqueKeys(T), NEW Q \in SUBSET T
    PROVE  UniqueKeys(Q) /\ Keys(Q) \subseteq Keys(T)
  BY DEF UniqueKeys, Keys

-----------------------------------------------------------------------------
(* What is pending.                                                        *)

BoxKept(v) ==
    \E k \in Nat : \A i \in 1..Len(inbox'[v]) : i + k \in 1..Len(inbox[v]) /\ inbox'[v][i] = inbox[v][i + k]
FlightsKept ==
    /\ \A g \in flights' : g.kind = "text" =>
          \E f \in flights : f.kind = "text" /\ f.n = g.n /\ f.id = g.id /\ f.from = g.from
    /\ \A g1, g2 \in flights' : g1.kind = "text" /\ g2.kind = "text" /\ g1.n = g2.n => g1 = g2
    /\ \A g \in flights' : g.kind = "read" => g.id = "final"
ArrivingKept ==
    \A v \in Users : \A e \in arriving'[v] : e \in arriving[v] \/ \E i \in 1..Len(inbox[v]) : e = inbox[v][i]

LEMMA Events ==
    ASSUME TrueInv, NEW v \in Users
    PROVE  /\ Len(inbox[v]) \in Nat
           /\ \A i \in 1..Len(inbox[v]) : inbox[v][i] \in Event /\ inbox[v][i].n \in DOMAIN author
           /\ \A e \in arriving[v] : e \in Event /\ e.n \in DOMAIN author
           /\ \A n \in encrypting[v] : n \in DOMAIN author /\ author[n] = v
           /\ \A f \in flights : f \in Flight /\ f.from \in Users /\ f.n \in DOMAIN author
  <1>1. inbox[v] \in Seq(Event)
    BY DEF TrueInv, InboxTrue
  <1>2. Len(inbox[v]) \in Nat
    BY <1>1, LenProperties
  <1>3. \A i \in 1..Len(inbox[v]) : inbox[v][i] \in Event /\ inbox[v][i].n \in DOMAIN author
    BY DEF TrueInv, InboxTrue, TrueEvent
  <1>4. \A e \in arriving[v] : e \in Event /\ e.n \in DOMAIN author
    BY DEF TrueInv, ArrivingTrue, TrueEvent
  <1>5. \A n \in encrypting[v] : n \in DOMAIN author /\ author[n] = v
    BY DEF TrueInv, EncryptingOwn
  <1>6. \A f \in flights : f \in Flight /\ f.from \in Users /\ f.n \in DOMAIN author
    BY FlightFields DEF TrueInv, FlightsTrue
  <1>7. QED
    BY <1>2, <1>3, <1>4, <1>5, <1>6

LEMMA KnownFlights ==
    ASSUME TrueInv
    PROVE  \A f \in flights : f \in Flight /\ f.from \in Users /\ f.n \in DOMAIN author
  BY FlightFields DEF TrueInv, FlightsTrue

\* Nothing new is pending.
LEMMA RelayKept ==
    ASSUME TrueInv, RelayKeys, Grows, FlightsKept, ArrivingKept, \A v \in Users : BoxKept(v),
           \A v \in Users : encrypting'[v] \subseteq encrypting[v]
    PROVE  RelayKeys' /\ \A v \in Users : \A n : Pending(v, n)' => Pending(v, n)
  <1>1. ASSUME NEW v \in Users, NEW n, Answered(v, n)' PROVE Answered(v, n)
    <2>1. PICK i \in 1..Len(inbox'[v]) : IsAnswer(inbox'[v][i]) /\ inbox'[v][i].n = n
      BY <1>1 DEF Answered, IsAnswer
    <2>2. PICK k \in Nat : \A j \in 1..Len(inbox'[v]) : j + k \in 1..Len(inbox[v]) /\ inbox'[v][j] = inbox[v][j + k]
      BY DEF BoxKept
    <2>3. i + k \in 1..Len(inbox[v]) /\ IsAnswer(inbox[v][i + k]) /\ inbox[v][i + k].n = n
      BY <2>1, <2>2
    <2>4. QED
      BY <2>3 DEF Answered
  <1>2. ASSUME NEW n, InFlight(n)' PROVE InFlight(n)
    BY <1>2 DEF InFlight, FlightsKept
  <1>3. ASSUME NEW v \in Users, NEW n, Pending(v, n)' PROVE Pending(v, n)
    BY <1>1, <1>2, <1>3 DEF Pending
  <1>4. FlightsOwn'
    <2>1. ASSUME NEW g \in flights', g.kind = "text"
          PROVE  /\ g.from = author'[g.n] /\ g.id = "final"
                 /\ g.n \notin encrypting'[g.from] /\ ~Answered(g.from, g.n)'
      <3>1. PICK f \in flights : f.kind = "text" /\ f.n = g.n /\ f.id = g.id /\ f.from = g.from
        BY <2>1 DEF FlightsKept
      <3>2. /\ f.from = author[f.n] /\ f.id = "final" /\ f.n \notin encrypting[f.from] /\ ~Answered(f.from, f.n)
            /\ f.from \in Users /\ f.n \in DOMAIN author
        BY <3>1, Events DEF RelayKeys, FlightsOwn, TrueInv, FlightsTrue, Flight
      <3>3. ~Answered(g.from, g.n)'
        BY <1>1, <3>1, <3>2
      <3>4. g.from = author'[g.n]
        BY <3>1, <3>2 DEF Grows
      <3>5. QED
        BY <3>1, <3>2, <3>3, <3>4
    <2>2. QED
      BY <2>1 DEF FlightsOwn, FlightsKept
  <1>5. ASSUME NEW v \in Users, NEW e, OwnEvent(v, e), e.n \in DOMAIN author PROVE OwnEvent(v, e)'
    BY <1>5 DEF OwnEvent, Grows
  <1>6. AnswersOwn'
    <2> SUFFICES ASSUME NEW v \in Users, NEW i \in 1..Len(inbox'[v])
                 PROVE  /\ OwnEvent(v, inbox[v][i])'
                        /\ IsAnswer(inbox'[v][i]) =>
                            /\ author'[inbox'[v][i].n] = v /\ inbox'[v][i].n \notin encrypting'[v]
                            /\ \A j \in 1..Len(inbox'[v]) :
                                  IsAnswer(inbox'[v][j]) /\ inbox'[v][j].n = inbox'[v][i].n => j = i
      BY DEF AnswersOwn, IsAnswer
    <2>1. PICK k \in Nat : \A j \in 1..Len(inbox'[v]) : j + k \in 1..Len(inbox[v]) /\ inbox'[v][j] = inbox[v][j + k]
      BY DEF BoxKept
    <2>2. /\ OwnEvent(v, inbox[v][i + k])
          /\ IsAnswer(inbox[v][i + k]) =>
              /\ author[inbox[v][i + k].n] = v /\ inbox[v][i + k].n \notin encrypting[v]
              /\ \A j \in 1..Len(inbox[v]) : IsAnswer(inbox[v][j]) /\ inbox[v][j].n = inbox[v][i + k].n => j = i + k
      BY <2>1 DEF RelayKeys, AnswersOwn
    <2>3. inbox[v][i + k].n \in DOMAIN author
      BY <2>1, Events
    <2>4. OwnEvent(v, inbox[v][i])'
      <3>1. OwnEvent(v, inbox[v][i + k])
        BY <2>2
      <3>2. QED
        BY <2>1, <2>3, <3>1 DEF OwnEvent, Grows
    <2>5. ASSUME IsAnswer(inbox'[v][i]), NEW j \in 1..Len(inbox'[v]), IsAnswer(inbox'[v][j]),
                 inbox'[v][j].n = inbox'[v][i].n
          PROVE  j = i
      <3>1. j + k = i + k
        BY <2>1, <2>2, <2>5
      <3>2. QED
        BY <3>1
    <2>6. IsAnswer(inbox'[v][i]) => author'[inbox'[v][i].n] = v /\ inbox'[v][i].n \notin encrypting'[v]
      BY <2>1, <2>2, <2>3 DEF Grows
    <2>7. QED
      BY <2>4, <2>5, <2>6
  <1>7. ArrivingOthers'
    <2>1. ASSUME NEW v \in Users, NEW e \in arriving'[v] PROVE OwnEvent(v, e)'
      <3>1. OwnEvent(v, e) /\ e.n \in DOMAIN author
        <4>1. CASE e \in arriving[v]
          BY <4>1, Events DEF RelayKeys, ArrivingOthers
        <4>2. CASE \E i \in 1..Len(inbox[v]) : e = inbox[v][i]
          BY <4>2, Events DEF RelayKeys, AnswersOwn
        <4>3. QED
          BY <4>1, <4>2 DEF ArrivingKept
      <3>2. QED
        BY <3>1 DEF OwnEvent, Grows
    <2>2. QED
      BY <2>1 DEF ArrivingOthers
  <1>8. QED
    BY <1>3, <1>4, <1>6, <1>7 DEF RelayKeys

LEMMA SameFlights ==
    ASSUME RelayKeys, flights' \subseteq flights
    PROVE  FlightsKept
  BY DEF RelayKeys, FlightsOwn, FlightsKept

LEMMA SameBox ==
    ASSUME TrueInv, NEW v \in Users, inbox'[v] = inbox[v]
    PROVE  BoxKept(v)
  <1>1. \A i \in 1..Len(inbox'[v]) : i + 0 \in 1..Len(inbox[v]) /\ inbox'[v][i] = inbox[v][i + 0]
    OBVIOUS
  <1>2. QED
    BY <1>1 DEF BoxKept

LEMMA NoBox ==
    ASSUME NEW v \in Users, inbox'[v] = <<>>
    PROVE  BoxKept(v)
  <1>1. \A i \in 1..Len(inbox'[v]) : i + 0 \in 1..Len(inbox[v]) /\ inbox'[v][i] = inbox[v][i + 0]
    OBVIOUS
  <1>2. QED
    BY <1>1 DEF BoxKept

LEMMA TailBox ==
    ASSUME TrueInv, NEW v \in Users, inbox[v] # <<>>, inbox'[v] = Tail(inbox[v])
    PROVE  BoxKept(v)
  <1>1. \A i \in 1..Len(inbox'[v]) : i + 1 \in 1..Len(inbox[v]) /\ inbox'[v][i] = inbox[v][i + 1]
    BY HeadEvent
  <1>2. QED
    BY <1>1 DEF BoxKept

-----------------------------------------------------------------------------
(* One device's step.                                                      *)

PendingKept ==
    \A v \in Users : \A n \in DOMAIN author' :
        author'[n] = v /\ Pending(v, n)' => Pending(v, n) \/ n \notin DOMAIN author
UnsentNext(u, m) == m.id = "temp" => author'[m.n] = u /\ m.status \in {"sending", "failed"}
FinalsFree(u, T) == \A n \in DOMAIN author' : author'[n] = u /\ Pending(u, n)' => Final(n) \notin Keys(T)
CallsSound(u, q) ==
    /\ \A i \in 1..Len(q) : Adds(q[i]) => UnsentNext(u, q[i].row)
    /\ \A n \in DOMAIN author' : author'[n] = u /\ Pending(u, n)' => ~AddsKey(q, Final(n))
IdsSound(u, T) == UniqueKeys(T) /\ (\A m \in T : UnsentNext(u, m)) /\ FinalsFree(u, T)

LEMMA NoFinals ==
    ASSUME TrueInv, KeysInv, Grows, PendingKept, NEW v \in Users, NEW n \in DOMAIN author',
           author'[n] = v, Pending(v, n)'
    PROVE  ~HasFinal(v, n)
  <1>1. CASE Pending(v, n)
    <2>1. n \in DOMAIN author
      BY <1>1, Events DEF Pending, InFlight, Answered
    <2>2. author[n] = v
      BY <2>1 DEF Grows
    <2>3. QED
      BY <1>1, <2>1, <2>2 DEF KeysInv, PendingNotFinal
  <1>2. CASE n \notin DOMAIN author
    <2>1. \A m \in thread[v] \cup rows[v] \cup snapshot[v] : m.n \in DOMAIN author
      BY OldMessages DEF TrueMessage
    <2>2. \A i \in 1..Len(queue[v]) : Adds(queue[v][i]) => queue[v][i].row.n \in DOMAIN author
      BY DEF TrueInv, QueueTrue, TrueCall, TrueMessage, Adds
    <2>3. QED
      BY <1>2, <2>1, <2>2 DEF HasFinal, AddsKey, Keys, Key, Final
  <1>3. QED
    BY <1>1, <1>2 DEF PendingKept

LEMMA OldIds ==
    ASSUME TrueInv, KeysInv, Grows, PendingKept, NEW v \in Users
    PROVE  /\ IdsSound(v, thread[v]) /\ IdsSound(v, rows[v]) /\ IdsSound(v, snapshot[v])
           /\ CallsSound(v, queue[v]) /\ RenamesFirst(rows[v], queue[v])
  <1>1. DeviceKeys(v)
    BY DEF KeysInv
  <1>2. ASSUME NEW m, Unsent(v, m), m.n \in DOMAIN author PROVE UnsentNext(v, m)
    BY <1>2 DEF Unsent, UnsentNext, Grows
  <1>3. \A m \in thread[v] \cup rows[v] \cup snapshot[v] : m.n \in DOMAIN author
    BY OldMessages DEF TrueMessage
  <1>4. \A i \in 1..Len(queue[v]) : Adds(queue[v][i]) => queue[v][i].row.n \in DOMAIN author
    BY DEF TrueInv, QueueTrue, TrueCall, TrueMessage, Adds
  <1>5. \A m \in thread[v] \cup rows[v] \cup snapshot[v] : UnsentNext(v, m)
    BY <1>1, <1>2, <1>3 DEF DeviceKeys
  <1>6. \A i \in 1..Len(queue[v]) : Adds(queue[v][i]) => UnsentNext(v, queue[v][i].row)
    BY <1>1, <1>2, <1>4 DEF DeviceKeys
  <1>7. \A n \in DOMAIN author' : author'[n] = v /\ Pending(v, n)' => ~HasFinal(v, n)
    BY NoFinals
  <1>8. FinalsFree(v, thread[v]) /\ FinalsFree(v, rows[v]) /\ FinalsFree(v, snapshot[v])
    BY <1>7 DEF FinalsFree, HasFinal
  <1>9. CallsSound(v, queue[v])
    BY <1>6, <1>7 DEF CallsSound, HasFinal
  <1>10. QED
    BY <1>1, <1>5, <1>8, <1>9 DEF DeviceKeys, IdsSound

LEMMA DeviceChanged ==
    ASSUME TrueInv, KeysInv, Grows, PendingKept, RelayKeys', NEW u \in Users,
           NEW T, NEW R, NEW S, NEW q,
           thread' = [thread EXCEPT ![u] = T], rows' = [rows EXCEPT ![u] = R],
           snapshot' = [snapshot EXCEPT ![u] = S], queue' = [queue EXCEPT ![u] = q],
           IdsSound(u, T), IdsSound(u, R), IdsSound(u, S), CallsSound(u, q), RenamesFirst(R, q)
    PROVE  KeysInv'
  <1>1. /\ thread'[u] = T /\ rows'[u] = R /\ snapshot'[u] = S /\ queue'[u] = q
        /\ \A v \in Users \ {u} : /\ thread'[v] = thread[v] /\ rows'[v] = rows[v]
                                  /\ snapshot'[v] = snapshot[v] /\ queue'[v] = queue[v]
    BY DEF TrueInv, ThreadTrue, RowsTrue, SnapshotTrue, QueueTrue
  <1>2. ASSUME NEW v \in Users
        PROVE  /\ IdsSound(v, thread'[v]) /\ IdsSound(v, rows'[v]) /\ IdsSound(v, snapshot'[v])
               /\ CallsSound(v, queue'[v]) /\ RenamesFirst(rows'[v], queue'[v])
    <2>1. CASE v = u
      BY <1>1, <2>1
    <2>2. CASE v # u
      BY <1>1, <2>2, OldIds
    <2>3. QED
      BY <2>1, <2>2
  <1>3. ASSUME NEW v \in Users PROVE DeviceKeys(v)'
    <2>1. \A m \in thread'[v] \cup rows'[v] \cup snapshot'[v] : Unsent(v, m)'
      BY <1>2 DEF IdsSound, Unsent, UnsentNext
    <2>2. \A i \in 1..Len(queue'[v]) : Adds(queue'[v][i]) => Unsent(v, queue[v][i].row)'
      BY <1>2 DEF CallsSound, Unsent, UnsentNext
    <2>3. UniqueKeys(thread'[v]) /\ UniqueKeys(rows'[v]) /\ UniqueKeys(snapshot'[v])
      BY <1>2 DEF IdsSound
    <2>4. RenamesFirst(rows'[v], queue'[v])
      BY <1>2
    <2>5. QED
      BY <2>1, <2>2, <2>3, <2>4 DEF DeviceKeys, UniqueKeys, RenamesFirst, Keys, Key, Adds
  <1>4. ASSUME NEW v \in Users PROVE PendingNotFinal(v)'
    <2>1. ASSUME NEW n \in DOMAIN author', author'[n] = v, Pending(v, n)' PROVE ~HasFinal(v, n)'
      <3>1. /\ Final(n) \notin Keys(thread'[v]) /\ Final(n) \notin Keys(rows'[v])
            /\ Final(n) \notin Keys(snapshot'[v]) /\ ~AddsKey(queue'[v], Final(n))
        BY <1>2, <2>1 DEF IdsSound, FinalsFree, CallsSound
      <3>2. QED
        BY <3>1 DEF HasFinal, Keys, Key, AddsKey, Adds, Final
    <2>2. QED
      BY <2>1 DEF PendingNotFinal
  <1>5. QED
    BY <1>3, <1>4 DEF KeysInv

LEMMA Unmoved ==
    ASSUME TrueInv, NEW u \in Users
    PROVE  /\ UNCHANGED thread => thread' = [thread EXCEPT ![u] = thread[u]]
           /\ UNCHANGED rows => rows' = [rows EXCEPT ![u] = rows[u]]
           /\ UNCHANGED snapshot => snapshot' = [snapshot EXCEPT ![u] = snapshot[u]]
           /\ UNCHANGED queue => queue' = [queue EXCEPT ![u] = queue[u]]
  BY DEF TrueInv, ThreadTrue, RowsTrue, SnapshotTrue, QueueTrue

\* A step that leaves the devices' messages alone.
LEMMA NothingMoved ==
    ASSUME TrueInv, KeysInv, Grows, PendingKept, RelayKeys', UNCHANGED <<thread, rows, snapshot, queue>>
    PROVE  KeysInv'
  <1>1. PICK u \in Users : TRUE
    <2>1. Users # {}
      BY MessagesAssumption, FS_EmptySet
    <2>2. QED
      BY <2>1
  <1>2. QED
    BY <1>1, Unmoved, OldIds, DeviceChanged

\* The thread becomes T, the rows read S, and calls other than a rename are asked for.
LEMMA ThreadLoaded ==
    ASSUME TrueInv, KeysInv, Grows, PendingKept, RelayKeys', NEW u \in Users, NEW T, NEW S, NEW ops \in Seq(Call),
           thread' = [thread EXCEPT ![u] = T], snapshot' = [snapshot EXCEPT ![u] = S],
           Later(u, ops), UNCHANGED rows, IdsSound(u, T), IdsSound(u, S), CallsSound(u, ops),
           \A i \in 1..Len(ops) : ops[i].op # "rename"
    PROVE  KeysInv'
  <1> DEFINE q == queue[u] \o ops
  <1>1. queue[u] \in Seq(Call)
    BY DEF TrueInv, QueueTrue
  <1>2. RenamesFirst(rows[u], q)
    BY <1>1, OldIds, JoinRenamesFirst
  <1>3. CallsSound(u, q)
    <2>1. CallsSound(u, queue[u])
      BY OldIds
    <2>2. ASSUME NEW i \in 1..Len(q), Adds(q[i]) PROVE UnsentNext(u, q[i].row)
      BY <1>1, <2>1, <2>2, JoinedCalls DEF CallsSound
    <2>3. \A n \in DOMAIN author' : author'[n] = u /\ Pending(u, n)' => ~AddsKey(q, Final(n))
      BY <1>1, <2>1, JoinAdds DEF CallsSound
    <2>4. QED
      BY <2>2, <2>3 DEF CallsSound
  <1>4. queue' = [queue EXCEPT ![u] = q]
    BY DEF Later
  <1> HIDE DEF q
  <1>5. rows' = [rows EXCEPT ![u] = rows[u]]
    BY Unmoved
  <1>6. QED
    BY <1>2, <1>3, <1>4, <1>5, OldIds, DeviceChanged

LEMMA ThreadMoved ==
    ASSUME TrueInv, KeysInv, Grows, PendingKept, RelayKeys', NEW u \in Users, NEW T, NEW ops \in Seq(Call),
           thread' = [thread EXCEPT ![u] = T], Later(u, ops), UNCHANGED <<rows, snapshot>>,
           IdsSound(u, T), CallsSound(u, ops), \A i \in 1..Len(ops) : ops[i].op # "rename"
    PROVE  KeysInv'
  <1>1. snapshot' = [snapshot EXCEPT ![u] = snapshot[u]] /\ UNCHANGED rows
    BY Unmoved
  <1>2. QED
    BY <1>1, OldIds, ThreadLoaded

LEMMA SavesSound ==
    ASSUME NEW u, NEW N, IsFiniteSet(N), \A m \in N : TrueNext(u, m), IdsSound(u, N)
    PROVE  /\ CallsSound(u, Saves(N)) /\ Saves(N) \in Seq(Call)
           /\ \A i \in 1..Len(Saves(N)) : Saves(N)[i].op # "rename"
  <1>1. /\ Saves(N) \in Seq(Call)
        /\ \A i \in 1..Len(Saves(N)) : \E m \in N : Saves(N)[i] = [op |-> "save", row |-> m]
    BY SavesNext
  <1>2. ASSUME NEW i \in 1..Len(Saves(N)) PROVE Saves(N)[i].op # "rename" /\ Saves(N)[i].row \in N
    <2>1. PICK m \in N : Saves(N)[i] = [op |-> "save", row |-> m]
      BY <1>1
    <2>2. Saves(N)[i].op = "save" /\ Saves(N)[i].row = m
      BY <2>1
    <2>3. QED
      BY <2>2
  <1>3. QED
    BY <1>1, <1>2 DEF CallsSound, IdsSound, FinalsFree, AddsKey, Keys

\* Messages O change, under their ids.
LEMMA Rekeyed ==
    ASSUME TrueInv, KeysInv, Grows, PendingKept, RelayKeys', NEW u \in Users,
           NEW O \in SUBSET thread[u], NEW N, Change(u, O, N), UNCHANGED <<rows, snapshot>>,
           IsFiniteSet(N), \A m \in N : TrueNext(u, m), UniqueKeys(N),
           \A w \in N : UnsentNext(u, w) /\ \E m \in O : Key(w) = Key(m)
    PROVE  KeysInv'
  <1> DEFINE T == (thread[u] \ O) \cup N
  <1>1. thread' = [thread EXCEPT ![u] = T] /\ Later(u, Saves(N))
    BY DEF Change
  <1>2. IdsSound(u, thread[u])
    BY OldIds
  <1>3. UniqueKeys(T) /\ Keys(T) \subseteq Keys(thread[u]) /\ Keys(N) \subseteq Keys(thread[u])
    BY <1>2, SameIds DEF IdsSound
  <1>4. IdsSound(u, T) /\ IdsSound(u, N)
    BY <1>2, <1>3 DEF IdsSound, FinalsFree
  <1> HIDE DEF T
  <1>5. QED
    BY <1>1, <1>4, SavesSound, ThreadMoved

LEMMA QuietStep ==
    ASSUME TrueInv, KeysInv, Grows, FlightsKept, ArrivingKept, \A v \in Users : BoxKept(v),
           \A v \in Users : encrypting'[v] \subseteq encrypting[v]
    PROVE  RelayKeys' /\ PendingKept
  <1>1. RelayKeys' /\ \A v \in Users : \A n : Pending(v, n)' => Pending(v, n)
    BY RelayKept DEF KeysInv
  <1>2. QED
    BY <1>1 DEF PendingKept

LEMMA StillStep ==
    ASSUME TrueInv, KeysInv, Grows, FlightsKept, UNCHANGED <<inbox, encrypting, arriving>>
    PROVE  RelayKeys' /\ PendingKept
  <1>1. ArrivingKept
    BY DEF ArrivingKept
  <1>2. \A v \in Users : BoxKept(v)
    BY SameBox
  <1>3. QED
    BY <1>1, <1>2, QuietStep

LEMMA WithIds ==
    ASSUME NEW M \in SUBSET Message, UniqueKeys(M), NEW status \in Statuses
    PROVE  /\ UniqueKeys(With(M, status))
           /\ \A w \in With(M, status) : \E m \in M : Key(w) = Key(m) /\ w.n = m.n /\ w.id = m.id /\ w.status = status
  <1>1. ASSUME NEW m \in M
        PROVE  LET w == [m EXCEPT !.status = status] IN Key(w) = Key(m) /\ w.n = m.n /\ w.id = m.id /\ w.status = status
    BY WithMessage DEF Key
  <1>2. ASSUME NEW w1 \in With(M, status), NEW w2 \in With(M, status), Key(w1) = Key(w2) PROVE w1 = w2
    <2>1. PICK m1 \in M : w1 = [m1 EXCEPT !.status = status]
      BY DEF With
    <2>2. PICK m2 \in M : w2 = [m2 EXCEPT !.status = status]
      BY DEF With
    <2>3. Key(m1) = Key(m2)
      BY <1>1, <1>2, <2>1, <2>2
    <2>4. m1 = m2
      BY <2>3 DEF UniqueKeys
    <2>5. QED
      BY <2>1, <2>2, <2>4
  <1>3. ASSUME NEW w \in With(M, status)
        PROVE  \E m \in M : Key(w) = Key(m) /\ w.n = m.n /\ w.id = m.id /\ w.status = status
    <2>1. PICK m \in M : w = [m EXCEPT !.status = status]
      BY DEF With
    <2>2. QED
      BY <1>1, <2>1
  <1>4. QED
    BY <1>2, <1>3 DEF UniqueKeys

Deleted(M) == {[m EXCEPT !.deleted = TRUE] : m \in M}

LEMMA DeletedIds ==
    ASSUME NEW M \in SUBSET Message, UniqueKeys(M)
    PROVE  /\ UniqueKeys(Deleted(M))
           /\ \A w \in Deleted(M) : \E m \in M : Key(w) = Key(m) /\ w.n = m.n /\ w.id = m.id /\ w.status = m.status
  <1>1. ASSUME NEW m \in M
        PROVE  LET w == [m EXCEPT !.deleted = TRUE] IN Key(w) = Key(m) /\ w.n = m.n /\ w.id = m.id /\ w.status = m.status
    BY DeletedMessage DEF Key
  <1>2. ASSUME NEW w1 \in Deleted(M), NEW w2 \in Deleted(M), Key(w1) = Key(w2) PROVE w1 = w2
    <2>1. PICK m1 \in M : w1 = [m1 EXCEPT !.deleted = TRUE]
      BY DEF Deleted
    <2>2. PICK m2 \in M : w2 = [m2 EXCEPT !.deleted = TRUE]
      BY DEF Deleted
    <2>3. Key(m1) = Key(m2)
      BY <1>1, <1>2, <2>1, <2>2
    <2>4. m1 = m2
      BY <2>3 DEF UniqueKeys
    <2>5. QED
      BY <2>1, <2>2, <2>4
  <1>3. ASSUME NEW w \in Deleted(M)
        PROVE  \E m \in M : Key(w) = Key(m) /\ w.n = m.n /\ w.id = m.id /\ w.status = m.status
    <2>1. PICK m \in M : w = [m EXCEPT !.deleted = TRUE]
      BY DEF Deleted
    <2>2. QED
      BY <1>1, <2>1
  <1>4. QED
    BY <1>2, <1>3 DEF UniqueKeys

\* Messages S of the thread get another status.
LEMMA WithKeys ==
    ASSUME TrueInv, KeysInv, Grows, PendingKept, RelayKeys', NEW u \in Users,
           NEW S \in SUBSET thread[u], NEW status \in Statuses, Change(u, S, With(S, status)),
           UNCHANGED <<rows, snapshot>>, status = "failed" \/ \A m \in S : m.id = "final",
           \A m \in S : author[m.n] = u => status # "sent" /\ (status = "read" => m.n \in seen)
    PROVE  KeysInv'
  <1> DEFINE N == With(S, status)
  <1>1. IdsSound(u, thread[u]) /\ thread[u] \subseteq Message
    BY OldIds, OldMessages
  <1>2. UniqueKeys(S) /\ S \in SUBSET Message
    BY <1>1, FewerIds DEF IdsSound
  <1>3. /\ UniqueKeys(N)
        /\ \A w \in N : \E m \in S : Key(w) = Key(m) /\ w.n = m.n /\ w.id = m.id /\ w.status = status
    BY <1>2, WithIds
  <1>4. IsFiniteSet(N) /\ \A w \in N : TrueNext(u, w)
    BY WithTrue
  <1> HIDE DEF N
  <1>5. \A w \in N : UnsentNext(u, w) /\ \E m \in S : Key(w) = Key(m)
    BY <1>1, <1>3 DEF IdsSound, UnsentNext
  <1>6. Change(u, S, N)
    BY DEF N
  <1>7. QED
    BY <1>3, <1>4, <1>5, <1>6, Rekeyed

\* Messages S of the thread are deleted.
LEMMA DeletedKeys ==
    ASSUME TrueInv, KeysInv, Grows, PendingKept, RelayKeys', NEW u \in Users,
           NEW S \in SUBSET thread[u], Change(u, S, Deleted(S)),
           UNCHANGED <<rows, snapshot>>
    PROVE  KeysInv'
  <1> DEFINE D == Deleted(S)
  <1>1. IdsSound(u, thread[u]) /\ thread[u] \subseteq Message
    BY OldIds, OldMessages
  <1>2. UniqueKeys(S) /\ S \in SUBSET Message
    BY <1>1, FewerIds DEF IdsSound
  <1>3. /\ UniqueKeys(D)
        /\ \A w \in D : \E m \in S : Key(w) = Key(m) /\ w.n = m.n /\ w.id = m.id /\ w.status = m.status
    BY <1>2, DeletedIds
  <1>4. IsFiniteSet(D)
    <2> DEFINE f == [m \in S |-> [m EXCEPT !.deleted = TRUE]]
    <2>1. D = {f[m] : m \in S}
      BY DEF Deleted
    <2>2. IsFiniteSet(S)
      BY OldMessages, SubsetFinite
    <2> HIDE DEF f
    <2>3. IsFiniteSet({f[m] : m \in S})
      BY <2>2, ImageFinite, Zenon
    <2>4. QED
      BY <2>1, <2>3
  <1>5. ASSUME NEW d \in D PROVE TrueNext(u, d)
    <2>1. PICK m \in S : d = [m EXCEPT !.deleted = TRUE]
      BY DEF Deleted
    <2>2. m \in Message /\ TrueNext(u, m)
      BY OldMessages
    <2>3. d \in Message /\ d.n = m.n /\ d.status = m.status
      BY <2>1, <2>2, DeletedMessage
    <2>4. QED
      BY <2>2, <2>3 DEF TrueNext
  <1>6. \A w \in D : UnsentNext(u, w) /\ \E m \in S : Key(w) = Key(m)
    BY <1>1, <1>3 DEF IdsSound, UnsentNext
  <1> HIDE DEF D
  <1>7. Change(u, S, D)
    BY DEF D
  <1>8. QED
    BY <1>7, <1>3, <1>4, <1>5, <1>6, Rekeyed

-----------------------------------------------------------------------------
(* The user.                                                               *)

\* A message composed: pending, and new.
LEMMA ComposeKeys ==
    ASSUME TrueInv, KeysInv, NEW u \in Writers, Compose(u), UNCHANGED <<flights, inbox, arriving, handed, seen>>
    PROVE  RelayKeys' /\ PendingKept
  <1> DEFINE k == Len(author) + 1
  <1>1. u \in Users
    BY MessagesAssumption
  <1>2. Grows /\ author'[k] = u /\ k \notin DOMAIN author
    <2>1. author' = Append(author, u)
      BY DEF Compose
    <2>2. author \in Seq(Writers)
      BY DEF TrueInv, AuthorTyped
    <2>3. Len(author) \in Nat /\ DOMAIN author = 1..Len(author)
      BY <2>2
    <2>4. QED
      BY <2>1, <2>3, AuthorGrows
  <1>3. encrypting' = [encrypting EXCEPT ![u] = encrypting[u] \cup {k}]
    BY DEF Compose
  <1> HIDE DEF k
  <1>4. encrypting'[u] = encrypting[u] \cup {k} /\ \A v \in Users \ {u} : encrypting'[v] = encrypting[v]
    BY <1>1, <1>3 DEF TrueInv, EncryptingOwn
  <1>5. \A v \in Users : \A n \in DOMAIN author : n \in encrypting'[v] => n \in encrypting[v]
    BY <1>2, <1>4
  <1>6. \A v \in Users : \A n : (Answered(v, n)' <=> Answered(v, n)) /\ (InFlight(n)' <=> InFlight(n))
    BY DEF Answered, InFlight, IsAnswer
  <1>7. FlightsOwn'
    <2>1. ASSUME NEW f \in flights, f.kind = "text"
          PROVE  /\ f.from = author'[f.n] /\ f.n \notin encrypting'[f.from] /\ ~Answered(f.from, f.n)'
      <3>1. f.from \in Users /\ f.n \in DOMAIN author
        BY <1>1, Events
      <3>2. f.from = author[f.n] /\ f.n \notin encrypting[f.from] /\ ~Answered(f.from, f.n)
        BY <2>1 DEF KeysInv, RelayKeys, FlightsOwn
      <3>3. ~Answered(f.from, f.n)'
        BY <1>6, <3>1, <3>2
      <3>4. QED
        BY <1>2, <1>5, <3>1, <3>2, <3>3 DEF Grows
    <2>2. QED
      BY <2>1 DEF KeysInv, RelayKeys, FlightsOwn
  <1>8. AnswersOwn'
    <2> SUFFICES ASSUME NEW v \in Users, NEW i \in 1..Len(inbox[v])
                 PROVE  /\ OwnEvent(v, inbox[v][i])'
                        /\ IsAnswer(inbox[v][i]) =>
                            /\ author'[inbox[v][i].n] = v /\ inbox[v][i].n \notin encrypting'[v]
                            /\ \A j \in 1..Len(inbox[v]) :
                                  IsAnswer(inbox[v][j]) /\ inbox[v][j].n = inbox[v][i].n => j = i
      BY DEF AnswersOwn, IsAnswer
    <2>1. /\ OwnEvent(v, inbox[v][i])
          /\ IsAnswer(inbox[v][i]) =>
              /\ author[inbox[v][i].n] = v /\ inbox[v][i].n \notin encrypting[v]
              /\ \A j \in 1..Len(inbox[v]) :
                    IsAnswer(inbox[v][j]) /\ inbox[v][j].n = inbox[v][i].n => j = i
      BY DEF KeysInv, RelayKeys, AnswersOwn
    <2>2. inbox[v][i].n \in DOMAIN author
      BY Events
    <2>3. OwnEvent(v, inbox[v][i])'
      BY <1>2, <2>1, <2>2 DEF OwnEvent, Grows
    <2>4. QED
      BY <1>2, <1>5, <2>1, <2>2, <2>3 DEF Grows
  <1>9. ArrivingOthers'
    BY <1>2, Events DEF KeysInv, RelayKeys, ArrivingOthers, OwnEvent, Grows
  <1>10. PendingKept
    BY <1>5, <1>6 DEF PendingKept, Pending
  <1>11. QED
    BY <1>7, <1>8, <1>9, <1>10 DEF RelayKeys

\* Its optimistic copy has an id of its own.
LEMMA OptimisticId ==
    ASSUME TrueInv, KeysInv, Grows, PendingKept, NEW u \in Users, NEW o,
           o.id = "temp", o.status = "sending", author'[o.n] = u, o.n \notin DOMAIN author,
           NEW Q \in SUBSET thread[u]
    PROVE  IdsSound(u, Q \cup {o}) /\ IdsSound(u, {o})
  <1>1. IdsSound(u, thread[u])
    BY OldIds
  <1>2. UniqueKeys(Q) /\ Keys(Q) \subseteq Keys(thread[u])
    BY <1>1, FewerIds DEF IdsSound
  <1>3. Key(o) \notin Keys(thread[u])
    BY OldMessages DEF Keys, Key, TrueMessage
  <1>4. UniqueKeys(Q \cup {o}) /\ Keys(Q \cup {o}) = Keys(Q) \cup {Key(o)}
    BY <1>2, <1>3, NewId
  <1>5. UnsentNext(u, o) /\ \A n : Final(n) # Key(o)
    BY DEF UnsentNext, Final, Key
  <1>6. IdsSound(u, Q \cup {o})
    BY <1>1, <1>2, <1>4, <1>5 DEF IdsSound, FinalsFree
  <1>7. IdsSound(u, {o})
    BY <1>5 DEF IdsSound, FinalsFree, UniqueKeys, Keys
  <1>8. QED
    BY <1>6, <1>7

LEMMA NewNumber ==
    ASSUME TrueInv
    PROVE  Len(author) + 1 \notin DOMAIN author /\ Len(author) \in Nat
  <1>1. author \in Seq(Writers)
    BY DEF TrueInv, AuthorTyped
  <1>2. QED
    BY <1>1

LEMMA SendTextKeys ==
    ASSUME TrueInv, KeysInv, NEW u \in Users, SendText(u)
    PROVE  KeysInv'
  <1> DEFINE o == Optimistic(Len(author'))
             T == (thread[u] \ {}) \cup {o}
  <1>1. /\ u \in Writers /\ Compose(u) /\ Change(u, {}, {o})
        /\ UNCHANGED <<flights, inbox, arriving, handed, seen, rows, snapshot>>
    BY DEF SendText, relay, history
  <1>2. /\ Grows /\ Len(author') = Len(author) + 1 /\ author'[Len(author')] = u
        /\ TrueNext(u, o) /\ o.n = Len(author') /\ o.id = "temp" /\ o.status = "sending"
    BY <1>1, ComposeTrue
  <1>3. RelayKeys' /\ PendingKept
    BY <1>1, ComposeKeys
  <1>4. o.n \notin DOMAIN author
    BY <1>2, NewNumber
  <1> HIDE DEF o
  <1>5. thread' = [thread EXCEPT ![u] = T] /\ Later(u, Saves({o}))
    BY <1>1 DEF Change
  <1>6. IdsSound(u, T) /\ IdsSound(u, {o})
    BY <1>2, <1>3, <1>4, OptimisticId
  <1> HIDE DEF T
  <1>7. /\ CallsSound(u, Saves({o})) /\ Saves({o}) \in Seq(Call)
        /\ \A i \in 1..Len(Saves({o})) : Saves({o})[i].op # "rename"
    <2>1. IsFiniteSet({o}) /\ \A m \in {o} : TrueNext(u, m)
      BY <1>2, FS_Singleton
    <2>2. QED
      BY <1>6, <2>1, SavesSound
  <1>8. QED
    BY <1>1, <1>2, <1>3, <1>5, <1>6, <1>7, ThreadMoved

LEMMA RetryKeys ==
    ASSUME TrueInv, KeysInv, NEW u \in Users, NEW m \in thread[u], Retry(u, m)
    PROVE  KeysInv'
  <1> DEFINE o == Optimistic(Len(author'))
             T == (thread[u] \ {m}) \cup {o}
             c == [op |-> "remove", row |-> m]
             d == [op |-> "save", row |-> o]
  <1>0. u \in Writers
    BY DEF Retry, discardFailed, TrueInv, ThreadTrue, TrueMessages, TrueMessage, AuthorTyped
  <1>1. /\ Compose(u) /\ thread' = [thread EXCEPT ![u] = T] /\ Later(u, <<c, d>>)
        /\ UNCHANGED <<flights, inbox, arriving, handed, seen, rows, snapshot>>
    BY DEF Retry, relay, history
  <1>2. /\ Grows /\ Len(author') = Len(author) + 1 /\ author'[Len(author')] = u
        /\ TrueNext(u, o) /\ o.n = Len(author') /\ o.id = "temp" /\ o.status = "sending"
    BY <1>0, <1>1, ComposeTrue
  <1>3. RelayKeys' /\ PendingKept
    BY <1>0, <1>1, ComposeKeys
  <1>4. o.n \notin DOMAIN author
    BY <1>2, NewNumber
  <1>5. /\ c \in Call /\ d \in Call /\ c.op = "remove" /\ d.op = "save" /\ d.row = o
    <2>1. o \in Message /\ m \in Message
      BY <1>2, OldMessages DEF TrueNext
    <2>2. QED
      BY <2>1, SaveCall
  <1> HIDE DEF o, c, d
  <1>6. IdsSound(u, T) /\ UnsentNext(u, o) /\ Key(o) # Final(o.n)
    <2>1. thread[u] \ {m} \in SUBSET thread[u]
      OBVIOUS
    <2>2. IdsSound(u, T)
      BY <1>2, <1>3, <1>4, <2>1, OptimisticId
    <2>3. UnsentNext(u, o) /\ Key(o) # Final(o.n)
      BY <1>2 DEF UnsentNext, Key, Final
    <2>4. QED
      BY <2>2, <2>3
  <1> HIDE DEF T
  <1> DEFINE ops == <<c, d>>
  <1>7. ops \in Seq(Call) /\ \A i \in 1..Len(ops) : ops[i] = c \/ ops[i] = d
    BY <1>5
  <1> HIDE DEF ops
  <1>8. CallsSound(u, ops) /\ \A i \in 1..Len(ops) : ops[i].op # "rename"
    BY <1>2, <1>5, <1>6, <1>7 DEF CallsSound, AddsKey, Adds, Key, Final
  <1>9. Later(u, ops)
    BY <1>1 DEF ops
  <1>10. QED
    BY <1>1, <1>2, <1>3, <1>6, <1>7, <1>8, <1>9, ThreadMoved

\* A thread with fewer messages, and a call that saves nothing.
LEMMA FewerMessages ==
    ASSUME TrueInv, KeysInv, NEW u \in Users, NEW T \in SUBSET thread[u], NEW c \in Call,
           c.op \in {"remove", "clear"}, thread' = [thread EXCEPT ![u] = T], Later(u, <<c>>),
           UNCHANGED <<flights, inbox, author, encrypting, arriving, snapshot, rows, handed, seen>>
    PROVE  KeysInv'
  <1>1. Grows
    BY Standstill
  <1>2. RelayKeys' /\ PendingKept
    BY <1>1, SameFlights, StillStep DEF KeysInv
  <1>3. IdsSound(u, T)
    BY <1>1, <1>2, OldIds, FewerIds DEF IdsSound, FinalsFree
  <1> DEFINE ops == <<c>>
  <1>4. ops \in Seq(Call) /\ \A i \in 1..Len(ops) : ops[i] = c
    OBVIOUS
  <1>5. Later(u, ops)
    OBVIOUS
  <1> HIDE DEF ops
  <1>6. CallsSound(u, ops) /\ \A i \in 1..Len(ops) : ops[i].op # "rename"
    BY <1>4 DEF CallsSound, AddsKey, Adds
  <1>7. QED
    BY <1>1, <1>2, <1>3, <1>4, <1>5, <1>6, ThreadMoved

LEMMA DiscardKeys ==
    ASSUME TrueInv, KeysInv, NEW u \in Users, NEW m \in thread[u], Discard(u, m)
    PROVE  KeysInv'
  <1> DEFINE T == thread[u] \ {m}
             c == [op |-> "remove", row |-> m]
  <1>1. /\ thread' = [thread EXCEPT ![u] = T] /\ Later(u, <<c>>) /\ T \in SUBSET thread[u]
        /\ UNCHANGED <<flights, inbox, author, encrypting, arriving, snapshot, rows, handed, seen>>
    BY DEF Discard, relay, history
  <1>2. m \in Message
    BY DEF TrueInv, ThreadTrue
  <1>3. c \in Call /\ c.op = "remove"
    BY <1>2, SaveCall
  <1> HIDE DEF T, c
  <1>4. QED
    BY <1>1, <1>3, FewerMessages

LEMMA ClearThreadKeys ==
    ASSUME TrueInv, KeysInv, NEW u \in Users, ClearThread(u)
    PROVE  KeysInv'
  <1> DEFINE T == {}
             c == [op |-> "clear"]
  <1>1. /\ thread' = [thread EXCEPT ![u] = T] /\ Later(u, <<c>>) /\ T \in SUBSET thread[u]
        /\ UNCHANGED <<flights, inbox, author, encrypting, arriving, snapshot, rows, handed, seen>>
    BY DEF ClearThread, relay
  <1>2. c \in Call /\ c.op = "clear"
    BY DEF Call
  <1> HIDE DEF T, c
  <1>3. QED
    BY <1>1, <1>2, FewerMessages

LEMMA FlySilent ==
    ASSUME KeysInv, NEW u, NEW m, NEW kind \in {"delete", "read"}, kind = "read" => m.id = "final", Fly(u, kind, m)
    PROVE  FlightsKept
  <1> DEFINE f == [kind |-> kind, n |-> m.n, id |-> m.id, from |-> u, answer |-> TRUE]
  <1>1. f.kind = kind /\ f.id = m.id /\ flights' \subseteq flights \cup {f}
    BY DEF Fly
  <1> HIDE DEF f
  <1>2. QED
    BY <1>1 DEF KeysInv, RelayKeys, FlightsOwn, FlightsKept

LEMMA MarkReadKeys ==
    ASSUME TrueInv, KeysInv, NEW u \in Users, NEW m \in thread[u], MarkRead(u, m)
    PROVE  KeysInv'
  <1> DEFINE new == {x \in thread[u] : author[x.n] # u /\ x.status # "read"}
  <1>1. /\ m \in new /\ Fly(u, "read", m) /\ Change(u, new, With(new, "read"))
        /\ seen' = seen \cup {x.n : x \in new}
        /\ UNCHANGED <<inbox, author, encrypting, arriving, snapshot, rows, handed>>
    BY DEF MarkRead
  <1>2. Grows
    BY <1>1 DEF TrueInv, AuthorTyped, Grows
  <1>3. \A x \in new : x.id = "final"
    <2>1. \A x \in thread[u] : Unsent(u, x) /\ x \in Message
      BY <1>2, OldMessages DEF KeysInv, DeviceKeys
    <2>2. \A x \in thread[u] : x.id \in {"temp", "final"}
      BY <2>1, MessageFields DEF Ids
    <2>3. QED
      BY <2>1, <2>2 DEF Unsent
  <1>4. new \in SUBSET thread[u] /\ \A x \in new : author[x.n] # u
    OBVIOUS
  <1> HIDE DEF new
  <1>5. FlightsKept
    BY <1>1, <1>3, FlySilent
  <1>6. RelayKeys' /\ PendingKept
    BY <1>1, <1>2, <1>5, StillStep
  <1>7. QED
    BY <1>1, <1>2, <1>3, <1>4, <1>6, WithKeys DEF Statuses

LEMMA DeleteKeys ==
    ASSUME TrueInv, KeysInv, NEW u \in Users, NEW m \in thread[u], DeleteLocal(u, m) \/ DeleteForEveryone(u, m)
    PROVE  KeysInv'
  <1> DEFINE d == [m EXCEPT !.deleted = TRUE]
  <1>1. /\ Change(u, {m}, {d})
        /\ UNCHANGED <<inbox, author, encrypting, arriving, snapshot, rows, handed, seen>>
        /\ UNCHANGED flights \/ Fly(u, "delete", m)
    BY DEF DeleteLocal, DeleteForEveryone, relay, history, Tombstone
  <1>2. Grows
    BY <1>1, Standstill
  <1>3. FlightsKept
    BY <1>1, FlySilent, SameFlights DEF KeysInv
  <1>4. RelayKeys' /\ PendingKept
    BY <1>1, <1>2, <1>3, StillStep
  <1>5. {d} = Deleted({m}) /\ {m} \in SUBSET thread[u]
    BY DEF Deleted
  <1> HIDE DEF d
  <1>6. Change(u, {m}, Deleted({m}))
    BY <1>1, <1>5
  <1>7. QED
    BY <1>1, <1>2, <1>4, <1>5, <1>6, DeletedKeys

-----------------------------------------------------------------------------
(* The rest of a send.                                                     *)

\* A message that is pending has no final id in the thread of its writer.
LEMMA PendingTemp ==
    ASSUME TrueInv, KeysInv, NEW u \in Users, NEW n, Pending(u, n), author[n] = u
    PROVE  /\ n \in DOMAIN author /\ ~HasFinal(u, n)
           /\ \A m \in Sent(u, n) : m \in thread[u] /\ m.n = n /\ m.id = "temp" /\ Key(m) = <<n, "temp">>
           /\ \A m \in thread[u] \ Sent(u, n) : m.n # n
  <1>1. n \in DOMAIN author
    BY Events DEF Pending, InFlight, Answered
  <1>2. ~HasFinal(u, n)
    BY <1>1 DEF KeysInv, PendingNotFinal
  <1>3. ASSUME NEW m \in Sent(u, n) PROVE m \in thread[u] /\ m.n = n /\ m.id = "temp"
    <2>1. m \in thread[u] /\ m.n = n
      BY DEF Sent
    <2>2. m.id \in {"temp", "final"}
      BY <2>1, MessageFields DEF TrueInv, ThreadTrue, Ids
    <2>3. Key(m) # Final(n)
      BY <1>2, <2>1 DEF HasFinal, Keys
    <2>4. QED
      BY <2>1, <2>2, <2>3 DEF Key, Final
  <1>4. \A m \in thread[u] \ Sent(u, n) : m.n # n
    BY DEF Sent
  <1>5. QED
    BY <1>1, <1>2, <1>3, <1>4 DEF Key

LEMMA MarkFailedKeys ==
    ASSUME TrueInv, KeysInv, Grows, PendingKept, RelayKeys', NEW u \in Users, NEW n \in encrypting[u],
           MarkFailed(u, n), UNCHANGED <<author, rows, snapshot>>
    PROVE  KeysInv'
  <1> DEFINE failed == NewMessage(n, "temp", "failed")
             T == IF Sent(u, n) = {} THEN thread[u] ELSE (thread[u] \ Sent(u, n)) \cup {failed}
             c == [op |-> "save", row |-> failed]
  <1>1. thread' = [thread EXCEPT ![u] = T] /\ Later(u, <<c>>)
    BY DEF MarkFailed
  <1>2. n \in Nat /\ n \in DOMAIN author /\ author[n] = u /\ Pending(u, n)
    BY DEF TrueInv, EncryptingOwn, AuthorTyped, Pending
  <1>3. failed \in Message /\ failed.n = n /\ failed.id = "temp" /\ failed.status = "failed"
    BY <1>2, NewMessageFields DEF Ids, Statuses
  <1>4. c \in Call /\ c.op = "save" /\ c.row = failed
    BY <1>3, SaveCall
  <1>5. \A m \in thread[u] \ Sent(u, n) : m.n # n
    BY <1>2, PendingTemp
  <1> HIDE DEF failed, c
  <1>6. IdsSound(u, thread[u])
    BY OldIds
  <1>7. UnsentNext(u, failed) /\ \A k : Final(k) # Key(failed)
    BY <1>2, <1>3 DEF UnsentNext, Final, Key
  <1>8. IdsSound(u, T)
    <2> DEFINE Q == thread[u] \ Sent(u, n)
    <2>1. UniqueKeys(Q) /\ Keys(Q) \subseteq Keys(thread[u]) /\ Q \subseteq thread[u]
      BY <1>6, FewerIds DEF IdsSound
    <2>2. Key(failed) \notin Keys(Q)
      BY <1>3, <1>5 DEF Keys, Key
    <2> HIDE DEF Q
    <2>3. UniqueKeys(Q \cup {failed}) /\ Keys(Q \cup {failed}) = Keys(Q) \cup {Key(failed)}
      BY <2>1, <2>2, NewId
    <2>4. IdsSound(u, Q \cup {failed})
      BY <1>6, <1>7, <2>1, <2>3 DEF IdsSound, FinalsFree
    <2>5. QED
      BY <1>6, <2>4 DEF Q
  <1> HIDE DEF T
  <1> DEFINE ops == <<c>>
  <1>9. ops \in Seq(Call) /\ \A i \in 1..Len(ops) : ops[i] = c
    BY <1>4
  <1>10. Later(u, ops)
    BY <1>1
  <1> HIDE DEF ops
  <1>11. CallsSound(u, ops) /\ \A i \in 1..Len(ops) : ops[i].op # "rename"
    BY <1>4, <1>7, <1>9 DEF CallsSound, AddsKey, Adds
  <1>12. QED
    BY <1>1, <1>8, <1>9, <1>10, <1>11, ThreadMoved

LEMMA FlyText ==
    ASSUME TrueInv, KeysInv, Grows, NEW u \in Users, NEW n \in encrypting[u],
           encrypting' = [encrypting EXCEPT ![u] = encrypting[u] \ {n}],
           u \in up, Fly(u, "text", NewMessage(n, "final", "sent")), UNCHANGED <<inbox, author, arriving>>
    PROVE  RelayKeys' /\ PendingKept
  <1> DEFINE f == [kind |-> "text", n |-> n, id |-> "final", from |-> u, answer |-> TRUE]
  <1>1. flights' = flights \cup {f}
    BY DEF Fly, NewMessage
  <1>2. f.kind = "text" /\ f.n = n /\ f.id = "final" /\ f.from = u
    OBVIOUS
  <1> HIDE DEF f
  <1>3. /\ n \in DOMAIN author /\ author[n] = u
        /\ n \notin encrypting'[u] /\ \A v \in Users : encrypting'[v] \subseteq encrypting[v]
    BY DEF TrueInv, EncryptingOwn
  <1>4. \A v \in Users : \A k : Answered(v, k)' <=> Answered(v, k)
    BY DEF Answered, IsAnswer
  <1>5. ~Answered(u, n)
    BY DEF KeysInv, RelayKeys, AnswersOwn, Answered
  <1>6. \A g \in flights : g.kind = "text" => g.n # n
    <2>1. \A g \in flights : g.kind = "text" => g.from = author[g.n] /\ g.n \notin encrypting[g.from]
      BY DEF KeysInv, RelayKeys, FlightsOwn
    <2>2. QED
      BY <1>3, <2>1
  <1>7. FlightsOwn'
    <2>1. ASSUME NEW g \in flights, g.kind = "text"
          PROVE  /\ g.from = author'[g.n] /\ g.id = "final"
                 /\ g.n \notin encrypting'[g.from] /\ ~Answered(g.from, g.n)'
                 /\ \A h \in flights' : h.kind = "text" /\ h.n = g.n => h = g
      <3>1. /\ g.from = author[g.n] /\ g.id = "final" /\ g.n \notin encrypting[g.from]
            /\ ~Answered(g.from, g.n) /\ g.from \in Users
            /\ \A h \in flights : h.kind = "text" /\ h.n = g.n => h = g
        BY <2>1, Events DEF KeysInv, RelayKeys, FlightsOwn
      <3>2. ~Answered(g.from, g.n)'
        BY <1>4, <3>1
      <3>3. QED
        BY <1>1, <1>2, <1>3, <1>6, <2>1, <3>1, <3>2
    <2>2. /\ f.from = author'[f.n] /\ f.id = "final" /\ f.n \notin encrypting'[f.from]
          /\ \A h \in flights' : h.kind = "text" /\ h.n = f.n => h = f
      BY <1>1, <1>2, <1>3, <1>6
    <2>3. ~Answered(f.from, f.n)'
      BY <1>2, <1>4, <1>5
    <2>4. \A g \in flights' : g.kind = "read" => g.id = "final"
      BY <1>1, <1>2 DEF KeysInv, RelayKeys, FlightsOwn
    <2>5. QED
      BY <1>1, <2>1, <2>2, <2>3, <2>4 DEF FlightsOwn
  <1>8. AnswersOwn'
    BY <1>3 DEF KeysInv, RelayKeys, AnswersOwn, OwnEvent, IsAnswer
  <1>9. ArrivingOthers'
    BY DEF KeysInv, RelayKeys, ArrivingOthers, OwnEvent
  <1>10. PendingKept
    <2>1. ASSUME NEW v \in Users, NEW k \in DOMAIN author', author'[k] = v, Pending(v, k)' PROVE Pending(v, k)
      <3>1. CASE InFlight(k)'
        BY <1>1, <1>2, <1>3, <2>1, <3>1 DEF InFlight, Pending
      <3>2. CASE ~InFlight(k)'
        BY <1>3, <1>4, <2>1, <3>2 DEF Pending
      <3>3. QED
        BY <3>1, <3>2
    <2>2. QED
      BY <2>1 DEF PendingKept
  <1>11. QED
    BY <1>7, <1>8, <1>9, <1>10 DEF RelayKeys

LEMMA EncryptedKeys ==
    ASSUME TrueInv, KeysInv, NEW u \in Users, NEW n \in encrypting[u], Encrypted(u, n)
    PROVE  KeysInv'
  <1>1. /\ encrypting' = [encrypting EXCEPT ![u] = encrypting[u] \ {n}]
        /\ UNCHANGED <<inbox, author, arriving, snapshot, rows, handed, seen>>
    BY DEF Encrypted, history
  <1>2. Grows
    BY <1>1, Standstill
  <1>3. CASE MarkFailed(u, n) /\ UNCHANGED flights
    <2>1. \A v \in Users : encrypting'[v] \subseteq encrypting[v]
      BY <1>1 DEF TrueInv, EncryptingOwn
    <2>2. FlightsKept /\ ArrivingKept /\ \A v \in Users : BoxKept(v)
      BY <1>1, <1>3, SameFlights, SameBox DEF KeysInv, ArrivingKept
    <2>3. RelayKeys' /\ PendingKept
      BY <1>2, <2>1, <2>2, QuietStep
    <2>4. QED
      BY <1>1, <1>2, <1>3, <2>3, MarkFailedKeys
  <1>4. CASE u \in up /\ Fly(u, "text", NewMessage(n, "final", "sent")) /\ UNCHANGED <<thread, tracked, queue>>
    <2>1. RelayKeys' /\ PendingKept
      BY <1>1, <1>2, <1>4, FlyText
    <2>2. QED
      BY <1>1, <1>2, <1>4, <2>1, NothingMoved
  <1>5. QED
    BY <1>3, <1>4 DEF Encrypted

LEMMA FailKeys ==
    ASSUME TrueInv, KeysInv, Grows, PendingKept, RelayKeys', NEW u \in Users, NEW N,
           failIfStillSending(u, N), UNCHANGED <<rows, snapshot>>
    PROVE  KeysInv'
  <1> DEFINE S == Sending(u, N)
  <1>1. Change(u, S, With(S, "failed"))
    BY DEF failIfStillSending
  <1>2. S \in SUBSET thread[u]
    BY DEF Sending
  <1> HIDE DEF S
  <1>3. QED
    BY <1>1, <1>2, WithKeys DEF Statuses

LEMMA SendTimeoutKeys ==
    ASSUME TrueInv, KeysInv, NEW u \in Users, NEW n \in tracked[u], SendTimeout(u, n)
    PROVE  KeysInv'
  <1>1. /\ failIfStillSending(u, {n})
        /\ UNCHANGED <<flights, inbox, author, encrypting, arriving, snapshot, rows, handed, seen>>
    BY DEF SendTimeout, relay, history
  <1>2. Grows
    BY <1>1, Standstill
  <1>3. RelayKeys' /\ PendingKept
    BY <1>1, <1>2, SameFlights, StillStep DEF KeysInv
  <1>4. QED
    BY <1>1, <1>2, <1>3, FailKeys

-----------------------------------------------------------------------------
(* The relay.                                                              *)

BoxAnswered(box, v, n) == \E i \in 1..Len(box[v]) : IsAnswer(box[v][i]) /\ box[v][i].n = n
BoxOwn(box) ==
    \A v \in Users : \A i \in 1..Len(box[v]) :
        /\ OwnEvent(v, box[v][i])
        /\ IsAnswer(box[v][i]) =>
            /\ author[box[v][i].n] = v /\ box[v][i].n \notin encrypting[v]
            /\ \A j \in 1..Len(box[v]) : IsAnswer(box[v][j]) /\ box[v][j].n = box[v][i].n => j = i

MayTell(box, u, e) ==
    /\ OwnEvent(u, e)
    /\ IsAnswer(e) => author[e.n] = u /\ e.n \notin encrypting[u] /\ ~BoxAnswered(box, u, e.n)
OwnAfter(box, next, u, e) ==
    /\ next \in [Users -> Seq(Event)] /\ BoxOwn(next)
    /\ \A v \in Users : \A n :
          BoxAnswered(next, v, n) => BoxAnswered(box, v, n) \/ (IsAnswer(e) /\ v = u /\ n = e.n)

LEMMA TellOwn ==
    ASSUME NEW box \in [Users -> Seq(Event)], BoxOwn(box), NEW next, NEW u \in Users, NEW e, Told(box, next, u, e),
           MayTell(box, u, e)
    PROVE  OwnAfter(box, next, u, e)
  <1> USE DEF MayTell, OwnAfter
  <1>1. /\ next \in [Users -> Seq(Event)]
        /\ \A v \in Users : \A i \in 1..Len(next[v]) :
              (next[v][i] = e /\ v = u) \/ (i \in 1..Len(box[v]) /\ next[v][i] = box[v][i])
        /\ \A v \in Users \ {u} : next[v] = box[v]
        /\ Len(next[u]) = Len(box[u]) + 1 /\ next[u][Len(box[u]) + 1] = e
        /\ \A i \in 1..Len(box[u]) : next[u][i] = box[u][i]
        /\ Len(box[u]) \in Nat
    BY DEF Told
  <1>2. \A v \in Users : \A n :
            BoxAnswered(next, v, n) => BoxAnswered(box, v, n) \/ (IsAnswer(e) /\ v = u /\ n = e.n)
    BY <1>1 DEF BoxAnswered
  <1>3. ASSUME NEW v \in Users, NEW i \in 1..Len(next[v])
        PROVE  /\ OwnEvent(v, next[v][i])
               /\ IsAnswer(next[v][i]) =>
                   /\ author[next[v][i].n] = v /\ next[v][i].n \notin encrypting[v]
                   /\ \A j \in 1..Len(next[v]) : IsAnswer(next[v][j]) /\ next[v][j].n = next[v][i].n => j = i
    <2>1. CASE v # u
      BY <1>1, <1>3, <2>1 DEF BoxOwn
    <2>2. CASE v = u
      <3>1. \A j \in 1..Len(next[u]) :
               (j = Len(box[u]) + 1 /\ next[u][j] = e) \/ (j \in 1..Len(box[u]) /\ next[u][j] = box[u][j])
        <4>1. ASSUME NEW j \in 1..Len(next[u]), j # Len(box[u]) + 1 PROVE j \in 1..Len(box[u])
          BY <1>1, <4>1
        <4>2. QED
          BY <1>1, <4>1
      <3>2. CASE i = Len(box[u]) + 1
        <4>1. next[u][i] = e
          BY <1>1, <3>2
        <4>2. ASSUME IsAnswer(e), NEW j \in 1..Len(next[u]), IsAnswer(next[u][j]), next[u][j].n = e.n PROVE j = i
          <5>1. CASE j \in 1..Len(box[u]) /\ next[u][j] = box[u][j]
            BY <4>2, <5>1 DEF BoxAnswered
          <5>2. QED
            BY <3>1, <3>2, <5>1
        <4>3. QED
          BY <2>2, <4>1, <4>2
      <3>3. CASE i \in 1..Len(box[u]) /\ next[u][i] = box[u][i]
        <4>1. /\ OwnEvent(u, box[u][i])
              /\ IsAnswer(box[u][i]) =>
                   /\ author[box[u][i].n] = u /\ box[u][i].n \notin encrypting[u]
                   /\ \A j \in 1..Len(box[u]) : IsAnswer(box[u][j]) /\ box[u][j].n = box[u][i].n => j = i
          BY <3>3 DEF BoxOwn
        <4>2. ASSUME IsAnswer(box[u][i]), NEW j \in 1..Len(next[u]), IsAnswer(next[u][j]), next[u][j].n = box[u][i].n
              PROVE  j = i
          <5>1. CASE next[u][j] = e
            BY <3>3, <4>2, <5>1 DEF BoxAnswered
          <5>2. CASE j \in 1..Len(box[u]) /\ next[u][j] = box[u][j]
            BY <4>1, <4>2, <5>2
          <5>3. QED
            BY <3>1, <5>1, <5>2
        <4>3. QED
          BY <2>2, <3>3, <4>1, <4>2
      <3>4. QED
        BY <1>3, <2>2, <3>1, <3>2, <3>3
    <2>3. QED
      BY <2>1, <2>2
  <1>4. QED
    BY <1>1, <1>2, <1>3 DEF BoxOwn

\* The answer to a text goes to its writer.
LEMMA AnswerOwn ==
    ASSUME TrueInv, KeysInv, NEW box \in [Users -> Seq(Event)], BoxOwn(box), NEW f \in flights,
           NEW kind \in {"sent", "failed"}, \A n : BoxAnswered(box, f.from, n) => Answered(f.from, n)
    PROVE  /\ Answer(box, f, kind) \in [Users -> Seq(Event)] /\ BoxOwn(Answer(box, f, kind))
           /\ \A v \in Users : \A n : BoxAnswered(Answer(box, f, kind), v, n) =>
                 BoxAnswered(box, v, n) \/ (f.kind = "text" /\ v = f.from /\ n = f.n)
  <1>1. f \in Flight /\ f.from \in Users /\ f.n \in DOMAIN author
    BY KnownFlights
  <1>2. CASE ~(f.kind = "text" /\ f.answer)
    BY <1>2 DEF Answer
  <1>3. CASE f.kind = "text" /\ f.answer
    <2> DEFINE e == EventOf(kind, f)
               next == Tell(box, f.from, kind, f)
    <2>1. e.kind = kind /\ e.n = f.n /\ Told(box, next, f.from, e)
      BY <1>1, TellTrue
    <2>2. next = Answer(box, f, kind)
      BY <1>3 DEF Answer
    <2> HIDE DEF e, next
    <2>3. f.from = author[f.n] /\ f.n \notin encrypting[f.from] /\ ~Answered(f.from, f.n)
      BY <1>3 DEF KeysInv, RelayKeys, FlightsOwn
    <2>4. MayTell(box, f.from, e)
      BY <2>1, <2>3 DEF OwnEvent, MayTell
    <2>5. OwnAfter(box, next, f.from, e)
      BY <1>1, <2>1, <2>4, TellOwn
    <2>6. QED
      BY <1>3, <2>1, <2>2, <2>5 DEF OwnAfter
  <1>4. QED
    BY <1>2, <1>3

LEMMA RelayStepKeys ==
    ASSUME TrueInv, KeysInv, NEW f \in flights, Deliver(f) \/ Refuse(f) \/ Lose(f)
    PROVE  KeysInv'
  <1>1. f \in Flight /\ f.from \in Users /\ f.n \in DOMAIN author
    BY KnownFlights
  <1>2. /\ flights' = flights \ {f}
        /\ UNCHANGED <<author, thread, encrypting, arriving, rows, snapshot, queue, seen>>
        /\ handed \subseteq handed'
    BY DEF Deliver, Refuse, Lose, history, store, disk
  <1>3. Grows
    BY <1>2 DEF TrueInv, AuthorTyped, Grows
  <1>4. BoxOwn(inbox) /\ inbox \in [Users -> Seq(Event)]
    BY DEF KeysInv, RelayKeys, AnswersOwn, BoxOwn, TrueInv, InboxTrue
  <1>5. \A v \in Users : \A n : BoxAnswered(inbox, v, n) <=> Answered(v, n)
    BY DEF BoxAnswered, Answered
  <1>6. /\ BoxOwn(inbox')
        /\ \A v \in Users : \A n : BoxAnswered(inbox', v, n) =>
              BoxAnswered(inbox, v, n) \/ (f.kind = "text" /\ v = f.from /\ n = f.n)
    <2>1. CASE Lose(f)
      BY <1>4, <2>1 DEF Lose
    <2>2. CASE Refuse(f)
      <3>1. inbox' = Answer(inbox, f, "failed")
        BY <2>2 DEF Refuse
      <3>2. QED
        BY <1>1, <1>4, <1>5, <3>1, AnswerOwn
    <2>3. CASE Deliver(f)
      <3> DEFINE e == EventOf(f.kind, f)
                 box == Tell(inbox, Other(f.from), f.kind, f)
      <3>1. inbox' = Answer(box, f, "sent")
        BY <2>3 DEF Deliver
      <3>2. Other(f.from) \in Users /\ Other(f.from) # f.from /\ f.kind \in {"text", "delete", "read"}
        BY <1>1, OtherUser, FlightFields
      <3>3. e.kind = f.kind /\ e.n = f.n /\ e.id = f.id /\ Told(inbox, box, Other(f.from), e)
        BY <1>1, <1>4, <3>2, TellTrue
      <3> HIDE DEF e, box
      <3>4. OwnEvent(Other(f.from), e) /\ ~IsAnswer(e)
        BY <3>2, <3>3 DEF OwnEvent, IsAnswer, KeysInv, RelayKeys, FlightsOwn
      <3>5. /\ box \in [Users -> Seq(Event)] /\ BoxOwn(box)
            /\ \A v \in Users : \A n : BoxAnswered(box, v, n) => BoxAnswered(inbox, v, n)
        <4>1. OwnAfter(inbox, box, Other(f.from), e)
          BY <1>4, <3>2, <3>3, <3>4, TellOwn DEF MayTell
        <4>2. QED
          BY <3>4, <4>1 DEF OwnAfter
      <3>6. \A n : BoxAnswered(box, f.from, n) => Answered(f.from, n)
        BY <1>1, <1>5, <3>5
      <3>7. QED
        BY <1>1, <3>1, <3>5, <3>6, AnswerOwn
    <2>4. QED
      BY <2>1, <2>2, <2>3
  <1>7. AnswersOwn'
    BY <1>2, <1>6 DEF AnswersOwn, BoxOwn, OwnEvent, IsAnswer
  <1>8. \A v \in Users : \A n : Answered(v, n)' => Answered(v, n) \/ (f.kind = "text" /\ v = f.from /\ n = f.n)
    <2>1. \A v \in Users : \A n : Answered(v, n)' <=> BoxAnswered(inbox', v, n)
      BY DEF Answered, BoxAnswered, IsAnswer
    <2>2. QED
      BY <1>5, <1>6, <2>1
  <1>9. FlightsOwn'
    <2>1. ASSUME NEW g \in flights', g.kind = "text" PROVE ~Answered(g.from, g.n)'
      <3>1. /\ g \in flights /\ g # f /\ g.from \in Users /\ ~Answered(g.from, g.n)
            /\ \A h \in flights : h.kind = "text" /\ h.n = g.n => h = g
        BY <1>2, <2>1, KnownFlights DEF KeysInv, RelayKeys, FlightsOwn
      <3>2. QED
        BY <1>8, <3>1
    <2>2. QED
      BY <1>2, <2>1 DEF KeysInv, RelayKeys, FlightsOwn
  <1>10. ArrivingOthers'
    BY <1>2 DEF KeysInv, RelayKeys, ArrivingOthers, OwnEvent
  <1>11. PendingKept
    BY <1>2, <1>8 DEF PendingKept, Pending, InFlight
  <1>12. QED
    BY <1>2, <1>3, <1>7, <1>9, <1>10, <1>11, NothingMoved DEF RelayKeys

-----------------------------------------------------------------------------
(* Events.                                                                 *)

LEMMA ReceiveRelay ==
    ASSUME TrueInv, KeysInv, Grows, NEW u \in Users, inbox[u] # <<>>,
           inbox' = [inbox EXCEPT ![u] = Tail(inbox[u])], UNCHANGED <<flights, encrypting, author>>,
           ArrivingKept, NEW e, e = Head(inbox[u])
    PROVE  /\ RelayKeys' /\ PendingKept
           /\ IsAnswer(e) => Pending(u, e.n) /\ author[e.n] = u /\ ~Pending(u, e.n)'
  <1>1. e = inbox[u][1] /\ 1 \in 1..Len(inbox[u])
    BY HeadEvent
  <1>2. inbox'[u] = Tail(inbox[u]) /\ \A v \in Users \ {u} : inbox'[v] = inbox[v]
    BY DEF TrueInv, InboxTrue
  <1>3. \A v \in Users : BoxKept(v)
    BY <1>2, TailBox, SameBox
  <1>4. RelayKeys' /\ PendingKept
    BY <1>3, SameFlights, QuietStep DEF KeysInv
  <1>5. ASSUME IsAnswer(e)
        PROVE  Pending(u, e.n) /\ author[e.n] = u /\ ~Pending(u, e.n)'
    <2>1. /\ author[e.n] = u /\ e.n \notin encrypting[u]
          /\ \A j \in 1..Len(inbox[u]) : IsAnswer(inbox[u][j]) /\ inbox[u][j].n = e.n => j = 1
      BY <1>1, <1>5 DEF KeysInv, RelayKeys, AnswersOwn
    <2>2. Answered(u, e.n)
      BY <1>1, <1>5 DEF Answered
    <2>3. ~Answered(u, e.n)'
      <3>1. ASSUME NEW i \in 1..Len(Tail(inbox[u])), IsAnswer(Tail(inbox[u])[i]), Tail(inbox[u])[i].n = e.n
            PROVE  FALSE
        <4>1. i + 1 \in 1..Len(inbox[u]) /\ Tail(inbox[u])[i] = inbox[u][i + 1]
          BY HeadEvent
        <4>2. i + 1 = 1
          BY <2>1, <3>1, <4>1
        <4>3. QED
          BY <4>2
      <3>2. QED
        BY <1>2, <3>1 DEF Answered, IsAnswer
    <2>4. ~InFlight(e.n)
      BY <2>1, <2>2 DEF KeysInv, RelayKeys, FlightsOwn, InFlight
    <2>5. ~InFlight(e.n)'
      BY <2>4 DEF InFlight
    <2>6. QED
      BY <2>1, <2>2, <2>3, <2>5 DEF Pending
  <1>6. QED
    BY <1>4, <1>5

\* At most one message waits for an answer, and only its row is renamed.
LEMMA OneRename ==
    ASSUME NEW w \in Message
    PROVE  Renames({}) = <<>> /\ Renames({w}) = <<[op |-> "rename", row |-> w]>>
  <1> DEFINE c == [op |-> "rename", row |-> w]
  <1>1. Renames({}) = SetToSeq({}) /\ Renames({w}) = SetToSeq({c})
    BY DEF Renames
  <1> HIDE DEF c
  <1>2. Renames({}) = <<>>
    <2>1. IsFiniteSet({}) /\ Cardinality({}) = 0
      BY FS_EmptySet
    <2>2. SetToSeq({}) \in Seq({}) /\ Len(SetToSeq({})) = 0
      BY <2>1, SetToSeqElements
    <2>3. QED
      BY <1>1, <2>2
  <1>3. Renames({w}) = <<c>>
    <2>1. IsFiniteSet({c}) /\ Cardinality({c}) = 1
      BY FS_Singleton
    <2>2. SetToSeq({c}) \in Seq({c}) /\ Len(SetToSeq({c})) = 1
      BY <2>1, SetToSeqElements
    <2>3. SetToSeq({c})[1] = c
      BY <2>2, ElementOfSeq
    <2>4. QED
      BY <1>1, <2>2, <2>3
  <1>4. QED
    BY <1>2, <1>3 DEF c

LEMMA OnSentKeys ==
    ASSUME TrueInv, KeysInv, Grows, PendingKept, RelayKeys', NEW u \in Users, NEW e,
           Pending(u, e.n), author[e.n] = u, ~Pending(u, e.n)', e.n \in handed, OnSent(u, e),
           UNCHANGED <<author, rows, snapshot>>
    PROVE  KeysInv'
  <1> DEFINE n == e.n
             A == Acked(Sent(u, n))
             Q == thread[u] \ Sent(u, n)
             T == Q \cup A
  <1>1. thread' = [thread EXCEPT ![u] = T] /\ Later(u, Renames(A))
    BY DEF OnSent, Acked, Renames
  <1>2. \A w \in A : TrueNext(u, w) /\ w.n = n /\ w.id = "final" /\ w.status = "sent"
    BY AckedNext
  <1>3. /\ n \in DOMAIN author /\ ~HasFinal(u, n)
        /\ \A m \in Sent(u, n) : m \in thread[u] /\ Key(m) = <<n, "temp">>
        /\ \A m \in Q : m.n # n
    BY PendingTemp
  <1>4. /\ IdsSound(u, thread[u]) /\ IdsSound(u, rows[u]) /\ IdsSound(u, snapshot[u])
        /\ CallsSound(u, queue[u]) /\ RenamesFirst(rows[u], queue[u]) /\ queue[u] \in Seq(Call)
    BY OldIds DEF TrueInv, QueueTrue
  <1>5. A = {} \/ \E w \in A : A = {w}
    <2>1. \A m1, m2 \in Sent(u, n) : m1 = m2
      BY <1>3, <1>4 DEF IdsSound, UniqueKeys
    <2>2. CASE Sent(u, n) = {}
      BY <2>2 DEF Acked
    <2>3. CASE Sent(u, n) # {}
      <3>1. PICK m \in Sent(u, n) : Sent(u, n) = {m}
        BY <2>1, <2>3
      <3>2. A = {[m EXCEPT !.id = "final", !.status = "sent"]}
        BY <3>1 DEF Acked
      <3>3. QED
        BY <3>2
    <2>4. QED
      BY <2>2, <2>3
  <1>6. UniqueKeys(Q) /\ Keys(Q) \subseteq Keys(thread[u]) /\ Q \subseteq thread[u]
    BY <1>4, FewerIds DEF IdsSound
  <1>7. rows' = [rows EXCEPT ![u] = rows[u]] /\ snapshot' = [snapshot EXCEPT ![u] = snapshot[u]]
    BY Unmoved
  <1> HIDE DEF A
  <1>8. CASE A = {}
    <2>1. T = Q
      BY <1>8
    <2>2. IdsSound(u, T)
      BY <1>4, <1>6, <2>1 DEF IdsSound, FinalsFree
    <2>3. queue[u] \o <<>> = queue[u]
      BY <1>4
    <2>4. Renames(A) = <<>>
      <3>1. \E w : w \in Message
        BY NewMessageFields DEF Ids, Statuses
      <3>2. QED
        BY <1>8, <3>1, OneRename
    <2>5. queue' = [queue EXCEPT ![u] = queue[u]]
      BY <1>1, <2>3, <2>4 DEF Later
    <2> HIDE DEF T
    <2>6. QED
      BY <1>1, <1>4, <1>7, <2>2, <2>5, DeviceChanged
  <1>9. CASE \E w \in A : A = {w}
    <2>1. PICK w \in A : A = {w}
      BY <1>9
    <2> DEFINE c == [op |-> "rename", row |-> w]
               q == queue[u] \o <<c>>
    <2>2. w \in Message /\ w.n = n /\ w.id = "final"
      BY <1>2 DEF TrueNext
    <2>3. c \in Call /\ c.op = "rename" /\ c.row = w
      BY <2>2, SaveCall
    <2>4. Renames(A) = <<c>>
      BY <2>1, <2>2, OneRename
    <2> HIDE DEF c
    <2>5. Key(w) = Final(n)
      BY <2>2 DEF Key, Final
    <2>6. T = Q \cup {w}
      BY <2>1
    <2>7. Key(w) \notin Keys(Q)
      BY <1>3, <2>5 DEF Keys, Key, Final
    <2>8. UniqueKeys(T) /\ Keys(T) = Keys(Q) \cup {Final(n)}
      BY <1>6, <2>5, <2>6, <2>7, NewId
    <2>9. UnsentNext(u, w) /\ \A k : Final(k) = Final(n) => k = n
      BY <2>2 DEF UnsentNext, Final
    <2>10. IdsSound(u, T)
      BY <1>4, <1>6, <2>6, <2>8, <2>9 DEF IdsSound, FinalsFree
    <2>11. Final(n) \notin Keys(rows[u]) /\ ~AddsKey(queue[u], Final(n))
      BY <1>3 DEF HasFinal
    <2>12. RenamesFirst(rows[u], q)
      BY <1>4, <2>2, <2>3, <2>5, <2>11, JoinRename
    <2>13. CallsSound(u, q)
      <3>1. <<c>> \in Seq(Call) /\ \A i \in 1..Len(<<c>>) : <<c>>[i] = c
        BY <2>3
      <3>2. ASSUME NEW i \in 1..Len(q), Adds(q[i]) PROVE UnsentNext(u, q[i].row)
        BY <1>4, <2>3, <2>9, <3>1, <3>2, JoinedCalls DEF CallsSound
      <3>3. \A k : AddsKey(q, k) => AddsKey(queue[u], k) \/ k = Final(n)
        <4>1. \A k : AddsKey(<<c>>, k) => k = Final(n)
          BY <2>3, <2>5, <3>1 DEF AddsKey
        <4>2. QED
          BY <1>4, <3>1, <4>1, JoinAdds
      <3>4. \A k \in DOMAIN author' : author'[k] = u /\ Pending(u, k)' => ~AddsKey(q, Final(k))
        BY <1>4, <2>9, <3>3 DEF CallsSound
      <3>5. QED
        BY <3>2, <3>4 DEF CallsSound
    <2>14. queue' = [queue EXCEPT ![u] = q]
      BY <1>1, <2>4 DEF Later
    <2> HIDE DEF q, T
    <2>15. QED
      BY <1>1, <1>4, <1>7, <2>10, <2>12, <2>13, <2>14, DeviceChanged
  <1>10. QED
    BY <1>5, <1>8, <1>9

LEMMA ReceiveKeys ==
    ASSUME TrueInv, KeysInv, NEW u \in Users, Receive(u)
    PROVE  KeysInv'
  <1>0. PICK e : e = Head(inbox[u])
    OBVIOUS
  <1>1. /\ inbox[u] # <<>> /\ inbox' = [inbox EXCEPT ![u] = Tail(inbox[u])]
        /\ UNCHANGED <<flights, author, encrypting, snapshot, rows, handed, seen>>
    BY DEF Receive, history
  <1>2. Grows
    BY <1>1, Standstill
  <1>3. TrueEvent(e) /\ e = inbox[u][1] /\ 1 \in 1..Len(inbox[u])
    BY <1>0, <1>1, HeadEvent
  <1>4. OwnEvent(u, e)
    BY <1>3 DEF KeysInv, RelayKeys, AnswersOwn
  <1>5. ArrivingKept
    <2>1. UNCHANGED arriving \/ arriving' = [arriving EXCEPT ![u] = @ \cup {e}]
      BY <1>0 DEF Receive, OnSent, OnFailed, OnRead
    <2>2. QED
      BY <1>3, <2>1 DEF ArrivingKept, TrueInv, ArrivingTrue
  <1>6. /\ RelayKeys' /\ PendingKept
        /\ IsAnswer(e) => Pending(u, e.n) /\ author[e.n] = u /\ ~Pending(u, e.n)'
    BY <1>0, <1>1, <1>2, <1>5, ReceiveRelay
  <1>7. CASE e.kind = "sent" /\ OnSent(u, e)
    <2>1. e.n \in handed /\ IsAnswer(e)
      BY <1>3, <1>7 DEF TrueEvent, IsAnswer
    <2>2. QED
      BY <1>1, <1>2, <1>6, <1>7, <2>1, OnSentKeys
  <1>8. CASE e.kind = "failed" /\ OnFailed(u, e)
    <2>1. Sent(u, e.n) \in SUBSET thread[u] /\ Change(u, Sent(u, e.n), With(Sent(u, e.n), "failed"))
      BY <1>8 DEF Sent, OnFailed
    <2>2. QED
      BY <1>1, <1>2, <1>6, <2>1, WithKeys DEF Statuses
  <1>9. CASE e.kind = "read" /\ OnRead(u, e)
    <2>1. Named(u, e) \in SUBSET thread[u] /\ Change(u, Named(u, e), With(Named(u, e), "read"))
      BY <1>9 DEF Named, OnRead
    <2>2. \A m \in Named(u, e) : m.id = "final" /\ m.n \in seen
      BY <1>3, <1>4, <1>9 DEF Named, Key, OwnEvent, TrueEvent
    <2>3. QED
      BY <1>1, <1>2, <1>6, <2>1, <2>2, WithKeys DEF Statuses
  <1>10. CASE UNCHANGED <<thread, tracked, queue>>
    BY <1>1, <1>2, <1>6, <1>10, NothingMoved
  <1>11. QED
    BY <1>0, <1>7, <1>8, <1>9, <1>10 DEF Receive

LEMMA AddReceivedKeys ==
    ASSUME TrueInv, KeysInv, Grows, PendingKept, RelayKeys', NEW u \in Users, NEW e, TrueEvent(e),
           e.kind = "text", OwnEvent(u, e), AddReceived(u, e), UNCHANGED <<author, rows, snapshot>>
    PROVE  KeysInv'
  <1>1. CASE UNCHANGED <<thread, queue>>
    BY <1>1, NothingMoved
  <1>2. CASE Named(u, e) = {} /\ Change(u, {}, {NewMessage(e.n, "final", "delivered")})
    <2> DEFINE m == NewMessage(e.n, "final", "delivered")
               T == (thread[u] \ {}) \cup {m}
    <2>1. e.n \in Nat /\ e.n \in DOMAIN author /\ e.n \in handed /\ author[e.n] # u /\ e.id = "final"
      BY EventFields DEF TrueEvent, OwnEvent
    <2>2. m \in Message /\ m.n = e.n /\ m.status = "delivered" /\ m.id = "final"
      BY <2>1, NewMessageFields DEF Ids, Statuses
    <2>3. thread' = [thread EXCEPT ![u] = T] /\ Later(u, Saves({m}))
      BY <1>2 DEF Change
    <2> HIDE DEF m
    <2>4. TrueNext(u, m)
      BY <2>1, <2>2 DEF TrueNext, Grows
    <2>5. Key(m) = Final(e.n) /\ Key(m) = Key(e)
      BY <2>1, <2>2 DEF Key, Final
    <2>6. Key(m) \notin Keys(thread[u])
      BY <1>2, <2>5 DEF Named, Keys
    <2>7. IdsSound(u, thread[u])
      BY OldIds
    <2>8. UniqueKeys(T) /\ Keys(T) = Keys(thread[u]) \cup {Final(e.n)}
      BY <2>5, <2>6, <2>7, NewId DEF IdsSound
    <2>9. UnsentNext(u, m) /\ \A k : Final(k) = Final(e.n) => k = e.n
      BY <2>2 DEF UnsentNext, Final
    <2>10. IdsSound(u, T)
      BY <2>1, <2>7, <2>8, <2>9 DEF IdsSound, FinalsFree
    <2>11. IdsSound(u, {m})
      BY <2>1, <2>5, <2>9 DEF IdsSound, FinalsFree, UniqueKeys, Keys
    <2> HIDE DEF T
    <2>12. IsFiniteSet({m}) /\ \A w \in {m} : TrueNext(u, w)
      BY <2>4, FS_Singleton
    <2>13. QED
      BY <2>3, <2>10, <2>11, <2>12, SavesSound, ThreadMoved
  <1>3. QED
    BY <1>1, <1>2 DEF AddReceived

LEMMA ApplyToTargetKeys ==
    ASSUME TrueInv, KeysInv, Grows, PendingKept, RelayKeys', NEW u \in Users, NEW e, TrueEvent(e),
           ApplyToTarget(u, e), UNCHANGED <<rows, snapshot>>
    PROVE  KeysInv'
  <1>1. CASE Later(u, <<[op |-> "amend", n |-> e.n, id |-> e.id]>>) /\ UNCHANGED thread
    <2> DEFINE c == [op |-> "amend", n |-> e.n, id |-> e.id]
               ops == <<c>>
    <2>1. e.n \in Nat /\ e.id \in {"temp", "final"}
      BY EventFields DEF TrueEvent, Ids
    <2>2. c \in Call /\ c.op = "amend"
      BY <2>1 DEF Call
    <2>3. Later(u, ops)
      BY <1>1
    <2> HIDE DEF c
    <2>4. ops \in Seq(Call) /\ \A i \in 1..Len(ops) : ops[i] = c
      BY <2>2
    <2> HIDE DEF ops
    <2>5. CallsSound(u, ops) /\ \A i \in 1..Len(ops) : ops[i].op # "rename"
      BY <2>2, <2>4 DEF CallsSound, AddsKey, Adds
    <2>6. thread' = [thread EXCEPT ![u] = thread[u]] /\ IdsSound(u, thread[u])
      BY <1>1, Unmoved, OldIds
    <2>7. QED
      BY <2>3, <2>4, <2>5, <2>6, ThreadMoved
  <1>2. CASE Change(u, Named(u, e), {[m EXCEPT !.deleted = TRUE] : m \in Named(u, e)})
    <2>1. Change(u, Named(u, e), Deleted(Named(u, e))) /\ Named(u, e) \in SUBSET thread[u]
      BY <1>2 DEF Deleted, Named
    <2>2. QED
      BY <2>1, DeletedKeys
  <1>3. QED
    BY <1>1, <1>2 DEF ApplyToTarget

LEMMA ArrivedKeys ==
    ASSUME TrueInv, KeysInv, NEW u \in Users, NEW e \in arriving[u], Arrived(u, e)
    PROVE  KeysInv'
  <1>1. /\ arriving' = [arriving EXCEPT ![u] = @ \ {e}]
        /\ UNCHANGED <<flights, inbox, author, encrypting, snapshot, rows, handed, seen>>
    BY DEF Arrived, relay
  <1>2. Grows
    BY <1>1, Standstill
  <1>3. TrueEvent(e) /\ OwnEvent(u, e)
    BY DEF TrueInv, ArrivingTrue, KeysInv, RelayKeys, ArrivingOthers
  <1>4. FlightsKept /\ ArrivingKept /\ \A v \in Users : BoxKept(v)
    <2>1. ArrivingKept
      BY <1>1 DEF ArrivingKept, TrueInv, ArrivingTrue
    <2>2. QED
      BY <1>1, <2>1, SameFlights, SameBox DEF KeysInv
  <1>5. RelayKeys' /\ PendingKept
    BY <1>1, <1>2, <1>4, QuietStep
  <1>6. (e.kind = "text" /\ AddReceived(u, e)) \/ ApplyToTarget(u, e)
    BY DEF Arrived
  <1>7. QED
    BY <1>1, <1>2, <1>3, <1>5, <1>6, AddReceivedKeys, ApplyToTargetKeys

-----------------------------------------------------------------------------
(* The database.                                                           *)

LEMMA TailSound ==
    ASSUME NEW u, NEW q \in Seq(Call), q # <<>>, CallsSound(u, q)
    PROVE  CallsSound(u, Tail(q))
  <1>1. \A i \in 1..Len(Tail(q)) : i + 1 \in 1..Len(q) /\ Tail(q)[i] = q[i + 1]
    BY TailCalls
  <1>2. \A i \in 1..Len(Tail(q)) : Adds(Tail(q)[i]) => UnsentNext(u, Tail(q)[i].row)
    BY <1>1 DEF CallsSound
  <1>3. QED
    BY <1>2, TailAdds DEF CallsSound

\* The first call carried out, which makes R of the rows, and asks for ops.
LEMMA CarriedOut ==
    ASSUME TrueInv, KeysInv, Grows, PendingKept, RelayKeys', NEW u \in Users, queue[u] # <<>>,
           NEW R, NEW S, NEW ops \in Seq(Call), UNCHANGED thread,
           rows' = [rows EXCEPT ![u] = R], snapshot' = [snapshot EXCEPT ![u] = S],
           queue' = [queue EXCEPT ![u] = Tail(queue[u]) \o ops],
           \A k \in Keys(R) : k \in Keys(rows[u]) \/ (Adds(queue[u][1]) /\ k = Key(queue[u][1].row)),
           IdsSound(u, R), IdsSound(u, S), CallsSound(u, ops), \A i \in 1..Len(ops) : ops[i].op # "rename"
    PROVE  KeysInv'
  <1> DEFINE p == Tail(queue[u])
             q == p \o ops
  <1>1. queue[u] \in Seq(Call) /\ CallsSound(u, queue[u]) /\ RenamesFirst(rows[u], queue[u])
    BY OldIds DEF TrueInv, QueueTrue
  <1>2. p \in Seq(Call) /\ CallsSound(u, p) /\ RenamesFirst(R, p)
    BY <1>1, TailCalls, TailSound, TailRenamesFirst
  <1> HIDE DEF p
  <1>3. RenamesFirst(R, q)
    BY <1>2, JoinRenamesFirst
  <1>4. CallsSound(u, q)
    <2>1. ASSUME NEW i \in 1..Len(q), Adds(q[i]) PROVE UnsentNext(u, q[i].row)
      BY <1>2, <2>1, JoinedCalls DEF CallsSound
    <2>2. \A n \in DOMAIN author' : author'[n] = u /\ Pending(u, n)' => ~AddsKey(q, Final(n))
      BY <1>2, JoinAdds DEF CallsSound
    <2>3. QED
      BY <2>1, <2>2 DEF CallsSound
  <1>5. queue' = [queue EXCEPT ![u] = q] /\ thread' = [thread EXCEPT ![u] = thread[u]]
    BY Unmoved DEF p
  <1> HIDE DEF q
  <1>6. QED
    BY <1>3, <1>4, <1>5, OldIds, DeviceChanged

LEMMA NoCalls ==
    ASSUME NEW u
    PROVE  <<>> \in Seq(Call) /\ CallsSound(u, <<>>) /\ \A i \in 1..Len(<<>>) : <<>>[i].op # "rename"
  BY DEF CallsSound, AddsKey

LEMMA SilentCall ==
    ASSUME NEW u, NEW c \in Call, c.op # "rename", ~Adds(c)
    PROVE  <<c>> \in Seq(Call) /\ CallsSound(u, <<c>>) /\ \A i \in 1..Len(<<c>>) : <<c>>[i].op # "rename"
  <1> DEFINE q == <<c>>
  <1>1. q \in Seq(Call) /\ \A i \in 1..Len(q) : q[i] = c
    OBVIOUS
  <1> HIDE DEF q
  <1>2. CallsSound(u, q) /\ \A i \in 1..Len(q) : q[i].op # "rename"
    BY <1>1 DEF CallsSound, AddsKey
  <1>3. QED
    BY <1>1, <1>2 DEF q

LEMMA SaveSound ==
    ASSUME NEW u, NEW m \in Message, UnsentNext(u, m),
           \A n \in DOMAIN author' : author'[n] = u /\ Pending(u, n)' => Key(m) # Final(n)
    PROVE  LET c == [op |-> "save", row |-> m] IN
           <<c>> \in Seq(Call) /\ CallsSound(u, <<c>>) /\ \A i \in 1..Len(<<c>>) : <<c>>[i].op # "rename"
  <1> DEFINE c == [op |-> "save", row |-> m]
             q == <<c>>
  <1>1. c \in Call /\ c.op = "save" /\ c.row = m
    BY SaveCall
  <1> HIDE DEF c
  <1>2. q \in Seq(Call) /\ \A i \in 1..Len(q) : q[i] = c
    BY <1>1
  <1> HIDE DEF q
  <1>3. CallsSound(u, q) /\ \A i \in 1..Len(q) : q[i].op # "rename"
    BY <1>1, <1>2 DEF CallsSound, AddsKey, Adds
  <1>4. QED
    BY <1>2, <1>3 DEF c, q

LEMMA PutIds ==
    ASSUME NEW T, UniqueKeys(T), NEW m
    PROVE  UniqueKeys(Put(T, m)) /\ Keys(Put(T, m)) \subseteq Keys(T) \cup {Key(m)} /\ Put(T, m) \subseteq T \cup {m}
  BY DEF UniqueKeys, Keys, Put

LEMMA WriteKeys ==
    ASSUME TrueInv, KeysInv, Grows, PendingKept, RelayKeys', NEW u \in Users, queue[u] # <<>>,
           NEW c, c = queue[u][1], c.op \in {"save", "remove", "clear"}, Write(u, c), UNCHANGED thread
    PROVE  KeysInv'
  <1> DEFINE R == CASE c.op = "save" -> Put(rows[u], c.row)
                    [] c.op = "remove" -> {r \in rows[u] : Key(r) # Key(c.row)}
                    [] c.op = "clear" -> {}
  <1>1. /\ rows' = [rows EXCEPT ![u] = R] /\ queue' = [queue EXCEPT ![u] = Tail(queue[u])]
        /\ snapshot' = [snapshot EXCEPT ![u] = snapshot[u]]
    BY Unmoved DEF Write
  <1>2. /\ queue[u] \in Seq(Call) /\ CallsSound(u, queue[u])
        /\ IdsSound(u, rows[u]) /\ IdsSound(u, snapshot[u])
    BY OldIds DEF TrueInv, QueueTrue
  <1>3. 1 \in 1..Len(queue[u])
    BY <1>2, TailCalls
  <1>4. /\ IdsSound(u, R)
        /\ \A k \in Keys(R) : k \in Keys(rows[u]) \/ (Adds(queue[u][1]) /\ k = Key(queue[u][1].row))
    <2>1. CASE c.op = "save"
      <3>1. R = Put(rows[u], c.row) /\ Adds(queue[u][1])
        BY <2>1 DEF Adds
      <3>2. UnsentNext(u, c.row) /\ AddsKey(queue[u], Key(c.row))
        BY <1>2, <1>3, <3>1 DEF CallsSound, AddsKey
      <3>3. /\ UniqueKeys(Put(rows[u], c.row)) /\ Keys(Put(rows[u], c.row)) \subseteq Keys(rows[u]) \cup {Key(c.row)}
            /\ Put(rows[u], c.row) \subseteq rows[u] \cup {c.row}
        BY <1>2, PutIds DEF IdsSound
      <3> HIDE DEF R
      <3>4. IdsSound(u, R)
        BY <1>2, <3>1, <3>2, <3>3 DEF IdsSound, FinalsFree, CallsSound
      <3>5. QED
        BY <3>1, <3>3, <3>4
    <2>2. CASE c.op = "remove" \/ c.op = "clear"
      <3>1. R \in SUBSET rows[u]
        BY <2>2
      <3> HIDE DEF R
      <3>2. UniqueKeys(R) /\ Keys(R) \subseteq Keys(rows[u])
        BY <1>2, <3>1, FewerIds DEF IdsSound
      <3>3. QED
        BY <1>2, <3>1, <3>2 DEF IdsSound, FinalsFree
    <2>3. QED
      BY <2>1, <2>2
  <1> HIDE DEF R
  <1>5. queue' = [queue EXCEPT ![u] = Tail(queue[u]) \o <<>>]
    <2>1. Tail(queue[u]) \in Seq(Call)
      BY <1>2, TailCalls
    <2>2. Tail(queue[u]) \o <<>> = Tail(queue[u])
      BY <2>1
    <2>3. QED
      BY <1>1, <2>2
  <1>6. QED
    BY <1>1, <1>2, <1>4, <1>5, NoCalls, CarriedOut

LEMMA RenameKeys ==
    ASSUME TrueInv, KeysInv, Grows, PendingKept, RelayKeys', NEW u \in Users, queue[u] # <<>>,
           NEW m, queue[u][1].op = "rename", queue[u][1].row = m, Rename(u, m), UNCHANGED thread
    PROVE  KeysInv'
  <1> DEFINE R == {Renamed(m, r) : r \in rows[u]}
             c == [op |-> "save", row |-> m]
  <1>1. /\ rows' = [rows EXCEPT ![u] = R] /\ queue' = [queue EXCEPT ![u] = Append(Tail(queue[u]), c)]
        /\ snapshot' = [snapshot EXCEPT ![u] = snapshot[u]]
    BY Unmoved DEF Rename, Renamed
  <1>2. /\ queue[u] \in Seq(Call) /\ CallsSound(u, queue[u]) /\ RenamesFirst(rows[u], queue[u])
        /\ IdsSound(u, rows[u]) /\ IdsSound(u, snapshot[u]) /\ rows[u] \subseteq Message
    BY OldIds, OldMessages DEF TrueInv, QueueTrue
  <1>3. 1 \in 1..Len(queue[u]) /\ queue[u][1] \in Call /\ Adds(queue[u][1])
    BY <1>2, TailCalls DEF Adds
  <1>4. m \in Message /\ m.id = "final" /\ Key(m) \notin Keys(rows[u])
    BY <1>2, <1>3, CallRow DEF RenamesFirst
  <1>5. UnsentNext(u, m) /\ AddsKey(queue[u], Key(m))
    BY <1>2, <1>3 DEF CallsSound, AddsKey
  <1>6. ASSUME NEW r \in rows[u]
        PROVE  \/ Renamed(m, r) = r /\ Key(r) # <<m.n, "temp">>
               \/ Key(r) = <<m.n, "temp">> /\ Key(Renamed(m, r)) = Key(m) /\ Renamed(m, r).id = "final"
    <2>1. r \in Message
      BY <1>2
    <2>2. CASE Key(r) = <<m.n, "temp">>
      BY <1>4, <2>1, <2>2, RenamedFields DEF Key
    <2>3. CASE Key(r) # <<m.n, "temp">>
      BY <1>4, <2>1, <2>3, RenamedFields
    <2>4. QED
      BY <2>2, <2>3
  <1>7. UniqueKeys(R)
    <2>1. ASSUME NEW r1 \in rows[u], NEW r2 \in rows[u], Key(Renamed(m, r1)) = Key(Renamed(m, r2))
          PROVE  r1 = r2
      BY <1>2, <1>4, <1>6, <2>1 DEF IdsSound, UniqueKeys, Keys
    <2>2. ASSUME NEW x1 \in R, NEW x2 \in R, Key(x1) = Key(x2) PROVE x1 = x2
      <3>1. PICK r1 \in rows[u] : x1 = Renamed(m, r1)
        OBVIOUS
      <3>2. PICK r2 \in rows[u] : x2 = Renamed(m, r2)
        OBVIOUS
      <3>3. QED
        BY <2>1, <2>2, <3>1, <3>2
    <2> HIDE DEF R
    <2>3. QED
      BY <2>2 DEF UniqueKeys
  <1>8. ASSUME NEW x \in R
        PROVE  UnsentNext(u, x) /\ (Key(x) \in Keys(rows[u]) \/ Key(x) = Key(m))
    <2>1. PICK r \in rows[u] : x = Renamed(m, r)
      OBVIOUS
    <2>2. CASE Renamed(m, r) = r
      BY <1>2, <2>1, <2>2 DEF IdsSound, Keys
    <2>3. CASE Key(Renamed(m, r)) = Key(m) /\ Renamed(m, r).id = "final"
      BY <2>1, <2>3 DEF UnsentNext
    <2>4. QED
      BY <1>6, <2>2, <2>3
  <1> HIDE DEF R
  <1>9. \A k \in Keys(R) : k \in Keys(rows[u]) \/ k = Key(m)
    BY <1>8 DEF Keys
  <1>10. \A n \in DOMAIN author' : author'[n] = u /\ Pending(u, n)' => Key(m) # Final(n)
    BY <1>2, <1>5 DEF CallsSound
  <1>11. IdsSound(u, R)
    BY <1>2, <1>7, <1>8, <1>9, <1>10 DEF IdsSound, FinalsFree
  <1>12. <<c>> \in Seq(Call) /\ CallsSound(u, <<c>>) /\ \A i \in 1..Len(<<c>>) : <<c>>[i].op # "rename"
    BY <1>4, <1>5, <1>10, SaveSound
  <1>13. queue' = [queue EXCEPT ![u] = Tail(queue[u]) \o <<c>>]
    <2>1. Tail(queue[u]) \in Seq(Call) /\ c \in Call
      BY <1>2, <1>4, TailCalls, SaveCall
    <2> HIDE DEF c
    <2>2. Append(Tail(queue[u]), c) = Tail(queue[u]) \o <<c>>
      BY <2>1
    <2>3. QED
      BY <1>1, <2>2
  <1> HIDE DEF c
  <1>14. QED
    BY <1>1, <1>2, <1>3, <1>9, <1>11, <1>12, <1>13, CarriedOut

LEMMA AmendKeys ==
    ASSUME TrueInv, KeysInv, Grows, PendingKept, RelayKeys', NEW u \in Users, queue[u] # <<>>,
           NEW c, Amend(u, c), UNCHANGED thread
    PROVE  KeysInv'
  <1> DEFINE S == {x \in rows[u] : Key(x) = Key(c)}
             N == Deleted(S)
  <1>1. queue' = [queue EXCEPT ![u] = Tail(queue[u]) \o Saves(N)] /\ UNCHANGED <<snapshot, rows>>
    BY DEF Amend, Deleted
  <1>2. S \in SUBSET rows[u] /\ IdsSound(u, rows[u]) /\ IdsSound(u, snapshot[u]) /\ rows[u] \subseteq Message
    BY OldIds, OldMessages
  <1> HIDE DEF S
  <1>3. UniqueKeys(S) /\ S \in SUBSET Message
    BY <1>2, FewerIds DEF IdsSound
  <1>4. /\ UniqueKeys(N)
        /\ \A w \in N : \E m \in S : Key(w) = Key(m) /\ w.n = m.n /\ w.id = m.id /\ w.status = m.status
    BY <1>3, DeletedIds
  <1>5. IsFiniteSet(N)
    <2> DEFINE f == [m \in S |-> [m EXCEPT !.deleted = TRUE]]
    <2>1. N = {f[m] : m \in S}
      BY DEF Deleted
    <2>2. IsFiniteSet(S)
      BY <1>2, OldMessages, SubsetFinite
    <2> HIDE DEF f, N
    <2>3. IsFiniteSet({f[m] : m \in S})
      BY <2>2, ImageFinite, Zenon
    <2>4. QED
      BY <2>1, <2>3
  <1>6. ASSUME NEW d \in N PROVE TrueNext(u, d)
    <2>1. PICK m \in S : d = [m EXCEPT !.deleted = TRUE]
      BY DEF Deleted
    <2>2. m \in Message /\ TrueNext(u, m)
      BY <1>2, OldMessages
    <2>3. d \in Message /\ d.n = m.n /\ d.status = m.status
      BY <2>1, <2>2, DeletedMessage
    <2>4. QED
      BY <2>2, <2>3 DEF TrueNext
  <1> HIDE DEF N
  <1>7. IdsSound(u, N)
    <2>1. \A w \in N : UnsentNext(u, w) /\ Key(w) \in Keys(rows[u])
      BY <1>2, <1>4 DEF IdsSound, UnsentNext, Keys
    <2>2. QED
      BY <1>2, <1>4, <2>1 DEF IdsSound, FinalsFree, Keys
  <1>8. /\ CallsSound(u, Saves(N)) /\ Saves(N) \in Seq(Call)
        /\ \A i \in 1..Len(Saves(N)) : Saves(N)[i].op # "rename"
    BY <1>5, <1>6, <1>7, SavesSound
  <1>9. rows' = [rows EXCEPT ![u] = rows[u]] /\ snapshot' = [snapshot EXCEPT ![u] = snapshot[u]]
    BY <1>1, Unmoved
  <1>10. QED
    BY <1>1, <1>2, <1>8, <1>9, CarriedOut

LEMMA LoadKeys ==
    ASSUME TrueInv, KeysInv, Grows, PendingKept, RelayKeys', NEW u \in Users, queue[u] # <<>>,
           NEW c, Load(u, c), UNCHANGED thread
    PROVE  KeysInv'
  <1>1. IdsSound(u, rows[u]) /\ IdsSound(u, snapshot[u]) /\ rows' = [rows EXCEPT ![u] = rows[u]]
    BY OldIds, Unmoved DEF Load
  <1>2. Tail(queue[u]) \in Seq(Call)
    BY TailCalls DEF TrueInv, QueueTrue
  <1>3. CASE c.op = "pinned"
    <2> DEFINE d == [op |-> "load"]
    <2>1. /\ queue' = [queue EXCEPT ![u] = Append(Tail(queue[u]), d)]
          /\ snapshot' = [snapshot EXCEPT ![u] = snapshot[u]]
      BY <1>3 DEF Load
    <2>2. d \in Call /\ d.op # "rename" /\ ~Adds(d)
      BY DEF Call, Adds
    <2> HIDE DEF d
    <2>3. Append(Tail(queue[u]), d) = Tail(queue[u]) \o <<d>>
      BY <1>2, <2>2
    <2>4. queue' = [queue EXCEPT ![u] = Tail(queue[u]) \o <<d>>]
      BY <2>1, <2>3
    <2>5. <<d>> \in Seq(Call) /\ CallsSound(u, <<d>>) /\ \A i \in 1..Len(<<d>>) : <<d>>[i].op # "rename"
      BY <2>2, SilentCall
    <2>6. QED
      BY <1>1, <2>1, <2>4, <2>5, CarriedOut
  <1>4. CASE c.op # "pinned"
    <2>1. /\ queue' = [queue EXCEPT ![u] = Tail(queue[u])]
          /\ snapshot' = [snapshot EXCEPT ![u] = rows[u]]
      BY <1>4 DEF Load
    <2>2. Tail(queue[u]) \o <<>> = Tail(queue[u])
      BY <1>2
    <2>3. queue' = [queue EXCEPT ![u] = Tail(queue[u]) \o <<>>]
      BY <2>1, <2>2
    <2>4. QED
      BY <1>1, <2>1, <2>3, NoCalls, CarriedOut
  <1>5. QED
    BY <1>3, <1>4

LEMMA CarryOutKeys ==
    ASSUME TrueInv, KeysInv, NEW u \in Users, CarryOut(u)
    PROVE  KeysInv'
  <1>1. /\ queue[u] # <<>>
        /\ UNCHANGED <<flights, inbox, author, thread, encrypting, arriving, handed, seen>>
    BY DEF CarryOut, relay, store, history
  <1>2. Grows
    BY <1>1, Standstill
  <1>3. RelayKeys' /\ PendingKept
    BY <1>1, <1>2, SameFlights, StillStep DEF KeysInv
  <1>4. PICK c : c = Head(queue[u])
    OBVIOUS
  <1>5. c = queue[u][1]
    BY <1>1, <1>2, <1>4, HeadCall
  <1>6. CASE c.op \in {"save", "remove", "clear"} /\ Write(u, c)
    BY <1>1, <1>2, <1>3, <1>5, <1>6, WriteKeys
  <1>7. CASE c.op = "rename" /\ Rename(u, c.row)
    BY <1>1, <1>2, <1>3, <1>5, <1>7, RenameKeys
  <1>8. CASE c.op = "amend" /\ Amend(u, c)
    BY <1>1, <1>2, <1>3, <1>8, AmendKeys
  <1>9. CASE c.op \in {"pinned", "load"} /\ Load(u, c)
    BY <1>1, <1>2, <1>3, <1>9, LoadKeys
  <1>10. QED
    BY <1>4, <1>6, <1>7, <1>8, <1>9 DEF CarryOut

LEMMA HydrateKeys ==
    ASSUME TrueInv, KeysInv, NEW u \in Users, Hydrate(u)
    PROVE  KeysInv'
  <1> DEFINE I == Interrupted(u)
             F == With(I, "failed")
             M == (snapshot[u] \ I) \cup F
             L == {m \in thread[u] : Key(m) \notin Keys(M)}
             T == M \cup L
             S == {}
  <1>1. /\ snapshot' = [snapshot EXCEPT ![u] = S]
        /\ thread' = [thread EXCEPT ![u] = T] /\ Later(u, Saves(F))
        /\ UNCHANGED <<flights, inbox, author, encrypting, arriving, rows, handed, seen>>
    BY DEF Hydrate, Merge, relay, history
  <1>2. Grows
    BY <1>1, Standstill
  <1>3. RelayKeys' /\ PendingKept
    BY <1>1, <1>2, SameFlights, StillStep DEF KeysInv
  <1>4. I \in SUBSET snapshot[u] /\ \A m \in I : m.status = "sending"
    BY DEF Interrupted
  <1>5. IdsSound(u, snapshot[u]) /\ IdsSound(u, thread[u]) /\ snapshot[u] \subseteq Message
    BY <1>2, <1>3, OldIds, OldMessages
  <1> HIDE DEF I
  <1>6. UniqueKeys(I) /\ I \in SUBSET Message
    BY <1>4, <1>5, FewerIds DEF IdsSound
  <1>7. /\ UniqueKeys(F)
        /\ \A w \in F : \E m \in I : Key(w) = Key(m) /\ w.n = m.n /\ w.id = m.id /\ w.status = "failed"
    BY <1>6, WithIds DEF Statuses
  <1>8. IsFiniteSet(F) /\ \A w \in F : TrueNext(u, w)
    BY <1>2, <1>4, WithTrue DEF Statuses
  <1> HIDE DEF F
  <1>9. UniqueKeys(M) /\ Keys(M) \subseteq Keys(snapshot[u]) /\ Keys(F) \subseteq Keys(snapshot[u])
    <2>1. UniqueKeys(snapshot[u])
      BY <1>5 DEF IdsSound
    <2>2. I \in SUBSET snapshot[u] /\ \A w \in F : \E m \in I : Key(w) = Key(m)
      BY <1>4, <1>7
    <2>3. QED
      BY <1>7, <2>1, <2>2, SameIds
  <1>10. \A w \in F : UnsentNext(u, w)
    BY <1>4, <1>5, <1>7 DEF IdsSound, UnsentNext
  <1>11. IdsSound(u, F) /\ \A w \in M : UnsentNext(u, w)
    BY <1>5, <1>7, <1>9, <1>10 DEF IdsSound, FinalsFree
  <1> HIDE DEF M
  <1>12. IdsSound(u, T)
    <2>1. UniqueKeys(T)
      BY <1>5, <1>9 DEF IdsSound, UniqueKeys, Keys
    <2>2. Keys(T) \subseteq Keys(snapshot[u]) \cup Keys(thread[u])
      BY <1>9 DEF Keys
    <2>3. \A m \in T : UnsentNext(u, m)
      BY <1>5, <1>11 DEF IdsSound
    <2>4. QED
      BY <1>5, <2>1, <2>2, <2>3 DEF IdsSound, FinalsFree
  <1>13. IdsSound(u, S)
    BY DEF IdsSound, FinalsFree, UniqueKeys, Keys
  <1>14. /\ CallsSound(u, Saves(F)) /\ Saves(F) \in Seq(Call)
         /\ \A i \in 1..Len(Saves(F)) : Saves(F)[i].op # "rename"
    BY <1>8, <1>11, SavesSound
  <1> HIDE DEF T, S, L
  <1>15. QED
    BY <1>1, <1>2, <1>3, <1>12, <1>13, <1>14, ThreadLoaded

-----------------------------------------------------------------------------
(* Faults.                                                                 *)

LEMMA ConnectKeys ==
    ASSUME TrueInv, KeysInv, NEW u \in Users, Connect(u)
    PROVE  KeysInv'
  <1>1. UNCHANGED <<flights, inbox, author, thread, encrypting, arriving, rows, snapshot, queue, handed, seen>>
    BY DEF Connect, store, disk, history
  <1>2. Grows
    BY <1>1, Standstill
  <1>3. QED
    BY <1>1, <1>2, SameFlights, StillStep, NothingMoved DEF KeysInv

LEMMA OfflineKeys ==
    ASSUME TrueInv, KeysInv, Grows, NEW u \in Users, Offline(u), ArrivingKept,
           \A v \in Users : encrypting'[v] \subseteq encrypting[v]
    PROVE  RelayKeys' /\ PendingKept
  <1>1. flights' = {Unanswered(u, f) : f \in flights}
    BY DEF Offline, Unanswered
  <1>2. ASSUME NEW f \in flights
        PROVE  LET g == Unanswered(u, f) IN g.kind = f.kind /\ g.n = f.n /\ g.id = f.id /\ g.from = f.from
    BY KnownFlights, UnansweredFields
  <1>3. FlightsKept
    <2>1. ASSUME NEW g \in flights'
          PROVE  \E f \in flights : /\ g = Unanswered(u, f)
                                    /\ g.kind = f.kind /\ g.n = f.n /\ g.id = f.id /\ g.from = f.from
      <3>1. PICK f \in flights : g = Unanswered(u, f)
        BY <1>1, <2>1
      <3>2. QED
        BY <1>2, <3>1
    <2>2. ASSUME NEW g1 \in flights', NEW g2 \in flights', g1.kind = "text", g2.kind = "text", g1.n = g2.n
          PROVE  g1 = g2
      BY <2>1, <2>2 DEF KeysInv, RelayKeys, FlightsOwn
    <2>3. ASSUME NEW g \in flights', g.kind = "read" PROVE g.id = "final"
      BY <2>1, <2>3 DEF KeysInv, RelayKeys, FlightsOwn
    <2>4. ASSUME NEW g \in flights', g.kind = "text"
          PROVE  \E f \in flights : f.kind = "text" /\ f.n = g.n /\ f.id = g.id /\ f.from = g.from
      BY <2>1, <2>4
    <2>5. QED
      BY <2>2, <2>3, <2>4 DEF FlightsKept
  <1>4. inbox'[u] = <<>> /\ \A v \in Users \ {u} : inbox'[v] = inbox[v]
    BY DEF Offline, TrueInv, InboxTrue
  <1>5. \A v \in Users : BoxKept(v)
    BY <1>4, NoBox, SameBox
  <1>6. QED
    BY <1>3, <1>5, QuietStep

LEMMA DisconnectKeys ==
    ASSUME TrueInv, KeysInv, NEW u \in Users, Disconnect(u)
    PROVE  KeysInv'
  <1>1. /\ Offline(u) /\ failIfStillSending(u, tracked[u])
        /\ UNCHANGED <<author, encrypting, arriving, snapshot, rows, handed, seen>>
    BY DEF Disconnect, history
  <1>2. Grows
    BY <1>1, Standstill
  <1>3. RelayKeys' /\ PendingKept
    BY <1>1, <1>2, OfflineKeys DEF ArrivingKept
  <1>4. QED
    BY <1>1, <1>2, <1>3, FailKeys

LEMMA KillKeys ==
    ASSUME TrueInv, KeysInv, NEW u \in Users, Kill(u)
    PROVE  KeysInv'
  <1> DEFINE T == {}
             S == {}
  <1>1. /\ Offline(u) /\ thread' = [thread EXCEPT ![u] = T] /\ snapshot' = [snapshot EXCEPT ![u] = S]
        /\ encrypting' = [encrypting EXCEPT ![u] = {}] /\ arriving' = [arriving EXCEPT ![u] = {}]
        /\ queue' = [queue EXCEPT ![u] = Launched] /\ UNCHANGED <<author, rows, handed, seen>>
    BY DEF Kill, history
  <1>2. Grows
    BY <1>1, Standstill
  <1>3. ArrivingKept /\ \A v \in Users : encrypting'[v] \subseteq encrypting[v]
    BY <1>1 DEF ArrivingKept, TrueInv, ArrivingTrue, EncryptingOwn
  <1>4. RelayKeys' /\ PendingKept
    BY <1>1, <1>2, <1>3, OfflineKeys
  <1>5. IdsSound(u, T) /\ IdsSound(u, S)
    BY DEF IdsSound, FinalsFree, UniqueKeys, Keys
  <1> HIDE DEF T, S
  <1>6. CallsSound(u, Launched) /\ RenamesFirst(rows[u], Launched)
    BY DEF Launched, CallsSound, AddsKey, Adds, RenamesFirst
  <1>7. IdsSound(u, rows[u]) /\ rows' = [rows EXCEPT ![u] = rows[u]]
    BY <1>1, <1>2, <1>4, OldIds, Unmoved
  <1>8. QED
    BY <1>1, <1>2, <1>4, <1>5, <1>6, <1>7, DeviceChanged

LEMMA KeysInvInit == Init => KeysInv
  <1> SUFFICES ASSUME Init PROVE KeysInv
    OBVIOUS
  <1> USE DEF Init
  <1>1. RelayKeys
    BY DEF RelayKeys, FlightsOwn, AnswersOwn, ArrivingOthers
  <1>2. ASSUME NEW u \in Users PROVE DeviceKeys(u) /\ PendingNotFinal(u)
    BY DEF DeviceKeys, PendingNotFinal, UniqueKeys, RenamesFirst, Launched, Adds
  <1>3. QED
    BY <1>1, <1>2 DEF KeysInv

LEMMA KeysInvStep == TrueInv /\ KeysInv /\ [Next]_vars => KeysInv'
  <1> SUFFICES ASSUME TrueInv, KeysInv, [Next]_vars PROVE KeysInv'
    OBVIOUS
  <1>1. ASSUME NEW u \in Users, User(u) PROVE KeysInv'
    BY <1>1, SendTextKeys, ClearThreadKeys, DiscardKeys, RetryKeys, MarkReadKeys, DeleteKeys DEF User
  <1>2. ASSUME NEW u \in Users, Store(u) PROVE KeysInv'
    BY <1>2, EncryptedKeys, SendTimeoutKeys, ReceiveKeys, ArrivedKeys, CarryOutKeys, HydrateKeys DEF Store
  <1>3. CASE UNCHANGED vars
    <2>1. UNCHANGED <<flights, inbox, author, thread, encrypting, arriving, rows, snapshot, queue, handed, seen>>
      BY <1>3 DEF vars, relay, store, disk, history
    <2>2. Grows
      BY <2>1, Standstill
    <2>3. QED
      BY <2>1, <2>2, SameFlights, StillStep, NothingMoved DEF KeysInv
  <1>4. QED
    BY <1>1, <1>2, <1>3, ConnectKeys, DisconnectKeys, KillKeys, RelayStepKeys DEF Next

\* Both invariants hold in every behaviour.
LEMMA SpecKeysInv == Spec => [](TrueInv /\ KeysInv)
  BY TrueInvInit, TrueInvStep, KeysInvInit, KeysInvStep, PTL DEF Spec

\* No message is shown in two bubbles, however acknowledgements, failures, retries,
\* the start-up load and restarts are ordered.
THEOREM BubblesUnique == Spec => []OneBubble
  <1>1. KeysInv => OneBubble
    BY DEF KeysInv, DeviceKeys, UniqueKeys, OneBubble
  <1>2. QED
    BY <1>1, SpecKeysInv, PTL

-----------------------------------------------------------------------------
(* Acknowledged messages.                                                  *)

Acknowledged == {"sent", "read"}
NotAcked(u, k) == \A m \in thread[u] : Key(m) = k => m.status \notin Acknowledged

\* What is on 'failed' in u's thread after a step was there before, or takes the place
\* of something that was not acknowledged.
FailsFairly(u) ==
    \A x \in thread'[u] : x \in thread[u] \/ x.status # "failed" \/ NotAcked(u, Key(x))
AckKeptBy(u) ==
    \A m \in thread[u] : m.status \in Acknowledged /\ stage'[u] = stage[u] =>
        \A x \in thread'[u] : Key(x) = Key(m) => x.status # "failed"

LEMMA KeptByFairFailing ==
    ASSUME KeysInv, NEW u \in Users, FailsFairly(u)
    PROVE  AckKeptBy(u)
  <1>1. UniqueKeys(thread[u])
    BY DEF KeysInv, DeviceKeys
  <1>2. QED
    BY <1>1 DEF FailsFairly, AckKeptBy, NotAcked, UniqueKeys, Acknowledged

LEMMA FairWhereUnchanged ==
    ASSUME NEW u \in Users, thread'[u] \subseteq thread[u]
    PROVE  FailsFairly(u)
  BY DEF FailsFairly

LEMMA FairChange ==
    ASSUME TrueInv, NEW u \in Users, NEW O, NEW N, Change(u, O, N),
           \A w \in N : w.status # "failed" \/ NotAcked(u, Key(w))
    PROVE  \A v \in Users : FailsFairly(v)
  <1>1. thread'[u] = (thread[u] \ O) \cup N /\ \A v \in Users \ {u} : thread'[v] = thread[v]
    BY DEF Change, TrueInv, ThreadTrue
  <1>2. QED
    BY <1>1 DEF FailsFairly

\* A message that was not acknowledged keeps its id when it fails.
LEMMA FairWith ==
    ASSUME TrueInv, KeysInv, NEW u \in Users, NEW S \in SUBSET thread[u], NEW status \in Statuses,
           Change(u, S, With(S, status)), status # "failed" \/ \A m \in S : m.status \notin Acknowledged
    PROVE  \A v \in Users : FailsFairly(v)
  <1>1. UniqueKeys(thread[u]) /\ thread[u] \subseteq Message
    BY DEF KeysInv, DeviceKeys, TrueInv, ThreadTrue
  <1>2. UniqueKeys(S) /\ S \in SUBSET Message
    BY <1>1, FewerIds
  <1>3. \A w \in With(S, status) : \E m \in S : Key(w) = Key(m) /\ w.n = m.n /\ w.id = m.id /\ w.status = status
    BY <1>2, WithIds
  <1>4. \A w \in With(S, status) : w.status # "failed" \/ NotAcked(u, Key(w))
    BY <1>1, <1>3 DEF NotAcked, UniqueKeys
  <1>5. QED
    BY <1>4, FairChange

LEMMA FairDeleted ==
    ASSUME TrueInv, KeysInv, NEW u \in Users, NEW S \in SUBSET thread[u], Change(u, S, Deleted(S))
    PROVE  \A v \in Users : FailsFairly(v)
  <1>1. UniqueKeys(thread[u]) /\ thread[u] \subseteq Message
    BY DEF KeysInv, DeviceKeys, TrueInv, ThreadTrue
  <1>2. UniqueKeys(S) /\ S \in SUBSET Message
    BY <1>1, FewerIds
  <1>3. \A w \in Deleted(S) : \E m \in S : Key(w) = Key(m) /\ w.n = m.n /\ w.id = m.id /\ w.status = m.status
    BY <1>2, DeletedIds
  <1>4. \A w \in Deleted(S) : w.status # "failed" \/ NotAcked(u, Key(w))
    BY <1>1, <1>3 DEF NotAcked, UniqueKeys, Acknowledged
  <1>5. QED
    BY <1>4, FairChange

\* What is pending has not been acknowledged.
LEMMA PendingUnacked ==
    ASSUME TrueInv, KeysInv, NEW u \in Users, NEW n, Pending(u, n), author[n] = u
    PROVE  /\ \A m \in Sent(u, n) : m \in thread[u] /\ m.status \notin Acknowledged
           /\ NotAcked(u, <<n, "temp">>)
  <1>1. \A m \in thread[u] : Unsent(u, m)
    BY DEF KeysInv, DeviceKeys
  <1>2. \A m \in Sent(u, n) : m \in thread[u] /\ m.id = "temp"
    BY PendingTemp
  <1>3. QED
    BY <1>1, <1>2 DEF Unsent, NotAcked, Key, Acknowledged

LEMMA FairUser ==
    ASSUME TrueInv, KeysInv, NEW u \in Users, User(u)
    PROVE  \A v \in Users : FailsFairly(v)
  <1> USE DEF TrueInv, ThreadTrue
  <1>1. CASE SendText(u)
    <2>1. Change(u, {}, {Optimistic(Len(author'))})
      BY <1>1 DEF SendText
    <2>2. Optimistic(Len(author')).status = "sending"
      BY DEF Optimistic, NewMessage
    <2>3. QED
      BY <2>1, <2>2, FairChange
  <1>2. ASSUME NEW m \in thread[u], Retry(u, m) PROVE \A v \in Users : FailsFairly(v)
    <2>1. /\ thread'[u] = (thread[u] \ {m}) \cup {Optimistic(Len(author'))}
          /\ \A v \in Users \ {u} : thread'[v] = thread[v]
      BY <1>2 DEF Retry
    <2>2. Optimistic(Len(author')).status = "sending"
      BY DEF Optimistic, NewMessage
    <2>3. QED
      BY <2>1, <2>2 DEF FailsFairly
  <1>3. CASE ClearThread(u) \/ \E m \in thread[u] : Discard(u, m)
    <2>1. \A v \in Users : thread'[v] \subseteq thread[v]
      BY <1>3 DEF ClearThread, Discard
    <2>2. QED
      BY <2>1, FairWhereUnchanged
  <1>4. ASSUME NEW m \in thread[u], MarkRead(u, m) PROVE \A v \in Users : FailsFairly(v)
    <2> DEFINE new == {x \in thread[u] : author[x.n] # u /\ x.status # "read"}
    <2>1. Change(u, new, With(new, "read")) /\ new \in SUBSET thread[u]
      BY <1>4 DEF MarkRead
    <2> HIDE DEF new
    <2>2. QED
      BY <2>1, FairWith DEF Statuses
  <1>5. ASSUME NEW m \in thread[u], DeleteLocal(u, m) \/ DeleteForEveryone(u, m)
        PROVE  \A v \in Users : FailsFairly(v)
    <2>1. Change(u, {m}, Deleted({m}))
      <3>1. Change(u, {m}, {[m EXCEPT !.deleted = TRUE]})
        BY <1>5 DEF DeleteLocal, DeleteForEveryone, Tombstone
      <3>2. {[m EXCEPT !.deleted = TRUE]} = Deleted({m})
        BY DEF Deleted
      <3>3. QED
        BY <3>1, <3>2
    <2>2. QED
      BY <2>1, FairDeleted
  <1>6. QED
    BY <1>1, <1>2, <1>3, <1>4, <1>5 DEF User

LEMMA FairReceive ==
    ASSUME TrueInv, KeysInv, NEW u \in Users, Receive(u)
    PROVE  \A v \in Users : FailsFairly(v)
  <1>0. PICK e : e = Head(inbox[u])
    OBVIOUS
  <1>1. /\ inbox[u] # <<>> /\ inbox' = [inbox EXCEPT ![u] = Tail(inbox[u])]
        /\ UNCHANGED <<flights, author, encrypting, handed, seen>>
    BY DEF Receive, history
  <1>2. e = inbox[u][1] /\ 1 \in 1..Len(inbox[u])
    BY <1>0, <1>1, HeadEvent
  <1>3. CASE e.kind = "sent" /\ OnSent(u, e)
    <2>1. /\ thread'[u] = (thread[u] \ Sent(u, e.n)) \cup Acked(Sent(u, e.n))
          /\ \A v \in Users \ {u} : thread'[v] = thread[v]
      BY <1>3 DEF OnSent, Acked, TrueInv, ThreadTrue
    <2>2. \A w \in Acked(Sent(u, e.n)) : w.status # "failed"
      <3>1. ASSUME NEW m \in Sent(u, e.n) PROVE [m EXCEPT !.id = "final", !.status = "sent"].status # "failed"
        <4>1. m \in Message
          BY DEF Sent, TrueInv, ThreadTrue
        <4>2. QED
          BY <4>1, AckedMessage
      <3>2. QED
        BY <3>1 DEF Acked
    <2>3. QED
      BY <2>1, <2>2 DEF FailsFairly
  <1>4. CASE e.kind = "failed" /\ OnFailed(u, e)
    <2>1. Pending(u, e.n) /\ author[e.n] = u
      <3>1. IsAnswer(e)
        BY <1>4 DEF IsAnswer
      <3>2. QED
        BY <1>2, <3>1 DEF KeysInv, RelayKeys, AnswersOwn, Pending, Answered
    <2>2. \A m \in Sent(u, e.n) : m \in thread[u] /\ m.status \notin Acknowledged
      BY <2>1, PendingUnacked
    <2>3. Change(u, Sent(u, e.n), With(Sent(u, e.n), "failed"))
      BY <1>4 DEF OnFailed
    <2>4. QED
      BY <2>2, <2>3, FairWith DEF Statuses
  <1>5. CASE e.kind = "read" /\ OnRead(u, e)
    <2>1. Named(u, e) \in SUBSET thread[u] /\ Change(u, Named(u, e), With(Named(u, e), "read"))
      BY <1>5 DEF Named, OnRead
    <2>2. QED
      BY <2>1, FairWith DEF Statuses
  <1>6. CASE UNCHANGED <<thread, tracked, queue>>
    BY <1>6, FairWhereUnchanged
  <1>7. QED
    BY <1>0, <1>3, <1>4, <1>5, <1>6 DEF Receive

LEMMA FairSending ==
    ASSUME TrueInv, KeysInv, NEW u \in Users, NEW N, failIfStillSending(u, N)
    PROVE  \A v \in Users : FailsFairly(v)
  <1>1. /\ Sending(u, N) \in SUBSET thread[u] /\ \A m \in Sending(u, N) : m.status \notin Acknowledged
        /\ Change(u, Sending(u, N), With(Sending(u, N), "failed"))
    BY DEF Sending, Acknowledged, failIfStillSending
  <1>2. QED
    BY <1>1, FairWith DEF Statuses

LEMMA FairStore ==
    ASSUME TrueInv, KeysInv, NEW u \in Users, Store(u), ~Hydrate(u)
    PROVE  \A v \in Users : FailsFairly(v)
  <1>1. ASSUME NEW n \in encrypting[u], Encrypted(u, n) PROVE \A v \in Users : FailsFairly(v)
    <2>1. CASE UNCHANGED thread
      BY <2>1, FairWhereUnchanged
    <2>2. CASE MarkFailed(u, n)
      <3> DEFINE failed == NewMessage(n, "temp", "failed")
      <3>1. Pending(u, n) /\ author[n] = u
        BY DEF Pending, TrueInv, EncryptingOwn
      <3>2. Key(failed) = <<n, "temp">>
        BY DEF NewMessage, Key
      <3> HIDE DEF failed
      <3>3. NotAcked(u, Key(failed))
        BY <3>1, <3>2, PendingUnacked
      <3>4. /\ thread'[u] \subseteq thread[u] \cup {failed}
            /\ \A v \in Users \ {u} : thread'[v] = thread[v]
        BY <2>2 DEF MarkFailed, TrueInv, ThreadTrue, failed
      <3>5. QED
        BY <3>3, <3>4 DEF FailsFairly
    <2>3. QED
      BY <1>1, <2>1, <2>2 DEF Encrypted
  <1>2. ASSUME NEW n \in tracked[u], SendTimeout(u, n) PROVE \A v \in Users : FailsFairly(v)
    BY <1>2, FairSending DEF SendTimeout
  <1>3. ASSUME NEW e \in arriving[u], Arrived(u, e) PROVE \A v \in Users : FailsFairly(v)
    <2>1. CASE UNCHANGED thread
      BY <2>1, FairWhereUnchanged
    <2>2. CASE Change(u, {}, {NewMessage(e.n, "final", "delivered")})
      <3>1. NewMessage(e.n, "final", "delivered").status = "delivered"
        BY DEF NewMessage
      <3>2. QED
        BY <2>2, <3>1, FairChange
    <2>3. CASE Change(u, Named(u, e), {[m EXCEPT !.deleted = TRUE] : m \in Named(u, e)})
      <3>1. Change(u, Named(u, e), Deleted(Named(u, e))) /\ Named(u, e) \in SUBSET thread[u]
        BY <2>3 DEF Deleted, Named
      <3>2. QED
        BY <3>1, FairDeleted
    <2>4. QED
      BY <1>3, <2>1, <2>2, <2>3 DEF Arrived, AddReceived, ApplyToTarget
  <1>4. CASE CarryOut(u)
    BY <1>4, FairWhereUnchanged DEF CarryOut, store
  <1>5. QED
    BY <1>1, <1>2, <1>3, <1>4, FairReceive DEF Store

LEMMA AckKeptStep ==
    ASSUME TrueInv, KeysInv, [Next]_vars
    PROVE  \A u \in Users : AckKeptBy(u)
  <1>1. ASSUME \A v \in Users : FailsFairly(v) PROVE \A u \in Users : AckKeptBy(u)
    BY <1>1, KeptByFairFailing
  <1>2. CASE UNCHANGED thread
    BY <1>1, <1>2, FairWhereUnchanged
  <1>3. ASSUME NEW u \in Users, Hydrate(u) PROVE \A v \in Users : AckKeptBy(v)
    <2>1. /\ stage[u] = "read" /\ stage'[u] = "done"
          /\ \A v \in Users \ {u} : thread'[v] = thread[v]
      BY <1>3 DEF Hydrate, TrueInv, RestTyped, ThreadTrue
    <2>2. AckKeptBy(u)
      BY <2>1 DEF AckKeptBy
    <2>3. \A v \in Users \ {u} : AckKeptBy(v)
      BY <2>1, FairWhereUnchanged, KeptByFairFailing
    <2>4. QED
      BY <2>2, <2>3
  <1>4. ASSUME NEW u \in Users, Disconnect(u) \/ Kill(u) PROVE \A v \in Users : FailsFairly(v)
    <2>1. CASE Disconnect(u)
      BY <2>1, FairSending DEF Disconnect
    <2>2. CASE Kill(u)
      <3>1. \A v \in Users : thread'[v] \subseteq thread[v]
        BY <2>2 DEF Kill, TrueInv, ThreadTrue
      <3>2. QED
        BY <3>1, FairWhereUnchanged
    <2>3. QED
      BY <1>4, <2>1, <2>2
  <1>5. ASSUME NEW u \in Users, User(u) \/ Store(u) PROVE \A v \in Users : AckKeptBy(v)
    BY <1>1, <1>3, <1>5, FairUser, FairStore
  <1>6. ASSUME NEW u \in Users, Connect(u) PROVE UNCHANGED thread
    BY <1>6 DEF Connect, store
  <1>7. ASSUME NEW f \in flights, Deliver(f) \/ Refuse(f) \/ Lose(f) PROVE UNCHANGED thread
    BY <1>7 DEF Deliver, Refuse, Lose, store
  <1>8. CASE UNCHANGED vars
    BY <1>2, <1>8 DEF vars, store
  <1>9. QED
    BY <1>1, <1>2, <1>4, <1>5, <1>6, <1>7, <1>8 DEF Next

\* A message that was acknowledged is never shown as failed afterwards, by the timer or
\* by a lost connection: only a restart or the start-up load may take it back to what
\* was stored.
THEOREM AcksKept == Spec => AckKept
  <1>1. TrueInv /\ KeysInv /\ [Next]_vars =>
            [\A u \in Users : \A m \in thread[u] :
                m.status \in {"sent", "read"} /\ stage'[u] = stage[u] =>
                    \A x \in thread'[u] : Key(x) = Key(m) => x.status # "failed"]_vars
    BY AckKeptStep DEF AckKeptBy, Acknowledged
  <1>2. QED
    BY <1>1, SpecKeysInv, PTL DEF Spec, AckKept
=============================================================================
