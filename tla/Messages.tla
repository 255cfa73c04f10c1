------------------------------ MODULE Messages ------------------------------
(***************************************************************************)
(* One chat of two users: app/src/state/chatStore.ts on both devices, its  *)
(* on-device database (localDb.ts), and handleMessageSend of the relay     *)
(* (server/src/index.ts) between them.                                     *)
(*                                                                         *)
(* A send waits for the keys (`encrypting'), crosses to the relay and waits *)
(* there for the approval and block checks (`flights'); a receipt waits for *)
(* the sender's keys (`arriving').  Database calls are carried out one      *)
(* after the other, behind the store's back (`queue').  Whether the relay   *)
(* accepts a message is left open: RelaySessions models the session gate.   *)
(* `delete' stands for reaction, edit and poll_vote as well, which change a *)
(* message the same way; groups, typing, pins, paging and a change of the   *)
(* account on the device are left out.                                     *)
(***************************************************************************)
EXTENDS Integers, FiniteSets, SequencesExt

CONSTANTS Users,
          Writers,    \* the users who write messages
          Uses,       \* what else the users do: "retry" "read" "delete" "clear"
          MaxSends,   \* bound: messages, retries included
          MaxCuts,    \* bound: lost connections and killed apps
          MaxQueue    \* bound: database calls waiting when the user does something

ASSUME MessagesAssumption ==
    /\ Cardinality(Users) = 2 /\ Writers \subseteq Users
    /\ Uses \subseteq {"retry", "read", "delete", "clear"}
    /\ MaxSends \in Nat /\ MaxCuts \in Nat /\ MaxQueue \in Nat

VARIABLES
    up,          \* users connected to the relay
    flights,     \* frames sent to the relay and not decided yet
    inbox,       \* per user, the events on their way to the device
    author,      \* the author of message n
    thread,      \* chatStore.threads: the messages in memory
    tracked,     \* pendingSends: messages whose acknowledgement timer runs
    encrypting,  \* sendText calls before their relayClient.send
    arriving,    \* message:receive handlers waiting for the sender's keys
    stage,       \* hydrateFromLocal: what it has read so far
    snapshot,    \* the rows it has read
    queue,       \* database calls not carried out yet
    rows,        \* the table messages
    cuts,
    handed,      \* history: messages put on a connection of their recipient
    seen,        \* history: messages their recipient has opened
    wiped,       \* history: per user, messages of which the chat was cleared
    undone       \* history: per user, messages whose delete, under their relay id, was handled

relay == <<up, flights, inbox>>
store == <<thread, tracked, encrypting, arriving>>
disk == <<stage, snapshot, queue, rows>>
history == <<handed, seen, wiped, undone>>
vars == <<relay, author, store, disk, cuts, history>>

Statuses == {"sending", "sent", "failed", "delivered", "read"}
Message == [n : Nat, id : {"temp", "final"}, status : Statuses, deleted : BOOLEAN]
NewMessage(n, id, status) == [n |-> n, id |-> id, status |-> status, deleted |-> FALSE]
Flight == [kind : {"text", "delete", "read"}, n : Nat, id : {"temp", "final"}, from : Users, answer : BOOLEAN]
Event == [kind : {"text", "delete", "read", "sent", "failed"}, n : Nat, id : {"temp", "final"}]
Call == [op : {"pinned", "load", "clear"}] \cup [op : {"save", "rename", "remove"}, row : Message]
        \cup [op : {"amend"}, n : Nat, id : {"temp", "final"}]

TypeOK ==
    /\ up \subseteq Users
    /\ flights \subseteq Flight
    /\ inbox \in [Users -> Seq(Event)]
    /\ author \in Seq(Writers)
    /\ thread \in [Users -> SUBSET Message]
    /\ tracked \in [Users -> SUBSET (DOMAIN author)]
    /\ encrypting \in [Users -> SUBSET (DOMAIN author)]
    /\ arriving \in [Users -> SUBSET Event]
    /\ stage \in [Users -> {"pinned", "rows", "read", "done"}]
    /\ snapshot \in [Users -> SUBSET Message]
    /\ queue \in [Users -> Seq(Call)]
    /\ rows \in [Users -> SUBSET Message]
    /\ cuts \in Nat
    /\ handed \subseteq DOMAIN author /\ seen \subseteq handed
    /\ wiped \in [Users -> SUBSET (DOMAIN author)]
    /\ undone \in [Users -> SUBSET (DOMAIN author)]

Other(u) == CHOOSE v \in Users : v # u

-----------------------------------------------------------------------------
(* Parts of the store.  A Bad... operator is the same operator with a      *)
(* mistake in it, and no action uses it.                                   *)

Key(m) == <<m.n, m.id>>
Keys(M) == {Key(m) : m \in M}
Put(M, m) == {x \in M : Key(x) # Key(m)} \cup {m}

Saves(M) == SetToSeq({[op |-> "save", row |-> m] : m \in M})
Later(u, ops) == queue' = [queue EXCEPT ![u] = @ \o ops]

\* The messages O of the thread become the messages N, which are saved.
Change(u, O, N) ==
    /\ thread' = [thread EXCEPT ![u] = (@ \ O) \cup N]
    /\ Later(u, Saves(N))

With(M, status) == {[m EXCEPT !.status = status] : m \in M}
Sent(u, n) == {m \in thread[u] : m.n = n /\ author[n] = u}
Sending(u, N) == {m \in thread[u] : m.n \in N /\ author[m.n] = u /\ m.status = "sending"}

failIfStillSending(u, N) == Change(u, Sending(u, N), With(Sending(u, N), "failed"))

BadTrackSend(u, n) == tracked' = [tracked EXCEPT ![u] = @ \cup {n + 1}]
trackSend(u, n) == tracked' = [tracked EXCEPT ![u] = @ \cup {n}]
settleSend(u, n) == tracked' = [tracked EXCEPT ![u] = @ \ {n}]

\* sendText up to its first await.
Compose(u) ==
    LET n == Len(author) + 1 IN
    /\ n <= MaxSends
    /\ author' = Append(author, u)
    /\ trackSend(u, n)
    /\ encrypting' = [encrypting EXCEPT ![u] = @ \cup {n}]

Optimistic(n) == NewMessage(n, "temp", "sending")

\* markFailed: saved whether or not the message is still in the thread.
MarkFailed(u, n) ==
    LET failed == NewMessage(n, "temp", "failed") IN
    /\ settleSend(u, n)
    /\ thread' = [thread EXCEPT ![u] = IF Sent(u, n) = {} THEN @ ELSE (@ \ Sent(u, n)) \cup {failed}]
    /\ Later(u, <<[op |-> "save", row |-> failed]>>)

\* hydrateFromLocal, on the start of the app.
Launched == <<[op |-> "pinned"]>>

Init ==
    /\ up = {} /\ flights = {}
    /\ inbox = [u \in Users |-> <<>>]
    /\ author = <<>>
    /\ thread = [u \in Users |-> {}]
    /\ tracked = [u \in Users |-> {}]
    /\ encrypting = [u \in Users |-> {}]
    /\ arriving = [u \in Users |-> {}]
    /\ stage = [u \in Users |-> "pinned"]
    /\ snapshot = [u \in Users |-> {}]
    /\ queue = [u \in Users |-> Launched]
    /\ rows = [u \in Users |-> {}]
    /\ cuts = 0
    /\ handed = {} /\ seen = {}
    /\ wiped = [u \in Users |-> {}]
    /\ undone = [u \in Users |-> {}]

-----------------------------------------------------------------------------
(* The user                                                                *)

Room(u) == Len(queue[u]) < MaxQueue

Fly(u, kind, m) ==
    flights' = IF u \in up THEN flights \cup {[kind |-> kind, n |-> m.n, id |-> m.id, from |-> u, answer |-> TRUE]}
               ELSE flights

SendText(u) ==
    /\ u \in Writers /\ Room(u)
    /\ Compose(u)
    /\ Change(u, {}, {Optimistic(Len(author'))})
    /\ UNCHANGED <<relay, arriving, stage, snapshot, rows, cuts, history>>

discardFailed(u, m) == m \in thread[u] /\ m.status = "failed" /\ author[m.n] = u

Discard(u, m) ==
    /\ "retry" \in Uses /\ Room(u)
    /\ discardFailed(u, m)
    /\ thread' = [thread EXCEPT ![u] = @ \ {m}]
    /\ Later(u, <<[op |-> "remove", row |-> m]>>)
    /\ UNCHANGED <<relay, author, tracked, encrypting, arriving, stage, snapshot, rows, cuts, history>>

Retry(u, m) ==
    /\ "retry" \in Uses /\ Room(u)
    /\ discardFailed(u, m)
    /\ Compose(u)
    /\ thread' = [thread EXCEPT ![u] = (@ \ {m}) \cup {Optimistic(Len(author'))}]
    /\ Later(u, <<[op |-> "remove", row |-> m], [op |-> "save", row |-> Optimistic(Len(author'))]>>)
    /\ UNCHANGED <<relay, arriving, stage, snapshot, rows, cuts, history>>

\* The receipt names one message; every received message counts as read here.
MarkRead(u, m) ==
    LET new == {x \in thread[u] : author[x.n] # u /\ x.status # "read"} IN
    /\ "read" \in Uses /\ Room(u)
    /\ m \in new
    /\ Fly(u, "read", m)
    /\ Change(u, new, With(new, "read"))
    /\ seen' = seen \cup {x.n : x \in new}
    /\ UNCHANGED <<up, inbox, author, tracked, encrypting, arriving, stage, snapshot, rows, cuts, handed, wiped, undone>>

Tombstone(u, m) == Change(u, {m}, {[m EXCEPT !.deleted = TRUE]})

DeleteLocal(u, m) ==
    /\ "delete" \in Uses /\ Room(u)
    /\ m \in thread[u] /\ ~m.deleted
    /\ Tombstone(u, m)
    /\ UNCHANGED <<relay, author, tracked, encrypting, arriving, stage, snapshot, rows, cuts, history>>

DeleteForEveryone(u, m) ==
    /\ "delete" \in Uses /\ Room(u)
    /\ m \in thread[u] /\ ~m.deleted /\ author[m.n] = u
    /\ Tombstone(u, m)
    /\ Fly(u, "delete", m)
    /\ UNCHANGED <<up, inbox, author, tracked, encrypting, arriving, stage, snapshot, rows, cuts, history>>

ClearThread(u) ==
    /\ "clear" \in Uses /\ Room(u)
    /\ thread' = [thread EXCEPT ![u] = {}]
    /\ Later(u, <<[op |-> "clear"]>>)
    /\ wiped' = [wiped EXCEPT ![u] = @ \cup {m.n : m \in thread[u]}]
    /\ UNCHANGED <<relay, author, tracked, encrypting, arriving, stage, snapshot, rows, cuts, handed, seen, undone>>

-----------------------------------------------------------------------------
(* The rest of a send                                                      *)

\* The keys are there, or are not, or the connection is not.
Encrypted(u, n) ==
    /\ n \in encrypting[u]
    /\ encrypting' = [encrypting EXCEPT ![u] = @ \ {n}]
    /\ \/ MarkFailed(u, n) /\ UNCHANGED flights
       \/ /\ u \in up
          /\ Fly(u, "text", NewMessage(n, "final", "sent"))
          /\ UNCHANGED <<thread, tracked, queue>>
    /\ UNCHANGED <<up, inbox, author, arriving, stage, snapshot, rows, cuts, history>>

SendTimeout(u, n) ==
    /\ n \in tracked[u]
    /\ settleSend(u, n)
    /\ failIfStillSending(u, {n})
    /\ UNCHANGED <<relay, author, encrypting, arriving, stage, snapshot, rows, cuts, history>>

-----------------------------------------------------------------------------
(* The relay                                                               *)

Tell(i, u, kind, f) == [i EXCEPT ![u] = Append(@, [kind |-> kind, n |-> f.n, id |-> f.id])]
Answer(i, f, kind) == IF f.kind = "text" /\ f.answer THEN Tell(i, f.from, kind, f) ELSE i

\* Forwarded, to a recipient who is connected now.
BadDeliver(f) ==
    /\ f \in flights
    /\ flights' = flights \ {f}
    /\ IF Other(f.from) \in up
       THEN /\ inbox' = Answer(Tell(inbox, Other(f.from), f.kind, f), f, "sent")
            /\ handed' = IF f.kind = "text" THEN handed \cup {f.n} ELSE handed
       ELSE inbox' = Answer(Answer(inbox, f, "sent"), f, "failed") /\ UNCHANGED handed
    /\ UNCHANGED <<up, author, store, disk, cuts, seen, wiped, undone>>
Deliver(f) ==
    /\ f \in flights
    /\ Other(f.from) \in up
    /\ flights' = flights \ {f}
    /\ inbox' = Answer(Tell(inbox, Other(f.from), f.kind, f), f, "sent")
    /\ handed' = IF f.kind = "text" THEN handed \cup {f.n} ELSE handed
    /\ UNCHANGED <<up, author, store, disk, cuts, seen, wiped, undone>>

\* Blocked, no contact, recipient offline, or no accepted session.
Refuse(f) ==
    /\ f \in flights
    /\ flights' = flights \ {f}
    /\ inbox' = Answer(inbox, f, "failed")
    /\ UNCHANGED <<up, author, store, disk, cuts, history>>

\* The frame was on a connection that broke.
Lose(f) ==
    /\ f \in flights /\ ~f.answer
    /\ flights' = flights \ {f}
    /\ UNCHANGED <<up, inbox, author, store, disk, cuts, history>>

-----------------------------------------------------------------------------
(* Events                                                                  *)

\* The database renames the row and only then is given the new one.
OnSent(u, e) ==
    /\ settleSend(u, e.n)
    /\ LET acked == {[m EXCEPT !.id = "final", !.status = "sent"] : m \in Sent(u, e.n)} IN
       /\ thread' = [thread EXCEPT ![u] = (@ \ Sent(u, e.n)) \cup acked]
       /\ Later(u, SetToSeq({[op |-> "rename", row |-> m] : m \in acked}))
    /\ UNCHANGED arriving

OnFailed(u, e) ==
    /\ settleSend(u, e.n)
    /\ Change(u, Sent(u, e.n), With(Sent(u, e.n), "failed"))
    /\ UNCHANGED arriving

Named(u, e) == {m \in thread[u] : Key(m) = Key(e)}

OnRead(u, e) ==
    /\ Change(u, Named(u, e), With(Named(u, e), "read"))
    /\ UNCHANGED <<tracked, arriving>>

Receive(u) ==
    LET e == Head(inbox[u]) IN
    /\ inbox[u] # <<>>
    /\ inbox' = [inbox EXCEPT ![u] = Tail(@)]
    /\ \/ e.kind = "sent" /\ OnSent(u, e)
       \/ e.kind = "failed" /\ OnFailed(u, e)
       \/ e.kind = "read" /\ OnRead(u, e)
       \/ /\ e.kind \in {"text", "delete"}
          /\ arriving' = [arriving EXCEPT ![u] = @ \cup {e}]
          /\ UNCHANGED <<thread, tracked, queue>>
    /\ UNCHANGED <<up, flights, author, encrypting, stage, snapshot, rows, cuts, history>>

AddReceived(u, e) ==
    IF Named(u, e) # {} THEN UNCHANGED <<thread, queue>>
    ELSE Change(u, {}, {NewMessage(e.n, "final", "delivered")})

\* applyToTarget: in memory, or else in the database.
ApplyToTarget(u, e) ==
    IF Named(u, e) # {}
    THEN Change(u, Named(u, e), {[m EXCEPT !.deleted = TRUE] : m \in Named(u, e)})
    ELSE Later(u, <<[op |-> "amend", n |-> e.n, id |-> e.id]>>) /\ UNCHANGED thread

\* The keys of the sender have come, or will not: handlers overtake each other.
Arrived(u, e) ==
    /\ e \in arriving[u]
    /\ arriving' = [arriving EXCEPT ![u] = @ \ {e}]
    /\ \/ e.kind = "text" /\ AddReceived(u, e) /\ UNCHANGED undone
       \/ e.kind = "delete" /\ ApplyToTarget(u, e) /\ undone' = [undone EXCEPT ![u] = @ \cup (IF e.id = "final" THEN {e.n} ELSE {})]
    /\ UNCHANGED <<relay, author, tracked, encrypting, stage, snapshot, rows, cuts, handed, seen, wiped>>

-----------------------------------------------------------------------------
(* The database, and loading from it                                       *)

\* renameMessageId, then saveMessage with what the store had when it asked.
Rename(u, m) ==
    /\ rows' = [rows EXCEPT ![u] = {IF Key(r) = <<m.n, "temp">> THEN [r EXCEPT !.id = m.id] ELSE r : r \in @}]
    /\ queue' = [queue EXCEPT ![u] = Append(Tail(@), [op |-> "save", row |-> m])]
    /\ UNCHANGED <<stage, snapshot>>

\* loadMessageById, then saveMessage.
Amend(u, c) ==
    /\ queue' = [queue EXCEPT ![u] = Tail(@) \o Saves(
            {[r EXCEPT !.deleted = TRUE] : r \in {x \in rows[u] : Key(x) = Key(c)}})]
    /\ UNCHANGED <<stage, snapshot, rows>>

Write(u, c) ==
    /\ rows' = [rows EXCEPT ![u] =
            CASE c.op = "save" -> Put(@, c.row)
              [] c.op = "remove" -> {r \in @ : Key(r) # Key(c.row)}
              [] c.op = "clear" -> {}]
    /\ queue' = [queue EXCEPT ![u] = Tail(@)]
    /\ UNCHANGED <<stage, snapshot>>

\* loadPinned and then loadRecentThreads.
Load(u, c) ==
    /\ queue' = [queue EXCEPT ![u] = IF c.op = "pinned" THEN Append(Tail(@), [op |-> "load"]) ELSE Tail(@)]
    /\ stage' = [stage EXCEPT ![u] = IF c.op = "pinned" THEN "rows" ELSE "read"]
    /\ snapshot' = [snapshot EXCEPT ![u] = IF c.op = "pinned" THEN @ ELSE rows[u]]
    /\ UNCHANGED rows

CarryOut(u) ==
    LET c == Head(queue[u]) IN
    /\ queue[u] # <<>>
    /\ \/ c.op \in {"save", "remove", "clear"} /\ Write(u, c)
       \/ c.op = "rename" /\ Rename(u, c.row)
       \/ c.op = "amend" /\ Amend(u, c)
       \/ c.op \in {"pinned", "load"} /\ Load(u, c)
    /\ UNCHANGED <<relay, author, store, cuts, history>>

\* What is still 'sending' in storage and not tracked was interrupted.
BadInterrupted(u) == {}
Interrupted(u) == {m \in snapshot[u] : m.status = "sending" /\ ~(author[m.n] = u /\ m.n \in tracked[u])}

BadMerge(M, T) == M \cup T
Merge(M, T) == M \cup {m \in T : Key(m) \notin Keys(M)}

Hydrate(u) ==
    LET failed == With(Interrupted(u), "failed") IN
    /\ stage[u] = "read"
    /\ stage' = [stage EXCEPT ![u] = "done"]
    /\ snapshot' = [snapshot EXCEPT ![u] = {}]
    /\ thread' = [thread EXCEPT ![u] = Merge((snapshot[u] \ Interrupted(u)) \cup failed, @)]
    /\ Later(u, Saves(failed))
    /\ UNCHANGED <<relay, author, tracked, encrypting, arriving, rows, cuts, history>>

-----------------------------------------------------------------------------
(* Faults                                                                  *)

Connect(u) ==
    /\ u \notin up
    /\ up' = up \cup {u}
    /\ UNCHANGED <<flights, inbox, author, store, disk, cuts, history>>

\* The device is cut off.  The relay may notice later: what it was sent before is
\* handled or lost, and its answers reach nobody.
Offline(u) ==
    /\ cuts < MaxCuts /\ cuts' = cuts + 1
    /\ up' = up \ {u}
    /\ flights' = {IF f.from = u THEN [f EXCEPT !.answer = FALSE] ELSE f : f \in flights}
    /\ inbox' = [inbox EXCEPT ![u] = <<>>]

\* failAllPendingSends('connection_lost').
Disconnect(u) ==
    /\ u \in up
    /\ Offline(u)
    /\ tracked' = [tracked EXCEPT ![u] = {}]
    /\ failIfStillSending(u, tracked[u])
    /\ UNCHANGED <<author, encrypting, arriving, stage, snapshot, rows, history>>

\* The app is ended, and started again.
Kill(u) ==
    /\ Offline(u)
    /\ thread' = [thread EXCEPT ![u] = {}]
    /\ tracked' = [tracked EXCEPT ![u] = {}]
    /\ encrypting' = [encrypting EXCEPT ![u] = {}]
    /\ arriving' = [arriving EXCEPT ![u] = {}]
    /\ stage' = [stage EXCEPT ![u] = "pinned"]
    /\ snapshot' = [snapshot EXCEPT ![u] = {}]
    /\ queue' = [queue EXCEPT ![u] = Launched]
    /\ UNCHANGED <<author, rows, history>>

-----------------------------------------------------------------------------

User(u) ==
    \/ SendText(u) \/ ClearThread(u)
    \/ \E m \in thread[u] : \/ Discard(u, m) \/ Retry(u, m) \/ MarkRead(u, m)
                            \/ DeleteLocal(u, m) \/ DeleteForEveryone(u, m)
Store(u) ==
    \/ \E n \in encrypting[u] : Encrypted(u, n)
    \/ \E n \in tracked[u] : SendTimeout(u, n)
    \/ Receive(u)
    \/ \E e \in arriving[u] : Arrived(u, e)
    \/ CarryOut(u) \/ Hydrate(u)

Next ==
    \/ \E u \in Users : User(u) \/ Store(u) \/ Connect(u) \/ Disconnect(u) \/ Kill(u)
    \/ \E f \in flights : Deliver(f) \/ Refuse(f) \/ Lose(f)

Spec == Init /\ [][Next]_vars

\* The timers of a running app fire.
FairSpec == Spec /\ \A u \in Users, n \in 1..MaxSends : WF_vars(SendTimeout(u, n))

-----------------------------------------------------------------------------
(* Properties                                                              *)

\* No message stays on 'sending' unwatched: whichever answers, failures, restarts
\* and reloads of the history come in between, its timer is running.
SendingTracked ==
    \A u \in Users : \A m \in thread[u] :
        m.status = "sending" => author[m.n] = u /\ m.n \in tracked[u]

\* The ticks are true: 'sent' only if the relay put the message on a connection of
\* the recipient, and 'read' only if the recipient has opened it; also after the
\* acknowledgement was late, lost, or overtaken by a restart.
TicksTrue ==
    \A u \in Users : \A m \in thread[u] \cup rows[u] : author[m.n] = u =>
        /\ m.status = "sent" => m.n \in handed
        /\ m.status = "read" => m.n \in seen

\* No id is in the list twice, although the same message can come from the relay,
\* from the database, and from an action of the user in the meantime.  (That a
\* message can be there under its old and its new id is what OneRow is about.)
OneBubble ==
    \A u \in Users : \A m1, m2 \in thread[u] : Key(m1) = Key(m2) => m1 = m2

\* chatStore.ts 203-204: an acknowledged message is never downgraded to failed,
\* but by reloading the history (see HydrateKeepsMemory) or restarting the app.
AckKept ==
    [][\A u \in Users : \A m \in thread[u] :
          m.status \in {"sent", "read"} /\ stage'[u] = stage[u] =>
              \A x \in thread'[u] : Key(x) = Key(m) => x.status # "failed"]_vars

\* Every message on 'sending' comes to an end.
SendingEnds ==
    \A u \in Users, n \in 1..MaxSends :
        (\E m \in thread[u] : m.n = n /\ m.status = "sending")
            ~> (\A m \in thread[u] : m.n = n => m.status # "sending")

-----------------------------------------------------------------------------
(* What comments of the code say and the code does not do: TLC finds a     *)
(* counterexample of each, under the .cfg that lists it.                   *)

\* chatStore.ts 119-121: hydrateFromLocal merges "rather than overwrites": what is
\* in memory stays as it is.
HydrateKeepsMemory ==
    [][\A u \in Users : stage[u] = "read" /\ stage'[u] = "done" => thread[u] \subseteq thread'[u]]_vars

\* chatStore.ts 259-260: a message in flight when the connection dropped "is gone":
\* with nothing on its way any more, a message that shows as failed has not been
\* handed to its recipient.
FailedIsGone ==
    \A u \in Users : \A m \in thread[u] :
        /\ author[m.n] = u /\ m.status = "failed"
        /\ m.n \notin encrypting[u] /\ inbox[u] = <<>> /\ \A f \in flights : f.n # m.n
        => m.n \notin handed

\* chatStore.ts 370: a delete whose target is not loaded is carried out "instead of
\* being dropped": when all is quiet the message is deleted.
DeleteApplied ==
    \A u \in Users : queue[u] = <<>> /\ arriving[u] = {} /\ stage[u] = "done" =>
        \A m \in thread[u] : m.n \in undone[u] => m.deleted

\* chatStore.ts 935-940: a cleared message does not come back with the next start.
ClearedStaysCleared ==
    \A u \in Users : queue[u] = <<>> => \A r \in rows[u] : r.n \notin wiped[u]

\* localDb.ts 414-419: the row moves with the id, so that no second one of the same
\* message stays behind.
OneRow ==
    \A u \in Users : queue[u] = <<>> => \A r1, r2 \in rows[u] : r1.n = r2.n => r1 = r2

=============================================================================
