------------------------------ MODULE Contacts ------------------------------
(***************************************************************************)
(* Contact requests and blocks: app/src/state/contactStore.ts on the device *)
(* of every user, the tables contact_requests and blocked_users with their *)
(* unique indexes and row policies (supabase/migrations 0001, 0006, 0007,  *)
(* 0009), and the relay's nudge contact:refresh.                           *)
(*                                                                         *)
(* A call of the store is a record in `calls' that runs from one await to  *)
(* the next; a refresh is a record in `reads' whose two queries are answered*)
(* one by one and which is applied later.  Both go on when the user signs  *)
(* out.  The lists hold users and request ids; profiles and search are left *)
(* out, and report() is block() as far as the lists go.                    *)
(***************************************************************************)
EXTENDS Integers, FiniteSets, TLC

CONSTANTS Users, Calls, None,
          MaxWrites,   \* bound: changes of the two tables
          MaxBegun,    \* bound: buttons pressed, screens opened, sign-outs
          MAX_REFRESH_RETRIES

ASSUME ContactsAssumption ==
    /\ MaxWrites \in Nat /\ MaxBegun \in Nat /\ MAX_REFRESH_RETRIES \in Nat
    /\ None \notin Users \cup [status : {"pending", "approved", "declined"}, id : Nat]
    /\ IsFiniteSet(Users)

VARIABLES
    rows,      \* contact_requests: the row of <<sender, receiver>>, or None
    blocks,    \* blocked_users: the pairs <<blocker, blocked>>
    writes,    \* changes of the tables so far; a new row's id is its number
    signedIn,  \* users with a session in authStore
    shown,     \* the lists of useContactStore
    reads,     \* refreshes that wait for the database
    retry,     \* users whose newest refresh failed and has its retry timer armed
    failedRefreshes,
    calls,     \* the other calls of the store, each before its next await ends
    notices,   \* contact:request_sent and contact:request_responded on their way
    begun,
    seen       \* history: how many writes the shown lists know of, per table

db == <<rows, blocks, writes>>
store == <<shown, reads, retry, failedRefreshes, seen>>
vars == <<db, signedIn, store, calls, notices, begun>>

Pairs == {p \in Users \X Users : p[1] # p[2]}
Row == [status : {"pending", "approved", "declined"}, id : Nat]
Nothing == [approved |-> {}, incoming |-> {}, outgoing |-> {}, blocked |-> {}]
Lists == [approved : SUBSET Users, incoming : SUBSET (Users \X Nat),
          outgoing : SUBSET Users, blocked : SUBSET Users]
NoCall == [step |-> "idle"]
CallRecord == [step : {"look", "clear", "insert", "answer", "remove", "block", "unblock"},
               by : Users, with : Users, began : Nat, id : Nat,
               looked : BOOLEAN, accept : BOOLEAN, notify : BOOLEAN]

TypeOK ==
    /\ rows \in [Pairs -> Row \cup {None}]
    /\ blocks \subseteq Pairs
    /\ writes \in Nat
    /\ signedIn \subseteq Users
    /\ shown \in [Users -> Lists]
    /\ retry \subseteq signedIn
    /\ failedRefreshes \in [Users -> 0..MAX_REFRESH_RETRIES]
    /\ calls \in [Calls -> CallRecord \cup {NoCall}]
    /\ notices \subseteq [kind : {"sent", "responded"}, from : Users, to : Users]
    /\ begun \in Nat
    /\ \A c \in Calls : calls[c] # NoCall => calls[c].by # calls[c].with

-----------------------------------------------------------------------------
(* The database.  A Bad... operator is the same operator with a mistake in *)
(* it, and no action uses it.                                              *)

Has(u, v, status) == rows[<<u, v>>] # None /\ rows[<<u, v>>].status = status

\* contact_requests_unique_pair and contact_requests_unique_pending_pair
Conflict(u, v) == rows[<<u, v>>] # None \/ Has(v, u, "pending")

Write(newRows, newBlocks) == rows' = newRows /\ blocks' = newBlocks /\ writes' = writes + 1

\* A statement of a signed-in user may fail; of anybody else it must.
Succeeds(u) == u \in signedIn /\ writes < MaxWrites
Fails(u) == UNCHANGED db

-----------------------------------------------------------------------------
(* refresh                                                                 *)

NewRead == [live |-> TRUE, rows |-> None, blocks |-> None]
Outdated(u) == {[r EXCEPT !.live = FALSE] : r \in reads[u]}

\* ++refreshSeq: from now on the answers of earlier refreshes are dropped.
Refresh(u) ==
    IF u \in signedIn
      THEN /\ reads' = [reads EXCEPT ![u] = Outdated(u) \cup {NewRead}]
           /\ retry' = retry \ {u}
           /\ UNCHANGED failedRefreshes
      ELSE UNCHANGED <<reads, retry, failedRefreshes>>

Replace(u, old, new) == reads' = [reads EXCEPT ![u] = (@ \ {old}) \cup new]

\* What is read for a refresh that will be dropped does not matter.
ReadRequests(u) ==
    \E r \in reads[u] :
        /\ r.rows = None /\ r.live
        /\ Replace(u, r, {[r EXCEPT !.rows = [of |-> rows, at |-> writes]]})
        /\ UNCHANGED <<db, signedIn, shown, retry, failedRefreshes, seen, calls, notices, begun>>

ReadBlocks(u) ==
    \E r \in reads[u] :
        /\ r.blocks = None /\ r.live
        /\ Replace(u, r, {[r EXCEPT !.blocks = [of |-> blocks, at |-> writes]]})
        /\ UNCHANGED <<db, signedIn, shown, retry, failedRefreshes, seen, calls, notices, begun>>

\* The rows split into the lists, without the people u blocks.
BadSplit(u, of, blocked) ==
    LET with(v, dir, status) == of[dir] # None /\ of[dir].status = status
    IN  [approved |-> {v \in Users \ {u} : with(v, <<u, v>>, "approved") \/ with(v, <<v, u>>, "approved")},
         incoming |-> {}, outgoing |-> {}, blocked |-> blocked]
Split(u, of, blocked) ==
    LET others == Users \ ({u} \cup blocked)
        is(dir, status) == of[dir] # None /\ of[dir].status = status
    IN  [approved |-> {v \in others : is(<<u, v>>, "approved") \/ is(<<v, u>>, "approved")},
         incoming |-> {<<v, of[<<v, u>>].id>> : v \in {w \in others : is(<<w, u>>, "pending")}},
         outgoing |-> {v \in others : is(<<u, v>>, "pending")},
         blocked |-> blocked]

\* mySeq === refreshSeq: no refresh was started since, and nobody signed out.
BadNewest(r) == TRUE
Newest(r) == r.live

Land(u) ==
    \E r \in reads[u] :
        /\ r.rows # None /\ r.blocks # None
        /\ Replace(u, r, {})
        /\ IF Newest(r)
             THEN /\ shown' = [shown EXCEPT ![u] = Split(u, r.rows.of, {p[2] : p \in {q \in r.blocks.of : q[1] = u}})]
                  /\ seen' = [seen EXCEPT ![u] = <<r.rows.at, r.blocks.at>>]
                  /\ failedRefreshes' = [failedRefreshes EXCEPT ![u] = 0]
             ELSE UNCHANGED <<shown, seen, failedRefreshes>>
        /\ UNCHANGED <<db, signedIn, retry, calls, notices, begun>>

\* Either query fails: the lists stay, and a few retries follow.  The answers
\* of an older refresh are dropped, whatever they are.
LandFailed(u) ==
    \E r \in reads[u] :
        /\ Replace(u, r, {})
        /\ IF Newest(r) /\ failedRefreshes[u] < MAX_REFRESH_RETRIES
             THEN /\ failedRefreshes' = [failedRefreshes EXCEPT ![u] = @ + 1]
                  /\ retry' = IF u \in signedIn THEN retry \cup {u} ELSE retry
             ELSE UNCHANGED <<failedRefreshes, retry>>
        /\ UNCHANGED <<db, signedIn, shown, seen, calls, notices, begun>>

RetryTimer(u) ==
    /\ u \in retry
    /\ Refresh(u)
    /\ UNCHANGED <<db, signedIn, shown, seen, calls, notices, begun>>

-----------------------------------------------------------------------------
(* Buttons                                                                 *)

Press(u) == u \in signedIn /\ begun < MaxBegun /\ begun' = begun + 1

OpenContacts(u) ==
    /\ Press(u)
    /\ Refresh(u)
    /\ UNCHANGED <<db, signedIn, shown, seen, calls, notices>>

Begin(c, step, u, v, id, accept, notify) ==
    /\ Press(u)
    /\ calls[c] = NoCall
    /\ calls' = [calls EXCEPT ![c] = [step |-> step, by |-> u, with |-> v, began |-> writes, id |-> id,
                                      looked |-> FALSE, accept |-> accept, notify |-> notify]]
    /\ UNCHANGED <<db, signedIn, store, notices>>

SendRequest(c, u, v) == u # v /\ Begin(c, "look", u, v, 0, TRUE, TRUE)
Respond(c, u, v, accept) ==
    \E request \in shown[u].incoming :
        request[1] = v /\ u # v /\ Begin(c, "answer", u, v, request[2], accept, TRUE)
RemoveContact(c, u, v) == v \in shown[u].approved /\ u # v /\ Begin(c, "remove", u, v, 0, FALSE, FALSE)
Block(c, u, v) == u # v /\ Begin(c, "block", u, v, 0, FALSE, FALSE)
Unblock(c, u, v) == v \in shown[u].blocked /\ u # v /\ Begin(c, "unblock", u, v, 0, FALSE, FALSE)

\* Lists cleared and refreshSeq bumped; only then may somebody sign in.
BadForget(u) == UNCHANGED reads
Forget(u) == reads' = [reads EXCEPT ![u] = Outdated(u)]
SignOut(u) ==
    /\ Press(u)
    /\ signedIn' = signedIn \ {u}
    /\ Forget(u)
    /\ shown' = [shown EXCEPT ![u] = Nothing]
    /\ seen' = [seen EXCEPT ![u] = <<0, 0>>]
    /\ retry' = retry \ {u}
    /\ UNCHANGED <<db, failedRefreshes, calls, notices>>

SignIn(u) ==
    /\ u \notin signedIn
    /\ signedIn' = signedIn \cup {u}
    /\ reads' = [reads EXCEPT ![u] = Outdated(u) \cup {NewRead}]
    /\ UNCHANGED <<db, shown, seen, retry, failedRefreshes, calls, notices, begun>>

-----------------------------------------------------------------------------
(* What follows the awaits of the calls                                    *)

Goto(c, step, id, looked) ==
    calls' = [calls EXCEPT ![c].step = step, ![c].id = id, ![c].looked = looked]
Finish(c) == calls' = [calls EXCEPT ![c] = NoCall]

\* relayClient.send: nothing is sent without a session.
Notify(kind, u, v) ==
    notices' = IF u \in signedIn THEN notices \cup {[kind |-> kind, from |-> u, to |-> v]} ELSE notices

\* respond(): the requester is looked up among the shown requests at its start.
TurnAnswer(c, u, v) ==
    calls' = [calls EXCEPT ![c].step = "answer", ![c].id = rows[<<v, u>>].id,
                           ![c].notify = <<v, rows[<<v, u>>].id>> \in shown[u].incoming]

BadDeclinedFirst(c, u, v) == Goto(c, "insert", 0, TRUE)
DeclinedFirst(c, u, v) ==
    IF Has(u, v, "declined") THEN Goto(c, "clear", rows[<<u, v>>].id, TRUE) ELSE Goto(c, "insert", 0, TRUE)

\* A failed lookup counts as "no rows".
Looked(c) ==
    LET u == calls[c].by  v == calls[c].with IN
    /\ calls[c].step = "look"
    /\ \/ /\ u \in signedIn
          /\ IF Has(u, v, "approved") \/ Has(v, u, "approved")
               THEN Finish(c) /\ Refresh(u)
               ELSE IF Has(v, u, "pending")
               THEN TurnAnswer(c, u, v) /\ UNCHANGED <<reads, retry, failedRefreshes>>
               ELSE IF Has(u, v, "pending")
               THEN Finish(c) /\ Refresh(u)
               ELSE DeclinedFirst(c, u, v) /\ UNCHANGED <<reads, retry, failedRefreshes>>
       \/ Goto(c, "insert", 0, FALSE) /\ UNCHANGED <<reads, retry, failedRefreshes>>
    /\ UNCHANGED <<db, signedIn, shown, seen, notices, begun>>

\* delete().eq('id', ...): a row that is gone is no error.
Cleared(c) ==
    LET u == calls[c].by  v == calls[c].with IN
    /\ calls[c].step = "clear"
    /\ \/ /\ Succeeds(u)
          /\ IF rows[<<u, v>>] # None /\ rows[<<u, v>>].id = calls[c].id
               THEN Write([rows EXCEPT ![<<u, v>>] = None], blocks)
               ELSE UNCHANGED db
          /\ Goto(c, "insert", 0, TRUE)
          /\ UNCHANGED <<reads, retry, failedRefreshes>>
       \/ Fails(u) /\ Finish(c) /\ Refresh(u)
    /\ UNCHANGED <<signedIn, shown, seen, notices, begun>>

\* A unique violation passes as "already covered"; any other error is shown.
Inserted(c) ==
    LET u == calls[c].by  v == calls[c].with IN
    /\ calls[c].step = "insert"
    /\ \/ /\ Succeeds(u)
          /\ ~Conflict(u, v)
          /\ Write([rows EXCEPT ![<<u, v>>] = [status |-> "pending", id |-> writes + 1]], blocks)
          /\ Notify("sent", u, v)
       \/ Fails(u) /\ UNCHANGED notices
    /\ Finish(c)
    /\ Refresh(u)
    /\ UNCHANGED <<signedIn, shown, seen, begun>>

\* The policy lets only the receiver answer, and only while pending; an
\* update of no row is no error, and errors are not looked at.
Answered(c) ==
    LET u == calls[c].by  v == calls[c].with IN
    /\ calls[c].step = "answer"
    /\ \/ /\ Succeeds(u)
          /\ Has(v, u, "pending") /\ rows[<<v, u>>].id = calls[c].id
          /\ Write([rows EXCEPT ![<<v, u>>].status = IF calls[c].accept THEN "approved" ELSE "declined"], blocks)
       \/ Fails(u)
    /\ IF calls[c].notify THEN Notify("responded", u, v) ELSE UNCHANGED notices
    /\ Finish(c)
    /\ Refresh(u)
    /\ UNCHANGED <<signedIn, shown, seen, begun>>

Removed(c) ==
    LET u == calls[c].by  v == calls[c].with IN
    /\ calls[c].step = "remove"
    /\ \/ Succeeds(u) /\ Write([rows EXCEPT ![<<u, v>>] = None, ![<<v, u>>] = None], blocks)
       \/ Fails(u)
    /\ shown' = [shown EXCEPT ![u].approved = @ \ {v}]
    /\ Finish(c)
    /\ Refresh(u)
    /\ UNCHANGED <<signedIn, seen, notices, begun>>

\* The lists change whether or not the row was stored, and nothing refreshes.
BadHide(u, v) == shown' = [shown EXCEPT ![u].blocked = @ \cup {v}]
Hide(u, v) == shown' = [shown EXCEPT ![u].blocked = @ \cup {v}, ![u].approved = @ \ {v}]
Blocked(c) ==
    LET u == calls[c].by  v == calls[c].with IN
    /\ calls[c].step = "block"
    /\ \/ Succeeds(u) /\ Write(rows, blocks \cup {<<u, v>>})
       \/ Fails(u)
    /\ Hide(u, v)
    /\ Finish(c)
    /\ UNCHANGED <<signedIn, reads, retry, failedRefreshes, seen, notices, begun>>

Unblocked(c) ==
    LET u == calls[c].by  v == calls[c].with IN
    /\ calls[c].step = "unblock"
    /\ \/ Succeeds(u) /\ Write(rows, blocks \ {<<u, v>>})
       \/ Fails(u)
    /\ shown' = [shown EXCEPT ![u].blocked = @ \ {v}]
    /\ Finish(c)
    /\ UNCHANGED <<signedIn, reads, retry, failedRefreshes, seen, notices, begun>>

\* The relay checks the row before it nudges; the other app may be away.
Hear(n) ==
    /\ n \in notices
    /\ notices' = notices \ {n}
    /\ \/ /\ CASE n.kind = "sent" -> Has(n.from, n.to, "pending")
               [] OTHER -> Has(n.to, n.from, "approved") \/ Has(n.to, n.from, "declined")
          /\ Refresh(n.to)
       \/ UNCHANGED <<reads, retry, failedRefreshes>>
    /\ UNCHANGED <<db, signedIn, shown, seen, calls, begun>>

-----------------------------------------------------------------------------
Init ==
    /\ rows = [p \in Pairs |-> None] /\ blocks = {} /\ writes = 0
    /\ signedIn = Users  \* the first refresh found nothing
    /\ shown = [u \in Users |-> Nothing]
    /\ reads = [u \in Users |-> {}]
    /\ retry = {}
    /\ failedRefreshes = [u \in Users |-> 0]
    /\ calls = [c \in Calls |-> NoCall]
    /\ notices = {}
    /\ begun = 0
    /\ seen = [u \in Users |-> <<0, 0>>]

Buttons(u, v) ==
    \E c \in Calls :
        \/ SendRequest(c, u, v) \/ RemoveContact(c, u, v) \/ Block(c, u, v) \/ Unblock(c, u, v)
        \/ \E accept \in BOOLEAN : Respond(c, u, v, accept)

Next ==
    \/ \E u \in Users :
        \/ ReadRequests(u) \/ ReadBlocks(u) \/ Land(u) \/ LandFailed(u) \/ RetryTimer(u)
        \/ OpenContacts(u) \/ SignOut(u) \/ SignIn(u)
        \/ \E v \in Users : Buttons(u, v)
    \/ \E c \in Calls :
        \/ Looked(c) \/ Cleared(c) \/ Inserted(c) \/ Answered(c)
        \/ Removed(c) \/ Blocked(c) \/ Unblocked(c)
    \/ \E n \in notices : Hear(n)

Spec == Init /\ [][Next]_vars

-----------------------------------------------------------------------------
(* Properties                                                              *)

\* A request whose lookup was answered never meets an old row of its own
\* when it is inserted: whatever stands in its way was made after the button
\* was pressed.  The code passes a unique violation over in silence because
\* "the other side's request landed" meanwhile (sendRequest).
InsertFindsRoom ==
    \A c \in Calls :
        calls[c].step = "insert" /\ calls[c].looked =>
            LET row == rows[<<calls[c].by, calls[c].with>>]
            IN  row = None \/ row.id > calls[c].began

\* The lists never go back to an older state of the tables while one user
\* stays signed in, in whatever order refreshes are answered (refreshSeq).
SnapshotsForward ==
    [][\A u \in Users : u \in signedIn /\ u \in signedIn' =>
           seen'[u][1] >= seen[u][1] /\ seen'[u][2] >= seen[u][2]]_vars

\* Nobody is shown as a contact and as blocked at once: the lists come from
\* one refresh and two local edits, and a block is no change of a request row
\* (the comments in refresh and block).
NeverBothShown == \A u \in Users : shown[u].approved \cap shown[u].blocked = {}

\* Contacts and requests of an account are gone with its session, also those
\* of a refresh that was under way (useContactStore.wire).
SignedOutEmpty ==
    \A u \in Users \ signedIn :
        shown[u].approved = {} /\ shown[u].incoming = {} /\ shown[u].outgoing = {}

\* What block() promises: a user blocked in the database, by a call that has
\* returned, is not among the contacts shown.  A refresh that read the blocks
\* before and lands after breaks it.
BlockedHidden ==
    \A u, v \in Users :
        <<u, v>> \in blocks /\ (\A c \in Calls : calls[c].step # "block") => v \notin shown[u].approved

=============================================================================
