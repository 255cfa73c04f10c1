---------------------------- MODULE AccountProofs ----------------------------
(***************************************************************************)
(* Proofs about the contacts of an account (Contacts) and its session on   *)
(* its device (AccountSession).                                            *)
(*                                                                         *)
(* Contacts, for any number of users, calls and changes of the tables:     *)
(* type correctness, that nobody is shown as a contact and as blocked,     *)
(* that the lists never go back to an older state of the tables, and that  *)
(* a request meets no old row of its own.                                  *)
(*                                                                         *)
(* AccountSession, for any accounts, handlers and key pairs: the keys that *)
(* others are given are held here, and the push token follows the session. *)
(***************************************************************************)
EXTENDS Contacts, AccountSession, TLAPS

-----------------------------------------------------------------------------
(* The contacts of an account.                                             *)

\* What one answered query holds, and a refresh.
RequestsRead == {None} \cup [of : [Pairs -> Row \cup {None}], at : Nat]
BlocksRead == {None} \cup [of : SUBSET Pairs, at : Nat]
Read == [live : BOOLEAN, rows : RequestsRead, blocks : BlocksRead]

DbInv ==
    /\ rows \in [Pairs -> Row \cup {None}]
    /\ blocks \subseteq Pairs
    /\ writes \in Nat
    /\ \A p \in Pairs : rows[p] # None => rows[p].id <= writes

\* Only the newest refresh counts, and it has read nothing older than what is
\* shown: this is what keeps the lists from going back.
NewestFirst ==
    /\ \A u \in Users : \A r, q \in reads[u] : r.live /\ q.live => r = q
    /\ \A u \in Users : \A r \in reads[u] : r.live =>
          /\ r.rows # None => seen[u][1] <= r.rows.at /\ r.rows.at <= writes
          /\ r.blocks # None => seen[u][2] <= r.blocks.at /\ r.blocks.at <= writes
ReadsInv ==
    /\ signedIn \subseteq Users
    /\ reads \in [Users -> SUBSET Read]
    /\ retry \subseteq signedIn
    /\ failedRefreshes \in [Users -> 0..MAX_REFRESH_RETRIES]
    /\ seen \in [Users -> Nat \X Nat]
    /\ writes \in Nat
    /\ \A u \in Users : seen[u][1] <= writes /\ seen[u][2] <= writes
    /\ NewestFirst

ShownInv == shown \in [Users -> Lists] /\ NeverBothShown

\* The row of a call's own request, its parts known once it was looked up.
OwnRow(c) == rows[<<calls[c].by, calls[c].with>>]
Younger(c) == OwnRow(c) = None \/ OwnRow(c).id > calls[c].began
CallOK(c) ==
    /\ calls[c] \in CallRecord
    /\ calls[c].by # calls[c].with
    /\ calls[c].began <= writes
    /\ calls[c].step = "clear" => Younger(c) \/ OwnRow(c).id = calls[c].id
    /\ calls[c].step = "insert" /\ calls[c].looked => Younger(c)
CallsInv ==
    /\ calls \in [Calls -> CallRecord \cup {NoCall}]
    /\ \A c \in Calls : calls[c] # NoCall => CallOK(c)

RestInv ==
    /\ notices \subseteq [kind : {"sent", "responded"}, from : Users, to : Users]
    /\ begun \in Nat

IInv == DbInv /\ ReadsInv /\ ShownInv /\ CallsInv /\ RestInv

\* What a step may do to the table of requests: remove a row, add one with the
\* next number, or change one's status.
RowsMoveOn ==
    /\ writes' \in Nat /\ writes' >= writes
    /\ \A p \in Pairs :
          \/ rows'[p] = None
          \/ rows'[p].id \in Nat /\ rows'[p].id > writes
          \/ rows[p] # None /\ rows'[p].id = rows[p].id

-----------------------------------------------------------------------------
LEMMA InitIInv == Init => IInv
<1> SUFFICES ASSUME Init PROVE IInv
  OBVIOUS
<1>1. DbInv
  BY DEF Init, DbInv
<1>2. ReadsInv
  BY ContactsAssumption DEF Init, ReadsInv, NewestFirst
<1>3. ShownInv
  BY DEF Init, ShownInv, NeverBothShown, Nothing, Lists
<1>4. CallsInv
  BY DEF Init, CallsInv
<1>5. RestInv
  BY DEF Init, RestInv
<1>6. QED
  BY <1>1, <1>2, <1>3, <1>4, <1>5 DEF IInv

LEMMA Typed == IInv => TypeOK /\ NeverBothShown /\ InsertFindsRoom
<1> SUFFICES ASSUME IInv PROVE TypeOK /\ NeverBothShown /\ InsertFindsRoom
  OBVIOUS
<1>1. TypeOK
  BY DEF IInv, DbInv, ReadsInv, ShownInv, CallsInv, RestInv, CallOK, TypeOK
<1>2. InsertFindsRoom
  <2> SUFFICES ASSUME NEW c \in Calls, calls[c].step = "insert", calls[c].looked PROVE Younger(c)
    BY DEF InsertFindsRoom, Younger, OwnRow
  <2>1. calls[c] # NoCall
    BY DEF NoCall
  <2>2. QED
    BY <2>1 DEF IInv, CallsInv, CallOK
<1>3. QED
  BY <1>1, <1>2 DEF IInv, ShownInv

-----------------------------------------------------------------------------
(* The parts that a step leaves alone                                      *)

LEMMA DbKept == ASSUME DbInv, UNCHANGED db PROVE DbInv' /\ RowsMoveOn
BY DEF DbInv, RowsMoveOn, db

LEMMA ShownKept == ASSUME ShownInv, UNCHANGED shown PROVE ShownInv'
BY DEF ShownInv, NeverBothShown

LEMMA ReadParts ==
    ASSUME ReadsInv, NEW u \in Users, NEW r \in reads[u]
    PROVE  /\ r \in Read
           /\ r.rows # None => r.rows.of \in [Pairs -> Row \cup {None}] /\ r.rows.at \in Nat
           /\ r.blocks # None => r.blocks.of \subseteq Pairs /\ r.blocks.at \in Nat
<1>1. r \in Read
  BY DEF ReadsInv
<1>2. r.rows \in RequestsRead /\ r.blocks \in BlocksRead
  BY <1>1 DEF Read
<1>3. r.rows # None => r.rows.of \in [Pairs -> Row \cup {None}] /\ r.rows.at \in Nat
  BY <1>2 DEF RequestsRead
<1>4. r.blocks # None => r.blocks.of \subseteq Pairs /\ r.blocks.at \in Nat
  BY <1>2 DEF BlocksRead
<1>5. QED
  BY <1>1, <1>3, <1>4

LEMMA ReadsKept ==
    ASSUME ReadsInv, UNCHANGED <<signedIn, reads, retry, failedRefreshes, seen>>,
           writes' \in Nat, writes' >= writes
    PROVE  ReadsInv'
<1>1. \A u \in Users : seen[u] \in Nat \X Nat
  BY DEF ReadsInv
<1>2. \A u \in Users : seen'[u][1] <= writes' /\ seen'[u][2] <= writes'
  BY <1>1 DEF ReadsInv
<1>3. ASSUME NEW u \in Users, NEW r \in reads[u]
      PROVE  (r.rows # None => r.rows.at \in Nat) /\ (r.blocks # None => r.blocks.at \in Nat)
  BY ReadParts
<1>4. NewestFirst'
  BY <1>3 DEF ReadsInv, NewestFirst
<1>5. QED
  BY <1>2, <1>4 DEF ReadsInv

\* An answer of a refresh, and its being dropped, leave a refresh.
LEMMA DropType ==
    ASSUME NEW r \in Read
    PROVE  [r EXCEPT !.live = FALSE] \in Read /\ ~[r EXCEPT !.live = FALSE].live
BY Zenon DEF Read

LEMMA AnswerType ==
    ASSUME NEW r \in Read, NEW a \in RequestsRead, NEW b \in BlocksRead
    PROVE  /\ [r EXCEPT !.rows = a] \in Read /\ [r EXCEPT !.rows = a].rows = a
           /\ [r EXCEPT !.rows = a].live = r.live /\ [r EXCEPT !.rows = a].blocks = r.blocks
           /\ [r EXCEPT !.blocks = b] \in Read /\ [r EXCEPT !.blocks = b].blocks = b
           /\ [r EXCEPT !.blocks = b].live = r.live /\ [r EXCEPT !.blocks = b].rows = r.rows
BY DEF Read

LEMMA OutdatedType ==
    ASSUME ReadsInv, NEW u \in Users
    PROVE  Outdated(u) \subseteq Read /\ \A r \in Outdated(u) : ~r.live
<1>1. reads[u] \subseteq Read
  BY DEF ReadsInv
<1>2. \A r \in Read : [r EXCEPT !.live = FALSE] \in Read /\ ~[r EXCEPT !.live = FALSE].live
  BY DropType
<1>3. QED
  BY <1>1, <1>2 DEF Outdated

\* A refresh replaces the one before it.
LEMMA RefreshKeeps ==
    ASSUME ReadsInv, NEW u \in Users, Refresh(u), UNCHANGED <<signedIn, seen>>,
           writes' \in Nat, writes' >= writes
    PROVE  ReadsInv'
<1>1. CASE u \notin signedIn
  BY <1>1, ReadsKept DEF Refresh
<1>2. CASE u \in signedIn
  <2>1. /\ reads' = [reads EXCEPT ![u] = Outdated(u) \cup {NewRead}]
        /\ retry' = retry \ {u} /\ UNCHANGED failedRefreshes
    BY <1>2 DEF Refresh
  <2>2. NewRead \in Read /\ NewRead.rows = None /\ NewRead.blocks = None
    BY DEF NewRead, Read, RequestsRead, BlocksRead
  <2>3. Outdated(u) \subseteq Read /\ \A r \in Outdated(u) : ~r.live
    BY OutdatedType
  <2>4. reads' \in [Users -> SUBSET Read]
    BY <2>1, <2>2, <2>3 DEF ReadsInv
  <2>5. NewestFirst'
    <3>1. ASSUME NEW v \in Users, NEW r \in reads'[v], r.live, v = u PROVE r = NewRead
      BY <2>1, <2>3, <3>1 DEF ReadsInv
    <3>2. \A v \in Users \ {u} : reads'[v] = reads[v]
      BY <2>1 DEF ReadsInv
    <3>3. ASSUME NEW v \in Users, NEW r \in reads[v]
          PROVE  (r.rows # None => r.rows.at \in Nat) /\ (r.blocks # None => r.blocks.at \in Nat)
      BY ReadParts
    <3>4. QED
      BY <2>2, <3>1, <3>2, <3>3 DEF ReadsInv, NewestFirst
  <2>6. \A v \in Users : seen'[v][1] <= writes' /\ seen'[v][2] <= writes'
    BY DEF ReadsInv
  <2>7. QED
    BY <2>1, <2>4, <2>5, <2>6 DEF ReadsInv
<1>3. QED
  BY <1>1, <1>2

\* A call that waits finds its row as it was, gone, or younger.
LEMMA CallKept ==
    ASSUME DbInv, RowsMoveOn, NEW c \in Calls, CallOK(c), UNCHANGED calls[c]
    PROVE  CallOK(c)'
<1>1. calls[c] \in CallRecord /\ calls[c].by # calls[c].with /\ calls[c].began \in Nat
  BY DEF CallOK, CallRecord
<1>2. PICK p \in Pairs : p = <<calls[c].by, calls[c].with>>
  BY <1>1 DEF Pairs, CallRecord
<1>3. OwnRow(c) = rows[p] /\ OwnRow(c)' = rows'[p] /\ calls[c].began <= writes /\ writes \in Nat
  BY <1>2 DEF OwnRow, CallOK, DbInv
<1>4. Younger(c) => Younger(c)'
  BY <1>1, <1>3 DEF Younger, RowsMoveOn
<1>5. OwnRow(c).id = calls[c].id => Younger(c)' \/ OwnRow(c)'.id = calls'[c].id
  BY <1>1, <1>3 DEF Younger, RowsMoveOn
<1>6. calls'[c].began <= writes'
  BY <1>1 DEF CallOK, RowsMoveOn, DbInv
<1>7. QED
  BY <1>1, <1>4, <1>5, <1>6 DEF CallOK

LEMMA CallsKept == ASSUME DbInv, RowsMoveOn, CallsInv, UNCHANGED calls PROVE CallsInv'
BY CallKept DEF CallsInv

LEMMA OthersKept ==
    ASSUME DbInv, RowsMoveOn, CallsInv, NEW c \in Calls, NEW r, calls' = [calls EXCEPT ![c] = r],
           r = NoCall \/ CallOK(c)'
    PROVE  CallsInv'
<1>1. calls'[c] = r /\ \A d \in Calls \ {c} : calls'[d] = calls[d]
  BY DEF CallsInv
<1>2. \A d \in Calls \ {c} : calls[d] # NoCall => CallOK(d)'
  BY <1>1, CallKept DEF CallsInv
<1>3. r \in CallRecord \cup {NoCall}
  BY <1>1 DEF CallOK
<1>4. calls' \in [Calls -> CallRecord \cup {NoCall}]
  BY <1>3 DEF CallsInv
<1>5. QED
  BY <1>1, <1>2, <1>4 DEF CallsInv

-----------------------------------------------------------------------------
(* Refreshes                                                               *)

\* One refresh of u takes the place of another, or goes.
LEMMA ReplaceKeeps ==
    ASSUME ReadsInv, NEW u \in Users, NEW r \in reads[u], NEW s \in Read, Replace(u, r, {s}), s.live = r.live,
           UNCHANGED <<signedIn, retry, failedRefreshes, seen, writes>>,
           s.live => /\ s.rows # None => seen[u][1] <= s.rows.at /\ s.rows.at <= writes
                     /\ s.blocks # None => seen[u][2] <= s.blocks.at /\ s.blocks.at <= writes
    PROVE  ReadsInv'
<1>1. reads' = [reads EXCEPT ![u] = (reads[u] \ {r}) \cup {s}]
  BY DEF Replace
<1>2. reads' \in [Users -> SUBSET Read]
  BY <1>1 DEF ReadsInv
<1>3. NewestFirst'
  <2>1. \A v \in Users \ {u} : reads'[v] = reads[v]
    BY <1>1 DEF ReadsInv
  <2>2. reads'[u] = (reads[u] \ {r}) \cup {s}
    BY <1>1 DEF ReadsInv
  <2>3. QED
    BY <2>1, <2>2 DEF ReadsInv, NewestFirst
<1>4. QED
  BY <1>2, <1>3 DEF ReadsInv

LEMMA ReadKeeps == ASSUME IInv, NEW u \in Users, ReadRequests(u) \/ ReadBlocks(u) PROVE IInv'
<1> USE DEF IInv
<1>1. UNCHANGED <<db, signedIn, shown, retry, failedRefreshes, seen, calls, notices, begun>>
  BY DEF ReadRequests, ReadBlocks
<1>2. ReadsInv'
  <2>1. CASE ReadRequests(u)
    <3> DEFINE a == [of |-> rows, at |-> writes]
    <3>1. PICK r \in reads[u] : r.live /\ Replace(u, r, {[r EXCEPT !.rows = a]})
      BY <2>1 DEF ReadRequests
    <3>2. r \in Read /\ a \in RequestsRead /\ seen[u][1] <= a.at /\ a.at <= writes /\ None \in BlocksRead
      <4>1. seen[u] \in Nat \X Nat /\ seen[u][1] <= writes /\ writes \in Nat
        BY DEF ReadsInv
      <4>2. r \in Read
        BY DEF ReadsInv
      <4>3. QED
        BY <4>1, <4>2 DEF DbInv, RequestsRead, BlocksRead
    <3> HIDE DEF a
    <3> DEFINE s == [r EXCEPT !.rows = a]
    <3>3. s \in Read /\ s.live = r.live /\ s.rows = a /\ s.blocks = r.blocks
      BY <3>2, AnswerType
    <3>4. r.blocks # None => seen[u][2] <= r.blocks.at /\ r.blocks.at <= writes
      BY <3>1 DEF ReadsInv, NewestFirst
    <3>5. Replace(u, r, {s}) /\ UNCHANGED <<signedIn, retry, failedRefreshes, seen, writes>>
      BY <1>1, <3>1 DEF db
    <3> HIDE DEF s
    <3>6. QED
      BY <3>2, <3>3, <3>4, <3>5, ReplaceKeeps
  <2>2. CASE ReadBlocks(u)
    <3> DEFINE b == [of |-> blocks, at |-> writes]
    <3>1. PICK r \in reads[u] : r.live /\ Replace(u, r, {[r EXCEPT !.blocks = b]})
      BY <2>2 DEF ReadBlocks
    <3>2. r \in Read /\ b \in BlocksRead /\ seen[u][2] <= b.at /\ b.at <= writes /\ None \in RequestsRead
      <4>1. seen[u] \in Nat \X Nat /\ seen[u][2] <= writes /\ writes \in Nat
        BY DEF ReadsInv
      <4>2. r \in Read
        BY DEF ReadsInv
      <4>3. QED
        BY <4>1, <4>2 DEF DbInv, RequestsRead, BlocksRead
    <3> HIDE DEF b
    <3> DEFINE s == [r EXCEPT !.blocks = b]
    <3>3. s \in Read /\ s.live = r.live /\ s.blocks = b /\ s.rows = r.rows
      BY <3>2, AnswerType
    <3>4. r.rows # None => seen[u][1] <= r.rows.at /\ r.rows.at <= writes
      BY <3>1 DEF ReadsInv, NewestFirst
    <3>5. Replace(u, r, {s}) /\ UNCHANGED <<signedIn, retry, failedRefreshes, seen, writes>>
      BY <1>1, <3>1 DEF db
    <3> HIDE DEF s
    <3>6. QED
      BY <3>2, <3>3, <3>4, <3>5, ReplaceKeeps
  <2>3. QED
    BY <2>1, <2>2
<1>3. QED
  BY <1>1, <1>2, DbKept, ShownKept, CallsKept DEF RestInv

LEMMA SplitType ==
    ASSUME NEW u \in Users, NEW of \in [Pairs -> Row \cup {None}], NEW blocked \in SUBSET Users
    PROVE  /\ Split(u, of, blocked) \in Lists
           /\ Split(u, of, blocked).approved \cap Split(u, of, blocked).blocked = {}
<1> DEFINE asks == {w \in Users \ ({u} \cup blocked) : of[<<w, u>>] # None /\ of[<<w, u>>].status = "pending"}
<1>1. \A w \in asks : w \in Users /\ of[<<w, u>>].id \in Nat
  BY DEF Pairs, Row
<1>2. Split(u, of, blocked).incoming = {<<v, of[<<v, u>>].id>> : v \in asks}
  BY DEF Split
<1> HIDE DEF asks
<1>3. Split(u, of, blocked).incoming \subseteq Users \X Nat
  <2> SUFFICES ASSUME NEW x \in Split(u, of, blocked).incoming PROVE x \in Users \X Nat
    OBVIOUS
  <2>1. PICK v \in asks : x = <<v, of[<<v, u>>].id>>
    BY <1>2
  <2>2. QED
    BY <1>1, <2>1
<1>4. QED
  BY <1>3 DEF Split, Lists

\* Only the newest refresh is shown, and it is no older than what is shown.
LEMMA LandKeeps ==
    ASSUME IInv, NEW u \in Users, Land(u) \/ LandFailed(u)
    PROVE  IInv' /\ (\A v \in Users : seen'[v][1] >= seen[v][1] /\ seen'[v][2] >= seen[v][2])
<1> USE DEF IInv
<1>1. PICK r \in reads[u] :
        /\ reads' = [reads EXCEPT ![u] = reads[u] \ {r}]
        /\ UNCHANGED <<db, signedIn, calls, notices, begun>>
        /\ \/ /\ r.rows # None /\ r.blocks # None /\ r.live
              /\ shown' = [shown EXCEPT ![u] =
                    Split(u, r.rows.of, {p[2] : p \in {q \in r.blocks.of : q[1] = u}})]
              /\ seen' = [seen EXCEPT ![u] = <<r.rows.at, r.blocks.at>>]
              /\ failedRefreshes' = [failedRefreshes EXCEPT ![u] = 0]
              /\ UNCHANGED retry
           \/ UNCHANGED <<shown, seen, failedRefreshes, retry>>
           \/ /\ UNCHANGED <<shown, seen>>
              /\ failedRefreshes[u] < MAX_REFRESH_RETRIES
              /\ failedRefreshes' = [failedRefreshes EXCEPT ![u] = @ + 1]
              /\ retry' = retry \cup ({u} \cap signedIn)
  BY DEF Land, LandFailed, Replace, Newest
<1>2. /\ r.rows # None => r.rows.of \in [Pairs -> Row \cup {None}] /\ r.rows.at \in Nat
      /\ r.blocks # None => r.blocks.of \subseteq Pairs /\ r.blocks.at \in Nat
  BY ReadParts
<1>3. failedRefreshes' \in [Users -> 0..MAX_REFRESH_RETRIES] /\ retry' \subseteq signedIn'
  BY <1>1, ContactsAssumption DEF ReadsInv
<1>4. reads' \in [Users -> SUBSET Read] /\ \A v \in Users : reads'[v] \subseteq reads[v]
  BY <1>1 DEF ReadsInv
<1>5. CASE seen' = seen /\ shown' = shown
  <2>1. NewestFirst'
    BY <1>1, <1>4, <1>5 DEF ReadsInv, NewestFirst, db
  <2>2. ReadsInv'
    BY <1>1, <1>3, <1>4, <1>5, <2>1 DEF ReadsInv, db
  <2>3. \A v \in Users : seen[v][1] \in Nat /\ seen[v][2] \in Nat
    BY DEF ReadsInv
  <2>4. QED
    BY <1>1, <1>5, <2>2, <2>3, DbKept, ShownKept, CallsKept DEF RestInv
<1>6. CASE r.rows # None /\ r.blocks # None /\ r.live
           /\ shown' = [shown EXCEPT ![u] = Split(u, r.rows.of, {p[2] : p \in {q \in r.blocks.of : q[1] = u}})]
           /\ seen' = [seen EXCEPT ![u] = <<r.rows.at, r.blocks.at>>]
  <2> DEFINE blocked == {p[2] : p \in {q \in r.blocks.of : q[1] = u}}
  <2>1. blocked \subseteq Users
    BY <1>2, <1>6 DEF Pairs
  <2> HIDE DEF blocked
  <2>2. shown' = [shown EXCEPT ![u] = Split(u, r.rows.of, blocked)]
    BY <1>6 DEF blocked
  <2>3. ShownInv'
    <3> DEFINE new == Split(u, r.rows.of, blocked)
    <3>1. new \in Lists /\ new.approved \cap new.blocked = {}
      BY <1>2, <1>6, <2>1, SplitType
    <3>2. shown' = [shown EXCEPT ![u] = new]
      BY <2>2
    <3> HIDE DEF new
    <3>3. QED
      BY <3>1, <3>2 DEF ShownInv, NeverBothShown
  <2>4. /\ seen[u][1] <= r.rows.at /\ r.rows.at <= writes
        /\ seen[u][2] <= r.blocks.at /\ r.blocks.at <= writes
    BY <1>6 DEF ReadsInv, NewestFirst
  <2>5. seen' \in [Users -> Nat \X Nat] /\ \A v \in Users : seen'[v][1] <= writes' /\ seen'[v][2] <= writes'
    BY <1>1, <1>2, <1>6, <2>4 DEF ReadsInv, db
  <2>6. \A v \in Users : seen'[v][1] >= seen[v][1] /\ seen'[v][2] >= seen[v][2]
    BY <1>2, <1>6, <2>4 DEF ReadsInv
  <2>7. NewestFirst'
    <3>1. \A q \in reads'[u] : ~q.live
      BY <1>1, <1>6 DEF ReadsInv, NewestFirst
    <3>2. \A v \in Users \ {u} : reads'[v] = reads[v] /\ seen'[v] = seen[v]
      BY <1>1, <1>6 DEF ReadsInv
    <3>3. QED
      BY <1>1, <3>1, <3>2 DEF ReadsInv, NewestFirst, db
  <2>8. ReadsInv'
    BY <1>1, <1>3, <1>4, <2>5, <2>7 DEF ReadsInv, db
  <2>9. QED
    BY <1>1, <2>3, <2>6, <2>8, DbKept, CallsKept DEF RestInv
<1>7. QED
  BY <1>1, <1>5, <1>6

-----------------------------------------------------------------------------
(* Timers, buttons and sessions                                            *)

LEMMA TimerKeeps == ASSUME IInv, NEW u \in Users, RetryTimer(u) PROVE IInv'
<1>1. Refresh(u) /\ UNCHANGED <<db, signedIn, shown, seen, calls, notices, begun>>
  BY DEF RetryTimer
<1>2. ReadsInv'
  BY <1>1, RefreshKeeps DEF IInv, ReadsInv, db
<1>3. QED
  BY <1>1, <1>2, DbKept, ShownKept, CallsKept DEF IInv, RestInv

LEMMA OpenKeeps == ASSUME IInv, NEW u \in Users, OpenContacts(u) PROVE IInv'
<1>1. Refresh(u) /\ UNCHANGED <<db, signedIn, shown, seen, calls, notices>> /\ begun' = begun + 1
  BY DEF OpenContacts, Press
<1>2. ReadsInv'
  BY <1>1, RefreshKeeps DEF IInv, ReadsInv, db
<1>3. QED
  BY <1>1, <1>2, DbKept, ShownKept, CallsKept DEF IInv, RestInv

\* With the session go the lists, and every refresh under way.
LEMMA SignOutKeeps == ASSUME IInv, NEW u \in Users, SignOut(u) PROVE IInv'
<1> USE DEF IInv
<1>1. /\ signedIn' = signedIn \ {u} /\ reads' = [reads EXCEPT ![u] = Outdated(u)]
      /\ shown' = [shown EXCEPT ![u] = Nothing] /\ seen' = [seen EXCEPT ![u] = <<0, 0>>]
      /\ retry' = retry \ {u} /\ UNCHANGED <<db, failedRefreshes, calls, notices>>
      /\ begun' = begun + 1
  BY DEF SignOut, Forget, Press
<1>2. reads' \in [Users -> SUBSET Read] /\ \A r \in reads'[u] : ~r.live
  BY <1>1, OutdatedType DEF ReadsInv
<1>3. NewestFirst'
  <2>1. \A v \in Users \ {u} : reads'[v] = reads[v] /\ seen'[v] = seen[v]
    BY <1>1 DEF ReadsInv
  <2>2. QED
    BY <1>1, <1>2, <2>1 DEF ReadsInv, NewestFirst, db
<1>4. seen' \in [Users -> Nat \X Nat] /\ \A v \in Users : seen'[v][1] <= writes' /\ seen'[v][2] <= writes'
  BY <1>1 DEF ReadsInv, db
<1>5. ReadsInv'
  BY <1>1, <1>2, <1>3, <1>4 DEF ReadsInv, db
<1>6. ShownInv'
  <2>1. Nothing \in Lists /\ Nothing.approved \cap Nothing.blocked = {}
    BY DEF Nothing, Lists
  <2>2. QED
    BY <1>1, <2>1 DEF ShownInv, NeverBothShown
<1>7. QED
  BY <1>1, <1>5, <1>6, DbKept, CallsKept DEF RestInv

LEMMA SignInKeeps == ASSUME IInv, NEW u \in Users, SignIn(u) PROVE IInv'
<1> USE DEF IInv
<1>1. /\ signedIn' = signedIn \cup {u} /\ reads' = [reads EXCEPT ![u] = Outdated(u) \cup {NewRead}]
      /\ UNCHANGED <<db, shown, seen, retry, failedRefreshes, calls, notices, begun>>
  BY DEF SignIn
<1>2. NewRead \in Read /\ NewRead.rows = None /\ NewRead.blocks = None
  BY DEF NewRead, Read, RequestsRead, BlocksRead
<1>3. reads' \in [Users -> SUBSET Read]
  BY <1>1, <1>2, OutdatedType DEF ReadsInv
<1>4. NewestFirst'
  <2>1. ASSUME NEW r \in reads'[u], r.live PROVE r = NewRead
    BY <1>1, <2>1, OutdatedType DEF ReadsInv
  <2>2. \A v \in Users \ {u} : reads'[v] = reads[v]
    BY <1>1 DEF ReadsInv
  <2>3. QED
    BY <1>1, <1>2, <2>1, <2>2 DEF ReadsInv, NewestFirst, db
<1>5. ReadsInv'
  BY <1>1, <1>3, <1>4 DEF ReadsInv, db
<1>6. QED
  BY <1>1, <1>5, DbKept, ShownKept, CallsKept DEF RestInv

\* A call begins knowing nothing of its row.
LEMMA BeginKeeps ==
    ASSUME IInv, NEW c \in Calls, NEW step \in {"look", "answer", "remove", "block", "unblock"},
           NEW u \in Users, NEW v \in Users, u # v, NEW id \in Nat, NEW accept \in BOOLEAN,
           NEW notify \in BOOLEAN, Begin(c, step, u, v, id, accept, notify)
    PROVE  IInv'
<1> USE DEF IInv
<1> DEFINE call == [step |-> step, by |-> u, with |-> v, began |-> writes, id |-> id,
                    looked |-> FALSE, accept |-> accept, notify |-> notify]
<1>1. calls' = [calls EXCEPT ![c] = call] /\ UNCHANGED <<db, signedIn, store, notices>> /\ begun' = begun + 1
  BY DEF Begin, Press
<1>2. call \in CallRecord /\ call.by # call.with /\ call.began = writes /\ call.step \notin {"clear", "insert"}
  BY DEF CallRecord, DbInv
<1> HIDE DEF call
<1>3. CallOK(c)'
  BY <1>1, <1>2 DEF CallOK, CallsInv, DbInv, db
<1>4. CallsInv'
  BY <1>1, <1>3, DbKept, OthersKept
<1>5. ReadsInv'
  BY <1>1, ReadsKept DEF ReadsInv, store, db
<1>6. QED
  BY <1>1, <1>4, <1>5, DbKept, ShownKept DEF RestInv, store

LEMMA ButtonsKeep == ASSUME IInv, NEW u \in Users, NEW v \in Users, Buttons(u, v) PROVE IInv'
<1>1. PICK c \in Calls :
        \/ SendRequest(c, u, v) \/ RemoveContact(c, u, v) \/ Block(c, u, v) \/ Unblock(c, u, v)
        \/ \E accept \in BOOLEAN : Respond(c, u, v, accept)
  BY DEF Buttons
<1>2. ASSUME NEW accept \in BOOLEAN, Respond(c, u, v, accept) PROVE IInv'
  <2>1. PICK request \in shown[u].incoming : u # v /\ Begin(c, "answer", u, v, request[2], accept, TRUE)
    BY <1>2 DEF Respond
  <2>2. request[2] \in Nat
    BY DEF IInv, ShownInv, Lists
  <2>3. QED
    BY <2>1, <2>2, BeginKeeps
<1>3. QED
  BY <1>1, <1>2, BeginKeeps DEF SendRequest, RemoveContact, Block, Unblock

-----------------------------------------------------------------------------
(* What follows the awaits of the calls                                    *)

LEMMA CallParts ==
    ASSUME CallsInv, NEW c \in Calls, calls[c].step # "idle"
    PROVE  /\ calls[c] \in CallRecord /\ CallOK(c)
           /\ calls[c].by \in Users /\ calls[c].with \in Users
           /\ <<calls[c].by, calls[c].with>> \in Pairs /\ <<calls[c].with, calls[c].by>> \in Pairs
<1>1. calls[c] # NoCall
  BY DEF NoCall
<1>2. CallOK(c)
  BY <1>1 DEF CallsInv
<1>3. QED
  BY <1>2 DEF CallOK, CallRecord, Pairs

\* A call that goes on keeps who it is of and with.
LEMMA GotoKeeps ==
    ASSUME DbInv, CallsInv, NEW c \in Calls, calls[c].step # "idle", RowsMoveOn,
           NEW step \in {"clear", "insert"}, NEW id \in Nat, NEW looked \in BOOLEAN,
           Goto(c, step, id, looked),
           step = "clear" => OwnRow(c) # None /\ OwnRow(c).id = id /\ UNCHANGED rows,
           step = "insert" /\ looked =>
               rows'[<<calls[c].by, calls[c].with>>] = None
               \/ rows'[<<calls[c].by, calls[c].with>>].id > calls[c].began
    PROVE  CallsInv'
<1> DEFINE s == [calls[c] EXCEPT !.step = step, !.id = id, !.looked = looked]
<1>1. calls' = [calls EXCEPT ![c] = s]
  BY DEF Goto, CallsInv
<1>2. /\ s \in CallRecord /\ s.step = step /\ s.id = id /\ s.looked = looked
      /\ s.by = calls[c].by /\ s.with = calls[c].with /\ s.began = calls[c].began
  <2>1. calls[c] \in CallRecord
    BY CallParts
  <2>2. QED
    BY <2>1, Zenon DEF CallRecord
<1> HIDE DEF s
<1>3. calls[c].by # calls[c].with /\ calls[c].began <= writes' /\ calls[c].began \in Nat
  <2>1. calls[c] \in CallRecord /\ CallOK(c)
    BY CallParts
  <2>2. calls[c].by # calls[c].with /\ calls[c].began <= writes /\ calls[c].began \in Nat
    BY <2>1 DEF CallOK, CallRecord
  <2>3. QED
    BY <2>2 DEF RowsMoveOn, DbInv
<1>4. calls'[c] = s
  BY <1>1 DEF CallsInv
<1>5. CallOK(c)'
  BY <1>2, <1>3, <1>4 DEF CallOK, OwnRow, Younger
<1>6. QED
  BY <1>1, <1>5, OthersKept

LEMMA FinishKeeps ==
    ASSUME DbInv, CallsInv, NEW c \in Calls, RowsMoveOn, Finish(c)
    PROVE  CallsInv'
BY OthersKept DEF Finish

\* The rows two people may have.
LEMMA RowType ==
    ASSUME DbInv, NEW p \in Pairs, rows[p] # None
    PROVE  rows[p] \in Row /\ rows[p].id \in Nat /\ rows[p].id <= writes
           /\ rows[p].status \in {"pending", "approved", "declined"}
BY DEF DbInv, Row

LEMMA LookedKeeps == ASSUME IInv, NEW c \in Calls, Looked(c) PROVE IInv'
<1> USE DEF IInv
<1> DEFINE u == calls[c].by
           v == calls[c].with
           own == <<u, v>>
<1>1. calls[c].step = "look" /\ UNCHANGED <<db, signedIn, shown, seen, notices, begun>>
  BY DEF Looked
<1>2. u \in Users /\ v \in Users /\ own \in Pairs /\ <<v, u>> \in Pairs /\ calls[c] \in CallRecord
  BY <1>1, CallParts
<1>3. DbInv' /\ RowsMoveOn
  BY <1>1, DbKept
<1>4. CallsInv' /\ (UNCHANGED <<reads, retry, failedRefreshes>> \/ Refresh(u))
  <2>1. CASE Finish(c) /\ Refresh(u)
    BY <1>3, <2>1, FinishKeeps
  <2>2. CASE Has(v, u, "pending") /\ TurnAnswer(c, u, v) /\ UNCHANGED <<reads, retry, failedRefreshes>>
    <3> DEFINE notify == <<v, rows[<<v, u>>].id>> \in shown[u].incoming
               s == [calls[c] EXCEPT !.step = "answer", !.id = rows[<<v, u>>].id, !.notify = notify]
    <3>1. rows[<<v, u>>].id \in Nat
      BY <1>2, <2>2, RowType DEF Has
    <3>2. notify \in BOOLEAN
      OBVIOUS
    <3>3. calls' = [calls EXCEPT ![c] = s]
      BY <2>2 DEF TurnAnswer, CallsInv
    <3> HIDE DEF notify
    <3>4. s \in CallRecord /\ s.step = "answer" /\ s.by = u /\ s.with = v /\ s.began = calls[c].began
      BY <1>2, <3>1, <3>2, Zenon DEF CallRecord
    <3> HIDE DEF s
    <3>5. CallOK(c)
      BY <1>1, CallParts
    <3>6. CallOK(c)'
      BY <1>1, <3>3, <3>4, <3>5 DEF CallOK, CallsInv, db
    <3>7. QED
      BY <1>3, <2>2, <3>3, <3>6, OthersKept
  <2>3. CASE /\ ~Has(u, v, "approved") /\ ~Has(u, v, "pending") /\ DeclinedFirst(c, u, v)
             /\ UNCHANGED <<reads, retry, failedRefreshes>>
    <3>1. CASE Has(u, v, "declined")
      <4>1. rows[own] # None /\ rows[own].id \in Nat /\ Goto(c, "clear", rows[own].id, TRUE)
        BY <1>2, <2>3, <3>1, RowType DEF Has, DeclinedFirst
      <4>2. QED
        BY <1>1, <1>3, <2>3, <4>1, GotoKeeps DEF OwnRow, db
    <3>2. CASE ~Has(u, v, "declined")
      <4>1. Goto(c, "insert", 0, TRUE)
        BY <2>3, <3>2 DEF DeclinedFirst
      <4>2. rows'[own] = None
        BY <1>1, <1>2, <2>3, <3>2, RowType DEF Has, db
      <4>3. QED
        BY <1>1, <1>3, <2>3, <4>1, <4>2, GotoKeeps
    <3>3. QED
      BY <3>1, <3>2
  <2>4. CASE Goto(c, "insert", 0, FALSE) /\ UNCHANGED <<reads, retry, failedRefreshes>>
    BY <1>1, <1>3, <2>4, GotoKeeps
  <2>5. QED
    BY <2>1, <2>2, <2>3, <2>4 DEF Looked
<1>5. ReadsInv'
  BY <1>1, <1>2, <1>4, ReadsKept, RefreshKeeps DEF ReadsInv, db
<1>6. QED
  BY <1>1, <1>3, <1>4, <1>5, ShownKept DEF RestInv

\* A statement may remove rows, add one with the next number, change a status.
Written ==
    /\ rows' \in [Pairs -> Row \cup {None}] /\ blocks' \subseteq Pairs /\ writes' = writes + 1
    /\ \A p \in Pairs : \/ rows'[p] = None
                        \/ rows'[p].id = writes + 1
                        \/ rows[p] # None /\ rows'[p].id = rows[p].id

LEMMA WriteKeeps == ASSUME DbInv, Written PROVE DbInv' /\ RowsMoveOn
<1>1. writes' = writes + 1 /\ writes \in Nat
  BY DEF DbInv, Written
<1>2. \A p \in Pairs : rows[p] # None => rows[p].id \in Nat /\ rows[p].id <= writes
  BY RowType
<1>3. \A p \in Pairs : rows'[p] # None => rows'[p].id <= writes'
  BY <1>1, <1>2 DEF Written
<1>4. RowsMoveOn
  BY <1>1 DEF RowsMoveOn, Written
<1>5. QED
  BY <1>1, <1>3, <1>4 DEF DbInv, Written

\* What all six of the database calls leave to show.
LEMMA CallEnds ==
    ASSUME IInv, NEW c \in Calls, NEW u \in Users, DbInv' /\ RowsMoveOn, CallsInv', ShownInv', RestInv',
           UNCHANGED <<signedIn, seen>>,
           Refresh(u) \/ UNCHANGED <<reads, retry, failedRefreshes>>
    PROVE  IInv'
<1>1. ReadsInv'
  BY ReadsKept, RefreshKeeps DEF IInv, RowsMoveOn
<1>2. QED
  BY <1>1 DEF IInv

LEMMA ClearedKeeps == ASSUME IInv, NEW c \in Calls, Cleared(c) PROVE IInv'
<1> USE DEF IInv
<1> writes \in Nat
  BY DEF DbInv
<1> DEFINE u == calls[c].by
           v == calls[c].with
           own == <<u, v>>
<1>1. calls[c].step = "clear" /\ UNCHANGED <<signedIn, shown, seen, notices, begun>>
  BY DEF Cleared
<1>2. u \in Users /\ own \in Pairs /\ calls[c] \in CallRecord /\ CallOK(c)
  BY <1>1, CallParts
<1>3. Younger(c) \/ rows[own].id = calls[c].id
  BY <1>1, <1>2 DEF CallOK, OwnRow
<1>4. CASE /\ rows[own] # None /\ rows[own].id = calls[c].id
           /\ Write([rows EXCEPT ![own] = None], blocks)
           /\ Goto(c, "insert", 0, TRUE) /\ UNCHANGED <<reads, retry, failedRefreshes>>
  <2> DEFINE newRows == [rows EXCEPT ![own] = None]
  <2>1. newRows \in [Pairs -> Row \cup {None}] /\ newRows[own] = None
        /\ \A p \in Pairs : newRows[p] = None \/ (rows[p] # None /\ newRows[p].id = rows[p].id)
    BY <1>2 DEF DbInv
  <2>2. rows' = newRows /\ blocks' \subseteq Pairs /\ writes' = writes + 1
    BY <1>4 DEF Write, DbInv
  <2> HIDE DEF newRows
  <2> Written
    BY <2>1, <2>2 DEF Written
  <2>3. DbInv' /\ RowsMoveOn /\ rows'[own] = None
    BY <2>1, <2>2, WriteKeeps
  <2>4. CallsInv'
    BY <1>1, <1>4, <2>3, GotoKeeps
  <2>5. QED
    BY <1>1, <1>2, <1>4, <2>3, <2>4, ShownKept, CallEnds DEF RestInv
<1>5. CASE /\ ~(rows[own] # None /\ rows[own].id = calls[c].id) /\ UNCHANGED db
           /\ Goto(c, "insert", 0, TRUE) /\ UNCHANGED <<reads, retry, failedRefreshes>>
  <2>1. DbInv' /\ RowsMoveOn
    BY <1>5, DbKept
  <2>2. rows'[own] = None \/ rows'[own].id > calls[c].began
    BY <1>3, <1>5 DEF Younger, OwnRow, db
  <2>3. CallsInv'
    BY <1>1, <1>5, <2>1, <2>2, GotoKeeps
  <2>4. QED
    BY <1>1, <1>2, <1>5, <2>1, <2>3, ShownKept, CallEnds DEF RestInv
<1>6. CASE UNCHANGED db /\ Finish(c) /\ Refresh(u)
  <2>1. DbInv' /\ RowsMoveOn
    BY <1>6, DbKept
  <2>2. CallsInv'
    BY <1>6, <2>1, FinishKeeps
  <2>3. QED
    BY <1>1, <1>2, <1>6, <2>1, <2>2, ShownKept, CallEnds DEF RestInv
<1>7. QED
  BY <1>4, <1>5, <1>6 DEF Cleared, Succeeds, Fails

LEMMA NotifyType ==
    ASSUME RestInv, NEW kind \in {"sent", "responded"}, NEW u \in Users, NEW v \in Users,
           Notify(kind, u, v) \/ UNCHANGED notices, UNCHANGED begun
    PROVE  RestInv'
BY DEF RestInv, Notify

LEMMA InsertedKeeps == ASSUME IInv, NEW c \in Calls, Inserted(c) PROVE IInv'
<1> USE DEF IInv
<1> writes \in Nat
  BY DEF DbInv
<1> DEFINE u == calls[c].by
           v == calls[c].with
           own == <<u, v>>
<1>1. /\ calls[c].step = "insert" /\ UNCHANGED <<signedIn, shown, seen, begun>>
      /\ Finish(c) /\ Refresh(u) /\ (Notify("sent", u, v) \/ UNCHANGED notices)
  BY DEF Inserted
<1>2. u \in Users /\ v \in Users /\ own \in Pairs
  BY <1>1, CallParts
<1>3. DbInv' /\ RowsMoveOn
  <2>1. CASE Write([rows EXCEPT ![own] = [status |-> "pending", id |-> writes + 1]], blocks)
    <3> DEFINE new == [status |-> "pending", id |-> writes + 1]
               newRows == [rows EXCEPT ![own] = new]
    <3>1. new \in Row /\ new.id = writes + 1
      BY DEF Row, DbInv
    <3> HIDE DEF new
    <3>2. newRows \in [Pairs -> Row \cup {None}]
          /\ \A p \in Pairs : newRows[p] = None \/ newRows[p].id = writes + 1
                            \/ (rows[p] # None /\ newRows[p].id = rows[p].id)
      BY <1>2, <3>1 DEF DbInv
    <3>3. rows' = newRows /\ UNCHANGED blocks /\ writes' = writes + 1
      BY <2>1 DEF new, Write
    <3> HIDE DEF newRows
    <3>4. blocks' \subseteq Pairs
      BY <3>3 DEF DbInv
    <3>5. Written
      BY <3>2, <3>3, <3>4 DEF Written
    <3>6. QED
      BY <3>5, WriteKeeps
  <2>2. CASE UNCHANGED db
    BY <2>2, DbKept
  <2>3. QED
    BY <2>1, <2>2 DEF Inserted, Fails
<1>4. CallsInv' /\ RestInv' /\ ShownInv'
  BY <1>1, <1>2, <1>3, FinishKeeps, NotifyType, ShownKept
<1>5. QED
  BY <1>1, <1>2, <1>3, <1>4, CallEnds

LEMMA AnsweredKeeps == ASSUME IInv, NEW c \in Calls, Answered(c) PROVE IInv'
<1> USE DEF IInv
<1> writes \in Nat
  BY DEF DbInv
<1> DEFINE u == calls[c].by
           v == calls[c].with
           theirs == <<v, u>>
           status == IF calls[c].accept THEN "approved" ELSE "declined"
<1>1. /\ calls[c].step = "answer" /\ UNCHANGED <<signedIn, shown, seen, begun>>
      /\ Finish(c) /\ Refresh(u) /\ (Notify("responded", u, v) \/ UNCHANGED notices)
  BY DEF Answered
<1>2. u \in Users /\ v \in Users /\ theirs \in Pairs
  BY <1>1, CallParts
<1>3. DbInv' /\ RowsMoveOn
  <2>1. CASE rows[theirs] # None /\ Write([rows EXCEPT ![theirs].status = status], blocks)
    <3> DEFINE new == [rows[theirs] EXCEPT !.status = status]
               newRows == [rows EXCEPT ![theirs] = new]
    <3>1. new \in Row /\ new.id = rows[theirs].id
      <4>1. rows[theirs] \in Row
        BY <1>2, <2>1, RowType
      <4>2. QED
        BY <4>1 DEF Row
    <3>2. rows' = newRows /\ blocks' \subseteq Pairs /\ writes' = writes + 1
      BY <2>1 DEF Write, DbInv
    <3> HIDE DEF new
    <3>3. newRows \in [Pairs -> Row \cup {None}]
          /\ \A p \in Pairs : newRows[p] = None \/ (rows[p] # None /\ newRows[p].id = rows[p].id)
      BY <1>2, <2>1, <3>1 DEF DbInv
    <3> HIDE DEF newRows
    <3>4. Written
      BY <3>2, <3>3 DEF Written
    <3>5. QED
      BY <3>4, WriteKeeps
  <2>2. CASE UNCHANGED db
    BY <2>2, DbKept
  <2>3. QED
    BY <2>1, <2>2 DEF Answered, Fails, Has
<1>4. CallsInv' /\ RestInv' /\ ShownInv'
  BY <1>1, <1>2, <1>3, FinishKeeps, NotifyType, ShownKept
<1>5. QED
  BY <1>1, <1>2, <1>3, <1>4, CallEnds

LEMMA RemovedKeeps == ASSUME IInv, NEW c \in Calls, Removed(c) PROVE IInv'
<1> USE DEF IInv
<1> writes \in Nat
  BY DEF DbInv
<1> DEFINE u == calls[c].by
           v == calls[c].with
<1>1. /\ calls[c].step = "remove" /\ UNCHANGED <<signedIn, seen, notices, begun>>
      /\ Finish(c) /\ Refresh(u) /\ shown' = [shown EXCEPT ![u].approved = @ \ {v}]
  BY DEF Removed
<1>2. u \in Users /\ v \in Users /\ <<u, v>> \in Pairs /\ <<v, u>> \in Pairs
  BY <1>1, CallParts
<1>3. DbInv' /\ RowsMoveOn
  <2>1. CASE Write([rows EXCEPT ![<<u, v>>] = None, ![<<v, u>>] = None], blocks)
    <3>1. writes' = writes + 1 /\ blocks' \subseteq Pairs /\ rows' = [rows EXCEPT ![<<u, v>>] = None, ![<<v, u>>] = None]
      BY <2>1 DEF Write, DbInv
    <3>2. rows' \in [Pairs -> Row \cup {None}] /\ \A p \in Pairs : rows'[p] = None \/ rows'[p] = rows[p]
      BY <3>1 DEF DbInv
    <3>3. Written
      BY <3>1, <3>2 DEF Written
    <3>4. QED
      BY <3>3, WriteKeeps
  <2>2. CASE UNCHANGED db
    BY <2>2, DbKept
  <2>3. QED
    BY <2>1, <2>2 DEF Removed, Fails
<1>4. ShownInv'
  BY <1>1, <1>2 DEF ShownInv, NeverBothShown, Lists
<1>5. CallsInv' /\ RestInv'
  BY <1>1, <1>3, FinishKeeps DEF RestInv
<1>6. QED
  BY <1>1, <1>2, <1>3, <1>4, <1>5, CallEnds

\* block() takes the person off the contacts in the same step.
LEMMA BlockedKeeps == ASSUME IInv, NEW c \in Calls, Blocked(c) \/ Unblocked(c) PROVE IInv'
<1> USE DEF IInv
<1> writes \in Nat
  BY DEF DbInv
<1> DEFINE u == calls[c].by
           v == calls[c].with
<1>1. /\ calls[c].step # "idle" /\ UNCHANGED <<signedIn, reads, retry, failedRefreshes, seen, notices, begun>>
      /\ Finish(c)
      /\ Hide(u, v) \/ shown' = [shown EXCEPT ![u].blocked = @ \ {v}]
  BY DEF Blocked, Unblocked
<1>2. u \in Users /\ v \in Users /\ <<u, v>> \in Pairs
  BY <1>1, CallParts
<1>3. DbInv' /\ RowsMoveOn
  <2>1. CASE Write(rows, blocks \cup {<<u, v>>}) \/ Write(rows, blocks \ {<<u, v>>})
    <3>1. writes' = writes + 1 /\ rows' = rows /\ blocks' \subseteq Pairs
      BY <1>2, <2>1 DEF Write, DbInv
    <3>2. rows' \in [Pairs -> Row \cup {None}]
      BY <3>1 DEF DbInv
    <3>3. Written
      BY <3>1, <3>2 DEF Written
    <3>4. QED
      BY <3>3, WriteKeeps
  <2>2. CASE UNCHANGED db
    BY <2>2, DbKept
  <2>3. QED
    BY <2>1, <2>2 DEF Blocked, Unblocked, Fails
<1>4. ShownInv'
  <2> DEFINE hidden == [shown[u] EXCEPT !.blocked = @ \cup {v}, !.approved = @ \ {v}]
             open == [shown[u] EXCEPT !.blocked = @ \ {v}]
  <2>1. shown[u] \in Lists /\ shown[u].approved \cap shown[u].blocked = {}
    BY <1>2 DEF ShownInv, NeverBothShown
  <2>2. hidden \in Lists /\ hidden.approved \cap hidden.blocked = {}
    BY <1>2, <2>1 DEF Lists
  <2>3. open \in Lists /\ open.approved \cap open.blocked = {}
    BY <2>1 DEF Lists
  <2>4. shown' = [shown EXCEPT ![u] = hidden] \/ shown' = [shown EXCEPT ![u] = open]
    BY <1>1, <1>2 DEF Hide, ShownInv
  <2> HIDE DEF hidden, open
  <2>5. QED
    BY <2>2, <2>3, <2>4 DEF ShownInv, NeverBothShown
<1>5. CallsInv' /\ RestInv'
  BY <1>1, <1>3, FinishKeeps DEF RestInv
<1>6. QED
  BY <1>1, <1>2, <1>3, <1>4, <1>5, CallEnds

LEMMA HearKeeps == ASSUME IInv, NEW n \in notices, Hear(n) PROVE IInv'
<1> USE DEF IInv
<1>1. /\ n.to \in Users /\ notices' = notices \ {n}
      /\ UNCHANGED <<db, signedIn, shown, seen, calls, begun>>
      /\ Refresh(n.to) \/ UNCHANGED <<reads, retry, failedRefreshes>>
  BY DEF Hear, RestInv
<1>2. ReadsInv'
  BY <1>1, ReadsKept, RefreshKeeps DEF ReadsInv, db
<1>3. QED
  BY <1>1, <1>2, DbKept, ShownKept, CallsKept DEF RestInv

-----------------------------------------------------------------------------
LEMMA IInvStep == IInv /\ [Next]_vars => IInv'
<1> SUFFICES ASSUME IInv, [Next]_vars PROVE IInv'
  OBVIOUS
<1>1. CASE UNCHANGED vars
  BY <1>1, DbKept, ShownKept, CallsKept, ReadsKept DEF IInv, ReadsInv, RestInv, vars, store, db
<1>2. CASE Next
  <2>1. ASSUME NEW u \in Users,
               \/ ReadRequests(u) \/ ReadBlocks(u) \/ Land(u) \/ LandFailed(u) \/ RetryTimer(u)
               \/ OpenContacts(u) \/ SignOut(u) \/ SignIn(u)
               \/ \E v \in Users : Buttons(u, v)
        PROVE  IInv'
    BY <2>1, ReadKeeps, LandKeeps, TimerKeeps, OpenKeeps, SignOutKeeps, SignInKeeps, ButtonsKeep
  <2>2. ASSUME NEW c \in Calls,
               \/ Looked(c) \/ Cleared(c) \/ Inserted(c) \/ Answered(c)
               \/ Removed(c) \/ Blocked(c) \/ Unblocked(c)
        PROVE  IInv'
    BY <2>2, LookedKeeps, ClearedKeeps, InsertedKeeps, AnsweredKeeps, RemovedKeeps, BlockedKeeps
  <2>3. QED
    BY <1>2, <2>1, <2>2, HearKeeps DEF Next
<1>3. QED
  BY <1>1, <1>2

LEMMA Inductive == Spec => []IInv
BY InitIInv, IInvStep, PTL DEF Spec

-----------------------------------------------------------------------------
(* The theorems                                                            *)

\* Type correctness: the tables hold rows of their kind, the lists people, and
\* no call is of a user with itself.
THEOREM ContactsTyped == Spec => []TypeOK
BY Inductive, Typed, PTL

\* Nobody is shown as a contact and as blocked, in whatever order refreshes,
\* blocks and removals end.
THEOREM NeverBoth == Spec => []NeverBothShown
BY Inductive, Typed, PTL

\* A request that looked its row up meets no old row of its own.
THEOREM RoomFound == Spec => []InsertFindsRoom
BY Inductive, Typed, PTL

\* The lists never go back to an older state of the tables while their user
\* stays signed in.
THEOREM ListsForward == Spec => SnapshotsForward
<1> DEFINE Forward == \A u \in Users : u \in signedIn /\ u \in signedIn' =>
                        seen'[u][1] >= seen[u][1] /\ seen'[u][2] >= seen[u][2]
<1>1. IInv /\ [Next]_vars => [Forward]_vars
  <2> SUFFICES ASSUME IInv, Next PROVE Forward
    OBVIOUS
  <2>1. \A u \in Users : seen[u][1] \in Nat /\ seen[u][2] \in Nat
    BY DEF IInv, ReadsInv
  <2>2. CASE UNCHANGED seen
    BY <2>1, <2>2
  <2>3. ASSUME NEW u \in Users, Land(u) \/ LandFailed(u) PROVE Forward
    BY <2>3, LandKeeps
  <2>4. ASSUME NEW u \in Users, SignOut(u) PROVE Forward
    BY <2>1, <2>4 DEF SignOut, IInv, ReadsInv
  <2>5. QED
    <3>1. ASSUME NEW u \in Users, NEW v \in Users, Buttons(u, v) PROVE UNCHANGED seen
      BY <3>1 DEF Buttons, SendRequest, RemoveContact, Block, Unblock, Respond, Begin, store
    <3>2. ASSUME NEW u \in Users,
                 ReadRequests(u) \/ ReadBlocks(u) \/ RetryTimer(u) \/ OpenContacts(u) \/ SignIn(u)
          PROVE  UNCHANGED seen
      BY <3>2 DEF ReadRequests, ReadBlocks, RetryTimer, OpenContacts, SignIn
    <3>3. ASSUME NEW c \in Calls,
                 \/ Looked(c) \/ Cleared(c) \/ Inserted(c) \/ Answered(c)
                 \/ Removed(c) \/ Blocked(c) \/ Unblocked(c)
          PROVE  UNCHANGED seen
      BY <3>3 DEF Looked, Cleared, Inserted, Answered, Removed, Blocked, Unblocked
    <3>4. ASSUME NEW n \in notices, Hear(n) PROVE UNCHANGED seen
      BY <3>4 DEF Hear
    <3>5. QED
      BY <2>2, <2>3, <2>4, <3>1, <3>2, <3>3, <3>4 DEF Next
<1>2. QED
  BY <1>1, Inductive, PTL DEF Spec, SnapshotsForward

-----------------------------------------------------------------------------
(* The session of an account on its device. Only one load of an account's  *)
(* key pair is under way at a time (getOrCreateDeviceKeyPair shares it),   *)
(* which is why a pair is never written over one that another handler is   *)
(* publishing; and the secret is only deleted when the account and its     *)
(* published keys are gone. The invariant (AccountInv) follows each        *)
(* handler from the read of the key to its publication. Of the push token  *)
(* it says where the calls under way stand (PushInv).                      *)

\* What the proofs need of the types.
AccountTyped ==
    /\ session \in Accounts \cup {NoOne} /\ handlers \in [Handlers -> Handler \cup {Idle}]
    /\ ending \in Ending \cup {NoOne} /\ deviceToken \in BOOLEAN
    /\ secret \in [Accounts -> Nat] /\ published \in [Accounts -> SUBSET Nat] /\ keys \in Nat

\* A key that is about to be published is the one that was stored.
PublishesStored == \A h \in Handlers :
    handlers[h].step \in {"publish", "insert"} /\ handlers[h].of \notin deleted =>
        handlers[h].key = secret[handlers[h].of] /\ handlers[h].key # 0

\* A new key is only written where none is.
WritesFirst == \A h \in Handlers : handlers[h].step = "write" =>
    handlers[h].key # 0 /\ (handlers[h].of \notin deleted => secret[handlers[h].of] = 0)

\* One load of a key pair per account.
OneLoad == \A g, h \in Handlers :
    /\ handlers[g].step \in {"read", "write"} /\ handlers[h].step \in {"read", "write"}
    /\ handlers[g].of = handlers[h].of
    => g = h

PublishedHeld ==
    /\ \A a \in Accounts : \A k \in published[a] : k = secret[a] /\ k # 0
    /\ \A a \in deleted : a \in Accounts => published[a] = {}

\* The key that is deleted is that of a deleted account.
DeletesGone == ending # NoOne /\ ending.step = "local" => ending.account \in deleted

AccountInv == AccountTyped /\ PublishesStored /\ WritesFirst /\ OneLoad /\ PublishedHeld /\ DeletesGone

\* What a handler that is under way is made of.
LEMMA HandlerFields ==
    ASSUME AccountTyped, NEW h \in Handlers, handlers[h].step # "idle"
    PROVE  /\ handlers[h] \in Handler /\ handlers[h].of \in Accounts /\ handlers[h].key \in Nat
           /\ handlers[h].account \in Accounts
  BY DEF AccountTyped, Handler, Idle

\* A handler that is somewhere else, with the rest of it unchanged.
LEMMA HandlerAt ==
    ASSUME AccountTyped, NEW h \in Handlers, handlers[h].step # "idle",
           NEW step \in {"profile", "read", "write", "joined", "publish", "insert", "connect"},
           NEW of \in Accounts, NEW key \in Nat
    PROVE  LET new == [handlers[h] EXCEPT !.step = step, !.of = of, !.key = key] IN
           /\ new \in Handler /\ new.step = step /\ new.of = of /\ new.key = key
  BY HandlerFields DEF Handler

\* A load that ends takes along those that have joined it.
LEMMA HandOverEffect ==
    ASSUME AccountTyped, NEW h \in Handlers, handlers[h].step # "idle",
           NEW step \in {"publish", "connect"}, NEW key \in Nat, HandOver(h, step, key)
    PROVE  /\ handlers' \in [Handlers -> Handler \cup {Idle}]
           /\ \A x \in Handlers :
                 \/ handlers'[x] = handlers[x] /\ x # h
                 \/ handlers'[x].step = step /\ handlers'[x].key = key /\ handlers'[x].of = handlers[h].of
  <1>1. ASSUME NEW x \in Handlers
        PROVE  /\ handlers'[x] \in Handler \cup {Idle}
               /\ \/ handlers'[x] = handlers[x] /\ x # h
                  \/ handlers'[x].step = step /\ handlers'[x].key = key /\ handlers'[x].of = handlers[h].of
    <2>1. CASE x = h \/ (handlers[x].step = "joined" /\ handlers[x].of = handlers[h].of)
      <3>1. handlers'[x] = [handlers[x] EXCEPT !.step = step, !.key = key]
        BY <2>1 DEF HandOver
      <3>2. handlers[x] \in Handler /\ handlers[x].of = handlers[h].of
        BY <2>1, HandlerFields
      <3>3. QED
        BY <3>1, <3>2 DEF Handler
    <2>2. CASE ~(x = h \/ (handlers[x].step = "joined" /\ handlers[x].of = handlers[h].of))
      <3>1. handlers'[x] = handlers[x] /\ x # h
        BY <2>2 DEF HandOver
      <3>2. QED
        BY <3>1 DEF AccountTyped
    <2>3. QED
      BY <2>1, <2>2
  <1>2. handlers' = [x \in Handlers |-> handlers'[x]]
    BY DEF HandOver
  <1>3. QED
    BY <1>1, <1>2

\* One handler moves on, and the keys stay.
LEMMA MoveOn ==
    ASSUME AccountInv, NEW h \in Handlers, NEW new \in Handler \cup {Idle},
           handlers' = [handlers EXCEPT ![h] = new],
           UNCHANGED <<secret, published, deleted>>, keys' \in Nat,
           session' \in Accounts \cup {NoOne}, UNCHANGED <<ending, deviceToken>>,
           new.step \in {"publish", "insert"} /\ new.of \notin deleted => new.key = secret[new.of] /\ new.key # 0,
           new.step = "write" => new.key # 0 /\ (new.of \notin deleted => secret[new.of] = 0),
           new.step \in {"read", "write"} =>
               \A g \in Handlers \ {h} : handlers[g].step \in {"read", "write"} => handlers[g].of # new.of
    PROVE  AccountInv'
  <1>1. /\ handlers' \in [Handlers -> Handler \cup {Idle}] /\ handlers'[h] = new
        /\ \A g \in Handlers : g # h => handlers'[g] = handlers[g]
    BY DEF AccountInv, AccountTyped
  <1>2. AccountTyped'
    BY <1>1 DEF AccountInv, AccountTyped
  <1>3. PublishesStored'
    BY <1>1 DEF AccountInv, PublishesStored
  <1>4. WritesFirst'
    BY <1>1 DEF AccountInv, WritesFirst
  <1>5. OneLoad'
    BY <1>1 DEF AccountInv, OneLoad
  <1>6. QED
    BY <1>2, <1>3, <1>4, <1>5 DEF AccountInv, PublishedHeld, DeletesGone

\* What leaves the keys and the handlers alone keeps AccountInv.
LEMMA KeysStay ==
    ASSUME AccountInv, UNCHANGED <<handlers, secret, published, keys, deleted>>,
           session' \in Accounts \cup {NoOne}, ending' \in Ending \cup {NoOne}, deviceToken' \in BOOLEAN, DeletesGone'
    PROVE  AccountInv'
  BY DEF AccountInv, AccountTyped, PublishesStored, WritesFirst, OneLoad, PublishedHeld

\* One lemma for every action that touches the keys.
LEMMA KeyReadKept == ASSUME AccountInv, NEW h \in Handlers, KeyRead(h) PROVE AccountInv'
  <1> DEFINE a == handlers[h].of
  <1>1. /\ handlers[h].step = "read" /\ AccountTyped
        /\ UNCHANGED <<session, ending, deviceToken, deleted, published>>
    BY DEF KeyRead, AccountInv, keyVars, pushVars
  <1>2. handlers[h] \in Handler /\ a \in Accounts /\ secret[a] \in Nat /\ keys \in Nat
    BY <1>1, HandlerFields DEF AccountTyped
  <1>3. CASE secret[a] = 0 /\ keys' = keys + 1 /\ UNCHANGED secret
             /\ handlers' = [handlers EXCEPT ![h].step = "write", ![h].key = keys + 1]
    <2> DEFINE new == [handlers[h] EXCEPT !.step = "write", !.key = keys + 1]
    <2>1. handlers' = [handlers EXCEPT ![h] = new]
      BY <1>1, <1>2, <1>3 DEF AccountTyped
    <2>2. keys + 1 \in Nat /\ keys + 1 # 0
      BY <1>2
    <2>3. new \in Handler /\ new.step = "write" /\ new.of = a /\ new.key = keys + 1
      BY <1>2, <2>2 DEF Handler
    <2> HIDE DEF new
    <2>4. \A g \in Handlers \ {h} : handlers[g].step \in {"read", "write"} => handlers[g].of # a
      BY <1>1 DEF AccountInv, OneLoad
    <2>5. session' \in Accounts \cup {NoOne}
      BY <1>1 DEF AccountTyped
    <2>6. /\ keys' \in Nat
          /\ new.key # 0 /\ secret[new.of] = 0 /\ new.step \notin {"publish", "insert"}
          /\ \A g \in Handlers \ {h} : handlers[g].step \in {"read", "write"} => handlers[g].of # new.of
      BY <1>2, <1>3, <2>2, <2>3, <2>4
    <2>7. QED
      BY <1>1, <1>3, <2>1, <2>3, <2>5, <2>6, MoveOn
  <1>4. ASSUME NEW step \in {"publish", "connect"}, NEW key \in Nat, HandOver(h, step, key), UNCHANGED <<secret, keys>>,
               step = "publish" => key = secret[a] /\ key # 0
        PROVE  AccountInv'
    <2>1. /\ handlers' \in [Handlers -> Handler \cup {Idle}]
          /\ \A x \in Handlers :
                 \/ handlers'[x] = handlers[x] /\ x # h
                 \/ handlers'[x].step = step /\ handlers'[x].key = key /\ handlers'[x].of = a
      BY <1>1, <1>4, HandOverEffect
    <2> HIDE DEF a
    <2>2. AccountTyped'
      BY <1>1, <1>4, <2>1 DEF AccountTyped
    <2>3. PublishesStored'
      BY <1>1, <1>4, <2>1 DEF AccountInv, PublishesStored
    <2>4. WritesFirst'
      BY <1>1, <1>4, <2>1 DEF AccountInv, WritesFirst
    <2>5. OneLoad'
      BY <1>1, <1>4, <2>1 DEF AccountInv, OneLoad
    <2>6. QED
      BY <1>1, <1>4, <2>2, <2>3, <2>4, <2>5 DEF AccountInv, PublishedHeld, DeletesGone
  <1>5. QED
    BY <1>2, <1>3, <1>4 DEF KeyRead, keyVars

LEMMA KeyWrittenKept == ASSUME AccountInv, NEW h \in Handlers, KeyWritten(h) PROVE AccountInv'
  <1> DEFINE a == handlers[h].of
             k == handlers[h].key
  <1>1. /\ handlers[h].step = "write" /\ AccountTyped
        /\ UNCHANGED <<session, ending, deviceToken, deleted, published, keys>>
    BY DEF KeyWritten, AccountInv, pushVars
  <1>2. handlers[h] \in Handler /\ a \in Accounts /\ k \in Nat /\ k # 0 /\ (a \notin deleted => secret[a] = 0)
    BY <1>1, HandlerFields DEF AccountInv, WritesFirst
  <1>3. PICK step \in {"publish", "connect"}, key \in Nat :
          /\ HandOver(h, step, key)
          /\ \/ step = "publish" /\ key = k /\ secret' = [secret EXCEPT ![a] = k]
             \/ step = "connect" /\ secret' = secret
    BY <1>2 DEF KeyWritten
  <1>4. /\ handlers' \in [Handlers -> Handler \cup {Idle}]
        /\ \A x \in Handlers :
                 \/ handlers'[x] = handlers[x] /\ x # h
                 \/ handlers'[x].step = step /\ handlers'[x].key = key /\ handlers'[x].of = a
    BY <1>1, <1>3, HandOverEffect
  <1>5. /\ secret' \in [Accounts -> Nat]
        /\ \A b \in Accounts : b # a => secret'[b] = secret[b]
        /\ step = "publish" => secret'[a] = k /\ key = k
        /\ step = "connect" => secret' = secret
    BY <1>1, <1>2, <1>3 DEF AccountTyped
  \* No other handler is writing this account's key, and none is publishing one.
  <1>6. \A x \in Handlers : handlers[x].step \in {"read", "write"} /\ x # h => handlers[x].of # a
    BY <1>1 DEF AccountInv, OneLoad
  <1>7. \A x \in Handlers : handlers[x].step \in {"publish", "insert"} /\ handlers[x].of = a => a \in deleted
    BY <1>2 DEF AccountInv, PublishesStored
  <1>8. \A x \in Handlers : handlers[x].step \in {"write", "publish", "insert"} => handlers[x].of \in Accounts
    BY <1>1, HandlerFields
  <1>9. a \in deleted \/ published[a] = {}
    <2>1. \A m \in published[a] : m = secret[a] /\ m # 0
      BY <1>2 DEF AccountInv, PublishedHeld
    <2>2. QED
      BY <1>2, <2>1
  <1> HIDE DEF a, k
  <1>10. AccountTyped'
    BY <1>1, <1>4, <1>5 DEF AccountTyped
  <1>11. PublishesStored'
    BY <1>1, <1>2, <1>3, <1>4, <1>5, <1>7, <1>8 DEF AccountInv, PublishesStored
  <1>12. WritesFirst'
    BY <1>1, <1>3, <1>4, <1>5, <1>6, <1>8 DEF AccountInv, WritesFirst
  <1>13. OneLoad'
    BY <1>3, <1>4 DEF AccountInv, OneLoad
  <1>14. PublishedHeld'
    <2>1. published[a] = {}
      BY <1>2, <1>9 DEF AccountInv, PublishedHeld
    <2>2. QED
      BY <1>1, <1>2, <1>5, <2>1 DEF AccountInv, PublishedHeld
  <1>15. QED
    BY <1>1, <1>10, <1>11, <1>12, <1>13, <1>14 DEF AccountInv, DeletesGone

LEMMA PublishedKept == ASSUME AccountInv, NEW h \in Handlers, Published(h) PROVE AccountInv'
  <1> DEFINE a == handlers[h].of
             k == handlers[h].key
             new == [handlers[h] EXCEPT !.step = "connect"]
  <1>1. /\ handlers[h].step = "insert" /\ AccountTyped
        /\ UNCHANGED <<session, ending, deviceToken, deleted, secret, keys>>
        /\ handlers' = [handlers EXCEPT ![h] = new]
    BY DEF Published, AccountInv, To, AccountTyped, pushVars
  <1>2. handlers[h] \in Handler /\ a \in Accounts /\ k \in Nat
        /\ (a \notin deleted => k = secret[a] /\ k # 0)
    BY <1>1, HandlerFields DEF AccountInv, PublishesStored
  <1>3. new \in Handler /\ new.step = "connect"
    BY <1>2 DEF Handler
  <1>4. \/ published' = published
        \/ a \notin deleted /\ published' = [published EXCEPT ![a] = @ \cup {k}]
    BY DEF Published
  <1> HIDE DEF a, k, new
  <1>5. published' \in [Accounts -> SUBSET Nat]
    BY <1>1, <1>2, <1>4 DEF AccountTyped
  <1>6. PublishedHeld'
    BY <1>1, <1>2, <1>4 DEF AccountInv, PublishedHeld, AccountTyped
  <1>7. /\ handlers' \in [Handlers -> Handler \cup {Idle}] /\ handlers'[h] = new
        /\ \A g \in Handlers : g # h => handlers'[g] = handlers[g]
    BY <1>1, <1>3 DEF AccountTyped
  <1>8. AccountTyped'
    BY <1>1, <1>5, <1>7 DEF AccountTyped
  <1>9. PublishesStored' /\ WritesFirst' /\ OneLoad'
    BY <1>1, <1>3, <1>7 DEF AccountInv, PublishesStored, WritesFirst, OneLoad
  <1>10. QED
    BY <1>1, <1>6, <1>8, <1>9 DEF AccountInv, DeletesGone

\* A publication that is sent, or given up, has the handler's key as it was.
LEMMA PublishSentKept == ASSUME AccountInv, NEW h \in Handlers, PublishSent(h) PROVE AccountInv'
  <1>1. /\ handlers[h].step = "publish" /\ AccountTyped
        /\ UNCHANGED <<session, ending, deviceToken, deleted, secret, published, keys>>
    BY DEF PublishSent, AccountInv, keyVars, pushVars
  <1>2. handlers[h] \in Handler /\ keys' \in Nat /\ session' \in Accounts \cup {NoOne}
    BY <1>1, HandlerFields DEF AccountTyped
  <1>3. PICK step \in {"insert", "connect"} : To(h, step)
    BY DEF PublishSent
  <1> DEFINE new == [handlers[h] EXCEPT !.step = step]
  <1>4. new \in Handler /\ new.step = step /\ new.of = handlers[h].of /\ new.key = handlers[h].key
    BY <1>2, <1>3 DEF Handler
  <1>5. handlers' = [handlers EXCEPT ![h] = new]
    BY <1>1, <1>3 DEF To, AccountTyped
  <1>6. new.of \notin deleted => new.key = secret[new.of] /\ new.key # 0
    BY <1>1, <1>4 DEF AccountInv, PublishesStored
  <1> HIDE DEF new
  <1>7. QED
    BY <1>1, <1>2, <1>4, <1>5, <1>6, MoveOn

LEMMA ProfileReadKept == ASSUME AccountInv, NEW h \in Handlers, ProfileRead(h) PROVE AccountInv'
  <1>1. /\ handlers[h].step = "profile" /\ AccountTyped
        /\ UNCHANGED <<session, ending, deviceToken, deleted, secret, published, keys>>
    BY DEF ProfileRead, AccountInv, keyVars, pushVars
  <1>2. handlers[h] \in Handler
    BY <1>1, HandlerFields
  <1>3. session' \in Accounts \cup {NoOne} /\ keys' \in Nat
    BY <1>1 DEF AccountTyped
  <1>4. CASE session = NoOne
    <2> DEFINE new == [handlers[h] EXCEPT !.step = "connect"]
    <2>1. handlers' = [handlers EXCEPT ![h] = new]
      BY <1>1, <1>4 DEF ProfileRead, AccountTyped
    <2>2. new \in Handler /\ new.step = "connect"
      BY <1>2 DEF Handler
    <2> HIDE DEF new
    <2>3. QED
      BY <1>1, <1>3, <2>1, <2>2, MoveOn
  <1>5. CASE session # NoOne
    <2> DEFINE step == KeyStep(session)
               new == [handlers[h] EXCEPT !.step = step, !.of = session]
    <2>1. handlers' = [handlers EXCEPT ![h] = new]
      BY <1>1, <1>5 DEF ProfileRead, AccountTyped
    <2>2. session \in Accounts
      BY <1>1, <1>5 DEF AccountTyped
    <2>3. step \in {"joined", "read"} /\ (step = "read" => ~Loading(session))
      BY DEF KeyStep
    <2> HIDE DEF step
    <2>4. new \in Handler /\ new.step = step /\ new.of = session
      BY <1>2, <2>2, <2>3 DEF Handler
    <2> HIDE DEF new
    <2>5. new.step \in {"read", "write"} =>
               \A g \in Handlers \ {h} : handlers[g].step \in {"read", "write"} => handlers[g].of # new.of
      BY <2>3, <2>4 DEF Loading
    <2>6. QED
      BY <1>1, <1>3, <2>1, <2>3, <2>4, <2>5, MoveOn
  <1>6. QED
    BY <1>4, <1>5

LEMMA DeletionKept == ASSUME AccountInv, DeletionAnswered PROVE AccountInv'
  <1>1. /\ AccountTyped /\ ending \in Ending /\ UNCHANGED <<session, handlers, deviceToken, secret, keys>>
    BY DEF DeletionAnswered, AccountInv, AccountTyped, At
  <1>2. CASE ending' = NoOne /\ UNCHANGED <<deleted, published>>
    BY <1>1, <1>2, KeysStay DEF AccountTyped, DeletesGone
  <1>3. CASE /\ deleted' = deleted \cup {ending.account}
             /\ published' = [published EXCEPT ![ending.account] = {}]
             /\ ending' = [ending EXCEPT !.step = "local"]
    <2>1. ending' \in Ending
      BY <1>1, <1>3 DEF Ending
    <2>2. published' \in [Accounts -> SUBSET Nat]
      BY <1>1, <1>3 DEF AccountTyped
    <2>3. AccountTyped'
      BY <1>1, <2>1, <2>2 DEF AccountTyped
    <2>4. PublishesStored' /\ WritesFirst' /\ OneLoad'
      BY <1>1, <1>3 DEF AccountInv, PublishesStored, WritesFirst, OneLoad
    <2>5. PublishedHeld'
      BY <1>1, <1>3 DEF AccountInv, PublishedHeld, AccountTyped
    <2>6. DeletesGone'
      BY <1>1, <1>3 DEF DeletesGone, Ending
    <2>7. QED
      BY <2>3, <2>4, <2>5, <2>6 DEF AccountInv
  <1>4. QED
    BY <1>2, <1>3 DEF DeletionAnswered

LEMMA KeyDeletedKept == ASSUME AccountInv, KeyDeleted PROVE AccountInv'
  <1>1. /\ AccountTyped /\ ending \in Ending /\ ending.account \in deleted
        /\ UNCHANGED <<session, handlers, deviceToken, deleted, published, keys>>
        /\ secret' = [secret EXCEPT ![ending.account] = 0] /\ ending' = [ending EXCEPT !.step = "auth"]
    BY DEF KeyDeleted, AccountInv, AccountTyped, At, DeletesGone, pushVars
  <1>2. ending' \in Ending /\ ending'.step = "auth"
    BY <1>1 DEF Ending
  <1>3. secret' \in [Accounts -> Nat]
    BY <1>1 DEF AccountTyped
  <1>4. AccountTyped' /\ DeletesGone'
    BY <1>1, <1>2, <1>3 DEF AccountTyped, DeletesGone
  <1>5. \A x \in Handlers : handlers[x].step \in {"write", "publish", "insert"} => handlers[x].of \in Accounts
    BY <1>1, HandlerFields
  <1>6. \A a \in Accounts : a \notin deleted => secret'[a] = secret[a]
    BY <1>1 DEF AccountTyped
  <1>7. PublishesStored' /\ WritesFirst'
    BY <1>1, <1>5, <1>6 DEF AccountInv, PublishesStored, WritesFirst
  <1>8. OneLoad' /\ PublishedHeld'
    BY <1>1, <1>6 DEF AccountInv, OneLoad, PublishedHeld
  <1>9. QED
    BY <1>4, <1>7, <1>8 DEF AccountInv

LEMMA EndingKept == ASSUME AccountInv, TokenCleared \/ AuthEnded \/ \E deletes \in BOOLEAN : End(deletes) PROVE AccountInv'
  <1>1. AccountTyped /\ session \in Accounts \cup {NoOne} /\ deviceToken \in BOOLEAN
    BY DEF AccountInv, AccountTyped
  <1>2. CASE TokenCleared
    <2>1. ending \in Ending /\ UNCHANGED <<session, handlers, deviceToken, deleted, secret, published, keys>>
      BY <1>1, <1>2 DEF TokenCleared, At, AccountTyped, keyVars
    <2>2. ending' = [ending EXCEPT !.step = IF ending.deletes THEN "fetch" ELSE "auth"]
      BY <1>2 DEF TokenCleared
    <2>3. ending' \in Ending /\ ending'.step # "local"
      BY <2>1, <2>2 DEF Ending
    <2>4. QED
      BY <1>1, <2>1, <2>3, KeysStay DEF DeletesGone
  <1>3. CASE AuthEnded
    BY <1>1, <1>3, KeysStay DEF AuthEnded, DeletesGone, keyVars, pushVars
  <1>4. ASSUME NEW deletes \in BOOLEAN, End(deletes) PROVE AccountInv'
    <2>1. session \in Accounts /\ UNCHANGED <<session, handlers, deleted, secret, published, keys>>
      BY <1>1, <1>4 DEF End, keyVars
    <2>2. /\ ending' = [step |-> "clear", deletes |-> deletes, account |-> session, known |-> deviceToken]
          /\ ending'.step = "clear"
      BY <1>4 DEF End
    <2>3. ending' \in Ending
      BY <1>1, <1>4, <2>1, <2>2 DEF Ending
    <2>4. deviceToken' \in BOOLEAN
      BY <1>4 DEF End
    <2>5. QED
      BY <1>1, <2>1, <2>2, <2>3, <2>4, KeysStay DEF DeletesGone
  <1>5. QED
    BY <1>2, <1>3, <1>4
\* Nobody is signed in and there is no key at the start.
LEMMA AccountInvInit == AccountInit => AccountInv
  <1> SUFFICES ASSUME AccountInit PROVE AccountInv
    OBVIOUS
  <1>1. \A h \in Handlers : handlers[h] = Idle /\ handlers[h].step = "idle"
    BY DEF AccountInit, Idle
  <1>2. handlers \in [Handlers -> Handler \cup {Idle}]
    BY DEF AccountInit
  <1>3. FALSE \in BOOLEAN
    OBVIOUS
  <1>4. AccountTyped
    BY <1>2, <1>3 DEF AccountInit, AccountTyped
  <1>5. PublishesStored /\ WritesFirst /\ OneLoad
    BY <1>1 DEF PublishesStored, WritesFirst, OneLoad
  <1>6. PublishedHeld /\ DeletesGone
    BY DEF AccountInit, PublishedHeld, DeletesGone
  <1>7. QED
    BY <1>4, <1>5, <1>6 DEF AccountInv

\* Every step keeps AccountInv.
LEMMA AccountInvStep == AccountInv /\ [AccountNext]_accountVars => AccountInv'
  <1> SUFFICES ASSUME AccountInv, [AccountNext]_accountVars PROVE AccountInv'
    OBVIOUS
  <1>1. AccountTyped /\ DeletesGone /\ keys \in Nat
    BY DEF AccountInv, AccountTyped
  <1>2. CASE UNCHANGED accountVars
    BY <1>1, <1>2, KeysStay DEF accountVars, authVars, keyVars, pushVars, AccountTyped, DeletesGone
  <1>3. CASE ConnectionStep
    BY <1>1, <1>3, KeysStay DEF ConnectionStep, authVars, keyVars, pushVars, AccountTyped, DeletesGone
  <1>4. ASSUME NEW h \in Handlers, NEW a \in Accounts, AuthEvent(h, a) PROVE AccountInv'
    <2> DEFINE new == [step |-> "profile", account |-> a, of |-> a, key |-> 0]
    <2>1. new \in Handler /\ new.step = "profile"
      BY DEF Handler
    <2>2. /\ handlers' = [handlers EXCEPT ![h] = new] /\ session' \in Accounts \cup {NoOne}
          /\ UNCHANGED <<ending, deviceToken, deleted, secret, published, keys>>
      BY <1>4 DEF AuthEvent, keyVars, pushVars
    <2> HIDE DEF new
    <2>3. QED
      BY <1>1, <2>1, <2>2, MoveOn
  <1>5. ASSUME NEW h \in Handlers, Connects(h) PROVE AccountInv'
    <2>1. /\ handlers' = [handlers EXCEPT ![h] = Idle] /\ Idle.step = "idle"
          /\ UNCHANGED <<session, ending, deviceToken, deleted, secret, published, keys>>
      BY <1>5 DEF Connects, keyVars, Idle
    <2>2. session' \in Accounts \cup {NoOne} /\ keys' \in Nat
      BY <1>1, <2>1 DEF AccountTyped
    <2>3. QED
      BY <2>1, <2>2, MoveOn
  <1>6. CASE \/ \E j \in pushJobs : PushPermission(j) \/ PushToken(j) \/ PushStored(j) \/ LegacyStored(j)
             \/ \E c \in clears : ClearedLate(c)
    <2>1. deviceToken' \in BOOLEAN /\ UNCHANGED <<session, handlers, ending, deleted, secret, published, keys>>
      BY <1>1, <1>6 DEF PushPermission, PushToken, PushStored, LegacyStored, ClearedLate, authVars, keyVars, AccountTyped
    <2>2. QED
      BY <1>1, <2>1, KeysStay DEF AccountTyped, DeletesGone
  <1>7. CASE TokenRotates
    BY <1>1, <1>7, KeysStay DEF TokenRotates, authVars, keyVars, AccountTyped, DeletesGone
  <1>8. QED
    BY <1>2, <1>3, <1>4, <1>5, <1>6, <1>7, ProfileReadKept, KeyReadKept, KeyWrittenKept, PublishSentKept, PublishedKept,
       EndingKept, DeletionKept, KeyDeletedKept DEF AccountNext

\* Others are only given public keys whose secret this phone holds, for any accounts, key
\* pairs and handlers that overlap, failed writes and publications among them.
THEOREM KeysHeld == AccountSpec => []PublishedKeysHeld
  <1>1. AccountInv => PublishedKeysHeld
    BY DEF AccountInv, PublishedHeld, PublishedKeysHeld
  <1>2. QED
    BY <1>1, AccountInvInit, AccountInvStep, PTL DEF AccountSpec
-----------------------------------------------------------------------------
\* A registration of the account that is signed in is still to be sent.
Coming == (\E h \in Handlers : handlers[h] # Idle) \/ \E j \in pushJobs : j.step \in {"permission", "token"}

\* A request that the last one sent has not overtaken is the session's, or another
\* will be sent; and unless the token is the session's, something is under way.
LastSentIsSessions ==
    \A j \in pushJobs : j.step = "store" /\ ~j.overtaken => j.as = session \/ session = NoOne \/ Coming
UnderWay ==
    session # NoOne /\ tokenOwner # NoOne /\ ~refused =>
        tokenOwner = session \/ Coming \/ \E j \in pushJobs : j.step = "store"
PushInv ==
    /\ AccountTyped /\ client = session /\ pushUserId \in Accounts \cup {NoOne} /\ pushJobs \subseteq PushJob
    /\ LastSentIsSessions /\ UnderWay

\* PushInv holds at the start.
LEMMA PushInvInit == AccountInit => PushInv
  BY AccountInvInit DEF AccountInit, LinkInit, PushInv, LastSentIsSessions, UnderWay, AccountInv

\* Requests that are overtaken stay where they are.
LEMMA OvertakenJobs ==
    ASSUME NEW jobs, jobs \subseteq PushJob
    PROVE  /\ Overtaken(jobs) \subseteq PushJob
           /\ \A x \in Overtaken(jobs) : x.step = "store" => x.overtaken
           /\ \A j \in jobs : j.step \in {"permission", "token"} => j \in Overtaken(jobs)
  <1>1. ASSUME NEW x \in Overtaken(jobs) PROVE x \in PushJob /\ (x.step = "store" => x.overtaken)
    <2>1. PICK j \in jobs : x = IF j.step = "store" THEN [j EXCEPT !.overtaken = TRUE] ELSE j
      BY DEF Overtaken
    <2>2. j \in PushJob
      OBVIOUS
    <2>3. CASE j.step = "store"
      BY <2>1, <2>2, <2>3 DEF PushJob
    <2>4. CASE j.step # "store"
      BY <2>1, <2>2, <2>4
    <2>5. QED
      BY <2>3, <2>4
  <1>2. ASSUME NEW j \in jobs, j.step \in {"permission", "token"} PROVE j \in Overtaken(jobs)
    BY <1>2 DEF Overtaken
  <1>3. QED
    BY <1>1, <1>2

\* What is given up counts as refused, and overtakes what was sent.
LEMMA GiveUpKeeps ==
    ASSUME PushInv, AccountTyped', NEW j \in pushJobs, NEW new, new \subseteq PushJob,
           \A x \in new : x.step = "legacy", Overtake(j, new), refused', UNCHANGED <<client, session, pushUserId>>
    PROVE  PushInv'
  <1> DEFINE kept == Overtaken(pushJobs \ {j})
  <1>1. kept \subseteq PushJob /\ \A x \in kept : x.step = "store" => x.overtaken
    BY OvertakenJobs DEF PushInv
  <1>2. pushJobs' = kept \cup new
    BY DEF Overtake
  <1> HIDE DEF kept
  <1>3. QED
    BY <1>1, <1>2 DEF PushInv, LastSentIsSessions, UnderWay

\* What a connection does is no sign-in.
LEMMA ConnectionKeepsClient == ASSUME ConnectionStep PROVE client' = client
  <1>1. CASE SocketOpens \/ TokenFetched \/ SendAuth \/ AuthOk \/ Frame
    BY <1>1 DEF SocketOpens, TokenFetched, SendAuth, AuthOk, Frame, LinkQuiet
  <1>2. CASE SocketCloses \/ SocketDies \/ DeathReported
    BY <1>2 DEF SocketCloses, SocketDies, DeathReported, LinkQuiet
  <1>3. CASE ReconnectTimer \/ ConnectTimeout \/ Watchdog \/ ProbeTimer
    BY <1>3 DEF ReconnectTimer, ConnectTimeout, Watchdog, ProbeTimer, LinkQuiet
  <1>4. CASE Foreground
    BY <1>4 DEF Foreground
  <1>5. QED
    BY <1>1, <1>2, <1>3, <1>4 DEF ConnectionStep, LinkStep

\* A handler that is under way, and stays so, keeps PushInv.
LEMMA StillUnderWay ==
    ASSUME AccountTyped, NEW h \in Handlers, handlers[h].step # "idle",
           NEW step \in {"read", "write", "joined", "publish", "connect"},
           handlers' \in [Handlers -> Handler \cup {Idle}], handlers'[h].step = step
    PROVE  \E g \in Handlers : handlers'[g] # Idle
  BY DEF Idle

\* Every step keeps PushInv while the session stays; types come from AccountInv.
LEMMA PushInvStep == AccountInv /\ PushInv /\ [AccountNext]_accountVars => PushInv'
  <1> SUFFICES ASSUME AccountInv, PushInv, [AccountNext]_accountVars PROVE PushInv'
    OBVIOUS
  <1>1. AccountTyped /\ AccountTyped'
    BY AccountInvStep DEF AccountInv
  <1>2. CASE UNCHANGED accountVars
    BY <1>1, <1>2 DEF PushInv, LastSentIsSessions, UnderWay, Coming, accountVars, linkVars, authVars, pushVars
  <1>3. CASE ConnectionStep
    BY <1>1, <1>3, ConnectionKeepsClient DEF PushInv, LastSentIsSessions, UnderWay, Coming, ConnectionStep, authVars, pushVars
  <1>4. ASSUME NEW h \in Handlers, NEW a \in Accounts, AuthEvent(h, a) PROVE PushInv'
    <2>1. client' = a /\ session' = a
      BY <1>4 DEF AuthEvent
    <2>2. handlers'[h].step = "profile"
      BY <1>1, <1>4 DEF AuthEvent, AccountTyped
    <2>3. handlers'[h] # Idle
      BY <2>2 DEF Idle
    <2>4. Coming' /\ UNCHANGED <<pushUserId, pushJobs>>
      BY <1>4, <2>3 DEF AuthEvent, Coming, pushVars
    <2>5. QED
      BY <1>1, <2>1, <2>4 DEF PushInv, LastSentIsSessions, UnderWay
  <1>5. ASSUME NEW h \in Handlers, ProfileRead(h) \/ KeyRead(h) \/ KeyWritten(h) \/ PublishSent(h) \/ Published(h) PROVE PushInv'
    <2>1. UNCHANGED <<client, session, tokenOwner, refused, pushUserId, pushJobs>>
      BY <1>5 DEF ProfileRead, KeyRead, KeyWritten, PublishSent, Published, linkVars, pushVars
    <2>2. handlers'[h].step # "idle"
      <3>1. CASE ProfileRead(h)
        BY <1>1, <3>1, HandlerFields DEF ProfileRead, AccountTyped, KeyStep, Handler
      <3>2. CASE KeyRead(h)
        <4>1. handlers[h].step = "read" /\ handlers[h] \in Handler
          BY <1>1, <3>2, HandlerFields DEF KeyRead
        <4>2. \A step : handlers[h] \in Handler =>
                [handlers[h] EXCEPT !.step = step, !.key = keys + 1].step = step
          BY DEF Handler
        <4>3. ASSUME NEW step \in {"publish", "connect"}, NEW key \in Nat, HandOver(h, step, key)
              PROVE  handlers'[h].step # "idle"
          BY <1>1, <4>1, <4>3, HandOverEffect
        <4>4. CASE handlers' = [handlers EXCEPT ![h].step = "write", ![h].key = keys + 1]
          BY <1>1, <4>1, <4>2, <4>4 DEF AccountTyped
        <4>5. secret[handlers[h].of] \in Nat
          BY <1>1, <4>1 DEF AccountTyped, Handler
        <4>6. QED
          BY <3>2, <4>3, <4>4, <4>5 DEF KeyRead
      <3>3. CASE KeyWritten(h)
        BY <1>1, <3>3, HandlerFields DEF KeyWritten, HandOver, AccountTyped, Handler
      <3>4. CASE PublishSent(h) \/ Published(h)
        BY <1>1, <3>4, HandlerFields DEF PublishSent, Published, To, AccountTyped, Handler
      <3>5. QED
        BY <1>5, <3>1, <3>2, <3>3, <3>4
    <2>3. handlers'[h] # Idle
      BY <2>2 DEF Idle
    <2>4. Coming'
      BY <2>3 DEF Coming
    <2>5. QED
      BY <1>1, <2>1, <2>4 DEF PushInv, LastSentIsSessions, UnderWay
  <1>6. ASSUME NEW h \in Handlers, Connects(h) PROVE PushInv'
    <2> DEFINE new == Registration("permission", handlers[h].account)
    <2>1. UNCHANGED <<client, session, pushUserId>> /\ pushJobs' = pushJobs \cup {new}
      BY <1>6 DEF Connects
    <2>2. handlers[h].account \in Accounts
      BY <1>1, <1>6, HandlerFields DEF Connects
    <2>3. new \in PushJob /\ new.step = "permission"
      BY <2>2 DEF Registration, PushJob
    <2> HIDE DEF new
    <2>4. Coming'
      BY <2>1, <2>3 DEF Coming
    <2>5. QED
      BY <1>1, <2>1, <2>3, <2>4 DEF PushInv, LastSentIsSessions, UnderWay
  <1>7. ASSUME NEW j \in pushJobs, PushPermission(j) \/ PushToken(j) PROVE PushInv'
    <2>1. /\ UNCHANGED <<client, session, handlers, tokenOwner>> /\ j \in PushJob
          /\ pushUserId' \in {pushUserId, j.account} /\ j.account \in Accounts
      BY <1>7 DEF PushPermission, PushToken, linkVars, authVars, PushInv, PushJob
    <2>2. CASE GiveUp(j) /\ UNCHANGED pushUserId
      BY <1>1, <2>1, <2>2, GiveUpKeeps DEF GiveUp
    <2>3. CASE /\ j.step = "permission" /\ UNCHANGED refused
               /\ pushJobs' = (pushJobs \ {j}) \cup {[j EXCEPT !.step = "token"]}
      <3> DEFINE new == [j EXCEPT !.step = "token"]
      <3>1. new \in PushJob /\ new.step = "token"
        BY <2>1 DEF PushJob
      <3>2. pushJobs' = (pushJobs \ {j}) \cup {new}
        BY <2>3
      <3> HIDE DEF new
      <3>3. Coming'
        BY <3>1, <3>2 DEF Coming
      <3>4. QED
        BY <1>1, <2>1, <3>1, <3>2, <3>3 DEF PushInv, LastSentIsSessions, UnderWay
    <2>4. CASE Overtake(j, {[j EXCEPT !.step = "store", !.as = Sender(j)]})
      <3> DEFINE new == [j EXCEPT !.step = "store", !.as = Sender(j)]
                 kept == Overtaken(pushJobs \ {j})
      <3>1. new \in PushJob /\ new.step = "store" /\ new.as = session
        BY <1>1, <2>1 DEF PushJob, Sender, PushInv, AccountTyped
      <3>2. kept \subseteq PushJob /\ \A x \in kept : x.step = "store" => x.overtaken
        BY OvertakenJobs DEF PushInv
      <3>3. pushJobs' = kept \cup {new}
        BY <2>4 DEF Overtake
      <3> HIDE DEF new, kept
      <3>4. QED
        BY <1>1, <2>1, <3>1, <3>2, <3>3 DEF PushInv, LastSentIsSessions, UnderWay
    <2>5. QED
      BY <1>7, <2>2, <2>3, <2>4 DEF PushPermission, PushToken
  <1>8. ASSUME NEW j \in pushJobs, PushStored(j) PROVE PushInv'
    <2>1. UNCHANGED <<client, session, handlers, pushUserId>> /\ j.step = "store" /\ j \in PushJob /\ client \in Accounts \cup {NoOne}
      BY <1>1, <1>8 DEF PushStored, linkVars, authVars, PushInv, AccountTyped
    <2>2. CASE tokenOwner' = j.as /\ refused' = j.overtaken /\ pushJobs' = pushJobs \ {j}
      <3>1. Coming => Coming'
        BY <2>1, <2>2 DEF Coming
      <3>2. j.overtaken \/ j.as = session \/ session = NoOne \/ Coming
        BY <2>1 DEF PushInv, LastSentIsSessions
      <3>3. LastSentIsSessions' /\ UnderWay'
        BY <2>1, <2>2, <3>1, <3>2 DEF PushInv, LastSentIsSessions, UnderWay
      <3>4. QED
        BY <1>1, <2>1, <2>2, <3>3 DEF PushInv
    <2>3. CASE refused' /\ Overtake(j, {[Registration("legacy", j.account) EXCEPT !.as = client]})
      <3> DEFINE new == [Registration("legacy", j.account) EXCEPT !.as = client]
      <3>1. new \in PushJob /\ new.step = "legacy"
        BY <2>1 DEF PushJob, Registration
      <3>2. Overtake(j, {new})
        BY <2>3
      <3> HIDE DEF new
      <3>3. QED
        BY <1>1, <2>1, <2>3, <3>1, <3>2, GiveUpKeeps
    <2>4. QED
      BY <1>8, <2>2, <2>3 DEF PushStored
  <1>9. CASE TokenRotates
    <2> DEFINE new == Registration("token", pushUserId)
    <2>1. UNCHANGED <<client, session, pushUserId>> /\ pushJobs' = pushJobs \cup {new} /\ pushUserId # NoOne
      BY <1>9 DEF TokenRotates, authVars
    <2>2. new \in PushJob /\ new.step = "token"
      BY <2>1 DEF Registration, PushJob, PushInv, AccountTyped
    <2> HIDE DEF new
    <2>3. Coming'
      BY <2>1, <2>2 DEF Coming
    <2>4. QED
      BY <1>1, <2>1, <2>2, <2>3 DEF PushInv, LastSentIsSessions, UnderWay
  <1>10. CASE TokenCleared \/ DeletionAnswered \/ \E c \in clears : ClearedLate(c)
    <2>1. UNCHANGED <<client, session, handlers, pushUserId, pushJobs, refused>> /\ tokenOwner' \in {tokenOwner, NoOne}
      BY <1>10 DEF TokenCleared, DeletionAnswered, ClearedLate, TokenGone, linkVars, authVars
    <2>2. QED
      BY <1>1, <2>1 DEF PushInv, LastSentIsSessions, UnderWay, Coming
  <1>11. CASE KeyDeleted
    BY <1>1, <1>11 DEF PushInv, LastSentIsSessions, UnderWay, Coming, KeyDeleted, linkVars, pushVars
  <1>12. CASE AuthEnded
    BY <1>1, <1>12 DEF PushInv, LastSentIsSessions, UnderWay, Coming, AuthEnded, pushVars
  <1>13. ASSUME NEW deletes \in BOOLEAN, End(deletes) PROVE PushInv'
    BY <1>1, <1>13 DEF PushInv, LastSentIsSessions, UnderWay, Coming, End
  <1>14. ASSUME NEW j \in pushJobs, LegacyStored(j) PROVE PushInv'
    <2>1. /\ UNCHANGED <<client, session, handlers, pushUserId, tokenOwner, refused>>
          /\ j.step = "legacy" /\ pushJobs' = pushJobs \ {j}
      BY <1>14 DEF LegacyStored, linkVars, authVars
    <2>2. Coming => Coming'
      BY <2>1 DEF Coming
    <2>3. QED
      BY <1>1, <2>1, <2>2 DEF PushInv, LastSentIsSessions, UnderWay
  <1>15. QED
    BY <1>2, <1>3, <1>4, <1>5, <1>6, <1>7, <1>8, <1>9, <1>10, <1>11, <1>12, <1>13, <1>14 DEF AccountNext

\* When nothing is under way, and the last registration to end was the last to be sent and
\* was taken, the push service has the phone's token as that of the account that is signed
\* in: for any accounts, handlers, rotations and requests that are delayed or fail.
THEOREM PushFollows == AccountSpec => []PushFollowsSession
  <1>1. PushInv => PushFollowsSession
    BY DEF PushInv, UnderWay, Coming, PushFollowsSession, Settled
  <1>2. QED
    BY <1>1, AccountInvInit, AccountInvStep, PushInvInit, PushInvStep, PTL DEF AccountSpec
=============================================================================
