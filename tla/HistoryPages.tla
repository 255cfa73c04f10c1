---------------------------- MODULE HistoryPages ----------------------------
(***************************************************************************)
(* How much of a chat is in memory: hydrateFromLocal, loadEarlier, the     *)
(* pins, and reactions, votes and edits of chatStore.ts, with the queries  *)
(* of localDb.ts.  The newest page is loaded when the app starts, older    *)
(* ones on demand, and a change to a message that is not loaded goes       *)
(* straight to its row.                                                    *)
(*                                                                         *)
(* A message received carries the relay's time, one sent the time of this  *)
(* phone, so one that comes last may be older than those shown.  A write   *)
(* is done at once here, its queue is in Messages, and the queries of one  *)
(* load see one database.  Reactions, votes and edits are all "marks".     *)
(***************************************************************************)
EXTENDS Integers, FiniteSets, SequencesExt

CONSTANTS
    PageSize,     \* HISTORY_PAGE_SIZE
    Times,        \* what the relay and the phone may say the time is
    Authors,       \* who may mark a message, Me among them
    MaxMessages, MaxMarks, MaxStarts  \* bounds

Me == "me"

ASSUME HistoryAssumption ==
    /\ PageSize \in Nat \ {0} /\ Times \subseteq Nat /\ Me \in Authors
    /\ MaxMessages \in Nat /\ MaxMarks \in Nat /\ MaxStarts \in Nat

VARIABLES
    rows,        \* the messages stored
    storedPins,
    thread,      \* threads[key]
    hasEarlier,
    pins,        \* pinned[key], and whether it is set
    hydrating,   \* hydrateFromLocal: how far it is, and what it has read
    page,        \* loadEarlier: what it has read, NoPage while it is not under way
    patches,     \* changes to messages that were not loaded: the row read, the mark to add
    made,        \* history: the marks made
    cleared,     \* history: the messages cleared
    strayed,     \* history: one that came during this start is older than the page loaded
    arrivals, starts

historyVars == <<rows, storedPins, thread, hasEarlier, pins, hydrating, page, patches, made, cleared, strayed,
                 arrivals, starts>>

NoPins == [set |-> FALSE, ids |-> {}]
NoPage == [rows |-> {}, more |-> FALSE, under |-> FALSE]
Started == [step |-> "pins", pins |-> {}, rows |-> <<>>, more |-> FALSE]

HistoryInit ==
    /\ rows = {} /\ storedPins = {} /\ thread = <<>> /\ hasEarlier = FALSE /\ pins = NoPins
    /\ hydrating = Started /\ page = NoPage
    /\ patches = {} /\ made = {} /\ cleared = {} /\ strayed = FALSE
    /\ arrivals = 0 /\ starts = 0

Ids(messages) == {m.id : m \in messages}
InMemory == ToSet(thread)
Put(m) == {x \in rows : x.id # m.id} \cup {m}

\* sent_at, and the id between messages of the same time
Before(m, o) == m.at < o.at \/ (m.at = o.at /\ m.id < o.id)
\* Array.sort on sentAt alone keeps the order the database gave to equal times.
Reversed(m, o) == m.at < o.at \/ (m.at = o.at /\ m.id > o.id)

\* A set as a sequence in an order: every member is at the place its rank gives it.
InOrder(S, Precedes(_, _)) ==
    [i \in 1..Cardinality(S) |->
        CHOOSE m \in S : Cardinality({x \in S : Precedes(x, m)}) = i - 1]

Newest(messages, n) == {m \in messages : Cardinality({x \in messages : Before(m, x)}) < n}

\* loadRecentThreads: a page, and more if a pin would not be in it.
\* A Bad... operator is the same operator with a mistake in it, and no action uses it.
BadRecent(pinned) == Newest(rows, PageSize) \cup {m \in rows : m.id \in pinned}
Recent(pinned) ==
    LET recent == Newest(rows, PageSize)
        marked == {m \in rows : m.id \in pinned}
    IN  IF marked \subseteq recent THEN recent
        ELSE recent \cup {m \in rows : \E p \in marked : m.at >= p.at}
-----------------------------------------------------------------------------
LoadPins ==
    /\ hydrating.step = "pins"
    /\ hydrating' = [hydrating EXCEPT !.step = "rows", !.pins = storedPins]
    /\ UNCHANGED <<rows, storedPins, thread, hasEarlier, pins, page, patches, made, cleared, strayed, arrivals, starts>>

LoadRecent ==
    /\ hydrating.step = "rows"
    /\ LET recent == Recent(hydrating.pins)
       IN  \E read \in {InOrder(recent, Before), InOrder(recent, Reversed)} :
              hydrating' = [hydrating EXCEPT !.step = "merge", !.rows = read, !.more = rows # recent]
    /\ UNCHANGED <<rows, storedPins, thread, hasEarlier, pins, page, patches, made, cleared, strayed, arrivals, starts>>

\* A stable sort by time: what was read comes before what is in memory only.
Earlier(a, b) == a.m.at < b.m.at \/ (a.m.at = b.m.at /\ a.place < b.place)
SortedByTime(read, shown) ==
    LET entries == {[m |-> read[i], place |-> i] : i \in DOMAIN read}
                      \cup {[m |-> shown[i], place |-> Len(read) + i] :
                                i \in {j \in DOMAIN shown : shown[j].id \notin Ids(ToSet(read))}}
        sorted == InOrder(entries, Earlier)
    IN  [i \in DOMAIN sorted |-> sorted[i].m]

\* The pins of a chat in memory, if it has any, win over the stored ones.
MergeHistory ==
    /\ hydrating.step = "merge"
    /\ thread' = SortedByTime(hydrating.rows, thread)
    /\ pins' = IF pins.set THEN pins ELSE [set |-> TRUE, ids |-> hydrating.pins]
    /\ hasEarlier' = hydrating.more
    /\ hydrating' = [Started EXCEPT !.step = "done"]
    /\ strayed' = (hydrating.more /\ Head(thread').id \notin Ids(ToSet(hydrating.rows)))
    /\ UNCHANGED <<rows, storedPins, page, patches, made, cleared, arrivals, starts>>

\* A message received, or sent with the phone's clock at t.
MessageArrives(t) ==
    /\ arrivals < MaxMessages /\ arrivals' = arrivals + 1
    /\ LET m == [id |-> arrivals + 1, at |-> t, marks |-> {}]
       IN  thread' = Append(thread, m) /\ rows' = Put(m)
    /\ UNCHANGED <<storedPins, hasEarlier, pins, hydrating, page, patches, made, cleared, strayed, starts>>

\* loadEarlierMessages: one page older than the first message shown
BadOlder(m, oldest) == m.at < oldest.at
Older(m, oldest) == Before(m, oldest)

LoadEarlier ==
    /\ ~page.under /\ hasEarlier /\ thread # <<>>
    /\ LET older == {m \in rows : Older(m, Head(thread))}
       IN  page' = [rows |-> Newest(older, PageSize), more |-> Cardinality(older) > PageSize, under |-> TRUE]
    /\ UNCHANGED <<rows, storedPins, thread, hasEarlier, pins, hydrating, patches, made, cleared, strayed, arrivals, starts>>

EarlierShown ==
    /\ page.under /\ page' = NoPage
    /\ thread' = InOrder({m \in page.rows : m.id \notin Ids(InMemory)}, Before) \o thread
    /\ hasEarlier' = page.more
    /\ UNCHANGED <<rows, storedPins, pins, hydrating, patches, made, cleared, strayed, arrivals, starts>>

EarlierFails ==
    /\ page.under /\ page' = NoPage
    /\ UNCHANGED <<rows, storedPins, thread, hasEarlier, pins, hydrating, patches, made, cleared, strayed, arrivals, starts>>

TogglePin(m) ==
    /\ m \in InMemory
    /\ LET nowPinned == m.id \notin pins.ids
           Toggled(ids) == IF nowPinned THEN ids \cup {m.id} ELSE ids \ {m.id}
       IN  pins' = [set |-> TRUE, ids |-> Toggled(pins.ids)] /\ storedPins' = Toggled(storedPins)
    /\ UNCHANGED <<rows, thread, hasEarlier, hydrating, page, patches, made, cleared, strayed, arrivals, starts>>

ClearChat ==
    /\ thread # <<>>
    /\ thread' = <<>> /\ pins' = [set |-> TRUE, ids |-> {}] /\ hasEarlier' = FALSE
    /\ rows' = {} /\ storedPins' = {} /\ made' = {} /\ cleared' = cleared \cup Ids(rows) /\ strayed' = FALSE
    /\ UNCHANGED <<hydrating, page, patches, arrivals, starts>>
-----------------------------------------------------------------------------
Marked(m, p) == [m EXCEPT !.marks = @ \cup {p}]
Marks(m, p) == Cardinality(made) < MaxMarks /\ <<m.id, p>> \notin made /\ made' = made \cup {<<m.id, p>>}

\* react, votePoll and editMessage, and the same by others: a message in memory
\* is changed there, and saved whole.
MarkShown(m, p) ==
    /\ m \in InMemory /\ Marks(m, p)
    /\ thread' = [i \in 1..Len(thread) |-> IF thread[i] = m THEN Marked(m, p) ELSE thread[i]]
    /\ rows' = Put(Marked(m, p))
    /\ UNCHANGED <<storedPins, hasEarlier, pins, hydrating, page, patches, cleared, strayed, arrivals, starts>>

\* A message that is not in memory is read, changed and saved.
MarkStored(m, p) ==
    /\ m \in rows /\ m.id \notin Ids(InMemory) /\ p # Me /\ Marks(m, p)
    /\ patches' = patches \cup {[row |-> m, by |-> p]}
    /\ UNCHANGED <<rows, storedPins, thread, hasEarlier, pins, hydrating, page, cleared, strayed, arrivals, starts>>

SavePatch(patch) ==
    /\ patch \in patches /\ patches' = patches \ {patch}
    /\ rows' = Put(Marked(patch.row, patch.by))
    /\ UNCHANGED <<storedPins, thread, hasEarlier, pins, hydrating, page, made, cleared, strayed, arrivals, starts>>

\* The app is killed and started: only the database is left.
Relaunch ==
    /\ starts < MaxStarts /\ starts' = starts + 1
    /\ thread' = <<>> /\ pins' = NoPins /\ hasEarlier' = FALSE
    /\ hydrating' = Started /\ page' = NoPage /\ patches' = {} /\ strayed' = FALSE
    /\ made' = {mark \in made : \E m \in rows : m.id = mark[1] /\ mark[2] \in m.marks}
    /\ UNCHANGED <<rows, storedPins, cleared, arrivals>>

HistoryNext ==
    \/ LoadPins \/ LoadRecent \/ MergeHistory
    \/ LoadEarlier \/ EarlierShown \/ EarlierFails \/ ClearChat \/ Relaunch
    \/ \E t \in Times : MessageArrives(t)
    \/ \E m \in InMemory : TogglePin(m) \/ \E p \in Authors : MarkShown(m, p)
    \/ \E m \in rows, p \in Authors : MarkStored(m, p)
    \/ \E patch \in patches : SavePatch(patch)

HistorySpec == HistoryInit /\ [][HistoryNext]_historyVars
-----------------------------------------------------------------------------
\* What is shown is an end of the chat without a gap, and the rest can be had:
\* a stored message newer than the first one shown is shown, and as long as one
\* is not shown there is more to load (loadRecentThreads, loadEarlier). Not so
\* when a message that came before the load was done, older than what it read
\* by the clock that stamped it, is merged above that.
Standing == {m \in rows : m.id \notin cleared}
NoGap ==
    hydrating.step = "done" /\ ~strayed =>
        /\ thread # <<>> => \A m \in Standing : m.at > Head(thread).at => m.id \in Ids(InMemory)
        /\ Ids(Standing) \subseteq Ids(InMemory) \/ hasEarlier \/ page.under

\* chatStore.ts:139 the rest is loaded on demand, whatever came meanwhile
RestOnDemand ==
    hydrating.step = "done" => Ids(Standing) \subseteq Ids(InMemory) \/ hasEarlier \/ page.under

\* chatStore.ts:370 if the target is not loaded it is read, changed and saved back, instead of being dropped
MarksKept == patches = {} => \A m \in rows : \A p \in Authors : <<m.id, p>> \in made => p \in m.marks

\* chatStore.ts:119 merges rather than overwrites
PinsKept == hydrating.step = "done" => storedPins = pins.ids
=============================================================================
