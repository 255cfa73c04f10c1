# A formal model of Current Messenger

Current is a messenger whose relay stores no messages: everything happens over
live WebSockets between two apps that are both there, so what the user sees
depends on the order in which sockets, timers, awaits and buttons meet. These
TLA+ modules model that order. Paths below are relative to the repository
(`server/` is the relay, `app/` the React Native app).

Contents: [the system](#the-system) · [modules](#modules-and-code) ·
[runs](#runs) · [bounds](#bounds) · [fairness](#fairness) ·
[proofs](#proofs) · [findings](#findings) ·
[what is not modelled](#what-is-not-modelled) · [plan](#plan)

## The system

### Components

| Component | State | Operations | Talks to | What makes it correct |
|---|---|---|---|---|
| Relay: connections (`server/src/index.ts`, `state.ts`) | user → registered socket | verify token (await), register, replace, close | every other part | a close evicts only its own registration; online users have an open socket |
| Relay: chat sessions (`state.ts` 20-30, 100-260; `index.ts` 780-880) | active pairs, pending requests, 60 s timers | request (await on the approval), glare accept, respond, timeout, disconnect | app session store by events | nobody is in a session without agreeing; requests end; requests and sessions have live ends |
| Relay: groups (`state.ts` 270-379, `index.ts` 115-171, 455-495, 895-943, `groupStore.ts`) | members, pending invites, 3-day timers, queue of database writes, stored rows | create, invite (await), answer, leave, delete account, save, load, restart | Postgres through Supabase | members agreed; the writes lead to what memory holds; no empty group |
| Relay: calls (`index.ts` 500-590, `state.ts` 90-105, 209-247) | ring record per callee | forward a signal (await), record, clear, replay on reconnect | app call stores | a ring reaches its callee; nobody clears another's ring |
| Relay: messages (`index.ts` 630-790) | none | check approval, blocks, session; forward, answer | app chat store | an answer for what was forwarded |
| Relay: contact gate and presence (`supabaseAdmin.ts`, `index.ts`) | caches of approvals and of visibilities | look up (awaits), cache, invalidate, broadcast | Supabase | an ended approval, a block, a hidden status take effect |
| Relay: frame guards (`index.ts` 173-310, 600-670) | windows, byte counts and missed pongs of a socket | count, drop, close, ping | every handler | limits hold at the seam of two windows; who answers stays |
| Relay: pushes (`pushPing.ts`) | time of the last ping per kind and recipient, tokens | ping, prune dead tokens | Expo | a cooldown holds between all handlers |
| App: relay client (`lib/relayClient.ts`) | one socket, status, back-off, watchdog, probe | connect, authenticate, drop, probe | relay; every store | comes back; ignores replaced sockets |
| App: account session (`state/authStore.ts`, `lib/keystore.ts`, `lib/push.ts`) | session, profile, key pair, push token | auth events, sign out, delete account | Supabase, relay client | everything follows the account that is signed in |
| App: sign-up (`app/(auth)/`, `lib/account.ts`) | form, wizard, profile | check a name, confirm, finalize with retries | Supabase | the name picked is the name kept |
| App: chat session store (`state/chatSessionStore.ts`) | per peer: pending, accepted, declined, ...; alert | request, respond, mirror events | relay client, chat screen | the screen never waits for nothing |
| App: call store (`state/callStore.ts`) | phase, peer, five timers, RTCPeerConnection, local stream | ring, accept, decline, hang up, signals, WebRTC callbacks | relay client, WebRTC | every passing phase is timed; no microphone without a pick-up |
| App: group call store (`state/groupCallStore.ts`) | phase, participants, a connection per peer | ring, join, offer, answer, leave | relay client, WebRTC | nobody who has not joined is heard; an ended call stays ended |
| App: chat store and database (`state/chatStore.ts`, `lib/localDb.ts`) | threads, tracked sends, pages, pins; rows, key, file | send, retry, acknowledge, receive, read, delete, clear, page, mark, open, erase | relay client, SQLite | ticks are true; no gap, no duplicates; the history survives |
| App: group list (`state/groupStore.ts`) | groups and invites as last heard | create, invite, answer, leave, snapshot | relay client, chat store | the roster is the relay's |
| App: contacts (`state/contactStore.ts`, `supabase/migrations`) | lists; the tables behind them | request, answer, remove, block, refresh | Supabase | lists never go back; nobody is contact and blocked at once |
| App: keys (`lib/keystore.ts`, `lib/crypto.ts`) | a key pair per phone, published keys | publish, encrypt, decrypt | Supabase, chat store | whom it was addressed to can read it |
| App: screens, lock and taps (`app/`, `components/AppLockGate.tsx`, `lib/push.ts`) | a stack of screens; locked or not; the tap that waits | navigate, lock, prompt, record, pick | every store | the screen is that of the call; content is vouched for |

### Interaction

A frame of an app is handled by one JavaScript callback of the relay. The
callback is atomic up to each `await` (token check, contact check, database);
between two awaits of one handler, whole other handlers run. The relay's events
travel on the socket in order. A socket can die without either side noticing;
the app then reconnects on a new socket while the old one is still registered.
Inside an app, store handlers are asynchronous functions as well: a message
handler awaits keys, the call store awaits the microphone and WebRTC, the chat
store awaits the database, the contact store awaits one statement after another.

### Where it is hard

* *Atomicity*: whatever was checked before an await may not hold after it. Each
  awaiting handler is a set or a sequence of continuations in the model, with a
  start action and one finishing action per outcome.
* *Ordering*: old socket's close after the new socket's registration; an
  approval check that answers out of turn; an acknowledgement after a timeout;
  a deletion before the message it names; a refresh answered after a later one.
* *Timers*: 60 s requests, three-day invites, ring, connecting, ICE and
  end-of-call timers, send timers, back-off and watchdog. A timer belongs to one
  thing and finds, when it fires, perhaps another.
* *Crash and restart*: the relay forgets sessions, rings and invites and reloads
  groups from rows written behind its back; an app forgets memory and reloads
  its rows, and its database may not open any more.
* *Partial failure*: a request is three statements; a deletion is four; a
  profile may be stored and the answer lost.

Every place where one of these bites is listed, with its line and the
properties that watch it, under `hazards` in `PROJECT.json`; those without a
property are ones the code does not master, and are among the
[findings](#findings).

## Modules and code

| Module | Models | How |
|---|---|---|
| `ChatConsent` | the promise of the session protocol | users online and, per pair, who has agreed. A session is open when both have. 5 actions, no sockets |
| `RelaySessions` | `index.ts` auth, close, session handlers; `state.ts` tables | `sockState`, `sockUser`, `connections`; `pending`, `active`; `asking` = handlers waiting for `areApprovedContacts`; `timers`; `clock` = `Date.now()`. One action per outcome of a handler |
| `ChatSessions` | `chatSessionStore.ts`, the socket of `relayClient.ts`, the request flow of `app/chat/[id].tsx` | EXTENDS `RelaySessions`; every relay action is taken together with the events it writes (`wire`, one queue per socket), and `Receive` applies one event to the mirror |
| `RelayGroups` | groups, invites, account deletion, `groupStore.ts` | `groups`, `invites`, `inviteTimers`, `inviting` = invites waiting for the check; `queue`, `db` = write-behind; `Restart`, `LoadGroups` |
| `RelayGate` | `supabaseAdmin.ts` with its caches; the handlers of messages, typing, read receipts and presence that wait for it | `work` = handlers under way, one record each with what it has read so far; `cached`, `visible`; `contacts`, `blockers`, `hidden` = the database |
| `RelayGuards` | everything before a handler: frame sizes, windows, authentication timer, heartbeat | one socket; `eventStamps`, `sendStamps`, `sendBytes` as in the code; a frame is a size and a kind |
| `PushPings` | `pushPing.ts` | `naming` = handlers that fetch the sender's name; `lastPing` per kind; `sends` = requests to Expo with the tokens they read |
| `Calls` | `callStore.ts` on each device, the relay's `call:signal` and ring records | `frames` (at the relay), `wire` (to the device), `phase`, `peer`, `timers`; `working` = what follows an await; `pc`, `mics` = the module's connection and the running microphones |
| `GroupCalls` | `groupCallStore.ts` on each member's device | a handler is an operator from a device and its outgoing signals to the same; `waits` = what follows the microphone's promise of this call, `late` = what follows one that a torn down call still awaits |
| `CallScreens` | `_layout.tsx`, the four call screens, banners, call notification | `stack` of screens, each with the phase its effects have seen; the effects of a change are one step |
| `Messages` | `chatStore.ts` and `localDb.ts` on two devices, `handleMessageSend` | `flights` (at the relay), `inbox`, `thread`, `tracked`, `encrypting`, `arriving`; `queue`, `rows` = SQLite; `stage`, `snapshot` = the start-up load |
| `HistoryPages` | `loadEarlier`, start-up pages, pins, marks on messages that are not loaded | `rows` with the times of two clocks, in any order; `thread`; `page`, `hydrating`, `patches` = what has been read and not applied |
| `GroupChat` | `groupStore.ts`, the group branch of sending, the group handlers as the apps see them | `up`, `down` = frames of each connection; `roster` and, per app, `shown`; one `post` from composer to tick |
| `RelayLink` | `relayClient.ts` | `link` = the fields of the class, with the socket's stage, the token asked for and the one it will send; a socket may be `dead` |
| `AccountSession` | the listener, sign-out and deletion of `authStore.ts`; key pair; push token | EXTENDS `RelayLink`; `handlers` = runs of the listener before their next await; `pushJobs` = registrations, each with the account it was sent `as`; `ending` |
| `Signup` | signup, verification, `finish-setup`, login; `account.ts`, `authDeepLink.ts` | `submitting`, `setups`, `refreshes` = calls under way; `row`, `metadata` = the database |
| `Contacts` | `contactStore.ts`, tables, indexes, row policies | `calls` = a store call before its next await; `reads` = refreshes with the queries answered so far; `rows`, `blocks` |
| `LocalDb` | opening and erasing of `localDb.ts` | `stored` key, `file` with the key it was written with; `opens`, `pendingOpen` |
| `DeviceKeys` | `keystore.ts`, `crypto.ts`, one message between users with several phones | a key pair is a number; `deviceKeys` newest first; `letter` from writing to reading |
| `AppLock` | `AppLockGate.tsx`, `appLockLogic.ts` | the gate's state, the listener's timer, the prompt |
| `ChatScreen` | `app/chat/[id].tsx`, recorder and pickers of `media.ts` | EXTENDS `AppLock`, which takes the screen away; `jobs` = calls of the phone under way, for this mount or an earlier one |
| `TapRouting` | taps of notifications, splash, `_layout.tsx` | `pendingRoute`, the splash with its timer, how many splashes await the key, what one is about to push; the lock, which hides the screens and shows them at any moment |
| `VideoPick` | `pickVideoBase64` | the file with its size, the kind of its name and whether it is there; one step per native call |
| `MCWaits`, `MCParts`, `MCRelayParts` | | several modules that share no state, one of which a behaviour moves: the behaviours are those of the modules by themselves |
| `MCRelaySessions`, `MCCalls`, `MCMessages`, `MCContacts`, `MCAccountSession`, `MCGroupCalls` | | the symmetry, and bounds that are definitions |
| `SessionsProofs` | | theorems about `RelaySessions` and `ChatSessions` |
| `AccountProofs` | | theorems about `AccountSession` and `Contacts` |
| `RelayPartsProofs` | | theorems about `RelayGroups`, `RelayGate`, `RelayGuards` and `PushPings` |
| `AppPartsProofs` | | theorems about `AppLock`, `ChatScreen`, `VideoPick`, `TapRouting`, `LocalDb`, `DeviceKeys`, `Signup`, `GroupChat`, `CallScreens` and `HistoryPages` |
| `CallsProofs`, `GroupCallsProofs` | | theorems about the module each is named after |
| `MessagesProofs` | | theorems about `Messages`: shapes and truth; ids |
| `FoldTheorems` | | what holds of a fold over a sequence, and of a set of numbers |

Operators keep the code's names (`clearSessionsFor`, `resolveSession`,
`trackSend`, `failIfStillSending`, ...). An operator `BadX` stands beside an
operator `X`: it is `X` with a plausible mistake in it, used by no action. In
place of `X` it makes one property fail, which shows that the property depends
on that code; `mutants` in `PROJECT.json` pairs them.

Abstractions that matter when reading a result:

* In `RelaySessions`, `RelayGroups`, `Calls` and `Messages` the answers of
  Supabase (token valid, contact approved, blocked) are open choices at the time
  of the answer. This contains what the caches can answer, and `RelayGate` says
  how stale that can be.
* `RelayGroups` knows users online, not sockets; `RelaySessions` has those. A
  group is its member set. The app makes fresh group ids, so the re-sent
  `group:create` of an existing group, which changes nothing, has no action.
  `GroupChat` has the relay's handlers without its awaits and its invite timer,
  which are in `RelayGroups`.
* `Calls` merges the awaits within WebRTC that nothing can come between but
  their failure; ICE candidates are left out, and whether two connections that
  know each other reach each other is open. A video call is a voice call. In
  `GroupCalls` the awaits inside WebRTC take no time at all.
* `Messages` has one chat of two users. Whether the relay accepts is open;
  `delete` stands for the other kinds that change a message (reaction, edit,
  vote), which `HistoryPages` has as marks. Database calls are carried out in the
  order they were made. A restart of the relay is two disconnects and lost frames.
* `RelayLink` leaves the length of the back-off out: a timer may fire at any
  time it is armed.
* `AccountSession`: a request to the database is of the account it was sent as,
  and gets there at any later time, or never. Two requests that are alike in all
  the model knows of them count as one.
* `LocalDb`: nothing ties key and file together but the code; a restored backup
  or a lost keystore entry may part them, and `apart` remembers that it has.
* History variables (`consented`, `dropped`, `opened`, `picked`, `handed`,
  `seen`, `wiped`, `undone`, `vouched`, `silent`, `answered`, `strayed`, `missed`,
  `unrestored`, ...) record what
  properties speak about; no guard but that of fresh group ids reads one.

## Runs

| Run (cfg) | Question | Properties |
|---|---|---|
| `sessions` (`MCRelaySessions`) | does every order of connecting, replacing, asking and answering keep the relay's tables consistent, and implement `ChatConsent`? | PendingXorActive, OnlyOwnCloseEvicts, TimeoutHitsOwnRequest, ImplementsConsent |
| `waits` (`MCWaits`) | with events queued on sockets, can a screen wait for nothing, and does every wait end? Does a lost connection come back? | NobodyWaitsForNothing, WaitEnds, ComesBack |
| `groups` (`MCRelayGroups`) | with failing writes, account deletions and restarts: who can become a member? | MembersConsented |
| `calls` (`MCCalls`) | is every passing phase timed, does a microphone need a pick-up, with checks out of order? | PhaseTimed, MicNeedsPick |
| `calls_cuts` (`MCCallsCuts`) | does a ring reach its callee across lost connections, killed apps, relay restarts, and do ringing, connecting and the end screen pass? | CalleeHearsRing, PhaseMovesOn |
| `messages` (`MCMessages`) | are ticks true and ids unique across loss, restart, clearing, deletion? | TicksTrue, OneBubble |
| `messages_retry` (`MCMessagesRetry`) | with retries, is every 'sending' watched, and does it end? | SendingTracked, SendingEnds |
| `contacts` (`MCContacts`) | with two calls at once, refreshes in any order and statements that fail: what do the lists show, and can a request be lost on an old row? | InsertFindsRoom, NeverBothShown, SnapshotsForward |
| `account` (`MCAccountSession`) | do key and pushes follow the account through overlapping sign-ins and sign-outs, with requests that arrive late? | PublishedKeysHeld, PushFollowsSession |
| `group_calls` (`MCGroupCalls`) | can a device that did not join be heard, or an ended call come back? | SilentUntilJoined, NotResurrected |
| `relay_parts` (`MCRelayParts`) | groups with a database that works: do the writes in flight rebuild memory, does an old timer hit a new invite? Gate: what is let through? Guards: who is cut off? Pushes: how often? | QueueRebuildsMemory, TimeoutHitsOwnInvite, DeliveredWasAllowed, AnswererStays, PingsSpaced |
| `parts` (`MCParts`) | nine parts of the app, each by itself | RosterCaughtUp, SentReachedMember (`GroupChat`); ScreenFollowsCall (`CallScreens`); ContentVouched, RecordModeEnds (`ChatScreen` with `AppLock`); VideoVerdict; ColdTapOnce; PickedNameKept; KeyOpensHistory, HistoryKept (`LocalDb`); NoGap (`HistoryPages`); ReadByAddressed (`DeviceKeys`) |

The modules state more than the runs check. The type invariants (`TypeOK`,
`MirrorTypeOK`, `LinkTypeOK`, `AccountTypeOK`, `GroupCallTypeOK`) and these
properties hold under the same configurations, written in the place of what is
checked there: PendingTargetOnline, OpenSessionHasEnd, OpenedByTarget
(`MCRelaySessions`), ClosedIsQuiet (`MCWaits`), InviteeOnline, GroupNeverEmpty
(`MCRelayGroups`), MembershipStored (`MCRelayGroups` with
`SPECIFICATION FairSpec`, `MayFail` and `MayDelete` FALSE, 3 users, one restart), OthersRingKept (`MCCalls`, `MCCallsCuts`),
AckKept (`MCMessagesRetry`), SignedOutEmpty (`MCContacts`), NoGlare,
OnlyCallerCancels (`MCGroupCalls`), WindowHolds (`MCRelayParts`), EditStaysEdit,
AvailableIsTyped, SetupMovesOn (`MCParts`). Most of them are
parts of an inductive invariant, and proved.

Type invariants carry what later code relies on besides shapes: in `Calls` that
the current connection's microphone is counted, in `RelayGroups` that an
invite lies under its own key.

## Bounds

| Bound | Value | Why that is enough for the question |
|---|---|---|
| `Users`, `Sockets` (sessions) | 3 users, 4 sockets; 2 users, 3 sockets in `waits` | a bystander and a request between other users; a replaced socket and its successor at once |
| `MaxRequests` | 2 (1 in `waits`) | an old timer meets a later request; both sides ask |
| `Groups`, `MaxInvites`, `MaxRestarts`, `MaxQueue` | 1 group, 3 users, 2 invites, 1 restart, 2 writes with a working database; 1 group, 2 users, 2 restarts with faults | an old timer meets a later invite; a change is made while another is being written; a restart falls between the two writes of one departure, and a second one loads what the first left |
| `MaxRings`, `MaxCuts`, `MaxFrames` | 2 calls without cuts; 1 call with 2 cuts | a signal of an earlier call meets a later one; a ring is lost and replayed and lost again. `MaxFrames` bounds only how much is in flight when a *button* is pressed; reactions of the code are never blocked |
| `MaxSends`, `MaxCuts`, `MaxQueue` (messages) | 1 or 2 messages, 1 cut, 1 waiting database call when the *user* acts | a retry beside its original; an acknowledgement, a cut and a load in any order |
| `Calls`, `MaxWrites`, `MaxBegun` (contacts) | 2 calls at once, 3 changes of the tables, 3 buttons | both users ask at once; a decline, a deletion and a new request of one pair; a block inside a refresh |
| `Handlers`, `MaxKeys`, `MaxCalls` (account) | 2 runs of the listener, 2 accounts, 3 events, 2 key pairs | one run of the old account under way while the new account's starts. No socket gets open (`RelayOutOfReach`): neither property depends on the connection |
| `MaxCalls`, `MaxFaults` (`RelayLink`) | 6 calls, 4 faults | more than the four stages a connection can fail in, each once |
| `Callers`, `Asked`, `MaxFaults`, `MaxSignals` (group calls) | 3 devices, one call, one fault; one device asks for its microphone | a third device joins, leaves or fails while two are connecting. `MaxSignals` bounds only what is on the way when a button is pressed or a timer fires |
| `Slots`, `Ttl`, `Latency`, `MaxTime`, `MaxChanges` (gate) | one handler at a time, lifetimes of 1, clock to 5, 2 changes | a lookup, a decline or block while it is answered, what it cached, and a later handler that uses it: handlers meet in the caches only |
| limits of the guards | 2 events, 2 messages, 3 bytes, windows of 1 and 2, clock to 3, 5 frames | every limit is reached, and crossed at the seam of two windows |
| `MaxNaming`, pauses (pushes) | 2 handlers per kind, pauses of 2 and 1, clock to 4 | two handlers that found the cooldown over; a cooldown that ends and starts again |
| `parts` | see the comments of `MCParts.cfg`: 3 members and one cut; 2 openings, 3 keys, 3 mishaps; 3 messages in pages of 1; 3 phones with lists of 2; 2 visits of a screen, 2 calls under way; 2 calls and 4 touches; 4 moves of taps; 2 attempts to finalize; 3 sizes over the cap | each lets a second of the same kind arrive while the first is under way, and a list or page overflow |

`CHECK_DEADLOCK FALSE` is set everywhere: the bounds stop the models, and the
real system may be idle.

`SlowChecks` (calls) says whether approval checks may come back out of order or
fail: TRUE in `calls`, where that is the point, FALSE in `calls_cuts`. `waits` has
an action constraint, `ChecksInTurn`: no token check of a socket the app has left
ends well once the socket it opened instead is registered. Nothing in the code
makes it so; it excludes the one overtaking that LinkedUserOnline
[finds](#findings), whose consequence for who waits is described under
[proofs](#chat-sessions-sessionsproofs). All else about the checks is as slow as
it may be.

## Fairness

* A `setTimeout` callback of a running process runs: weak fairness of
  the session requests' timers, of the ring, connecting and end timers, of
  `SendTimeout`, of the reconnect and connect timers and the watchdog.
  A killed app's timers are gone, and so is the state that waits for them.
* `waits` also assumes that an awaited check answers, that events on an open
  socket are read, and that an app notices a closed socket: `onclose`, or the
  watchdog of `relayClient.ts` after 75 s of silence.
* ComesBack rests on `LinkFairness`: the app's own timers fire, and a live
  network and relay answer (a socket opens, the provider gives a token, `auth`
  gets its answer). The system need not ever report a dead socket. Where a socket
  dies after it opened and before `auth:ok`, no timer of the app is armed
  (`relayClient.ts:255`); ComesBack says that this is the only state the client can
  stay in (`Unwatched`), and DeadIsTornDown, which says that it cannot, is
  refuted.
* `GroupCallFairSpec` (signals arrive, timers fire, questions are answered) is
  used by `DocGroupCalls.cfg` only: its counterexamples are not for want of a
  timer.
* `FairSpec` of `RelayGroups`, for MembershipStored: the groups are loaded in the
  end (`index.ts` tries again every 15 s) and a write under way is answered.
* Nothing else is fair: users need not press anything, WebRTC need not connect,
  frames may be lost with their connection.

## Proofs

Checked by TLAPS for every choice of the constants that satisfies the named
assumptions of the modules (bounds are natural numbers, `None` is none of the
values it stands beside, the set of groups is finite; nothing bounds the number
of users, sockets, requests, messages, calls, cuts or invites).

Few of the properties are inductive. What each needs, and why:

### Chat sessions (`SessionsProofs`)

The invariant of `RelaySessions` is

    IInv == TypeOK /\ PendingKeyed /\ DistinctUsers /\ PendingXorActive
            /\ PendingTargetOnline /\ OpenSessionHasEnd

`PendingKeyed` (a request lies under the key of its own pair) is needed because
`resolveSession` and the timers compute the key from the request's users;
`DistinctUsers` (a handler's or timer's two users differ) because only then is
the key a pair. From it follow `TypeCorrect`, `Exclusion` (PendingXorActive),
`Presence`, and, as properties of steps, `Eviction` (OnlyOwnCloseEvicts),
`Opening` (OpenedByTarget: only the side that was asked opens a session) and
`OwnTimeout` (TimeoutHitsOwnRequest). `Refinement`
shows that `RelaySessions` implements `ChatConsent`: a user has agreed when the
pair is active or the pending request is theirs; each action maps to one action
of `ChatConsent` or to a stutter, in one lemma per kind of action
(`RefineConnections`, `RefineAccept`, `RefineRecord`, `RefineTimeout`).

`ChatSessions`: NobodyWaitsForNothing (`WaitsAnswered`) is about connections on which all is
read. The invariant (`ChatInv`) looks ahead: when the app has read what is on its
socket, its screen says "Waiting for v" (`WillWait`: the last event about the chat
is a "requested", or there is none and it says so already); then the relay owes an
answer (`Owed`): the request is being checked, on the socket the app has, or is
recorded with its timer. Every step that ends a debt writes an event about the
chat, to the socket the user is registered with, so the rest of the invariant is
about that socket being the app's: a token is being checked for a socket of its
user that is not registered yet, and for each socket once (`VerifyingAlone`), a
socket registered for a user is nobody else's (`SocketsOwn`), and who was told
that the token is good is registered with the socket it was told on until that
closes (`LinkedRegistered`). The checks of a socket that was left may go on beside
that of the next, and end in any order but one: the theorem is about behaviours
whose every step keeps `ChecksInTurn`, as those of the run do. Without it the
statement is false, and TLC shows it: the late check of a socket that was left
registers the user with it after the new socket was, the next request is recorded
under that socket, and its refusal is sent there. It is one more consequence of
what LinkedUserOnline [finds](#findings).

### Groups, gate, guards and pushes (`RelayPartsProofs`)

`RelayGroups`:

    IInv == TypeOK /\ MembersConsented /\ GroupNeverEmpty /\ InviteeOnline

`MembersConsented` speaks of memory, the queue and the rows at once, and is
inductive because it does: rows come from the queue, memory after a restart
from the rows. Lemmas say what a write does to the rows (`ApplyType`,
`ApplyMembers`), what loading makes of them (`StoredGroups`) and what an
operation puts in the queue (`EnqueueEffect`). `Consent`, `NonEmpty`,
`InviteesConnected`, `TypeCorrect` and, for steps, `OwnTimeout`
(TimeoutHitsOwnInvite) follow; failing writes, half-done writes,
account deletions and restarts are all included.

QueueRebuildsMemory (`QueueRebuilds`) is about the database that works: the
theorem assumes `~MayFail` and `~MayDelete`, as the run does. Without them it is
false: a write that fails is skipped, and the deletion of an account removes rows
before it changes memory. `QueueInv` says besides that before the stored groups
are loaded nothing waits, and that a group made meanwhile is not a stored one,
since ids are fresh. The statement is a fold of the queue over the rows; the proof
works with the list of states such a fold goes through (`Replay`), which an
operation makes longer at its end (`ReplayAppend`) and the end of a write shorter
at its beginning, and `FoldTheorems` has it that the fold is the last of them.

`RelayGate`: DeliveredWasAllowed (`DeliveriesAllowed`) speaks of what has passed,
and holds because of what is under way. `GateInv` says of each handler that an
approval it has read held when the handler started, or was cached then and no
longer ago than `Ttl + Latency` (`ApprovalFresh`); that a block which was there
all along is one it has read or still will (`BlocksSeen`); likewise for a
visibility (`ShowsFresh`); that no handler outlives `Latency` (`JobTimely`); and
of the caches that what they hold was so one lookup before (`CachesFresh`).
The bound in the property, two lookups and one lifetime, is that of this argument.

`RelayGuards`: AnswererStays (`AnswerersStay`) needs that an *open* socket has
missed no more pongs than its client has left out; a pong dropped for its rate
breaks the count, on a socket that is then closing. `PushPings`: PingsSpaced
(`PingsAreSpaced`), a property of steps, needs that the stamp a cooldown is
measured from is the moment of the last push (`StampedWhenPushed`).

### Calls (`CallsProofs`) and group calls (`GroupCallsProofs`)

    IInv == TypeOK /\ PeerKnown /\ PhaseTimed /\ PlacedIsPicked /\ MicNeedsPick

PhaseTimed needs `PeerKnown` (who rings, is rung or connects has a peer), since
a handler whose signal comes from the peer leaves the phase and must have had
one; MicNeedsPick needs `PlacedIsPicked` (a call that rings out was placed by
its user), since an accept turns it into one that asks for the microphone. One
lemma each for buttons, timers, signals, awaits, the network, the relay and its
restart. `CallsTyped`, `Timed`, `Picked`, and `ThirdRingKept` (OthersRingKept,
a property of steps).

CalleeHearsRing (`RingHeard`) speaks of two users between whom no signal is on
its way. `RingInv` says what holds before that: a recorded ring of a connected
callee who has picked nothing is still on the callee's wire, on the screen, or
followed by a signal of the callee's that resolves it (`RingsHeard`). That an
end signal of the caller's *earlier* call cannot take the screen away without
bringing the ring again needs that on the wire the ring comes after it
(`RingsLast`), which holds because forwarding a resolving signal clears the
record and forwarding a ring sets it. `RingHeard` has one premise, that the
database does not fail on a signal that resolves a call (`ResolvingPass`): such a
decline is refused, the caller rings on, and TLC shows it with `SlowChecks`
TRUE. Checks that come back out of order, or fail on any other signal, are
covered by the theorem; the run `calls_cuts`, where they do neither, is its
special case.

`GroupCalls`: a device that has not joined is silent because nobody offers to it,
and nobody offers to it because whoever another device knows to be ready has
joined. `CallInv` is therefore about what each device knows of the others
(`Known`) and what the signals on their way tell it (`Told`). The handlers are
operators from a result to a result; `Comes` says what one may make of a result,
and composes (`ComesOn`), so there is one lemma per operator and one per action.
Handlers that go through a set of peers or a list of waiting continuations are
folds over a sequence. What such a fold keeps is proved by induction on its
length, stated as a fact about a set of numbers (`LeastNatural`, `SetInduction`,
`FoldIn` of `FoldTheorems`), since the library's induction theorems cannot be instantiated here. `SilenceKept`
(SilentUntilJoined) and `CallsStayOver` (NotResurrected, a property of steps).

### Contacts and account (`AccountProofs`)

`Contacts`: the invariant is the conjunction of one part per
actor: the tables (`DbInv`), the refreshes (`ReadsInv`), the lists (`ShownInv`)
and the calls (`CallsInv`). SnapshotsForward rests on `NewestFirst`: of a user's
refreshes under way only the newest counts, and what it has read is not older
than what is shown. InsertFindsRoom rests on what a step may do to the table
(`RowsMoveOn`: rows go, or come with the next number, or keep theirs), so a row
in the way is younger than the call. `ContactsTyped`, `NeverBoth`
(NeverBothShown), `RoomFound`, `ListsForward`.

`AccountSession`: PublishedKeysHeld (`KeysHeld`) needs `AccountInv`. A key is published one await
after it was stored, so a run of the listener that is about to publish holds the
stored key (`PublishesStored`); that no other run has stored a different one
meanwhile rests on the shared load of a key pair, one per account (`OneLoad`),
which writes only where none is (`WritesFirst`); and a key is deleted only for an
account whose deletion has already taken what it published (`DeletesGone`). PushFollowsSession
(`PushFollows`) is about requests that arrive whenever they like, each for the
account it was sent as. Of the requests under way one counts, the last one sent;
the others are overtaken. `LastSentIsSessions` says whose it is: that of the
account signed in, unless a run of the listener or a registration that has not
been sent is still `Coming`. `UnderWay` says that where the token is another
account's, and the last registration to end did not come to nothing and was not
overtaken, something is still coming or sent. `refused` names what the statement
leaves out: a registration that failed, or ended after a later one was sent, which
moves the token to the account it was sent as. The comment in `push.ts` makes no
such exception (TokenMovesWithAccount, among the [findings](#findings)).

### Messages (`MessagesProofs`)

TicksTrue (`TicksAreTrue`) is about what is shown and stored, and rests on
everything that may become either: `TrueInv` says of the queue of the database,
the snapshot of the start-up load, the events on their way to a device and the
flights at the relay that each tells the truth: a 'sent' is about a message that was
handed over, a 'read' about one that was seen. SendingTracked (`SendingsTracked`)
and `TypeCorrect` follow from the same invariant.

OneBubble (`BubblesUnique`) is about ids, which change once: from the temporary
one to the final one, in the thread at the acknowledgement and in the rows when
the queued rename is carried out. `KeysInv` says that a message is in one place
only on its way to the relay and back (`Pending`, `FlightsOwn`, `AnswersOwn`);
that until its answer arrives nothing on the device has its final id
(`PendingNotFinal`); and that in the queue nothing is saved under a final id
before the rename to it (`RenamesFirst`). AckKept (`AcksKept`, a property of
steps) uses it: a step that shows a failed message puts it in the place of one that
was not acknowledged (`FailsFairly`), and there is no second one of that id.

### Parts of the app (`AppPartsProofs`)

* ContentVouched (`Vouched`): the gate neither opens nor asks until the settings
  are read, and a gate that is open behind the background was opened by its user.
* RecordModeEnds (`RecordModesEnd`): record mode belongs to a recording that is
  shown or to a call that has still to restore it (`RecordInv`), unless the
  phone refused to restore it (`unrestored`).
* VideoVerdict (`VerdictsTrue`): at every stage the size that is known is that of
  the file unless a call has failed, and the file has the name the next pass
  takes (`OnTheWay`).
* ColdTapOnce (`ColdTapsOnce`): the tap is kept until the app knows whether
  somebody is signed in (`KeptUntilKnown`), and from then on it is in exactly one
  place: kept, about to be pushed, opened, or pushed while the lock hid the
  screens (`OnItsWay`); while it is kept a splash is there, or will be, to take it
  (`Working`).
* KeyOpensHistory (`KeyOpens`): one opening at a time, from before the key is read
  until the file is written (`OneOpening`), with what each step of an opening
  knows of the key kept and of the file (`StepOf`). HistoryKept follows for steps
  (`HistoriesKept`).
* ReadByAddressed (`AddressedRead`) says which phones read a message: those whose
  key was among the newest on record when it was written, if the writer's is among
  those looked up when it is read; keys published or lost in between change
  nothing. The proof follows the message, whose parcel stays what was sealed for
  the keys on record at the time; lemmas about the newest keys of a list are by
  cases, not by induction. A phone that has lost its pair meanwhile holds another
  and does not read it.
* PickedNameKept (`PickedNamesKept`): each call and each place a name passes
  through carries one the user picked, or the database has refused one.
* RosterCaughtUp (`RostersCatchUp`) is about quiet connections. The invariant
  looks ahead: when the app has read what is queued for it, it shows the roster
  (`WillShow`: the last list of members in the queue, without those whose
  departure is behind it). SentReachedMember (`SentPostsReached`) follows the
  post's frames (`PostInv`).
* ScreenFollowsCall (`ScreensFollow`) speaks of screens that have settled. `Shape`
  says for every moment in between that a call which alone has moved the screens
  has none below the top one, which screen that one may be in each phase, and
  whether it has seen the phase yet. The effects of a change are a fold of the
  screens' reactions, of which the last one counts (`FoldReact`).
* NoGap (`HistoryWhole`) is not inductive, since messages arrive, with any time,
  and the chat is cleared, between reading a page and showing it. `HistoryInv`
  says of what was read and not applied that it leaves out older messages only,
  and of a mark under way that it brings no message back and re-times none
  (`ReadIsRecent`, `PageIsNext`, `PatchesKnown`), for copies of a message have one
  time (`Dated`). What is shown starts with a message that was read
  (`ShownIsRecent`), unless one that came during the start-up load was merged
  above it (`strayed`), after which the statement is false (RestOnDemand).
  Lemmas about finite sets say what a page is (`NewestAre`, `RecentAre`) and
  what comes first in a sorted one (`InOrderBefore`, `SortedByTimeIs`).

### Only model-checked

* Liveness: WaitEnds, ComesBack, PhaseMovesOn, SendingEnds. The prover has no
  fairness and no ENABLED.
* What `SelectSeq` and `SortSeq` return, whose definitions the provers have no
  access to: the windows of `RelayGuards` use one, so its limits (WindowHolds)
  are left to TLC.
* The statements listed under [runs](#runs) that no theorem above names.

## Findings

What the code, its comments or its screens say and the code does not do. Each
is stated at the end of its module with the place it is about. To see a
counterexample, write the statement in the place of the `INVARIANT` or
`PROPERTY` of the configuration, which lists it in a comment; TLC finds it in
seconds. `DocChatSessions.cfg`, `DocRelayLink.cfg` and `DocGroupCalls.cfg` exist
for these only and check the first of theirs as they stand.

| Statement | Module, cfg | What happens |
|---|---|---|
| OnlineMeansConnected | RelaySessions, MCRelaySessions | a socket that closes during its token check is registered afterwards: online with a dead socket (`index.ts:387`) |
| OpenSessionBothOnline | same | a requester who disconnects during the approval check has a request recorded after the cleanup; accepting it opens a session with one end offline (`index.ts:839`) |
| EveryRequestTimed | same | a missing socket makes the handler throw between recording the request and arming its timer (`index.ts:846`) |
| LinkedUserOnline | ChatSessions, DocChatSessions | the token check of a replaced socket answers after that of the new one; the old socket takes the registration over, and its close takes a live client offline (`index.ts:387`) |
| AcceptedWasOpened | same | Accept after the relay's timeout shows a session the relay never opened (`chatSessionStore.ts:146`) |
| DeclineRevokes | same | a Decline after a glare accept is ignored (`index.ts:872`) |
| NothingStored | RelayGroups, MCRelayGroups | the header of `state.ts` says nothing is written; groups are (`groupStore.ts:35`) |
| NoGhostMembers | same | a group joined during the account deletion keeps its ghost (`index.ts:136`) |
| TimeoutTellsInviter | same | the timer that "covers telling" the inviter finds no invite (`index.ts:914`) |
| DocDeclineForgets | RelayGate, MCRelayParts | a lookup that read the row before a contact was ended is cached after it, for 30 s (`supabaseAdmin.ts:73`) |
| DocHiccupHides | same | a visibility that cannot be read counts as 'contacts': a hiccup shows the status of one who has hidden it (`supabaseAdmin.ts:184`) |
| MicOffAfterCall | Calls, MCCalls | a call that ends while the microphone is being asked for leaves the microphone on (`callStore.ts:496`) |
| BusyMeansAnotherCall | same | two users who ring each other are both told the other is on another call (`callStore.ts:275`) |
| RingRecordHasCall | same | a ring is recorded after its hangup has passed (`index.ts:532`) |
| RingingHasCaller | same | a callee rings for a call that has ended: 'timeout' and 'hangup' are sent once, and ringing-in has no timer (`callStore.ts:405`) |
| AcceptIsOfThisRing | same | an 'accept' does not say of which ring: that of a call which ended before it arrived takes the next ring to the same user on to 'connecting', while it still rings there (`callStore.ts:300`) |
| OfferFindsConnection | same | an offer that arrives before the callee's microphone finds no connection, and the call fails (`callStore.ts:318`) |
| DocMicOff | GroupCalls, DocGroupCalls | as MicOffAfterCall, in group calls (`groupCallStore.ts:216`) |
| DocRingStops | same | a device that rings has no timer of its own and acts on its caller's 'hangup' only: the 'timeout' after 45 s leaves it ringing (`groupCallStore.ts:480`, against the comment at 645) |
| DocCallerMovesOn | same | the last peer fails before any was connected: `maybeEndIfAlone` looks at 'active' and 'connecting' only, and its ring timer is gone, so the caller stays on 'calling' (`groupCallStore.ts:343`) |
| DocConnectedShown | same | an 'accept' does not clear the ring timer of who accepted: after 45 s a connected peer is told 'timeout' and shown as 'no-answer' (`groupCallStore.ts:419`, 542) |
| DocHeardByAll | same, with `Users = {1, 2, 3}`, `Asked = {}` | two connections made for one peer, or a teardown beside a new call: a connected peer does not hear this device (`groupCallStore.ts:206`) |
| DocAcceptStays | CallScreens, MCParts | after a press on the call's notification two incoming screens are stacked, and the second pops the call screen off (`incoming-call.tsx:41`) |
| DocRingShown | same | the splash replaces the ringing screen with the chat list (`_layout.tsx:86`) |
| DocBlankScreen | same | the call's notification, pressed after the call, opens an empty incoming screen (`callNotifications.ts:78`) |
| HydrateKeepsMemory | Messages, MCMessages | the start-up load overwrites what an acknowledgement changed meanwhile (`chatStore.ts:161`) |
| OneRow | same, with `MaxQueue = 2` | and leaves two rows of one message (`chatStore.ts:159`) |
| FailedIsGone | same | a message marked failed at a disconnect was delivered (`chatStore.ts:262`) |
| DeleteApplied | same | a deletion that overtakes its message is lost (`chatStore.ts:393`) |
| ClearedStaysCleared | same | a failure after the chat was cleared writes the message back (`chatStore.ts:503`) |
| MarksKept | HistoryPages, MCParts | a mark on a message that is not loaded writes back the row it read, and undoes a mark made in between (`chatStore.ts:370`) |
| RestOnDemand | same | a message stamped before the page read, by a clock that is behind, and received or sent while the start-up load is under way, is merged above that page; loading older ones starts from it, and what is stored between them is never loaded (`chatStore.ts:160`, 904) |
| PinsKept | same | who pins while the start-up load is under way hides the pins that were stored before (`chatStore.ts:119`) |
| LeftIsGone | GroupChat, MCParts | a snapshot that was on its way when a member left brings the group back on that member's device (`groupStore.ts:213`) |
| GroupsReappear | same | who connects after a restart of the relay and before the groups are loaded gets an empty snapshot (`index.ts:401`) |
| PromptIsPending | same | a lost connection ends an invite at the relay; its alert stays, and the answer finds nothing |
| BlockedHidden | Contacts, MCContacts | a refresh that read the blocks before a block lands after it, and shows the blocked contact again: `block()` does not advance `refreshSeq` (`contactStore.ts:345`) |
| DeadIsTornDown | RelayLink, DocRelayLink | a socket that dies before it is authenticated has no timer: the connect timer is cleared, the watchdog looks at connected ones (`relayClient.ts:255`) |
| SignedOutDisconnected | AccountSession, MCAccountSession | a run of the listener that was awaiting the profile connects after `disconnect()` (`authStore.ts:80`) |
| TokenMovesWithAccount | same | a registration that was sent as the earlier account, and gets there after that of the next one, leaves the token with the earlier account (`push.ts:82`); so does one that fails. The phone then gets the pushes of an account nobody is signed in to, and none of its own until the next auth event |
| LinkFollowsSession | same | overlapping runs leave the first account's id beside a socket that authenticates as the second; when the first signs in again, its connect finds that socket open and keeps it |
| ProfileIsSession | same | the profile of the earlier account stays when reading that of the next one fails |
| SignedOutNoPushes | same | `clearPushToken` tries once: if its request fails, the token stays with the account (`push.ts:170`) |
| DeletedLeavesNoKey | same | a key that a run of the listener was writing is stored after the deletion has removed the key |
| DeletedStaysDeleted | ChatScreen, MCParts | an edit that was open when its message was deleted sends the text again |
| PlaybackRestored | same | a refusal to leave record mode is logged, and nothing tries again: the phone stays in record mode (`media.ts:429`, against the comment at 456) |
| ShownIsRecorded | same | the stop of one recording ends the audio session of the next, which is shown as running |
| WarmTapStays | TapRouting, MCParts | a splash that was awaiting the key's publication replaces the chat a tap has opened meanwhile (`push.ts:220`) |
| KeptUntilOpened | same | the lock hides the screens between taking the tap's destination and pushing it: the push finds no screens, and the splash that follows finds nothing kept (`index.tsx:63`) |
| NothingStale | same | a tap on a signed-out app is kept, and opens after somebody signs in (`push.ts:224`) |
| DocFitsIsSent | VideoPick, MCParts | a video just under the cap is refused as too large for the padding of its text (`media.ts:304`) |
| DocRaceRetried | DeviceKeys, MCParts | the retries of a lookup stop at the first key found; with an older phone on record, the new one's key is not waited for (`chatStore.ts:319`) |

Seen while modelling, without a statement of their own:

* `getSocket(...)!` after an await in `forwardToRecipients` and
  `handleMessageSend` is undefined when the socket has gone.
* `AppAlertHost` and the call banners are outside `AppLockGate`; so are alerts'
  buttons.
* A group's invitation can be answered in its alert only, and a second alert
  takes its place.
* With the lock on, the camera's own trip to the background takes the chat
  screen away, and the photo with it.
* The attachment menu, the poll panel and the photo preview still send after
  the session has ended; the relay then refuses.
* Two mounts of finish-setup can both finalize, and a late one may undo a
  rename made since.
* A banner's tap can stack a second call screen, hardware back on the incoming
  screen leaves no way to answer, and a call between two is accepted during a
  group call.
* Presence broadcasts of one user await a lookup each and may overtake one
  another.

## What is not modelled

* The app's presence store: a map of the last status heard, cleared with the
  connection; what the relay sends is in `RelayGate`.
* Phone sign-in by OTP: screens that nothing leads to and no service answers.
* Cryptography: a box opens for its two keys. Passwords, formatting, reasons of
  failure, date separators, alerts' texts, themes and styles.
* Photos, playback and maps; ICE candidates, ringtones, audio routes,
  picture-in-picture, mute, camera and the call log.
* The typing indicator, search, and profiles of others.
* An account switch under way in `chatStore.ts`: a message handler that took its
  user before an await goes on for that user in the next account's threads
  (`chatStore.ts:439`). `Messages` has one account per device.
* Two handlers at once in `RelayGate`: they meet in the caches only, which the
  runs cover one handler after another.
* The Supabase schema beyond the rows and indexes the modules name, and the
  static project pages.

Each is listed under `components` with its reason.

## Plan

The order was: the session protocol, since messages, typing and presence depend
on it; groups, whose state survives restarts; calls; messages; then the client's
connection and account, contacts and gate, group calls and group chat, and the
smaller parts of the app. What would come next:

1. `Messages` with two accounts on a device, for the handlers that outlive a
   switch (`chatStore.ts:439`); `AccountSession` has the listener's side of it.
2. An abstract connection (wanted/linked) that `RelayLink` implements, and
   `ChatSessions` on it in place of its own Connect and Drop.
3. Proofs of WindowHolds, with the windows written without `SelectSeq`, and of the
   other statements under [runs](#runs) that no theorem names.
