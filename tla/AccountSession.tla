--------------------------- MODULE AccountSession ---------------------------
(***************************************************************************)
(* What the app does about its account: app/src/state/authStore.ts with the *)
(* key pair of keystore.ts, the push token of push.ts (table               *)
(* device_push_tokens, migration 0008) and the connection of module        *)
(* RelayLink, on one phone.                                                *)
(*                                                                         *)
(* Every auth event starts a handler that awaits the profile, the key and  *)
(* its publication before it connects and registers for pushes; handlers of *)
(* earlier events run on when the account changes.  A request to the       *)
(* database is of the account it was sent as, whoever is signed in when it *)
(* gets there.  Profile setup is taken as done, and the phone's push token *)
(* as one.                                                                 *)
(***************************************************************************)
EXTENDS RelayLink, FiniteSets

CONSTANTS Handlers,  \* runs of the auth listener that may overlap
          MaxKeys     \* bound: key pairs ever generated

ASSUME AccountSessionAssumption == MaxKeys \in Nat

VARIABLES
    session, profile,  \* authStore, each as the account it is of
    handlers,          \* the listener's runs, each before its next await ends
    ending,            \* signOut or deleteAccount under way
    secret,            \* SecureStore: per account the key pair's number, or 0
    published,         \* device_keys: per account, public keys of this phone
    keys,              \* key pairs generated
    pushUserId, deviceToken, pushJobs,  \* push.ts
    tokenOwner,        \* device_push_tokens: the account this phone's token is of
    legacy,            \* accounts whose users.push_token is this phone's
    refused,           \* the last registration to end came to nothing, or was overtaken
    clears,            \* clearPushToken's requests that outlived its three seconds
    deleted            \* accounts that are gone

keyVars == <<secret, published, keys>>
pushVars == <<pushUserId, deviceToken, pushJobs, tokenOwner, legacy, refused, clears>>
authVars == <<session, profile, handlers, ending, deleted>>
accountVars == <<linkVars, authVars, keyVars, pushVars>>

Idle == [step |-> "idle"]
Handler == [step : {"profile", "read", "write", "joined", "publish", "insert", "connect"},
            account : Accounts, of : Accounts, key : Nat]
Ending == [step : {"clear", "fetch", "local", "auth"}, deletes : BOOLEAN, account : Accounts, known : BOOLEAN]
PushJob == [step : {"permission", "token", "store", "legacy"}, account : Accounts,
            as : Accounts \cup {NoOne}, overtaken : BOOLEAN]
Clear == [account : Accounts, known : BOOLEAN]

AccountTypeOK ==
    /\ LinkTypeOK
    /\ session \in Accounts \cup {NoOne} /\ profile \in Accounts \cup {NoOne}
    /\ handlers \in [Handlers -> Handler \cup {Idle}]
    /\ ending \in Ending \cup {NoOne}
    /\ secret \in [Accounts -> Nat] /\ published \in [Accounts -> SUBSET Nat] /\ keys \in Nat
    /\ pushUserId \in Accounts \cup {NoOne} /\ deviceToken \in BOOLEAN /\ pushJobs \subseteq PushJob
    /\ tokenOwner \in Accounts \cup {NoOne} /\ legacy \subseteq Accounts /\ refused \in BOOLEAN
    /\ clears \subseteq Clear /\ deleted \subseteq Accounts

-----------------------------------------------------------------------------
(* The auth listener.  A Bad... operator is the same operator with a       *)
(* mistake in it, and no action uses it.                                   *)

Call == linkCalls < MaxCalls /\ linkCalls' = linkCalls + 1
To(h, step) == handlers' = [handlers EXCEPT ![h].step = step]

\* A sign-in, a deep link of another account, or a token refresh.
AuthEvent(h, a) ==
    /\ Call
    /\ handlers[h] = Idle /\ a \notin deleted
    /\ client' = a
    /\ session' = a
    /\ handlers' = [handlers EXCEPT ![h] = [step |-> "profile", account |-> a, of |-> a, key |-> 0]]
    /\ UNCHANGED <<link, linkFaults, profile, ending, deleted, keyVars, pushVars>>

\* One load of the key pair per account at a time; later callers share it.
Loading(a) == \E h \in Handlers : handlers[h].step \in {"read", "write"} /\ handlers[h].of = a
BadKeyStep(a) == "read"
KeyStep(a) == IF Loading(a) THEN "joined" ELSE "read"

\* refreshProfile returns or fails; the key is of whoever is signed in by now.
ProfileRead(h) ==
    /\ handlers[h].step = "profile"
    /\ profile' \in {handlers[h].account, profile}
    /\ handlers' = IF session = NoOne THEN [handlers EXCEPT ![h].step = "connect"]
                   ELSE [handlers EXCEPT ![h].step = KeyStep(session), ![h].of = session]
    /\ UNCHANGED <<linkVars, session, ending, deleted, keyVars, pushVars>>

\* Everybody who waits for this load goes on.
HandOver(h, step, key) ==
    handlers' = [x \in Handlers |->
        IF x = h \/ (handlers[x].step = "joined" /\ handlers[x].of = handlers[h].of)
          THEN [handlers[x] EXCEPT !.step = step, !.key = key] ELSE handlers[x]]

KeyRead(h) ==
    /\ handlers[h].step = "read"
    /\ \/ secret[handlers[h].of] # 0 /\ HandOver(h, "publish", secret[handlers[h].of]) /\ UNCHANGED keyVars
       \/ /\ secret[handlers[h].of] = 0 /\ keys < MaxKeys
          /\ keys' = keys + 1
          /\ handlers' = [handlers EXCEPT ![h].step = "write", ![h].key = keys + 1]
          /\ UNCHANGED <<secret, published>>
       \/ HandOver(h, "connect", 0) /\ UNCHANGED keyVars
    /\ UNCHANGED <<linkVars, session, profile, ending, deleted, pushVars>>

KeyWritten(h) ==
    /\ handlers[h].step = "write"
    /\ \/ /\ secret' = [secret EXCEPT ![handlers[h].of] = handlers[h].key]
          /\ HandOver(h, "publish", handlers[h].key)
       \/ HandOver(h, "connect", 0) /\ UNCHANGED secret
    /\ UNCHANGED <<linkVars, session, profile, ending, deleted, published, keys, pushVars>>

\* device_keys takes rows of the account that sends them only; an attempt
\* that fails changes nothing before the next.
PublishSent(h) ==
    /\ handlers[h].step = "publish"
    /\ \/ client = handlers[h].of /\ To(h, "insert")
       \/ To(h, "connect")
    /\ UNCHANGED <<linkVars, session, profile, ending, deleted, keyVars, pushVars>>

Published(h) ==
    /\ handlers[h].step = "insert"
    /\ \/ /\ handlers[h].of \notin deleted
          /\ published' = [published EXCEPT ![handlers[h].of] = @ \cup {handlers[h].key}]
       \/ UNCHANGED published
    /\ To(h, "connect")
    /\ UNCHANGED <<linkVars, session, profile, ending, deleted, secret, keys, pushVars>>

Registration(step, a) == [step |-> step, account |-> a, as |-> NoOne, overtaken |-> FALSE]

\* With the account of its event, whatever has happened since.
Connects(h) ==
    /\ handlers[h].step = "connect"
    /\ link' = ConnectTo(link, handlers[h].account)
    /\ pushJobs' = pushJobs \cup {Registration("permission", handlers[h].account)}
    /\ handlers' = [handlers EXCEPT ![h] = Idle]
    /\ UNCHANGED <<client, linkCalls, linkFaults, session, profile, ending, deleted, keyVars,
                   pushUserId, deviceToken, tokenOwner, legacy, refused, clears>>

-----------------------------------------------------------------------------
(* Push registration                                                       *)

\* Job j gives way to those in new; the requests already sent are overtaken.
Overtaken(jobs) == {IF j.step = "store" THEN [j EXCEPT !.overtaken = TRUE] ELSE j : j \in jobs}
Overtake(j, new) == pushJobs' = Overtaken(pushJobs \ {j}) \cup new
GiveUp(j) == Overtake(j, {}) /\ refused' = TRUE

PushPermission(j) ==
    /\ j \in pushJobs /\ j.step = "permission"
    /\ \/ /\ pushJobs' = (pushJobs \ {j}) \cup {[j EXCEPT !.step = "token"]}
          /\ pushUserId' = j.account /\ UNCHANGED refused
       \/ GiveUp(j) /\ UNCHANGED pushUserId
    /\ UNCHANGED <<linkVars, authVars, keyVars, deviceToken, tokenOwner, legacy, clears>>

\* register_push_token is sent as whoever is signed in when the token is there.
BadSender(j) == j.account
Sender(j) == client
PushToken(j) ==
    /\ j \in pushJobs /\ j.step = "token"
    /\ \/ /\ Overtake(j, {[j EXCEPT !.step = "store", !.as = Sender(j)]})
          /\ deviceToken' = TRUE /\ UNCHANGED refused
       \/ GiveUp(j) /\ UNCHANGED deviceToken
    /\ UNCHANGED <<linkVars, authVars, keyVars, pushUserId, tokenOwner, legacy, clears>>

\* The token moves to the account that sent the request, whenever it gets
\* there; the answer may be lost.  Without one, the old column is tried.
PushStored(j) ==
    /\ j \in pushJobs /\ j.step = "store"
    /\ \E taken, answered \in BOOLEAN :
        /\ taken => j.as \notin deleted \cup {NoOne}
        /\ tokenOwner' = IF taken THEN j.as ELSE tokenOwner
        /\ IF taken /\ answered
             THEN refused' = j.overtaken /\ pushJobs' = pushJobs \ {j}
             ELSE /\ refused' = TRUE
                  /\ Overtake(j, {[Registration("legacy", j.account) EXCEPT !.as = client]})
    /\ UNCHANGED <<linkVars, authVars, keyVars, pushUserId, deviceToken, legacy, clears>>

\* users takes an update of the sender's own row only.
LegacyStored(j) ==
    /\ j \in pushJobs /\ j.step = "legacy"
    /\ pushJobs' = pushJobs \ {j}
    /\ legacy' \in {legacy, legacy \cup (({j.account} \cap {j.as}) \ deleted)}
    /\ UNCHANGED <<linkVars, authVars, keyVars, pushUserId, deviceToken, tokenOwner, refused, clears>>

TokenRotates ==
    /\ Call
    /\ pushUserId # NoOne
    /\ pushJobs' = pushJobs \cup {Registration("token", pushUserId)}
    /\ UNCHANGED <<link, client, linkFaults, authVars, keyVars, pushUserId, deviceToken, tokenOwner,
                   legacy, refused, clears>>

-----------------------------------------------------------------------------
(* signOut and deleteAccount                                               *)

End(deletes) ==
    /\ Call
    /\ session # NoOne /\ ending = NoOne
    /\ ending' = [step |-> "clear", deletes |-> deletes, account |-> session, known |-> deviceToken]
    /\ pushUserId' = NoOne /\ deviceToken' = FALSE
    /\ UNCHANGED <<link, client, linkFaults, session, profile, handlers, deleted, keyVars,
                   pushJobs, tokenOwner, legacy, refused, clears>>

At(step) == ending # NoOne /\ ending.step = step

\* unregister_push_token and the old column.
TokenGone(c) ==
    /\ tokenOwner' = IF c.known /\ tokenOwner = c.account THEN NoOne ELSE tokenOwner
    /\ legacy' = legacy \ {c.account}

\* They are waited for three seconds at most, and may get there later or never.
TokenCleared ==
    /\ At("clear")
    /\ LET c == [account |-> ending.account, known |-> ending.known] IN
       \/ TokenGone(c) /\ UNCHANGED clears
       \/ clears' = clears \cup {c} /\ UNCHANGED <<tokenOwner, legacy>>
    /\ ending' = [ending EXCEPT !.step = IF ending.deletes THEN "fetch" ELSE "auth"]
    /\ link' = IF ending.deletes THEN link ELSE Disconnect(link)
    /\ UNCHANGED <<client, linkCalls, linkFaults, session, profile, handlers, deleted, keyVars,
                   pushUserId, deviceToken, pushJobs, refused>>

ClearedLate(c) ==
    /\ c \in clears
    /\ clears' = clears \ {c}
    /\ TokenGone(c) \/ UNCHANGED <<tokenOwner, legacy>>
    /\ UNCHANGED <<linkVars, authVars, keyVars, pushUserId, deviceToken, pushJobs, refused>>

\* The rows of a deleted account go with it; a refusal changes nothing more.
DeletionAnswered ==
    /\ At("fetch")
    /\ \/ /\ deleted' = deleted \cup {ending.account}
          /\ published' = [published EXCEPT ![ending.account] = {}]
          /\ tokenOwner' = IF tokenOwner = ending.account THEN NoOne ELSE tokenOwner
          /\ legacy' = legacy \ {ending.account}
          /\ link' = Disconnect(link)
          /\ ending' = [ending EXCEPT !.step = "local"]
       \/ ending' = NoOne /\ UNCHANGED <<deleted, published, tokenOwner, legacy, link>>
    /\ UNCHANGED <<client, linkCalls, linkFaults, session, profile, handlers, secret, keys,
                   pushUserId, deviceToken, pushJobs, refused, clears>>

KeyDeleted ==
    /\ At("local")
    /\ secret' = [secret EXCEPT ![ending.account] = 0]
    /\ ending' = [ending EXCEPT !.step = "auth"]
    /\ UNCHANGED <<linkVars, session, profile, handlers, deleted, published, keys, pushVars>>

\* The end of the session disconnects once more, through the listener.
AuthEnded ==
    /\ At("auth")
    /\ client' = NoOne /\ session' = NoOne /\ profile' = NoOne
    /\ link' = Disconnect(link)
    /\ ending' = NoOne
    /\ UNCHANGED <<linkCalls, linkFaults, handlers, deleted, keyVars, pushVars>>

-----------------------------------------------------------------------------
AccountInit ==
    /\ LinkInit
    /\ session = NoOne /\ profile = NoOne /\ ending = NoOne /\ deleted = {}
    /\ handlers = [h \in Handlers |-> Idle]
    /\ secret = [a \in Accounts |-> 0] /\ published = [a \in Accounts |-> {}] /\ keys = 0
    /\ pushUserId = NoOne /\ deviceToken = FALSE /\ pushJobs = {}
    /\ tokenOwner = NoOne /\ legacy = {} /\ refused = FALSE /\ clears = {}

ConnectionStep == (LinkStep \/ Foreground) /\ UNCHANGED <<authVars, keyVars, pushVars>>

AccountNext ==
    \/ ConnectionStep
    \/ \E h \in Handlers :
        \/ ProfileRead(h) \/ KeyRead(h) \/ KeyWritten(h) \/ PublishSent(h) \/ Published(h) \/ Connects(h)
        \/ \E a \in Accounts : AuthEvent(h, a)
    \/ \E j \in pushJobs : PushPermission(j) \/ PushToken(j) \/ PushStored(j) \/ LegacyStored(j)
    \/ \E c \in clears : ClearedLate(c)
    \/ TokenRotates \/ TokenCleared \/ DeletionAnswered \/ KeyDeleted \/ AuthEnded
    \/ \E deletes \in BOOLEAN : End(deletes)

AccountSpec == AccountInit /\ [][AccountNext]_accountVars

-----------------------------------------------------------------------------
(* Properties                                                              *)

\* Every public key others may encrypt to has its secret on this phone, or
\* messages to it are lost for good: callers that all find no key on a first
\* run must end up with the same one (getOrCreateDeviceKeyPair).
PublishedKeysHeld == \A a \in Accounts : published[a] \subseteq {secret[a]}

\* When nothing is under way any more, the relay knows this phone as the
\* account that is signed in.
Settled == ending = NoOne /\ pushJobs = {} /\ \A h \in Handlers : handlers[h] = Idle
LinkFollowsSession ==
    Settled /\ session # NoOne /\ link.status = "connected" /\ ~link.socket.fell => link.socket.as = session

\* So does the push service, if the last registration to end was the last to
\* be sent, and was taken, however the handlers of earlier accounts were
\* delayed: the token is asked for when it is sent, not when it is needed.
PushFollowsSession ==
    Settled /\ session # NoOne /\ tokenOwner # NoOne /\ ~refused => tokenOwner = session

\* What fetchAndStoreToken's comment promises: the token moves to the account
\* that signed in if another used this phone before.
TokenMovesWithAccount == Settled /\ session # NoOne => tokenOwner \in {session, NoOne}

\* What signOut's comment promises: no session, no connection.
SignedOutDisconnected == session = NoOne => link.socket = NoOne /\ ~link.reconnectTimer

\* What the store's header promises: the profile is that of the session.
ProfileIsSession == Settled /\ session # NoOne => profile \in {session, NoOne}

\* What clearPushToken promises of an account that signed out.
SignedOutNoPushes == session = NoOne /\ Settled => tokenOwner = NoOne

\* What deleteAccount promises: nothing of the account stays on the phone.
DeletedLeavesNoKey == \A a \in deleted : ending = NoOne => secret[a] = 0

=============================================================================
