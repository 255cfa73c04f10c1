----------------------------- MODULE DeviceKeys -----------------------------
(***************************************************************************)
(* Which phone can read a message: publishPublicKey, the lookups and       *)
(* encryptForUser of lib/keystore.ts, encryptForKeys and decryptPayload of *)
(* lib/crypto.ts, and their use in chatStore.ts, for one message from a    *)
(* user to another.                                                        *)
(*                                                                         *)
(* Both may have several phones.  A phone keeps one key pair, a reinstalled *)
(* one makes a new pair, and no row of device_keys is ever taken back.  A  *)
(* box opens for the two keys it was made with and for no others; a key    *)
(* pair is a number.                                                       *)
(***************************************************************************)
EXTENDS Integers, SequencesExt

CONSTANTS
    WriterPhones, ReaderPhones,
    ActiveKeys,   \* MAX_ACTIVE_KEYS
    TargetKeys,   \* MAX_ENCRYPT_TARGET_KEYS
    Lookups,      \* the attempts of fetchActivePublicKeysWithRetry
    MaxPairs      \* bound: key pairs ever generated

ASSUME DeviceKeysAssumption ==
    /\ WriterPhones \cap ReaderPhones = {}
    /\ ActiveKeys \in Nat \ {0} /\ TargetKeys \in Nat \ {0}
    /\ Lookups \in Nat \ {0} /\ MaxPairs \in Nat

VARIABLES
    pair,        \* the key pair in each phone's secure store, 0 if there is none
    pairs,       \* key pairs generated
    deviceKeys,  \* device_keys: the published keys of each user, the newest first
    inserting,   \* publishPublicKey: per phone, the insertions tried so far, 0 if none is under way
    letter       \* the message: how far it is, and what has been made of it

deviceKeyVars == <<pair, pairs, deviceKeys, inserting, letter>>

Phones == WriterPhones \cup ReaderPhones
UserOf(p) == IF p \in WriterPhones THEN "writer" ELSE "reader"
Unwritten == [step |-> "none"]

DeviceKeysInit ==
    /\ pair = [p \in Phones |-> 0] /\ pairs = 0
    /\ deviceKeys = [u \in {"writer", "reader"} |-> <<>>]
    /\ inserting = [p \in Phones |-> 0]
    /\ letter = Unwritten

-----------------------------------------------------------------------------
(* Keys                                                                    *)

\* getOrCreateDeviceKeyPair
HasPair(p) ==
    \/ pair[p] # 0 /\ UNCHANGED <<pair, pairs>>
    \/ /\ pair[p] = 0 /\ pairs < MaxPairs
       /\ pairs' = pairs + 1
       /\ pair' = [pair EXCEPT ![p] = pairs + 1]

NewestKeys(keys, limit) == SubSeq(keys, 1, IF limit < Len(keys) THEN limit ELSE Len(keys))

\* fetchActivePublicKeys; no key on an error
FetchActivePublicKeys(u, limit, failed) == IF failed THEN <<>> ELSE NewestKeys(deviceKeys[u], limit)

\* ensureDeviceKeyPublished, on every auth event: no second row for a key on record
StartPublishing(p) ==
    /\ inserting[p] = 0
    /\ HasPair(p)
    /\ ~Contains(deviceKeys[UserOf(p)], pair'[p])
    /\ inserting' = [inserting EXCEPT ![p] = 1]
    /\ UNCHANGED <<deviceKeys, letter>>

Insert(p) ==
    /\ inserting[p] # 0
    /\ deviceKeys' = [deviceKeys EXCEPT ![UserOf(p)] = <<pair[p]>> \o @]
    /\ inserting' = [inserting EXCEPT ![p] = 0]
    /\ UNCHANGED <<pair, pairs, letter>>

\* One retry; then the app goes on without a published key.
InsertFails(p) ==
    /\ inserting[p] # 0
    /\ inserting' = [inserting EXCEPT ![p] = IF @ = 1 THEN 2 ELSE 0]
    /\ UNCHANGED <<pair, pairs, deviceKeys, letter>>

\* The app is reinstalled, or the secure store lost its entry.
LosePair(p) ==
    /\ pair[p] # 0
    /\ letter.step \in {"asking", "arrived", "read"} => letter.phone # p
    /\ pair' = [pair EXCEPT ![p] = 0]
    /\ inserting' = [inserting EXCEPT ![p] = 0]
    /\ UNCHANGED <<pairs, deviceKeys, letter>>

-----------------------------------------------------------------------------
(* The message                                                             *)

SendLetter(p) ==
    /\ letter = Unwritten
    /\ HasPair(p)
    /\ \E big \in BOOLEAN : letter' = [step |-> "asking", phone |-> p, from |-> pair'[p], big |-> big]
    /\ UNCHANGED <<deviceKeys, inserting>>

\* encryptForKeys: a box for the newest key, copies of a small message for the others
BadEncryptForKeys(keys, big) == [main |-> Last(keys), extras |-> IF big THEN {} ELSE ToSet(Front(keys))]
EncryptForKeys(keys, big) == [main |-> Head(keys), extras |-> IF big THEN {} ELSE ToSet(Tail(keys))]

\* encryptForUser; without a key the message fails with 'no_key'.
EncryptForUser(failed) ==
    LET keys == FetchActivePublicKeys("reader", TargetKeys, failed) IN
    /\ letter.step = "asking"
    /\ letter' = IF keys = <<>> THEN Unwritten
                 ELSE [step |-> "sent",
                       parcel |-> [from |-> letter.from, sender |-> letter.phone, big |-> letter.big,
                                   payload |-> EncryptForKeys(keys, letter.big), onRecord |-> deviceKeys["reader"]]]
    /\ UNCHANGED <<pair, pairs, deviceKeys, inserting>>

\* message:receive, on the phone the relay has registered
Arrives(p) ==
    /\ letter.step = "sent"
    /\ HasPair(p)
    /\ letter' = [step |-> "arrived", parcel |-> letter.parcel, phone |-> p, tries |-> 0]
    /\ UNCHANGED <<deviceKeys, inserting>>

\* decryptPayload: the copy addressed to this phone, then the main one, each
\* with the sender's keys; a box that was made with other keys does not open.
DecryptPayload(payload, from, senderKeys, me) ==
    \E to \in {payload.main} \cup (payload.extras \cap {me}) :
        \E k \in ToSet(senderKeys) : k = from /\ to = me

\* One attempt of fetchActivePublicKeysWithRetry, and what follows the last.
LookUpSender(failed) ==
    LET keys == FetchActivePublicKeys("writer", ActiveKeys, failed)
        parcel == letter.parcel
    IN
    /\ letter.step = "arrived"
    /\ letter' = IF keys = <<>> /\ letter.tries + 1 < Lookups
                 THEN [letter EXCEPT !.tries = @ + 1]
                 ELSE [step |-> "read", parcel |-> parcel, phone |-> letter.phone, tries |-> letter.tries,
                       text |-> DecryptPayload(parcel.payload, parcel.from, keys, pair[letter.phone]),
                       failed |-> failed, senders |-> deviceKeys["writer"],
                       racing |-> inserting[parcel.sender] # 0]
    /\ UNCHANGED <<pair, pairs, deviceKeys, inserting>>

DeviceKeysNext ==
    \/ \E p \in Phones : StartPublishing(p) \/ Insert(p) \/ InsertFails(p) \/ LosePair(p)
    \/ \E p \in WriterPhones : SendLetter(p)
    \/ \E p \in ReaderPhones : Arrives(p)
    \/ \E failed \in BOOLEAN : EncryptForUser(failed) \/ LookUpSender(failed)

DeviceKeysSpec == DeviceKeysInit /\ [][DeviceKeysNext]_deviceKeyVars

-----------------------------------------------------------------------------
(* Properties                                                              *)

\* A message is readable on a phone exactly if, when it was written, the key
\* of that phone was on record with few enough newer ones beside it (none at
\* all, if the message is big), and, when it is read, the same is true of the
\* writer's key.  Between the two, either user may publish keys on other
\* phones, reinstall, and fail to publish.
ReadByAddressed ==
    letter.step = "read" =>
        LET parcel == letter.parcel IN
        letter.text <=>
            /\ pair[letter.phone] \in ToSet(NewestKeys(parcel.onRecord, IF parcel.big THEN 1 ELSE TargetKeys))
            /\ ~letter.failed
            /\ parcel.from \in ToSet(NewestKeys(letter.senders, ActiveKeys))

\* chatStore.ts:319 Retries: a brand-new sender's publishPublicKey() write can
\* still be in flight (...) each attempt here is a genuine fresh query.  There
\* is no second attempt if the sender has an older phone.
DocRaceRetried ==
    letter.step = "read" /\ ~letter.text /\ letter.racing => letter.tries + 1 = Lookups
=============================================================================
