------------------------------- MODULE LocalDb -------------------------------
(***************************************************************************)
(* The encrypted database of one account on one phone: getDb, openAndInitDb *)
(* and deleteLocalAccountData of app/src/lib/localDb.ts.                   *)
(*                                                                         *)
(* The key is in the phone's secure store, the file in the app's folder,   *)
(* and nothing ties the two together: a restored backup or a lost keystore *)
(* entry leaves a file the key does not open.  That is noticed only when   *)
(* the file is first read.  Any call may fail; the app may be killed.      *)
(***************************************************************************)
EXTENDS Integers, FiniteSets

CONSTANTS
    MaxCallers,   \* bound: openings under way at once
    MaxKeys,      \* bound: keys generated
    MaxMishaps    \* bound: failed calls, kills, backups restored, keys lost

ASSUME LocalDbAssumption == MaxCallers \in Nat /\ MaxKeys \in Nat /\ MaxMishaps \in Nat

VARIABLES
    stored,      \* the secure store: the key kept, NoKey if none
    file,        \* the key the file was written with, NoKey if it is not there or empty; has it a history
    keys,        \* how many keys have been generated
    opens,       \* openAndInitDb calls under way
    pendingOpen, \* pendingOpens: the call other callers wait for, 0 if none
    calls,       \* how many openAndInitDb calls there have been
    handle,      \* dbCache: the key of the open database, NoKey if none is cached
    erasing,     \* deleteLocalAccountData: how far it is
    awaited,     \* and the openAndInitDb call it waits for
    apart,       \* history: something outside the app has put the key and the file apart
    mishaps

dbVars == <<stored, file, keys, opens, pendingOpen, calls, handle, erasing, awaited, apart, mishaps>>

NoKey == 0
NoFile == [key |-> NoKey, history |-> FALSE]

LocalDbInit ==
    /\ stored = NoKey /\ file = NoFile /\ keys = 0
    /\ opens = {} /\ pendingOpen = 0 /\ calls = 0 /\ handle = NoKey
    /\ erasing = "no" /\ awaited = 0 /\ apart = FALSE /\ mishaps = 0

Works == UNCHANGED mishaps
Mishap == mishaps < MaxMishaps /\ mishaps' = mishaps + 1

Follows(o, step) == opens' = (opens \ {o}) \cup {[o EXCEPT !.step = step]}

\* The promise of call o is settled: the database is cached, or nothing is.
Settle(o, key) ==
    /\ opens' = opens \ {o}
    /\ handle' = IF key # NoKey THEN key ELSE handle
    /\ pendingOpen' = 0
-----------------------------------------------------------------------------
\* Every use of the database begins here; a call that finds it open, or being
\* opened, adds nothing.  A Bad... operator is the same operator with a mistake
\* in it, and no action uses it.
BadMustOpen == handle = NoKey
MustOpen == handle = NoKey /\ pendingOpen = 0

GetDb ==
    /\ MustOpen /\ erasing # "erased"
    /\ Cardinality(opens) < MaxCallers
    /\ calls' = calls + 1 /\ pendingOpen' = calls + 1
    /\ opens' = opens \cup {[call |-> calls + 1, step |-> "key", key |-> NoKey, again |-> FALSE]}
    /\ Works
    /\ UNCHANGED <<stored, file, keys, handle, erasing, awaited, apart>>

\* getDbKeyHex: the stored key, or a new one
ReadKey(o) ==
    /\ o \in opens /\ o.step = "key"
    /\ IF stored # NoKey
       THEN opens' = (opens \ {o}) \cup {[o EXCEPT !.step = "schema", !.key = stored]} /\ UNCHANGED keys
       ELSE /\ keys < MaxKeys /\ keys' = keys + 1
            /\ opens' = (opens \ {o}) \cup {[o EXCEPT !.step = "keep", !.key = keys + 1]}
    /\ Works
    /\ UNCHANGED <<stored, file, pendingOpen, calls, handle, erasing, awaited, apart>>

KeepKey(o) ==
    /\ o \in opens /\ o.step = "keep"
    /\ stored' = o.key /\ Follows(o, "schema") /\ Works
    /\ UNCHANGED <<file, keys, pendingOpen, calls, handle, erasing, awaited, apart>>

\* The schema is the first thing read: an empty file takes the key, another
\* key does not open it.
Opens(o) == file.key \in {NoKey, o.key}

SchemaApplied(o) ==
    /\ o \in opens /\ o.step = "schema" /\ Opens(o)
    /\ file' = [file EXCEPT !.key = o.key]
    /\ Settle(o, o.key) /\ Works
    /\ UNCHANGED <<stored, keys, calls, erasing, awaited, apart>>

\* What counts as "the key and the file do not belong together"
BadIsWrongKeyError(o) == TRUE
IsWrongKeyError(o) == ~Opens(o)

\* The statement fails, because of the key or for another reason.  Only a wrong
\* key resets the file, and only once.
SchemaFails(o) ==
    /\ o \in opens /\ o.step = "schema"
    /\ IF Opens(o) THEN Mishap ELSE Works
    /\ IF IsWrongKeyError(o) /\ ~o.again
       THEN Follows(o, "reset") /\ UNCHANGED <<handle, pendingOpen>>
       ELSE Settle(o, NoKey)
    /\ UNCHANGED <<stored, file, keys, calls, erasing, awaited, apart>>

\* deleteDatabaseAsync, whose failure is swallowed
ResetFile(o) ==
    /\ o \in opens /\ o.step = "reset"
    /\ opens' = (opens \ {o}) \cup {[o EXCEPT !.step = "key", !.again = TRUE]}
    /\ \/ file' = NoFile /\ Works
       \/ UNCHANGED file /\ Mishap
    /\ UNCHANGED <<stored, keys, pendingOpen, calls, handle, erasing, awaited, apart>>

\* The secure store or the opening itself fails.
CallFails(o) ==
    /\ o \in opens /\ o.step \in {"key", "keep"}
    /\ stored' \in {stored} \cup (IF o.step = "keep" THEN {o.key} ELSE {})
    /\ Settle(o, NoKey) /\ Mishap
    /\ UNCHANGED <<file, keys, calls, erasing, awaited, apart>>

\* saveMessage, saveCallLogEntry and the like, with the database in the cache
Save ==
    /\ handle # NoKey /\ handle = file.key /\ ~file.history
    /\ file' = [file EXCEPT !.history = TRUE] /\ Works
    /\ UNCHANGED <<stored, keys, opens, pendingOpen, calls, handle, erasing, awaited, apart>>
-----------------------------------------------------------------------------
\* deleteLocalAccountData, once the server has deleted the account: wait for an
\* opening under way, close, delete the file, delete the key.
StartErasing ==
    /\ erasing = "no" /\ erasing' = "waiting" /\ Works
    /\ awaited' = IF handle = NoKey THEN pendingOpen ELSE 0
    /\ UNCHANGED <<stored, file, keys, opens, pendingOpen, calls, handle, apart>>

CloseDb ==
    /\ erasing = "waiting" /\ \A o \in opens : o.call # awaited
    /\ erasing' = "file" /\ handle' = NoKey /\ pendingOpen' = 0 /\ Works
    /\ UNCHANGED <<stored, file, keys, opens, calls, awaited, apart>>

EraseFile ==
    /\ erasing = "file" /\ erasing' = "key"
    /\ \/ file' = NoFile /\ Works
       \/ UNCHANGED file /\ Mishap
    /\ UNCHANGED <<stored, keys, opens, pendingOpen, calls, handle, awaited, apart>>

EraseKey ==
    /\ erasing = "key" /\ erasing' = "erased"
    /\ \/ stored' = NoKey /\ Works
       \/ UNCHANGED stored /\ Mishap
    /\ UNCHANGED <<file, keys, opens, pendingOpen, calls, handle, awaited, apart>>
-----------------------------------------------------------------------------
\* The app is killed.  Before it starts again the phone may have lost the key,
\* or have been restored from a backup of the file.
KillApp ==
    /\ Mishap
    /\ opens' = {} /\ pendingOpen' = 0 /\ handle' = NoKey
    /\ UNCHANGED <<stored, file, keys, calls, erasing, awaited, apart>>

KeyLost ==
    /\ handle = NoKey /\ opens = {} /\ stored # NoKey
    /\ stored' = NoKey /\ apart' = TRUE /\ Mishap
    /\ UNCHANGED <<file, keys, opens, pendingOpen, calls, handle, erasing, awaited>>

\* a file of an earlier installation, whose key is gone
BackupRestored ==
    /\ handle = NoKey /\ opens = {}
    /\ file' = [key |-> MaxKeys + 1, history |-> TRUE] /\ apart' = TRUE /\ Mishap
    /\ UNCHANGED <<stored, keys, opens, pendingOpen, calls, handle, erasing, awaited>>

LocalDbNext ==
    \/ GetDb \/ Save \/ StartErasing \/ CloseDb \/ EraseFile \/ EraseKey
    \/ KillApp \/ KeyLost \/ BackupRestored
    \/ \E o \in opens :
          ReadKey(o) \/ KeepKey(o) \/ SchemaApplied(o) \/ SchemaFails(o) \/ ResetFile(o) \/ CallFails(o)

LocalDbSpec == LocalDbInit /\ [][LocalDbNext]_dbVars
-----------------------------------------------------------------------------
\* As long as nothing outside the app puts them apart, the key that is kept
\* opens the file that holds a history: no two openings, no failure and no kill
\* leave a history behind a key nobody has (getDb, pendingOpens).
KeyOpensHistory == file.history /\ ~apart /\ erasing = "no" => stored = file.key

\* A history is thrown away only when the kept key does not open it, or with
\* its account: a full disk or a locked database never costs it (isWrongKeyError).
HistoryKept == [][file.history /\ ~file'.history => stored # file.key \/ erasing # "no"]_file
=============================================================================
