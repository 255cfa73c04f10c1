----------------------------- MODULE ChatScreen -----------------------------
(***************************************************************************)
(* The 1:1 chat screen, app/app/chat/[id].tsx, behind the lock: its        *)
(* composer, its menus, the pickers and the voice recorder of lib/media.ts.*)
(*                                                                         *)
(* Everything the screen keeps is lost when it goes, and locking the app   *)
(* takes it away like leaving it does.  What it has asked of the phone     *)
(* goes on, and answers to a screen that may be another one by then.  A    *)
(* recorder is released with its screen, and whatever is asked of it then  *)
(* fails.  Texts are told apart only by where they come from.              *)
(***************************************************************************)
EXTENDS AppLock, FiniteSets

CONSTANTS Jobs,      \* bound: calls of the phone's camera, recorder or location under way
          MaxTaps,   \* bound: what the user does on the screen
          MaxVisits  \* bound: how often the screen is opened

ASSUME ChatScreenAssumption == MaxTaps \in Nat /\ MaxVisits \in Nat

VARIABLES
    visit,       \* which mount of the screen this is, 0 while it is not there
    visits, taps,
    accepted,    \* sessionState = 'accepted' and no request of theirs waits
    composer,    \* the draft and where it comes from, the message edited, the one replied to
    message,     \* one message of mine in the thread
    menu,        \* the alert shown
    photo,       \* pendingPhoto
    recording,
    audio,       \* the phone's audio session is in record mode
    unrestored,  \* history: the last attempt to end record mode was refused by the phone
    jobs,        \* the calls under way
    sent         \* the last thing handed to sendText, sendRich or editMessage

soundVars == <<audio, unrestored>>
chatScreen == <<composer, menu, photo, recording>>
chatScreenVars == <<lockVars, visit, visits, taps, accepted, composer, message, menu, photo,
                recording, audio, unrestored, jobs, sent>>

EmptyComposer == [draft |-> "empty", editing |-> FALSE, replying |-> FALSE]
Idle == [does |-> "nothing"]
Job(does, stage) == [does |-> does, stage |-> stage, for |-> visit]
Nothing == [is |-> "nothing", from |-> "nothing"]

ChatScreenInit ==
    /\ LockInit
    /\ visit = 0 /\ visits = 0 /\ taps = 0
    /\ accepted \in BOOLEAN
    /\ composer = EmptyComposer /\ message = "there"
    /\ menu = "none" /\ photo = FALSE /\ recording = FALSE /\ audio = FALSE /\ unrestored = FALSE
    /\ jobs = [j \in Jobs |-> Idle]
    /\ sent = Nothing

-----------------------------------------------------------------------------
(* Coming and going                                                        *)

Start(j, job) == jobs[j] = Idle /\ jobs' = [jobs EXCEPT ![j] = job]
Finish(j) == jobs' = [jobs EXCEPT ![j] = Idle]

Tap == visit > 0 /\ Content /\ front /\ taps < MaxTaps /\ taps' = taps + 1

OpenScreen ==
    /\ visit = 0 /\ Content /\ front /\ visits < MaxVisits
    /\ visits' = visits + 1 /\ visit' = visits + 1
    /\ UNCHANGED <<lockVars, taps, accepted, chatScreen, message, soundVars, jobs, sent>>

\* The unmount effect: a recording that was shown is aborted.
BadUnmounts(j) == UNCHANGED jobs
Unmounts(j) == IF recording THEN Start(j, Job("abort", "restore")) ELSE UNCHANGED jobs

Unmount(j) ==
    /\ visit > 0 /\ visit' = 0
    /\ composer' = EmptyComposer /\ photo' = FALSE /\ recording' = FALSE
    /\ Unmounts(j)

CloseScreen(j) ==
    /\ Tap /\ Unmount(j) /\ menu' = "none"
    /\ UNCHANGED <<lockVars, visits, accepted, message, soundVars, sent>>

\* The gate, as module AppLock has it; when it locks the screen is unmounted.
LockStep(j) ==
    /\ LockNext
    /\ IF visit > 0 /\ ~Content' THEN Unmount(j) ELSE UNCHANGED <<visit, composer, photo, recording, jobs>>
    /\ UNCHANGED <<visits, taps, accepted, message, menu, soundVars, sent>>

\* The relay and the other person, modules ChatSessions and Messages.
SessionChanges ==
    /\ accepted' = ~accepted
    /\ UNCHANGED <<lockVars, visit, visits, taps, chatScreen, message, soundVars, jobs, sent>>

-----------------------------------------------------------------------------
(* The composer                                                            *)

\* The text field is editable while the session is accepted and nothing is recorded.
OnChangeDraft(t) ==
    /\ Tap /\ accepted /\ ~recording
    /\ t \in {"empty", IF composer.draft = "empty" THEN "typed" ELSE composer.draft}
    /\ composer' = [composer EXCEPT !.draft = t]
    /\ UNCHANGED <<lockVars, visit, visits, accepted, message, menu, photo, recording, soundVars, jobs, sent>>

OnSend ==
    /\ Tap /\ accepted /\ composer.draft # "empty"
    /\ sent' = [is |-> IF composer.editing THEN "edit" ELSE "text", from |-> composer.draft]
    /\ message' = IF composer.editing THEN "there" ELSE message
    /\ composer' = EmptyComposer
    /\ UNCHANGED <<lockVars, visit, visits, accepted, menu, photo, recording, soundVars, jobs>>

\* The banner's Cancel
BadCancelled(c) == [c EXCEPT !.editing = FALSE, !.replying = FALSE]
Cancelled(c) == EmptyComposer

OnCancel ==
    /\ Tap /\ (composer.editing \/ composer.replying)
    /\ composer' = Cancelled(composer)
    /\ UNCHANGED <<lockVars, visit, visits, accepted, message, menu, photo, recording, soundVars, jobs, sent>>

\* onLongPressMessage: Reply, Edit of a text of mine, and the two deletions,
\* of which one asks again
OnLongPress(choice) ==
    /\ Tap
    /\ choice = "edit" => message = "there"
    /\ composer' = CASE choice = "edit"  -> [composer EXCEPT !.draft = "copy", !.editing = TRUE]
                     [] choice = "reply" -> [composer EXCEPT !.replying = TRUE]
                     [] OTHER            -> composer
    /\ message' = IF choice = "delete" THEN "deleted" ELSE message
    /\ UNCHANGED <<lockVars, visit, visits, accepted, menu, photo, recording, soundVars, jobs, sent>>

-----------------------------------------------------------------------------
(* The attach menu                                                         *)

OnAttach ==
    /\ Tap /\ accepted /\ menu = "none" /\ menu' = "share"
    /\ UNCHANGED <<lockVars, visit, visits, accepted, composer, message, photo, recording, soundVars, jobs, sent>>

\* A button of the alert: it is dismissed, then the button's own handler runs.
\* The alert is outside the screen and stays when the session ends.
OnPressButton(j, choice) ==
    /\ Tap /\ menu # "none"
    /\ menu' = IF menu = "share" /\ choice = "camera" THEN "camera" ELSE "none"
    /\ IF choice \in {"photo", "video", "location"}
         THEN Start(j, Job(choice, "picking")) ELSE UNCHANGED jobs
    /\ sent' = IF choice \in {"sticker", "poll"} THEN [is |-> "rich", from |-> choice] ELSE sent
    /\ UNCHANGED <<lockVars, visit, visits, accepted, composer, message, photo, recording, soundVars>>

\* pickImageBase64, to the preview of the screen that asked, if it is still there
PickImage(j) ==
    /\ jobs[j].does = "photo" /\ Finish(j)
    /\ \E picked \in BOOLEAN : photo' = (photo \/ (picked /\ visit = jobs[j].for))
    /\ UNCHANGED <<lockVars, visit, visits, taps, accepted, composer, message, menu, recording, soundVars, sent>>

\* pickVideoBase64: picked, trimmed and small enough after at most two
\* compressions, or nothing
PickVideo(j) ==
    /\ jobs[j].does = "video" /\ Finish(j)
    /\ sent' \in {sent, [is |-> "rich", from |-> "video"]}
    /\ UNCHANGED <<lockVars, visit, visits, taps, accepted, chatScreen, message, soundVars>>

GetLocation(j) ==
    /\ jobs[j].does = "location" /\ Finish(j)
    /\ sent' \in {sent, [is |-> "rich", from |-> "location"]}
    /\ UNCHANGED <<lockVars, visit, visits, taps, accepted, chatScreen, message, soundVars>>

\* The preview's Send and Cancel
OnPreview(send) ==
    /\ Tap /\ photo /\ photo' = FALSE
    /\ sent' = IF send THEN [is |-> "rich", from |-> "photo"] ELSE sent
    /\ UNCHANGED <<lockVars, visit, visits, accepted, composer, message, menu, recording, soundVars, jobs>>

-----------------------------------------------------------------------------
(* Voice messages                                                          *)

\* The button is the microphone while there is no draft.
OnMic(j) ==
    /\ Tap /\ accepted /\ composer.draft = "empty"
    /\ Start(j, IF recording THEN Job("stop", "restore") ELSE Job("start", "permission"))
    /\ recording' = FALSE
    /\ UNCHANGED <<lockVars, visit, visits, accepted, composer, message, menu, photo, soundVars, sent>>

\* startVoiceRecording: the permission, then record mode, then the recorder
Permission(j) ==
    /\ jobs[j].does = "start" /\ jobs[j].stage = "permission"
    /\ \/ jobs' = [jobs EXCEPT ![j].stage = "mode"]
       \/ Finish(j)
    /\ UNCHANGED <<lockVars, visit, visits, taps, accepted, chatScreen, message, soundVars, sent>>

\* setAudioModeAsync rejects, and the start has failed; or it is record mode.
RecordMode(j) ==
    /\ jobs[j].does = "start" /\ jobs[j].stage = "mode"
    /\ \/ jobs' = [jobs EXCEPT ![j].stage = "prepare"] /\ audio' = TRUE
       \/ Finish(j) /\ UNCHANGED audio
    /\ UNCHANGED <<lockVars, visit, visits, taps, accepted, chatScreen, message, unrestored, sent>>

\* A recorder that is gone, or that records already, cannot start.
Record(j) ==
    LET runs == visit = jobs[j].for /\ ~recording IN
    /\ jobs[j].does = "start" /\ jobs[j].stage = "prepare"
    /\ \/ runs /\ recording' = TRUE /\ Finish(j)
       \/ jobs' = [jobs EXCEPT ![j].stage = "restore"] /\ UNCHANGED recording
    /\ UNCHANGED <<lockVars, visit, visits, taps, accepted, composer, message, menu, photo, soundVars, sent>>

\* endRecordingAudioMode, after a failed start, an abort, or a stop, which sends;
\* that the phone refuses it is logged only
BadRestored(j) == jobs[j].does = "start"
Restored(j) == FALSE

RestoreMode(j) ==
    /\ jobs[j].does \in {"start", "stop", "abort"} /\ jobs[j].stage = "restore"
    /\ Finish(j)
    /\ \/ audio' = Restored(j) /\ unrestored' = FALSE
       \/ unrestored' = TRUE /\ UNCHANGED audio
    /\ sent' \in {sent} \cup IF jobs[j].does = "stop" THEN {[is |-> "rich", from |-> "voice"]} ELSE {}
    /\ UNCHANGED <<lockVars, visit, visits, taps, accepted, chatScreen, message>>

ChatScreenNext ==
    \/ OpenScreen \/ SessionChanges \/ OnSend \/ OnCancel \/ OnAttach
    \/ \E t \in {"empty", "typed", "copy"} : OnChangeDraft(t)
    \/ \E c \in {"edit", "reply", "delete"} : OnLongPress(c)
    \/ \E s \in BOOLEAN : OnPreview(s)
    \/ \E j \in Jobs :
          \/ CloseScreen(j) \/ LockStep(j) \/ OnMic(j)
          \/ Permission(j) \/ RecordMode(j) \/ Record(j) \/ RestoreMode(j)
          \/ PickImage(j) \/ PickVideo(j) \/ GetLocation(j)
          \/ \E c \in {"camera", "photo", "video", "location", "sticker", "poll", "cancel"} : OnPressButton(j, c)

ChatScreenSpec == ChatScreenInit /\ [][ChatScreenNext]_chatScreenVars
-----------------------------------------------------------------------------
\* The phone is not left in record mode: once nothing is under way, it is in
\* record mode only for a recording that the screen shows, whoever left, came
\* back, locked the app or tapped again meanwhile (the unmount effect and
\* endRecordingAudioMode), unless the phone refused the last time it was asked.
RecordModeEnds ==
    (\A j \in Jobs : jobs[j] = Idle) /\ audio /\ ~unrestored => visit > 0 /\ recording

\* The text of a message that was taken for editing is never sent as a new one
\* (onSend, the banner's Cancel and the long-press menu between them).
EditStaysEdit == sent.from = "copy" => sent.is = "edit"

\* chatStore.ts, deleteForEveryone and deleteLocal leave a tombstone; an edit brings the text back
DeletedStaysDeleted == [][message = "deleted" => message' = "deleted"]_message

\* media.ts:456 abortVoiceRecording "always restores playback mode"
PlaybackRestored == (\A j \in Jobs : jobs[j] = Idle) /\ audio => visit > 0 /\ recording

\* chat/[id].tsx:105-108 a recording that is shown is being made
ShownIsRecorded == (\A j \in Jobs : jobs[j] = Idle) /\ recording => audio
=============================================================================
