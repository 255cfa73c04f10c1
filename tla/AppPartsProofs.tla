--------------------------- MODULE AppPartsProofs ---------------------------
(***************************************************************************)
(* Proofs about smaller parts of the app that share no state: the lock     *)
(* (AppLock), the recorder (ChatScreen), the video picker (VideoPick), the *)
(* tap that started the app (TapRouting), the local database (LocalDb),    *)
(* the keys (DeviceKeys), the sign-up (Signup), a group as its members     *)
(* show it (GroupChat), the screens of a call (CallScreens) and how much   *)
(* of a chat is in memory (HistoryPages). They are theorems of each part's *)
(* own specification.                                                      *)
(***************************************************************************)
EXTENDS ChatScreen, VideoPick, TapRouting, LocalDb, DeviceKeys, Signup, GroupChat,
        CallScreens, HistoryPages, FoldTheorems, SequenceTheorems, FiniteSetTheorems, TLAPS

-----------------------------------------------------------------------------
(* The lock vouches for whoever sees the content, for any number of        *)
(* switches between front and background and of changes of the setting.    *)
(* ContentVouched is not inductive: it says nothing of an unlocked gate    *)
(* behind the background, and nothing of the time before the settings are  *)
(* read, when the setting that will apply is not known to the gate yet.    *)

LockTypeOK ==
    /\ saved \in BOOLEAN /\ loaded \in BOOLEAN /\ mounted \in BOOLEAN /\ unlocked \in BOOLEAN
    /\ front \in BOOLEAN /\ due \in BOOLEAN /\ vouched \in BOOLEAN
    /\ asking \in {"no", "checking", "prompt"}

\* Until the settings are read the gate neither opens nor asks.
ClosedUntilLoaded == ~loaded => ~unlocked /\ asking = "no"

\* A gate that is open although the lock is on was opened by its user.
OpenedByUser == saved /\ unlocked => vouched

LockInv == LockTypeOK /\ ClosedUntilLoaded /\ OpenedByUser

\* LockInv holds at the start: the gate is rendered locked.
LEMMA LockInvInit == LockInit => LockInv
  BY DEF LockInit, LockInv, LockTypeOK, ClosedUntilLoaded, OpenedByUser

\* What the effect on [loaded, enabled] does: it opens the gate only when the
\* settings are read and the lock is off, and starts to ask only when they are read.
LEMMA EffectOfSettings ==
  ASSUME LockTypeOK, NEW l \in BOOLEAN, NEW e \in BOOLEAN, SettingsEffect(l, e)
  PROVE  /\ unlocked' \in BOOLEAN
         /\ asking' \in {"no", "checking", "prompt"}
         /\ unlocked' => unlocked \/ (l /\ ~e)
         /\ ~l => unlocked' = unlocked /\ asking' = asking
  <1>1. CASE StartsUnlocked(l, e)
    BY <1>1 DEF SettingsEffect, StartsUnlocked, LockTypeOK
  <1>2. CASE ~StartsUnlocked(l, e) /\ l /\ ~unlocked
    BY <1>2 DEF SettingsEffect, StartsUnlocked, TryUnlock, LockTypeOK
  <1>3. CASE ~StartsUnlocked(l, e) /\ ~(l /\ ~unlocked)
    BY <1>3 DEF SettingsEffect, StartsUnlocked, LockTypeOK
  <1>4. QED
    BY <1>1, <1>2, <1>3

\* Every step of the gate, of the prompt, of the settings and of the app's
\* coming and going keeps LockInv.
LEMMA LockInvStep == LockInv /\ [LockNext]_lockVars => LockInv'
  <1> SUFFICES ASSUME LockInv, [LockNext]_lockVars PROVE LockInv'
    OBVIOUS
  <1> USE DEF LockInv, LockTypeOK, ClosedUntilLoaded, OpenedByUser
  <1>1. CASE Mount
    <2>1. /\ unlocked' \in BOOLEAN
          /\ asking' \in {"no", "checking", "prompt"}
          /\ unlocked' => unlocked \/ (loaded /\ ~Enabled)
          /\ ~loaded => unlocked' = unlocked /\ asking' = asking
      BY <1>1, EffectOfSettings DEF Mount, Enabled
    <2>2. QED
      BY <1>1, <2>1 DEF Mount, Enabled
  <1>2. CASE Hydrate
    <2>1. CASE mounted
      <3>1. /\ unlocked' \in BOOLEAN
            /\ asking' \in {"no", "checking", "prompt"}
            /\ unlocked' => unlocked \/ ~saved
        BY <1>2, <2>1, EffectOfSettings DEF Hydrate
      <3>2. QED
        BY <1>2, <3>1 DEF Hydrate
    <2>2. CASE ~mounted
      BY <1>2, <2>2 DEF Hydrate
    <2>3. QED
      BY <2>1, <2>2
  <1>3. CASE Check
    <2>1. CASE asking' = "prompt" /\ UNCHANGED <<unlocked, vouched>>
      BY <1>3, <2>1, Zenon DEF Check
    <2>2. CASE asking' = "no" /\ unlocked' = TRUE /\ vouched' = TRUE
      BY <1>3, <2>2, Zenon DEF Check
    <2>3. QED
      BY <1>3, <2>1, <2>2 DEF Check
  <1>4. CASE Authenticate
    <2>1. CASE unlocked' = TRUE /\ vouched' = TRUE
      BY <1>4, <2>1, Zenon DEF Authenticate
    <2>2. CASE UNCHANGED <<unlocked, vouched>>
      BY <1>4, <2>2, Zenon DEF Authenticate
    <2>3. QED
      BY <1>4, <2>1, <2>2 DEF Authenticate
  <1>5. CASE GoToBackground
    BY <1>5 DEF GoToBackground, Switch, ShouldLock, Enabled
  <1>6. CASE ComeBack
    BY <1>6 DEF ComeBack, Enabled
  <1>7. CASE ReturnTimer
    BY <1>7 DEF ReturnTimer, TryUnlock, Enabled
  <1>8. CASE UnlockButton
    BY <1>8 DEF UnlockButton, TryUnlock
  <1>9. CASE ToggleLock
    <2>1. /\ unlocked' \in BOOLEAN
          /\ asking' \in {"no", "checking", "prompt"}
      BY <1>9, EffectOfSettings DEF ToggleLock
    <2>2. QED
      BY <1>9, <2>1 DEF ToggleLock, Switch, Content
  <1>10. CASE UNCHANGED lockVars
    BY <1>10 DEF lockVars
  <1>11. QED
    BY <1>1, <1>2, <1>3, <1>4, <1>5, <1>6, <1>7, <1>8, <1>9, <1>10 DEF LockNext

\* With the lock on, the content in front is shown only to one who has unlocked
\* it since it was last left (AppLockGate's effects and AppState listener).
THEOREM Vouched == LockSpec => []ContentVouched
  <1>1. LockInv => ContentVouched
    BY DEF LockInv, OpenedByUser, ContentVouched, Content, Enabled
  <1>2. QED
    BY <1>1, LockInvInit, LockInvStep, PTL DEF LockSpec

-----------------------------------------------------------------------------
(* The recorder. RecordModeEnds speaks of a phone with no call under way;  *)
(* what keeps it is that record mode belongs to a recording that is shown  *)
(* or to a call that has still to restore it, or the phone has refused.    *)

\* A call under way, for a mount of the screen; mounts are numbered from 1.
RecorderCalls == [does : {"start", "stop", "abort", "photo", "video", "location", "camera"},
          stage : {"permission", "mode", "prepare", "restore", "picking"}, for : Nat \ {0}]

\* The calls that have the phone in record mode and will restore it.
Holds(job) ==
    \/ job.does = "start" /\ job.stage \in {"prepare", "restore"}
    \/ job.does \in {"stop", "abort"} /\ job.stage = "restore"

RecordInv ==
    /\ visit \in Nat /\ visits \in Nat
    /\ DOMAIN jobs = Jobs
    /\ \A j \in Jobs : jobs[j] = Idle \/ jobs[j] \in RecorderCalls
    /\ recording => visit > 0
    /\ audio /\ ~unrestored => recording \/ \E j \in Jobs : Holds(jobs[j])

\* The invariant holds at the start.
LEMMA RecordInvInit == ChatScreenInit => RecordInv
  BY DEF ChatScreenInit, RecordInv

\* A call just begun is one of the screen that is there.
LEMMA JobBegun ==
  ASSUME NEW does \in {"start", "stop", "abort", "photo", "video", "location", "camera"},
         NEW step \in {"permission", "mode", "prepare", "restore", "picking"},
         visit \in Nat, visit > 0
  PROVE  /\ Job(does, step) \in RecorderCalls /\ Job(does, step) # Idle
         /\ Job(does, step).does = does /\ Job(does, step).stage = step
  BY DEF Job, RecorderCalls, Idle

\* A call that goes on to another stage stays the call of its mount.
LEMMA JobGoesOn ==
  ASSUME NEW job \in RecorderCalls, NEW step \in {"permission", "mode", "prepare", "restore", "picking"}
  PROVE  /\ [job EXCEPT !.stage = step] \in RecorderCalls
         /\ [job EXCEPT !.stage = step].does = job.does
         /\ [job EXCEPT !.stage = step].stage = step
  BY DEF RecorderCalls

\* What a step does to the calls: one of them at most begins, goes on or ends.
JobBecomes(j, job) == jobs' = [jobs EXCEPT ![j] = job]

LEMMA IdleHolds == ~Holds(Idle) /\ Idle.does = "nothing"
  BY DEF Holds, Idle

LEMMA IdleNotCall == Idle \notin RecorderCalls
  BY DEF Idle, RecorderCalls

LEMMA JobChange ==
  ASSUME RecordInv, NEW j \in Jobs, NEW job, job = Idle \/ job \in RecorderCalls, JobBecomes(j, job)
  PROVE  /\ DOMAIN jobs' = Jobs
         /\ \A i \in Jobs : jobs'[i] = Idle \/ jobs'[i] \in RecorderCalls
         /\ jobs'[j] = job /\ \A i \in Jobs \ {j} : jobs'[i] = jobs[i]
         /\ (\E i \in Jobs : Holds(jobs[i])) => Holds(jobs[j]) \/ \E i \in Jobs : Holds(jobs'[i])
         /\ Holds(job) => \E i \in Jobs : Holds(jobs'[i])
  <1> HIDE DEF Holds
  <1>1. /\ DOMAIN jobs' = Jobs
        /\ jobs'[j] = job /\ \A i \in Jobs \ {j} : jobs'[i] = jobs[i]
    BY DEF RecordInv, JobBecomes
  <1>2. \A i \in Jobs : jobs'[i] = Idle \/ jobs'[i] \in RecorderCalls
    BY <1>1 DEF RecordInv
  <1>3. (\E i \in Jobs : Holds(jobs[i])) => Holds(jobs[j]) \/ \E i \in Jobs : Holds(jobs'[i])
    BY <1>1
  <1>4. QED
    BY <1>1, <1>2, <1>3

\* The screen goes: a recording it shows is aborted, and the abort restores the mode.
LEMMA UnmountKeeps ==
  ASSUME RecordInv, NEW j \in Jobs, Unmount(j), UNCHANGED <<visits, soundVars>>
  PROVE  RecordInv'
  <1>1. CASE recording
    <2>1. JobBecomes(j, Job("abort", "restore")) /\ jobs[j] = Idle
      BY <1>1 DEF Unmount, Unmounts, Start, JobBecomes
    <2>2. Job("abort", "restore") \in RecorderCalls /\ Holds(Job("abort", "restore"))
      BY <1>1, JobBegun DEF RecordInv, Holds
    <2>3. QED
      BY <2>1, <2>2, JobChange DEF Unmount, RecordInv, soundVars
  <1>2. CASE ~recording
    BY <1>2 DEF Unmount, Unmounts, RecordInv, soundVars
  <1>3. QED
    BY <1>1, <1>2

\* A step that leaves recording, mode and visit alone, and no holding call behind.
LEMMA OtherCall ==
  ASSUME RecordInv, NEW j \in Jobs, NEW job, job = Idle \/ job \in RecorderCalls, JobBecomes(j, job),
         Holds(jobs[j]) => Holds(job),
         UNCHANGED <<visit, visits, recording, soundVars>>
  PROVE  RecordInv'
  BY JobChange DEF RecordInv, soundVars

LEMMA Untouched ==
  ASSUME RecordInv, UNCHANGED <<visit, visits, recording, soundVars, jobs>> PROVE RecordInv'
  BY DEF RecordInv, soundVars

LEMMA RecordInvStep == RecordInv /\ [ChatScreenNext]_chatScreenVars => RecordInv'
  <1> SUFFICES ASSUME RecordInv, [ChatScreenNext]_chatScreenVars PROVE RecordInv'
    OBVIOUS
  <1>1. CASE OpenScreen
    BY <1>1 DEF OpenScreen, RecordInv, chatScreen, soundVars
  <1>2. CASE SessionChanges \/ OnSend \/ OnCancel \/ OnAttach
    BY <1>2, Untouched DEF SessionChanges, OnSend, OnCancel, OnAttach, chatScreen
  <1>3. ASSUME NEW t \in {"empty", "typed", "copy"}, OnChangeDraft(t) PROVE RecordInv'
    BY <1>3, Untouched DEF OnChangeDraft
  <1>4. ASSUME NEW c \in {"edit", "reply", "delete"}, OnLongPress(c) PROVE RecordInv'
    BY <1>4, Untouched DEF OnLongPress
  <1>5. ASSUME NEW s \in BOOLEAN, OnPreview(s) PROVE RecordInv'
    BY <1>5, Untouched DEF OnPreview
  <1>6. ASSUME NEW j \in Jobs, CloseScreen(j) PROVE RecordInv'
    BY <1>6, UnmountKeeps DEF CloseScreen
  <1>7. ASSUME NEW j \in Jobs, LockStep(j) PROVE RecordInv'
    BY <1>7, UnmountKeeps, Untouched DEF LockStep
  <1>8. ASSUME NEW j \in Jobs, OnMic(j) PROVE RecordInv'
    <2>0. visit > 0 /\ visit \in Nat /\ jobs[j] = Idle
      BY <1>8 DEF OnMic, Tap, Start, RecordInv
    <2>1. CASE recording
      <3>1. JobBecomes(j, Job("stop", "restore"))
        BY <1>8, <2>1 DEF OnMic, Start, JobBecomes
      <3>2. Job("stop", "restore") \in RecorderCalls /\ Holds(Job("stop", "restore"))
        BY <2>0, JobBegun DEF Holds
      <3>3. QED
        BY <1>8, <3>1, <3>2, JobChange DEF OnMic, RecordInv, soundVars
    <2>2. CASE ~recording
      <3>1. JobBecomes(j, Job("start", "permission"))
        BY <1>8, <2>2 DEF OnMic, Start, JobBecomes
      <3>2. Job("start", "permission") \in RecorderCalls
        BY <2>0, JobBegun
      <3>3. QED
        BY <1>8, <2>0, <2>2, <3>1, <3>2, JobChange, IdleHolds DEF OnMic, RecordInv, soundVars
    <2>3. QED
      BY <2>1, <2>2
  <1>9. ASSUME NEW j \in Jobs, Permission(j) PROVE RecordInv'
    <2>1. jobs[j] \in RecorderCalls /\ ~Holds(jobs[j])
      BY <1>9, IdleHolds DEF Permission, RecordInv, Holds
    <2>2. \/ JobBecomes(j, [jobs[j] EXCEPT !.stage = "mode"])
          \/ JobBecomes(j, Idle)
      BY <1>9 DEF Permission, Finish, JobBecomes
    <2>3. QED
      BY <1>9, <2>1, <2>2, OtherCall, JobGoesOn DEF Permission, chatScreen
  <1>10. ASSUME NEW j \in Jobs, RecordMode(j) PROVE RecordInv'
    <2>1. /\ jobs[j] \in RecorderCalls /\ jobs[j].does = "start" /\ ~Holds(jobs[j])
          /\ UNCHANGED <<visit, visits, recording, unrestored>>
      BY <1>10, IdleHolds DEF RecordMode, RecordInv, Holds, chatScreen
    <2> DEFINE job == [jobs[j] EXCEPT !.stage = "prepare"]
    <2>2. CASE JobBecomes(j, job)
      <3>1. job \in RecorderCalls /\ Holds(job)
        BY <2>1, JobGoesOn DEF Holds
      <3> HIDE DEF job
      <3>2. QED
        BY <2>1, <2>2, <3>1, JobChange DEF RecordInv
    <2>3. CASE JobBecomes(j, Idle) /\ UNCHANGED audio
      BY <2>1, <2>3, OtherCall DEF soundVars
    <2>4. QED
      BY <1>10, <2>2, <2>3 DEF RecordMode, Finish, JobBecomes
  <1>11. ASSUME NEW j \in Jobs, Record(j) PROVE RecordInv'
    <2>1. jobs[j] \in RecorderCalls /\ jobs[j].does = "start" /\ jobs[j].for > 0
      BY <1>11, IdleHolds DEF Record, RecordInv, RecorderCalls
    <2>2. CASE visit = jobs[j].for /\ recording' = TRUE /\ Finish(j)
      <3>1. JobBecomes(j, Idle)
        BY <2>2 DEF Finish, JobBecomes
      <3>2. visit > 0
        BY <2>1, <2>2
      <3>3. QED
        BY <1>11, <2>2, <3>1, <3>2, JobChange DEF Record, RecordInv, soundVars
    <2>3. CASE jobs' = [jobs EXCEPT ![j].stage = "restore"] /\ UNCHANGED recording
      <3> DEFINE job == [jobs[j] EXCEPT !.stage = "restore"]
      <3>1. JobBecomes(j, job)
        BY <2>3 DEF JobBecomes
      <3>2. job \in RecorderCalls /\ Holds(job)
        BY <2>1, JobGoesOn DEF Holds
      <3> HIDE DEF job
      <3>3. QED
        BY <1>11, <2>3, <3>1, <3>2, OtherCall DEF Record
    <2>4. QED
      BY <1>11, <2>2, <2>3 DEF Record
  <1>12. ASSUME NEW j \in Jobs, RestoreMode(j) PROVE RecordInv'
    <2>1. JobBecomes(j, Idle)
      BY <1>12 DEF RestoreMode, Finish, JobBecomes
    <2>2. ~(audio' /\ ~unrestored') /\ UNCHANGED <<visit, visits, recording>>
      BY <1>12, Zenon DEF RestoreMode, Restored, chatScreen
    <2>3. QED
      BY <2>1, <2>2, JobChange DEF RecordInv
  <1>13. ASSUME NEW j \in Jobs, PickImage(j) \/ PickVideo(j) \/ GetLocation(j) PROVE RecordInv'
    <2>1. JobBecomes(j, Idle) /\ ~Holds(jobs[j])
      BY <1>13 DEF PickImage, PickVideo, GetLocation, Finish, JobBecomes, Holds
    <2>2. QED
      BY <1>13, <2>1, OtherCall DEF PickImage, PickVideo, GetLocation, chatScreen
  <1>14. ASSUME NEW j \in Jobs,
                NEW c \in {"camera", "photo", "video", "location", "sticker", "poll", "cancel"},
                OnPressButton(j, c)
         PROVE RecordInv'
    <2>1. CASE c \in {"photo", "video", "location"}
      <3>1. JobBecomes(j, Job(c, "picking")) /\ jobs[j] = Idle /\ visit > 0 /\ visit \in Nat
        BY <1>14, <2>1 DEF OnPressButton, Start, JobBecomes, Tap, RecordInv
      <3>2. Job(c, "picking") \in RecorderCalls
        BY <2>1, <3>1, JobBegun
      <3>3. QED
        BY <1>14, <3>1, <3>2, OtherCall, IdleHolds DEF OnPressButton
    <2>2. CASE c \notin {"photo", "video", "location"}
      BY <1>14, <2>2, Untouched DEF OnPressButton
    <2>3. QED
      BY <2>1, <2>2
  <1>15. CASE UNCHANGED chatScreenVars
    BY <1>15, Untouched DEF chatScreenVars, chatScreen, soundVars
  <1>16. QED
    BY <1>1, <1>2, <1>3, <1>4, <1>5, <1>6, <1>7, <1>8, <1>9, <1>10, <1>11, <1>12, <1>13, <1>14,
       <1>15 DEF ChatScreenNext

\* The phone is not left in record mode, whichever calls of the recorder are under
\* way, for this mount of the chat screen or an earlier one, when it goes, unless it
\* refused to leave it the last time it was asked.
THEOREM RecordModesEnd == ChatScreenSpec => []RecordModeEnds
  <1>1. RecordInv => RecordModeEnds
    BY IdleHolds DEF RecordInv, RecordModeEnds
  <1>2. QED
    BY <1>1, RecordInvInit, RecordInvStep, PTL DEF ChatScreenSpec

-----------------------------------------------------------------------------
(* The video picker. At every stage the size that is known is that of the  *)
(* file, unless a call has failed, and the file is under the name the next *)
(* pass takes.                                                             *)

Video == [bytes : Nat, name : {"bare", "uri"}, there : BOOLEAN]

VideoTypeOK ==
    /\ native \in {"bare", "uri"}
    /\ video \in Video
    /\ known \in Nat /\ seconds \in Nat /\ tries \in Nat

\* A file that is missing was written by a call that failed; the size is that of the file
\* unless a pass wrote none; a file under its platform's name is what the next pass takes.
OnTheWay ==
    /\ stage # "done" => verdict = "none"
    /\ stage \in {"checking", "compressing", "reading"} /\ ~broke => video.there
    /\ stage \in {"checking", "compressing"} => video.name = native
    /\ stage \in {"permission", "picking", "trimming", "checking"} => tries = 0
    /\ stage = "compressing" => seconds <= MaxSeconds /\ tries < 2 /\ (~broke => known = video.bytes)
    /\ stage = "compressing" => known > MaxBytes
    /\ stage = "reading" => video.name = "uri" /\ seconds <= MaxSeconds
    /\ stage = "reading" => (broke \/ (known = video.bytes /\ known <= MaxBytes))

VideoInv == VideoTypeOK /\ OnTheWay /\ VideoVerdict

\* Base64 makes a file longer.
LEMMA Wire == ASSUME NEW n \in Nat PROVE WireBytes(n) \in Nat /\ WireBytes(n) >= n
  BY DEF WireBytes

LEMMA VideoFields == ASSUME NEW f \in Video PROVE f.bytes \in Nat /\ f.name \in {"bare", "uri"}
  BY DEF Video

LEMMA Uri ==
  ASSUME NEW f \in Video
  PROVE  /\ ToFileUri(f) \in Video
         /\ ToFileUri(f).bytes = f.bytes /\ ToFileUri(f).there = f.there /\ ToFileUri(f).name = "uri"
  BY DEF Video, ToFileUri

\* The invariant holds when nothing is picked yet, and every native call keeps it.
LEMMA VideoInvInit == VideoInit => VideoInv
  <1>1. Unpicked \in Video
    BY DEF Unpicked, Video
  <1>2. QED
  BY <1>1, VideoAssumption DEF VideoInit, VideoInv, VideoTypeOK, OnTheWay, VideoVerdict

LEMMA VideoInvStep == VideoInv /\ [VideoNext]_videoVars => VideoInv'
  <1> SUFFICES ASSUME VideoInv, [VideoNext]_videoVars PROVE VideoInv'
    OBVIOUS
  <1> USE VideoAssumption DEF VideoInv, VideoTypeOK, OnTheWay, VideoVerdict, Done, Throws
  <1>1. CASE AskToPick
    BY <1>1 DEF AskToPick
  <1>2. CASE Pick
    BY <1>2 DEF Pick
  <1>3. CASE Trim
    <2>1. CASE stage' = "checking"
      <3>1. PICK n \in 1 .. TopBytes, s \in 1 .. MaxSeconds + 1, there \in BOOLEAN :
            /\ video' = [bytes |-> n, name |-> native, there |-> there]
            /\ seconds' = s /\ broke' = ~there
            /\ UNCHANGED <<native, known, tries, verdict>>
        BY <1>3, <2>1 DEF Trim
      <3>2. video' \in Video /\ video'.name = native /\ video'.there = there
        BY <3>1 DEF Video
      <3>5. verdict = "none" /\ tries = 0 /\ seconds' \in Nat
        BY <1>3, <3>1 DEF Trim
      <3>4. ~broke' => video'.there
        BY <3>1, <3>2
      <3>3. QED
        BY <2>1, <3>1, <3>2, <3>4, <3>5
    <2>2. CASE stage' # "checking"
      BY <1>3, <2>2 DEF Trim
    <2>3. QED
      BY <2>1, <2>2
  <1>4. CASE Measure
    BY <1>4, Wire, Uri, VideoFields DEF Measure, Compressed, AfterCompression, Exists
  <1>5. CASE Compress
    <2>1. PICK n \in 1 .. TopBytes, there \in BOOLEAN :
         LET out   == [bytes |-> n, name |-> native, there |-> there]
             bytes == SizeOf(out, known)
         IN /\ broke' = (broke \/ ~there)
            /\ IF bytes <= MaxBytes \/ tries = 1
               THEN Compressed(out, bytes)
               ELSE video' = out /\ known' = bytes /\ UNCHANGED <<stage, verdict>>
      BY <1>5 DEF Compress
    <2> DEFINE out == [bytes |-> n, name |-> native, there |-> there]
               bytes == SizeOf(out, known)
    <2>2. out \in Video /\ out.bytes = n /\ out.there = there /\ out.name = native
      BY DEF Video
    <2> HIDE DEF out
    <2>3. bytes \in Nat /\ (there => bytes = n)
      BY <2>2, Uri DEF SizeOf, Exists
    <2> HIDE DEF bytes
    <2>7. ~broke' => ~broke /\ out.there /\ bytes = out.bytes
      BY <2>1, <2>2, <2>3
    <2>4. CASE bytes <= MaxBytes \/ tries = 1
      <3>1. Compressed(out, bytes)
        BY <2>1, <2>4 DEF out, bytes
      <3>2. QED
        BY <1>5, <2>2, <2>3, <2>7, <2>4, <3>1, Wire, Uri, VideoFields DEF Compress, Compressed, AfterCompression
    <2>5. CASE ~(bytes <= MaxBytes \/ tries = 1)
      <3>1. video' = out /\ known' = bytes /\ UNCHANGED <<stage, verdict>>
        BY <2>1, <2>5 DEF out, bytes
      <3>2. QED
        BY <1>5, <2>2, <2>3, <2>7, <2>5, <3>1, VideoFields DEF Compress
    <2>6. QED
      BY <2>4, <2>5
  <1>6. CASE CompressThrows
    BY <1>6, Wire, Uri, VideoFields DEF CompressThrows, Compressed, AfterCompression
  <1>7. CASE Read
    BY <1>7, Wire, VideoFields DEF Read, Exists
  <1>8. CASE UNCHANGED videoVars
    BY <1>8 DEF videoVars
  <1>9. QED
    BY <1>1, <1>2, <1>3, <1>4, <1>5, <1>6, <1>7, <1>8 DEF VideoNext

\* pickVideoBase64 answers with the verdict that is true of the file, whatever the
\* platform's names, sizes that cannot be read, passes that shrink nothing and
\* calls that throw do to it.
THEOREM VerdictsTrue == VideoSpec => []VideoVerdict
  <1>1. VideoInv => VideoVerdict
    BY DEF VideoInv
  <1>2. QED
    BY <1>1, VideoInvInit, VideoInvStep, PTL DEF VideoSpec

-----------------------------------------------------------------------------
(* The tap that started the app. Until the tap has led to its screen it is *)
(* kept for the splash, or is what the splash is about to push.            *)

\* Before the app knows whether somebody is signed in, the tap is kept, and there is
\* a splash or the lock.
KeptUntilKnown ==
    auth = "initializing" =>
        /\ opened = 0 /\ pendingRoute = coldTap
        /\ top \in {"splash", "lock"} /\ target = "none" /\ publishing = 0

\* A lock or a splash that has yet to do its work.
Working == Locked \/ splashTimer \/ publishing > 0

\* A tap that has not led anywhere is kept while a splash is still to do its work, or
\* is what it is about to push; one that has, or was missed, is neither.
OnItsWay ==
    /\ publishing \in Nat /\ opened \in {0, 1}
    /\ coldTap \in {"none", "chat", "contacts"}
    /\ top = "splash" /\ auth = "initializing" => splash
    /\ coldTap # "none" => auth \in {"initializing", "in"} /\ top \notin {"onboarding", "finish-setup"}
    /\ coldTap # "none" /\ auth = "in" =>
         \/ opened = 0 /\ pendingRoute = coldTap /\ target = "none" /\ Working
         \/ opened = 0 /\ pendingRoute = "none" /\ target = coldTap
         \/ (opened = 1 \/ missed) /\ pendingRoute = "none" /\ target = "none"

TapInv == KeptUntilKnown /\ OnItsWay

LEMMA RouteForKnown == \A tap : RouteFor(tap) \in {"none", "chat", "contacts"}
  BY DEF RouteFor

\* The invariant holds at the start, and every step keeps it.
LEMMA TapInvInit == TapInit => TapInv
  BY RouteForKnown DEF TapInit, TapInv, KeptUntilKnown, OnItsWay

LEMMA TapInvStep == TapInv /\ [TapNext]_tapVars => TapInv'
  <1> SUFFICES ASSUME TapInv, [TapNext]_tapVars PROVE TapInv'
    OBVIOUS
  <1> USE DEF TapInv, KeptUntilKnown, OnItsWay
  <1>1. CASE Initialized
    <2>1. auth' # "initializing" /\ UNCHANGED <<pendingRoute, target, opened, top, publishing>>
      BY <1>1 DEF Initialized
    <2>2. splashTimer' = splash /\ pendingRoute = coldTap /\ opened = 0 /\ target = "none" /\ publishing = 0
      BY <1>1, Zenon DEF Initialized, SplashEffect
    <2>3. coldTap' = IF auth' = "in" THEN coldTap ELSE "none"
      BY <1>1 DEF Initialized
    <2>4. Locked' \/ (splashTimer' = TRUE)
      <3>1. top = "splash" => (splashTimer' = TRUE)
        BY <1>1, <2>2 DEF Initialized
      <3>2. QED
        BY <1>1, <2>1, <3>1 DEF Initialized, Locked
    <2>5. Working'
      BY <2>4 DEF Working
    <2>6. top \in {"splash", "lock"}
      BY <1>1 DEF Initialized
    <2>7. QED
      BY <2>1, <2>2, <2>3, <2>5, <2>6
  <1>2. CASE SplashTimeout
    <2>1. UNCHANGED <<auth, pendingRoute, target, coldTap, opened, missed>>
      BY <1>2 DEF SplashTimeout
    <2>2. publishing' = IF auth = "in" THEN publishing + 1 ELSE publishing
      BY <1>2 DEF SplashTimeout
    <2>3. auth \notin {"out", "setup"} => UNCHANGED <<top, splash>>
      BY <1>2 DEF SplashTimeout
    <2>4. publishing' \in Nat /\ (auth = "in" => Working')
      BY <2>2 DEF Working
    <2>5. QED
      BY <2>1, <2>2, <2>3, <2>4
  <1>3. CASE Published
    <2>1. UNCHANGED <<auth, coldTap, opened, missed>> /\ publishing > 0 /\ publishing' = publishing - 1
      BY <1>3 DEF Published
    <2>2. /\ pendingRoute' = "none" /\ target' = IF pendingRoute = "none" THEN target ELSE pendingRoute
          /\ top' \in {"lock", "chats"}
      BY <1>3 DEF Published, Replace, Land, Take, Locked
    <2>3. QED
      BY <2>1, <2>2
  <1>4. CASE PushTarget
    <2>1. UNCHANGED <<auth, pendingRoute, splashTimer, publishing, coldTap>> /\ target # "none" /\ target' = "none"
      BY <1>4 DEF PushTarget
    <2>2. /\ opened' = IF target = coldTap /\ ~Locked THEN opened + 1 ELSE opened
          /\ missed' = (missed \/ Locked)
      BY <1>4, Zenon DEF PushTarget
    <2>3. top' = IF Locked THEN top ELSE target
      BY <1>4 DEF PushTarget, Push
    <2>4. CASE coldTap = "none"
      BY <2>1, <2>2, <2>4
    <2>5. CASE coldTap # "none" /\ auth = "initializing"
      BY <2>1, <2>2, <2>5
    <2>6. CASE coldTap # "none" /\ auth = "in"
      <3>1. opened = 0 /\ pendingRoute = "none" /\ target = coldTap
        BY <2>1, <2>6
      <3>2. (opened' = 1) \/ (opened' = 0 /\ missed')
        <4>1. CASE Locked
          BY <2>2, <3>1, <4>1
        <4>2. CASE ~Locked
          BY <2>2, <3>1, <4>2
        <4>3. QED
          BY <4>1, <4>2
      <3>3. top' \notin {"onboarding", "finish-setup"}
        BY <2>3, <2>6, <3>1
      <3>4. opened' \in {0, 1} /\ (opened' = 1 \/ missed')
        BY <3>2, Zenon
      <3>5. QED
        BY <2>1, <2>6, <3>1, <3>3, <3>4
    <2>7. QED
      BY <2>4, <2>5, <2>6
  <1>5. CASE SignIn
    <2>1. coldTap = "none"
      BY <1>5 DEF SignIn
    <2>2. UNCHANGED <<opened, coldTap, publishing>> /\ auth' = "in"
      BY <1>5 DEF SignIn
    <2>3. QED
      BY <2>1, <2>2
  <1>6. CASE SignOut
    <2>1. UNCHANGED <<opened, publishing>> /\ coldTap' = "none" /\ auth' = "out"
      BY <1>6 DEF SignOut
    <2>2. QED
      BY <2>1
  <1>7. CASE HiddenByLock
    <2>1. top' = "lock" /\ UNCHANGED <<auth, pendingRoute, publishing, target, coldTap, opened, missed>>
      BY <1>7 DEF HiddenByLock
    <2>2. Working'
      BY <2>1 DEF Working, Locked
    <2>3. QED
      BY <2>1, <2>2
  <1>8. CASE Unlocked
    <2>1. top' = "splash" /\ (splash' = TRUE) /\ (splashTimer' = TRUE)
      BY <1>8 DEF Unlocked
    <2>2. UNCHANGED <<auth, pendingRoute, publishing, target, coldTap, opened, missed>>
      BY <1>8 DEF Unlocked
    <2>3. Working'
      BY <2>1 DEF Working
    <2>4. QED
      BY <2>1, <2>2, <2>3
  <1>9. ASSUME NEW tap \in Taps, WarmTap(tap) PROVE TapInv'
    <2>1. UNCHANGED <<auth, splashTimer, publishing, target, opened, missed>>
      BY <1>9 DEF WarmTap
    <2>2. CASE auth = "initializing"
      BY <1>9, <2>1, <2>2, RouteForKnown DEF WarmTap
    <2>3. CASE auth # "initializing"
      <3>1. UNCHANGED <<pendingRoute, coldTap>>
        BY <1>9, <2>3 DEF WarmTap
      <3>2. auth = "in" => top' = IF Locked THEN top ELSE RouteFor(tap)
        BY <1>9 DEF WarmTap, Push
      <3>3. Working => Working'
        BY <2>1, <2>3, <3>2, <1>9 DEF Working, Locked, WarmTap
      <3>4. QED
        BY <2>1, <2>3, <3>1, <3>2, <3>3, RouteForKnown
    <2>4. QED
      BY <2>2, <2>3
  <1>10. CASE UNCHANGED tapVars
    BY <1>10 DEF tapVars, Working, Locked
  <1>11. QED
    BY <1>1, <1>2, <1>3, <1>4, <1>5, <1>6, <1>7, <1>8, <1>9, <1>10 DEF TapNext

\* A tap that started the app leads to its screen once, unless its screen was pushed
\* while the lock hid all, and never twice.
THEOREM ColdTapsOnce == TapSpec => []ColdTapOnce
  <1>1. TapInv => ColdTapOnce
    BY DEF TapInv, OnItsWay, ColdTapOnce, Working, LandingDone
  <1>2. QED
    BY <1>1, TapInvInit, TapInvStep, PTL DEF TapSpec

-----------------------------------------------------------------------------
(* The kept key opens the history, and no history is lost to anything but  *)
(* a key that does not open it, for any number of callers, keys, failures, *)
(* kills and restarts. Neither holds by itself: the key a call is about to *)
(* keep must find no file written with another, and that rests on there    *)
(* being one opening at a time (pendingOpens), which a caller sees before  *)
(* the key is read.                                                        *)

Steps == {"key", "keep", "schema", "reset"}

DbTypeOK ==
    /\ stored \in Nat /\ keys \in Nat /\ calls \in Nat
    /\ file \in [key : Nat, history : BOOLEAN]
    /\ opens \subseteq [call : Nat, step : Steps, key : Nat, again : BOOLEAN]

\* A call that has read a key has one, and a history was written with a key.
KeysMeant ==
    /\ \A o \in opens : o.step # "key" => o.key # NoKey
    /\ file.history => file.key # NoKey

\* One call opens the database at a time, and others wait for it.
OneOpening ==
    /\ \A o1, o2 \in opens : o1 = o2
    /\ opens # {} => pendingOpen # 0

\* How the key of the call compares with the one kept, and with the file's.
StepOf(o) ==
    /\ o.step = "keep" => stored = NoKey
    /\ o.step \in {"schema", "reset"} => o.key = stored
    /\ o.step = "reset" => file.key \notin {NoKey, o.key}

KeyFits == ~apart /\ file.key # NoKey => stored = file.key

DbInv ==
    /\ DbTypeOK /\ KeysMeant
    /\ erasing = "no" => OneOpening /\ KeyFits /\ \A o \in opens : StepOf(o)

\* A file that is not there.
LEMMA NoFileIs == NoFile \in [key : Nat, history : BOOLEAN] /\ ~NoFile.history /\ NoFile.key = 0
BY DEF NoFile, NoKey

LEMMA DbInvInit == LocalDbInit => DbInv
BY DEF LocalDbInit, DbInv, DbTypeOK, KeysMeant, OneOpening, KeyFits, NoFile, NoKey

-----------------------------------------------------------------------------
(* The steps of a call                                                     *)

\* With one opening at a time, a call that is followed by its next step or
\* ends leaves no other behind.
LEMMA OneLeft ==
    ASSUME OneOpening, NEW o \in opens, NEW p, opens' = (opens \ {o}) \cup {p}
    PROVE  opens' = {p}
BY DEF OneOpening

LEMMA NoneLeft ==
    ASSUME OneOpening, NEW o \in opens, NEW key, Settle(o, key)
    PROVE  opens' = {}
BY DEF OneOpening, Settle

LEMMA CallSteps ==
    ASSUME DbInv, NEW o \in opens,
           ReadKey(o) \/ KeepKey(o) \/ SchemaApplied(o) \/ SchemaFails(o) \/ ResetFile(o) \/ CallFails(o)
    PROVE  DbInv'
<1> USE DEF DbInv, NoKey
<1> o \in [call : Nat, step : Steps, key : Nat, again : BOOLEAN]
  BY DEF DbTypeOK
<1>1. CASE ReadKey(o) /\ stored # NoKey
  <2> DEFINE p == [o EXCEPT !.step = "schema", !.key = stored]
  <2>1. opens' = (opens \ {o}) \cup {p} /\ UNCHANGED <<stored, file, keys, pendingOpen, calls, erasing, apart>>
    BY <1>1 DEF ReadKey
  <2>2. p \in [call : Nat, step : Steps, key : Nat, again : BOOLEAN] /\ p.step = "schema" /\ p.key = stored
    BY DEF DbTypeOK, Steps
  <2> HIDE DEF p
  <2>3. DbTypeOK' /\ KeysMeant'
    BY <1>1, <2>1, <2>2 DEF DbTypeOK, KeysMeant
  <2>4. ASSUME erasing = "no" PROVE OneOpening' /\ KeyFits' /\ \A q \in opens' : StepOf(q)'
    <3>1. opens' = {p}
      BY <2>1, <2>4, OneLeft
    <3>2. QED
      BY <2>1, <2>2, <2>4, <3>1 DEF OneOpening, KeyFits, StepOf
  <2>5. QED
    BY <2>1, <2>3, <2>4
<1>2. CASE ReadKey(o) /\ stored = NoKey
  <2> DEFINE p == [o EXCEPT !.step = "keep", !.key = keys + 1]
  <2>1. /\ opens' = (opens \ {o}) \cup {p} /\ keys' = keys + 1
        /\ UNCHANGED <<stored, file, pendingOpen, calls, erasing, apart>>
    BY <1>2 DEF ReadKey
  <2> keys + 1 \in Nat /\ keys + 1 # 0
    BY DEF DbTypeOK
  <2>2. p \in [call : Nat, step : Steps, key : Nat, again : BOOLEAN] /\ p.step = "keep" /\ p.key # 0
    BY DEF Steps
  <2> HIDE DEF p
  <2>3. DbTypeOK' /\ KeysMeant'
    BY <2>1, <2>2 DEF DbTypeOK, KeysMeant
  <2>4. ASSUME erasing = "no" PROVE OneOpening' /\ KeyFits' /\ \A q \in opens' : StepOf(q)'
    <3>1. opens' = {p}
      BY <2>1, <2>4, OneLeft
    <3>2. QED
      BY <1>2, <2>1, <2>2, <2>4, <3>1 DEF OneOpening, KeyFits, StepOf
  <2>5. QED
    BY <2>1, <2>3, <2>4
<1>3. CASE KeepKey(o)
  <2> DEFINE p == [o EXCEPT !.step = "schema"]
  <2>1. /\ opens' = (opens \ {o}) \cup {p} /\ stored' = o.key /\ o.step = "keep"
        /\ UNCHANGED <<file, keys, pendingOpen, calls, erasing, apart>>
    BY <1>3 DEF KeepKey, Follows
  <2>2. p \in [call : Nat, step : Steps, key : Nat, again : BOOLEAN] /\ p.step = "schema" /\ p.key = o.key
    BY DEF DbTypeOK, Steps
  <2> HIDE DEF p
  <2>3. DbTypeOK' /\ KeysMeant'
    BY <2>1, <2>2 DEF DbTypeOK, KeysMeant
  <2>4. ASSUME erasing = "no" PROVE OneOpening' /\ KeyFits' /\ \A q \in opens' : StepOf(q)'
    <3>1. opens' = {p}
      BY <2>1, <2>4, OneLeft
    <3>2. stored = 0
      BY <2>1, <2>4 DEF StepOf
    <3>3. QED
      BY <2>1, <2>2, <2>4, <3>1, <3>2 DEF OneOpening, KeyFits, StepOf
  <2>5. QED
    BY <2>1, <2>3, <2>4
<1>4. CASE SchemaApplied(o)
  <2>1. /\ o.step = "schema" /\ file' = [file EXCEPT !.key = o.key] /\ opens' = opens \ {o}
        /\ UNCHANGED <<stored, keys, calls, erasing, apart>>
    BY <1>4 DEF SchemaApplied, Settle
  <2>2. file'.key = o.key /\ file'.history = file.history
    BY <2>1 DEF DbTypeOK
  <2>3. DbTypeOK' /\ KeysMeant'
    BY <2>1, <2>2 DEF DbTypeOK, KeysMeant
  <2>4. ASSUME erasing = "no" PROVE OneOpening' /\ KeyFits' /\ \A q \in opens' : StepOf(q)'
    <3>1. opens' = {}
      BY <1>4, <2>4, NoneLeft DEF SchemaApplied
    <3>2. QED
      BY <2>1, <2>2, <2>4, <3>1 DEF OneOpening, KeyFits, StepOf
  <2>5. QED
    BY <2>1, <2>3, <2>4
<1>5. CASE SchemaFails(o) /\ IsWrongKeyError(o) /\ ~o.again
  <2> DEFINE p == [o EXCEPT !.step = "reset"]
  <2>1. /\ opens' = (opens \ {o}) \cup {p} /\ o.step = "schema"
        /\ UNCHANGED <<stored, file, keys, pendingOpen, calls, erasing, apart>>
    BY <1>5 DEF SchemaFails, Follows
  <2>2. /\ p \in [call : Nat, step : Steps, key : Nat, again : BOOLEAN]
        /\ p.step = "reset" /\ p.key = o.key
    BY DEF DbTypeOK, Steps
  <2> HIDE DEF p
  <2>3. DbTypeOK' /\ KeysMeant'
    BY <2>1, <2>2 DEF DbTypeOK, KeysMeant
  <2>4. ASSUME erasing = "no" PROVE OneOpening' /\ KeyFits' /\ \A q \in opens' : StepOf(q)'
    <3>1. opens' = {p}
      BY <2>1, <2>4, OneLeft
    <3>2. QED
      BY <1>5, <2>1, <2>2, <2>4, <3>1 DEF OneOpening, KeyFits, StepOf, IsWrongKeyError, Opens
  <2>5. QED
    BY <2>1, <2>3, <2>4
<1>6. CASE SchemaFails(o) /\ ~(IsWrongKeyError(o) /\ ~o.again)
  <2>1. Settle(o, 0) /\ opens' = opens \ {o} /\ UNCHANGED <<stored, file, keys, calls, erasing, apart>>
    BY <1>6 DEF SchemaFails, Settle
  <2>2. DbTypeOK' /\ KeysMeant'
    BY <2>1 DEF DbTypeOK, KeysMeant
  <2>3. QED
    BY <2>1, <2>2, NoneLeft DEF OneOpening, KeyFits
<1>7. CASE ResetFile(o)
  <2> DEFINE p == [o EXCEPT !.step = "key", !.again = TRUE]
  <2>1. /\ opens' = (opens \ {o}) \cup {p} /\ file' \in {file, NoFile}
        /\ UNCHANGED <<stored, keys, pendingOpen, calls, erasing, apart>>
    BY <1>7 DEF ResetFile
  <2>2. p \in [call : Nat, step : Steps, key : Nat, again : BOOLEAN] /\ p.step = "key"
    <3>1. "key" \in Steps
      BY DEF Steps
    <3>2. QED
      BY <3>1, Zenon
  <2> HIDE DEF p
  <2>3. DbTypeOK' /\ KeysMeant'
    BY <2>1, <2>2, NoFileIs DEF DbTypeOK, KeysMeant
  <2>4. ASSUME erasing = "no" PROVE OneOpening' /\ KeyFits' /\ \A q \in opens' : StepOf(q)'
    <3>1. opens' = {p}
      BY <2>1, <2>4, OneLeft
    <3>2. QED
      BY <2>1, <2>2, <2>4, <3>1, NoFileIs DEF OneOpening, KeyFits, StepOf
  <2>5. QED
    BY <2>1, <2>3, <2>4
<1>8. CASE CallFails(o)
  <2>1. /\ opens' = opens \ {o} /\ (stored' = stored \/ (o.step = "keep" /\ stored' = o.key))
        /\ Settle(o, 0) /\ UNCHANGED <<file, keys, calls, erasing, apart>>
    BY <1>8 DEF CallFails, Settle
  <2>2. DbTypeOK' /\ KeysMeant'
    BY <2>1 DEF DbTypeOK, KeysMeant
  <2>3. ASSUME erasing = "no" PROVE OneOpening' /\ KeyFits' /\ \A q \in opens' : StepOf(q)'
    <3>1. opens' = {}
      BY <2>1, <2>3, NoneLeft
    <3>2. QED
      BY <2>1, <2>3, <3>1 DEF OneOpening, KeyFits, StepOf
  <2>4. QED
    BY <2>1, <2>2, <2>3
<1>9. QED
  BY <1>1, <1>2, <1>3, <1>4, <1>5, <1>6, <1>7, <1>8

-----------------------------------------------------------------------------
(* The invariant                                                           *)

LEMMA DbInvStep == DbInv /\ [LocalDbNext]_dbVars => DbInv'
<1> SUFFICES ASSUME DbInv, [LocalDbNext]_dbVars PROVE DbInv'
  OBVIOUS
<1> USE DEF DbInv, NoKey
<1>1. CASE GetDb
  <2> DEFINE p == [call |-> calls + 1, step |-> "key", key |-> 0, again |-> FALSE]
  <2>1. /\ opens' = opens \cup {p} /\ pendingOpen = 0 /\ calls' = calls + 1 /\ pendingOpen' = calls + 1
        /\ UNCHANGED <<stored, file, keys, erasing, apart>>
    BY <1>1 DEF GetDb, MustOpen
  <2>2. p \in [call : Nat, step : Steps, key : Nat, again : BOOLEAN] /\ p.step = "key"
    BY DEF DbTypeOK, Steps
  <2> HIDE DEF p
  <2>3. DbTypeOK' /\ KeysMeant' /\ pendingOpen' # 0
    BY <2>1, <2>2 DEF DbTypeOK, KeysMeant
  <2>4. ASSUME erasing = "no" PROVE OneOpening' /\ KeyFits' /\ \A q \in opens' : StepOf(q)'
    <3>1. opens' = {p}
      BY <2>1, <2>4 DEF OneOpening
    <3>2. QED
      BY <2>1, <2>2, <2>3, <2>4, <3>1 DEF OneOpening, KeyFits, StepOf
  <2>5. QED
    BY <2>1, <2>3, <2>4
<1>2. CASE Save
  <2>1. /\ handle = file.key /\ handle # 0 /\ file' = [file EXCEPT !.history = TRUE]
        /\ UNCHANGED <<stored, keys, opens, pendingOpen, calls, erasing, apart>>
    BY <1>2 DEF Save
  <2>2. file'.key = file.key /\ file' \in [key : Nat, history : BOOLEAN]
    BY <2>1 DEF DbTypeOK
  <2>3. QED
    BY <2>1, <2>2 DEF DbTypeOK, KeysMeant, OneOpening, KeyFits, StepOf
<1>3. CASE StartErasing \/ CloseDb \/ EraseFile \/ EraseKey
  <2>1. /\ erasing' # "no" /\ file' \in {file, NoFile} /\ stored' \in {stored, NoKey}
        /\ UNCHANGED <<keys, opens, calls>>
    BY <1>3 DEF StartErasing, CloseDb, EraseFile, EraseKey
  <2>2. DbTypeOK'
    BY <2>1, NoFileIs DEF DbTypeOK
  <2>3. KeysMeant'
    BY <2>1, NoFileIs DEF KeysMeant
  <2>4. QED
    BY <2>1, <2>2, <2>3
<1>4. CASE KillApp
  BY <1>4 DEF KillApp, DbTypeOK, KeysMeant, OneOpening, KeyFits
<1>5. CASE KeyLost
  BY <1>5 DEF KeyLost, DbTypeOK, KeysMeant, OneOpening, KeyFits
<1>6. CASE BackupRestored
  BY <1>6, LocalDbAssumption DEF BackupRestored, DbTypeOK, KeysMeant, OneOpening, KeyFits
<1>7. ASSUME NEW o \in opens,
             ReadKey(o) \/ KeepKey(o) \/ SchemaApplied(o) \/ SchemaFails(o) \/ ResetFile(o) \/ CallFails(o)
      PROVE  DbInv'
  BY <1>7, CallSteps
<1>8. CASE UNCHANGED dbVars
  BY <1>8 DEF dbVars, DbTypeOK, KeysMeant, OneOpening, KeyFits, StepOf
<1>9. QED
  BY <1>1, <1>2, <1>3, <1>4, <1>5, <1>6, <1>7, <1>8 DEF LocalDbNext

\* As long as nothing outside the app puts them apart, the kept key opens the
\* file that holds a history (getDb, pendingOpens, openAndInitDb).
THEOREM KeyOpens == LocalDbSpec => []KeyOpensHistory
<1>1. DbInv => KeyOpensHistory
  BY DEF DbInv, KeysMeant, KeyFits, KeyOpensHistory
<1>2. QED
  BY <1>1, DbInvInit, DbInvStep, PTL DEF LocalDbSpec

\* A file is emptied by the reset of a wrong key and by the account's deletion.
LEMMA HistoryLost ==
    DbInv /\ [LocalDbNext]_dbVars => [file.history /\ ~file'.history => stored # file.key \/ erasing # "no"]_file
<1> SUFFICES ASSUME DbInv, [LocalDbNext]_dbVars, file.history, ~file'.history, erasing = "no"
             PROVE  stored # file.key
  OBVIOUS
<1>1. CASE GetDb \/ StartErasing \/ CloseDb \/ EraseFile \/ EraseKey \/ KillApp \/ KeyLost
  BY <1>1 DEF GetDb, StartErasing, CloseDb, EraseFile, EraseKey, KillApp, KeyLost
<1>2. CASE Save \/ BackupRestored
  BY <1>2 DEF Save, BackupRestored, DbInv, DbTypeOK
<1>3. ASSUME NEW o \in opens, ReadKey(o) \/ KeepKey(o) \/ SchemaFails(o) \/ CallFails(o) PROVE FALSE
  BY <1>3 DEF ReadKey, KeepKey, SchemaFails, CallFails
<1>4. ASSUME NEW o \in opens, SchemaApplied(o) PROVE FALSE
  BY <1>4 DEF SchemaApplied, DbInv, DbTypeOK
<1>5. ASSUME NEW o \in opens, ResetFile(o) PROVE stored # file.key
  BY <1>5 DEF ResetFile, DbInv, StepOf
<1>6. CASE UNCHANGED dbVars
  BY <1>6 DEF dbVars
<1>7. QED
  BY <1>1, <1>2, <1>3, <1>4, <1>5, <1>6 DEF LocalDbNext

\* A history is thrown away only when the kept key does not open it, or with
\* its account (isWrongKeyError, openAndInitDb).
THEOREM HistoriesKept == LocalDbSpec => HistoryKept
BY DbInvInit, DbInvStep, HistoryLost, PTL DEF LocalDbSpec, HistoryKept

-----------------------------------------------------------------------------
(* Who can read a message, for any phones, limits and number of key pairs. *)
(* The invariant follows the message: what was sealed for the keys on      *)
(* record stays what it was while both users publish, reinstall and fail   *)
(* to publish, and what was read was read with the reader's own pair.      *)

\* No published list holds anything but key pairs.
KeysTypeOK ==
    /\ pair \in [Phones -> Nat] /\ pairs \in Nat
    /\ deviceKeys \in [{"writer", "reader"} -> Seq(Nat)]

\* The parcel was sealed for the newest keys on record at the time.
Sealed(parcel) ==
    /\ parcel.onRecord \in Seq(Nat) /\ parcel.onRecord # <<>>
    /\ parcel.big \in BOOLEAN
    /\ parcel.payload = EncryptForKeys(NewestKeys(parcel.onRecord, TargetKeys), parcel.big)

LetterInv ==
    /\ letter.step = "asking" => letter.big \in BOOLEAN
    /\ letter.step \in {"sent", "arrived", "read"} => Sealed(letter.parcel)
    /\ letter.step \in {"arrived", "read"} => letter.phone \in ReaderPhones /\ pair[letter.phone] # 0
    /\ letter.step = "read" =>
          letter.text <=> /\ ~letter.failed
                          /\ DecryptPayload(letter.parcel.payload, letter.parcel.from,
                                            NewestKeys(letter.senders, ActiveKeys), pair[letter.phone])

KeysInv == KeysTypeOK /\ LetterInv

-----------------------------------------------------------------------------
(* Lists of keys                                                           *)

\* NewestKeys returns the first keys of the list, as many as it may.
LEMMA NewestOf ==
    ASSUME NEW list \in Seq(Nat), NEW limit \in Nat \ {0}
    PROVE  /\ NewestKeys(list, limit) \in Seq(Nat)
           /\ Len(NewestKeys(list, limit)) = (IF limit < Len(list) THEN limit ELSE Len(list))
           /\ \A i \in 1 .. Len(NewestKeys(list, limit)) : NewestKeys(list, limit)[i] = list[i]
BY DEF NewestKeys

\* The keys of a list are its head and those of its tail.
LEMMA HeadAndTail ==
    ASSUME NEW list \in Seq(Nat), list # <<>>, NEW k
    PROVE  k \in ToSet(list) <=> k = Head(list) \/ k \in ToSet(Tail(list))
<1>1. ASSUME k \in ToSet(list) PROVE k = Head(list) \/ k \in ToSet(Tail(list))
  <2>1. PICK i \in 1 .. Len(list) : k = list[i]
    BY <1>1 DEF ToSet
  <2>2. CASE i = 1
    BY <2>1, <2>2
  <2>3. CASE i # 1
    <3>1. i - 1 \in DOMAIN Tail(list) /\ Tail(list)[i - 1] = k
      BY <2>1, <2>3
    <3>2. QED
      BY <3>1 DEF ToSet
  <2>4. QED
    BY <2>2, <2>3
<1>2. ASSUME k = Head(list) PROVE k \in ToSet(list)
  <2>1. 1 \in DOMAIN list /\ list[1] = k
    BY <1>2
  <2>2. QED
    BY <2>1 DEF ToSet
<1>3. ASSUME k \in ToSet(Tail(list)) PROVE k \in ToSet(list)
  <2>1. PICK i \in DOMAIN Tail(list) : k = Tail(list)[i]
    BY <1>3 DEF ToSet
  <2>2. i + 1 \in DOMAIN list /\ list[i + 1] = k
    BY <2>1
  <2>3. QED
    BY <2>2 DEF ToSet
<1>4. QED
  BY <1>1, <1>2, <1>3

\* The newest key alone is the head of any list of the newest keys.
LEMMA NewestAlone ==
    ASSUME NEW list \in Seq(Nat), list # <<>>, NEW limit \in Nat \ {0}, NEW k
    PROVE  k \in ToSet(NewestKeys(list, 1)) <=> k = Head(NewestKeys(list, limit))
<1> DEFINE first == NewestKeys(list, 1)
           newest == NewestKeys(list, limit)
<1>1. Len(list) \in Nat \ {0} /\ 1 \in Nat \ {0}
  OBVIOUS
<1>2. /\ first \in Seq(Nat)
      /\ Len(first) = (IF 1 < Len(list) THEN 1 ELSE Len(list))
      /\ \A i \in 1 .. Len(first) : first[i] = list[i]
  BY <1>1, NewestOf, Zenon
<1>3. newest \in Seq(Nat) /\ newest # <<>> /\ newest[1] = list[1]
  BY <1>1, NewestOf
<1> HIDE DEF first, newest
<1>4. DOMAIN first = {1} /\ first[1] = list[1]
  <2> DEFINE n == Len(list)
  <2> HIDE DEF n
  <2>1. Len(first) = 1
    <3>1. n \in Nat \ {0} /\ Len(first) = (IF 1 < n THEN 1 ELSE n)
      BY <1>1, <1>2, Zenon DEF n
    <3>2. QED
      BY <3>1
  <2>2. DOMAIN first = 1 .. 1 /\ 1 \in 1 .. 1
    BY <1>2, <2>1
  <2>3. QED
    BY <1>2, <2>1, <2>2
<1>5. k \in ToSet(first) <=> k = Head(newest)
  BY <1>3, <1>4 DEF ToSet
<1>6. QED
  BY <1>5 DEF first, newest

\* encryptForKeys addresses the newest keys: all of them, or the first of a
\* big message.
LEMMA Addressed ==
    ASSUME NEW list \in Seq(Nat), list # <<>>, NEW big \in BOOLEAN, NEW me
    PROVE  LET payload == EncryptForKeys(NewestKeys(list, TargetKeys), big) IN
           me = payload.main \/ me \in payload.extras
              <=> me \in ToSet(NewestKeys(list, IF big THEN 1 ELSE TargetKeys))
<1> DEFINE newest == NewestKeys(list, TargetKeys)
<1>1. newest \in Seq(Nat) /\ newest # <<>>
  BY NewestOf, DeviceKeysAssumption
<1>2. me \in ToSet(newest) <=> me = Head(newest) \/ me \in ToSet(Tail(newest))
  BY <1>1, HeadAndTail
<1>3. me \in ToSet(NewestKeys(list, 1)) <=> me = Head(newest)
  BY NewestAlone, DeviceKeysAssumption
<1>4. QED
  BY <1>2, <1>3 DEF EncryptForKeys

\* decryptPayload opens a payload whose key is among the sender's, on a phone
\* one of its copies is addressed to.
LEMMA Opened ==
    ASSUME NEW payload, NEW from, NEW senderKeys, NEW me
    PROVE  DecryptPayload(payload, from, senderKeys, me)
              <=> from \in ToSet(senderKeys) /\ (me = payload.main \/ me \in payload.extras)
BY DEF DecryptPayload

-----------------------------------------------------------------------------
(* The invariant                                                           *)

LEMMA KeysInvInit == DeviceKeysInit => KeysInv
BY DEF DeviceKeysInit, KeysInv, KeysTypeOK, LetterInv, Unwritten

\* Looking for a key pair leaves a phone that has one with the one it has.
LEMMA PairKept ==
    ASSUME KeysTypeOK, NEW p \in Phones, HasPair(p)
    PROVE  /\ pair' \in [Phones -> Nat] /\ pairs' \in Nat /\ pair'[p] # 0
           /\ \A q \in Phones : pair[q] # 0 => pair'[q] = pair[q]
<1>1. CASE pair[p] # 0 /\ UNCHANGED <<pair, pairs>>
  BY <1>1 DEF KeysTypeOK
<1>2. CASE pair[p] = 0 /\ pairs' = pairs + 1 /\ pair' = [pair EXCEPT ![p] = pairs + 1]
  <2>1. pairs + 1 \in Nat /\ pairs + 1 # 0
    BY DEF KeysTypeOK
  <2>2. QED
    BY <1>2, <2>1 DEF KeysTypeOK
<1>3. QED
  BY <1>1, <1>2 DEF HasPair

\* What happens elsewhere leaves the message as it is.
LEMMA LetterKept ==
    ASSUME LetterInv, UNCHANGED letter,
           letter.step \in {"arrived", "read"} => pair'[letter.phone] = pair[letter.phone]
    PROVE  LetterInv'
BY DEF LetterInv, Sealed

LEMMA KeysInvStep == KeysInv /\ [DeviceKeysNext]_deviceKeyVars => KeysInv'
<1> SUFFICES ASSUME KeysInv, [DeviceKeysNext]_deviceKeyVars PROVE KeysInv'
  OBVIOUS
<1> USE DEF KeysInv
<1> ReaderPhones \subseteq Phones /\ WriterPhones \subseteq Phones
  BY DEF Phones
<1>1. ASSUME NEW p \in Phones, StartPublishing(p) PROVE KeysInv'
  <2>1. UNCHANGED <<deviceKeys, letter>> /\ HasPair(p)
    BY <1>1 DEF StartPublishing
  <2>2. KeysTypeOK'
    BY <2>1, PairKept DEF KeysTypeOK
  <2>3. letter.step \in {"arrived", "read"} => pair'[letter.phone] = pair[letter.phone]
    BY <2>1, PairKept DEF LetterInv
  <2>4. QED
    BY <2>1, <2>2, <2>3, LetterKept
<1>2. ASSUME NEW p \in Phones, Insert(p) PROVE KeysInv'
  <2>1. deviceKeys' \in [{"writer", "reader"} -> Seq(Nat)]
    <3>1. pair[p] \in Nat /\ UserOf(p) \in {"writer", "reader"}
      BY DEF KeysTypeOK, UserOf
    <3>2. <<pair[p]>> \o deviceKeys[UserOf(p)] \in Seq(Nat)
      BY <3>1 DEF KeysTypeOK
    <3>3. QED
      BY <1>2, <3>1, <3>2 DEF Insert, KeysTypeOK
  <2>2. QED
    BY <1>2, <2>1, LetterKept DEF Insert, KeysTypeOK
<1>3. ASSUME NEW p \in Phones, InsertFails(p) PROVE KeysInv'
  BY <1>3, LetterKept DEF InsertFails, KeysTypeOK
<1>4. ASSUME NEW p \in Phones, LosePair(p) PROVE KeysInv'
  <2>1. KeysTypeOK'
    BY <1>4 DEF LosePair, KeysTypeOK
  <2>2. letter.step \in {"arrived", "read"} => pair'[letter.phone] = pair[letter.phone]
    BY <1>4 DEF LosePair, KeysTypeOK, LetterInv
  <2>3. QED
    BY <1>4, <2>1, <2>2, LetterKept DEF LosePair
<1>5. ASSUME NEW p \in WriterPhones, SendLetter(p) PROVE KeysInv'
  <2>1. KeysTypeOK'
    BY <1>5, PairKept DEF SendLetter, KeysTypeOK
  <2>2. letter'.step = "asking" /\ letter'.big \in BOOLEAN
    BY <1>5 DEF SendLetter
  <2>3. QED
    BY <2>1, <2>2 DEF LetterInv
<1>6. ASSUME NEW failed \in BOOLEAN, EncryptForUser(failed) PROVE KeysInv'
  <2> DEFINE list == FetchActivePublicKeys("reader", TargetKeys, failed)
  <2>1. KeysTypeOK'
    BY <1>6 DEF EncryptForUser, KeysTypeOK
  <2>2. CASE list = <<>>
    BY <1>6, <2>1, <2>2 DEF EncryptForUser, LetterInv, Unwritten
  <2>3. CASE list # <<>>
    <3>1. list = NewestKeys(deviceKeys["reader"], TargetKeys) /\ deviceKeys["reader"] \in Seq(Nat)
      BY <2>3 DEF FetchActivePublicKeys, KeysTypeOK
    <3>2. deviceKeys["reader"] # <<>>
      BY <2>3, <3>1, NewestOf, DeviceKeysAssumption
    <3> HIDE DEF list
    <3>3. /\ letter'.step = "sent"
          /\ letter'.parcel.onRecord = deviceKeys["reader"]
          /\ letter'.parcel.big = letter.big
          /\ letter'.parcel.payload = EncryptForKeys(list, letter.big)
      BY <1>6, <2>3 DEF EncryptForUser, list
    <3>4. letter.big \in BOOLEAN
      BY <1>6 DEF EncryptForUser, LetterInv
    <3>5. Sealed(letter.parcel)'
      BY <3>1, <3>2, <3>3, <3>4 DEF Sealed
    <3>6. QED
      BY <2>1, <3>3, <3>5 DEF LetterInv
  <2>4. QED
    BY <2>2, <2>3
<1>7. ASSUME NEW p \in ReaderPhones, Arrives(p) PROVE KeysInv'
  <2>1. KeysTypeOK' /\ pair'[p] # 0
    BY <1>7, PairKept DEF Arrives, KeysTypeOK
  <2>2. /\ letter.step = "sent" /\ letter'.step = "arrived"
        /\ letter'.parcel = letter.parcel /\ letter'.phone = p
    BY <1>7 DEF Arrives
  <2>3. QED
    BY <2>1, <2>2 DEF LetterInv, Sealed
<1>8. ASSUME NEW failed \in BOOLEAN, LookUpSender(failed) PROVE KeysInv'
  <2> DEFINE list == FetchActivePublicKeys("writer", ActiveKeys, failed)
             parcel == letter.parcel
  <2>1. KeysTypeOK' /\ UNCHANGED pair
    BY <1>8 DEF LookUpSender, KeysTypeOK
  <2>2. CASE list = <<>> /\ letter.tries + 1 < Lookups
    <3>1. letter' = [letter EXCEPT !.tries = letter.tries + 1]
      BY <1>8, <2>2 DEF LookUpSender
    <3>2. letter'.step = letter.step /\ letter'.parcel = letter.parcel /\ letter'.phone = letter.phone
      BY <3>1
    <3>3. QED
      BY <1>8, <2>1, <3>2 DEF LookUpSender, LetterInv, Sealed
  <2>3. CASE ~(list = <<>> /\ letter.tries + 1 < Lookups)
    <3>1. /\ letter'.step = "read" /\ letter'.parcel = parcel /\ letter'.phone = letter.phone
          /\ letter'.text = DecryptPayload(parcel.payload, parcel.from, list, pair[letter.phone])
          /\ letter'.failed = failed /\ letter'.senders = deviceKeys["writer"]
      BY <1>8, <2>3 DEF LookUpSender
    <3>2. CASE failed
      <4>1. list = <<>> /\ ToSet(list) = {}
        BY <3>2 DEF FetchActivePublicKeys, ToSet
      <4>2. ~letter'.text
        BY <3>1, <4>1, Opened
      <4>3. QED
        BY <1>8, <2>1, <3>1, <3>2, <4>2 DEF LookUpSender, LetterInv, Sealed
    <3>3. CASE ~failed
      <4>1. list = NewestKeys(deviceKeys["writer"], ActiveKeys)
        BY <3>3 DEF FetchActivePublicKeys
      <4>2. QED
        BY <1>8, <2>1, <3>1, <3>3, <4>1 DEF LookUpSender, LetterInv, Sealed
    <3>4. QED
      BY <3>2, <3>3
  <2>4. QED
    BY <2>2, <2>3
<1>9. CASE UNCHANGED deviceKeyVars
  BY <1>9, LetterKept DEF deviceKeyVars, KeysTypeOK
<1>10. QED
  BY <1>1, <1>2, <1>3, <1>4, <1>5, <1>6, <1>7, <1>8, <1>9 DEF DeviceKeysNext

-----------------------------------------------------------------------------
\* A message is readable exactly on the phones whose key it was made for, as
\* long as the writer's key is among the newest when it is read
\* (encryptForKeys, decryptPayload, fetchActivePublicKeysWithRetry).
THEOREM AddressedRead == DeviceKeysSpec => []ReadByAddressed
<1>1. KeysInv => ReadByAddressed
  <2> SUFFICES ASSUME KeysInv, letter.step = "read"
               PROVE  LET parcel == letter.parcel IN
                      letter.text <=>
                          /\ pair[letter.phone] \in
                                ToSet(NewestKeys(parcel.onRecord, IF parcel.big THEN 1 ELSE TargetKeys))
                          /\ ~letter.failed
                          /\ parcel.from \in ToSet(NewestKeys(letter.senders, ActiveKeys))
    BY DEF ReadByAddressed
  <2> DEFINE parcel == letter.parcel
             me == pair[letter.phone]
  <2>1. Sealed(parcel)
    BY DEF KeysInv, LetterInv
  <2>2. letter.text <=> ~letter.failed /\ DecryptPayload(parcel.payload, parcel.from,
                                                         NewestKeys(letter.senders, ActiveKeys), me)
    BY DEF KeysInv, LetterInv
  <2>3. me = parcel.payload.main \/ me \in parcel.payload.extras
           <=> me \in ToSet(NewestKeys(parcel.onRecord, IF parcel.big THEN 1 ELSE TargetKeys))
    BY <2>1, Addressed DEF Sealed
  <2>4. QED
    BY <2>2, <2>3, Opened
<1>2. QED
  BY <1>1, KeysInvInit, KeysInvStep, PTL DEF DeviceKeysSpec

-----------------------------------------------------------------------------
(* The name of an account. The row gets its name from the form, the        *)
(* account's metadata and the calls of finish-setup, so the invariant says *)
(* of each of them that the name it carries is one the user picked.        *)

\* The database has refused a name that the user picked.
Refusal == picked \cap refused # {}

\* A call that stores a name, as a record of these fields.
Fields == {"mount", "step", "name", "left"}
IsSetup(s) == s = [f \in Fields |-> s[f]]

\* The names on their way from the form to the row are the user's.
OnlyPicked ==
    /\ submitting = NoSubmit \/ submitting.name \in picked
    /\ submitting = [name |-> submitting.name, step |-> submitting.step]
    /\ wizard \in picked \cup {Unset}
    /\ metadata \in picked \cup {Unset}

\* A session comes of an account, and every account has kept the name it was made with.
SessionNamed == signedIn \/ confirmed => metadata # Unset

NamesInv ==
    /\ OnlyPicked /\ SessionNamed /\ PickedNameKept
    /\ \A s \in setups : IsSetup(s) /\ (s.name \in picked \/ Refusal)

LEMMA NamesInvInit == SignupInit => NamesInv
  BY DEF SignupInit, NamesInv, OnlyPicked, SessionNamed, PickedNameKept, NoSubmit

\* A step keeps the invariant when it adds no name but the user's to what is under
\* way, and gives the row none but those.
LEMMA NamesInvKept ==
  ASSUME NamesInv, UNCHANGED <<submitting, wizard, metadata>>,
         picked \subseteq picked', refused \subseteq refused',
         signedIn' \/ confirmed' => metadata' # Unset,
         row' \in picked' \cup {Unset} \/ Refusal' \/ row' = row,
         \A s \in setups' : s \in setups \/ (IsSetup(s) /\ (s.name \in picked' \/ Refusal'))
  PROVE  NamesInv'
  <1>1. Refusal => Refusal'
    BY DEF Refusal
  <1>2. OnlyPicked' /\ SessionNamed'
    BY DEF NamesInv, OnlyPicked, SessionNamed, NoSubmit
  <1>3. PickedNameKept'
    BY <1>1 DEF NamesInv, PickedNameKept, Refusal
  <1>4. \A s \in setups' : IsSetup(s) /\ (s.name \in picked' \/ Refusal')
    BY <1>1 DEF NamesInv
  <1>5. QED
    BY <1>2, <1>3, <1>4, Zenon DEF NamesInv, IsSetup

USE DEF Stay, StayAndRerun, Show, ShowSetup, Smooth, Trouble, Call, form, store, database, steps, history

LEMMA FormStep ==
  ASSUME NamesInv,
         \/ Submit \/ GoBack \/ GoToSignup
         \/ \E name \in Names \cup {Unset, Malformed} : Type(name)
         \/ \E lookup \in field.lookups : LookupAnswered(lookup)
         \/ \E fails \in BOOLEAN : Debounced(fails) \/ SubmitLookup(fails) \/ SignUp(fails)
  PROVE  NamesInv'
  <1>1. CASE Submit
    BY <1>1 DEF Submit, NamesInv, OnlyPicked, SessionNamed, PickedNameKept, NoSubmit, Refusal, IsSetup
  <1>2. CASE GoBack \/ GoToSignup
    BY <1>2, NamesInvKept DEF GoBack, GoToSignup, NamesInv, SessionNamed
  <1>3. ASSUME NEW name \in Names \cup {Unset, Malformed}, Type(name) PROVE NamesInv'
    BY <1>3, NamesInvKept DEF Type, NamesInv, SessionNamed
  <1>4. ASSUME NEW lookup \in field.lookups, LookupAnswered(lookup) PROVE NamesInv'
    BY <1>4, NamesInvKept DEF LookupAnswered, NamesInv, SessionNamed
  <1>5. ASSUME NEW fails \in BOOLEAN, Debounced(fails) PROVE NamesInv'
    BY <1>5, NamesInvKept DEF Debounced, NamesInv, SessionNamed
  <1>6. ASSUME NEW fails \in BOOLEAN, SubmitLookup(fails) PROVE NamesInv'
    <2>1. UNCHANGED <<wizard, metadata, confirmed, row, signedIn, setups, picked, refused>>
      BY <1>6 DEF SubmitLookup
    <2>2. /\ submitting' = NoSubmit \/ submitting'.name \in picked
          /\ submitting' = [name |-> submitting'.name, step |-> submitting'.step]
      BY <1>6 DEF SubmitLookup, NamesInv, OnlyPicked, NoSubmit
    <2>3. QED
      BY <2>1, <2>2 DEF NamesInv, OnlyPicked, SessionNamed, PickedNameKept, NoSubmit, Refusal, IsSetup
  <1>7. ASSUME NEW fails \in BOOLEAN, SignUp(fails) PROVE NamesInv'
    <2>1. UNCHANGED <<confirmed, row, signedIn, setups, picked, refused>>
      BY <1>7 DEF SignUp
    <2>2. /\ submitting.name \in picked /\ submitting' = NoSubmit
          /\ metadata' \in {metadata, submitting.name} /\ wizard' \in {wizard, submitting.name}
          /\ metadata # Unset => metadata' = metadata
      BY <1>7 DEF SignUp, NamesInv, OnlyPicked, NoSubmit
    <2>3. QED
      BY <2>1, <2>2 DEF NamesInv, OnlyPicked, SessionNamed, PickedNameKept, NoSubmit, Refusal, IsSetup
  <1>8. QED
    BY <1>1, <1>2, <1>3, <1>4, <1>5, <1>6, <1>7

LEMMA SessionStep ==
  ASSUME NamesInv,
         \/ LinkOpened \/ Redirect \/ NewToken \/ LogIn
         \/ \E name \in Names : SomebodyTakes(name) \/ \E fails \in BOOLEAN : ChangeUsername(name, fails)
         \/ \E fails \in BOOLEAN : Refreshed(fails) \/ Enter(fails) \/ Restart(fails)
  PROVE  NamesInv'
  <1> USE DEF NamesInv, SessionNamed, NewSession, RefreshProfile
  <1>1. CASE LinkOpened \/ Redirect
    BY <1>1, NamesInvKept DEF LinkOpened, Redirect
  <1>2. CASE NewToken \/ LogIn
    BY <1>2, NamesInvKept DEF NewToken, LogIn
  <1>3. ASSUME NEW name \in Names, SomebodyTakes(name) PROVE NamesInv'
    BY <1>3, NamesInvKept DEF SomebodyTakes
  <1>4. ASSUME NEW name \in Names, NEW fails \in BOOLEAN, ChangeUsername(name, fails) PROVE NamesInv'
    BY <1>4, NamesInvKept DEF ChangeUsername
  <1>5. ASSUME NEW fails \in BOOLEAN, Refreshed(fails) PROVE NamesInv'
    BY <1>5, NamesInvKept DEF Refreshed
  <1>6. ASSUME NEW fails \in BOOLEAN, Enter(fails) PROVE NamesInv'
    <2>1. UNCHANGED <<submitting, wizard, metadata, confirmed, row, signedIn, setups, picked, refused>>
      BY <1>6, Zenon DEF Enter
    <2>2. QED
      BY <2>1, NamesInvKept
  <1>7. ASSUME NEW fails \in BOOLEAN, Restart(fails) PROVE NamesInv'
    <2>1. /\ UNCHANGED <<metadata, confirmed, row, signedIn, picked, refused>>
          /\ submitting' = NoSubmit /\ wizard' = Unset /\ setups' = {}
      BY <1>7, Zenon DEF Restart
    <2>2. QED
      BY <2>1 DEF OnlyPicked, NoSubmit, PickedNameKept, Refusal
  <1>8. QED
    BY <1>1, <1>2, <1>3, <1>4, <1>5, <1>6, <1>7

\* A name is made up only where the session has none, which is never.
LEMMA PendingPicked == NamesInv /\ signedIn => Pending \subseteq picked
  BY DEF NamesInv, OnlyPicked, SessionNamed, Pending

LEMMA FinishStep == NamesInv /\ FinishSetup => NamesInv'
  <1> SUFFICES ASSUME NamesInv, FinishSetup PROVE NamesInv'
    OBVIOUS
  <1>1. UNCHANGED <<submitting, wizard, metadata, confirmed, row, signedIn, picked, refused>>
    BY DEF FinishSetup
  <1>2. \/ UNCHANGED setups
        \/ /\ signedIn
           /\ \E name \in Pending :
                setups' = setups \cup {[mount |-> mount, step |-> "ask", name |-> name, left |-> Attempts]}
    BY DEF FinishSetup
  <1>3. \A s \in setups' : s \in setups \/ (IsSetup(s) /\ s.name \in picked)
    BY <1>2, PendingPicked DEF IsSetup, Fields
  <1>4. QED
    BY <1>1, <1>3, NamesInvKept DEF NamesInv, SessionNamed

LEMMA SetupRenamed ==
  ASSUME NEW s, IsSetup(s), NEW name, NEW left
  PROVE  /\ IsSetup([s EXCEPT !.name = name, !.left = left])
         /\ [s EXCEPT !.name = name, !.left = left].name = name
  BY DEF IsSetup, Fields

\* The attempts after a failure go on with the name, or with another after a refusal.
LEMMA AgainKeeps ==
  ASSUME NEW s \in setups, IsSetup(s), NEW collision \in BOOLEAN, Again(s, collision),
         collision \/ s.name \in picked' \/ Refusal', collision => Refusal'
  PROVE  \A t \in setups' : t \in setups \/ (IsSetup(t) /\ (t.name \in picked' \/ Refusal'))
  <1>1. CASE s.left > 1
    <2>1. PICK name \in NextName(s, collision) :
              setups' = (setups \ {s}) \cup {[s EXCEPT !.name = name, !.left = @ - 1]}
      BY <1>1 DEF Again
    <2> DEFINE t == [s EXCEPT !.name = name, !.left = @ - 1]
    <2>2. IsSetup(t) /\ t.name = name
      BY SetupRenamed
    <2>3. name \in picked' \/ Refusal'
      BY <2>1 DEF NextName
    <2> HIDE DEF t
    <2>4. QED
      BY <2>1, <2>2, <2>3 DEF t
  <1>2. CASE ~(s.left > 1)
    BY <1>2 DEF Again
  <1>3. QED
    BY <1>1, <1>2

LEMMA FinalizeStep ==
  ASSUME NamesInv, NEW s \in setups,
         Finalize(s) \/ \E fails \in BOOLEAN : SetupRefreshed(s, fails)
  PROVE  NamesInv'
  <1>0. IsSetup(s) /\ (s.name \in picked \/ Refusal)
    BY DEF NamesInv
  <1>1. CASE Finalize(s)
    <2>1. /\ UNCHANGED <<submitting, wizard, metadata, confirmed, signedIn, picked>>
          /\ refused \subseteq refused'
      BY <1>1 DEF Finalize
    <2>2. Refusal => Refusal'
      BY <2>1 DEF Refusal
    <2>3. CASE s.name \in taken /\ refused' = refused \cup {s.name} /\ UNCHANGED row /\ Again(s, TRUE)
      <3>1. Refusal'
        BY <1>0, <2>1, <2>2, <2>3 DEF Refusal
      <3>2. QED
        BY <1>0, <2>1, <2>3, <3>1, AgainKeeps, NamesInvKept DEF NamesInv, SessionNamed
    <2>4. CASE row' = s.name /\ setups' = (setups \ {s}) \cup {[s EXCEPT !.step = "refresh"]}
      <3>1. IsSetup([s EXCEPT !.step = "refresh"]) /\ [s EXCEPT !.step = "refresh"].name = s.name
        BY <1>0 DEF IsSetup, Fields
      <3> DEFINE t == [s EXCEPT !.step = "refresh"]
      <3> HIDE DEF t
      <3>2. \A x \in setups' : x \in setups \/ (IsSetup(x) /\ (x.name \in picked' \/ Refusal'))
        BY <1>0, <2>1, <2>2, <2>4, <3>1 DEF t
      <3>3. QED
        BY <1>0, <2>1, <2>2, <2>4, <3>2, NamesInvKept DEF NamesInv, SessionNamed
    <2>5. CASE row' \in {row} \cup ({s.name} \ taken) /\ Again(s, FALSE)
      BY <1>0, <2>1, <2>2, <2>5, AgainKeeps, NamesInvKept DEF NamesInv, SessionNamed
    <2>6. QED
      BY <1>1, <2>3, <2>4, <2>5 DEF Finalize
  <1>2. ASSUME NEW fails \in BOOLEAN, SetupRefreshed(s, fails) PROVE NamesInv'
    <2>1. /\ UNCHANGED <<submitting, metadata, confirmed, row, signedIn, picked, refused>>
          /\ wizard' = Unset /\ setups' = setups \ {s}
      BY <1>2 DEF SetupRefreshed, RefreshProfile
    <2>2. QED
      BY <2>1 DEF NamesInv, OnlyPicked, SessionNamed, PickedNameKept, NoSubmit, Refusal, IsSetup
  <1>3. QED
    BY <1>1, <1>2

LEMMA NamesInvStep == NamesInv /\ [SignupNext]_signupVars => NamesInv'
  <1>1. NamesInv /\ UNCHANGED signupVars => NamesInv'
    BY NamesInvKept DEF signupVars, NamesInv, SessionNamed
  <1>2. QED
    BY <1>1, FormStep, SessionStep, FinishStep, FinalizeStep DEF SignupNext

\* The row of a profile holds a name its user picked, or the database has refused
\* one: retries, a second mount of finish-setup and restarts never replace it.
THEOREM PickedNamesKept == SignupSpec => []PickedNameKept
  <1>1. NamesInv => PickedNameKept
    BY DEF NamesInv
  <1>2. QED
    BY <1>1, NamesInvInit, NamesInvStep, PTL DEF SignupSpec

-----------------------------------------------------------------------------
(* A group as its members show it. A member whose connection is not quiet  *)
(* may show anything, so the invariant looks ahead: when the app has read  *)
(* what is queued for it, it shows the last list of members among that,    *)
(* without those whose departure is queued behind the list (WillShow), and *)
(* that is the roster. A frame that is put behind the queue, and one that  *)
(* is read from its front, keep this. For the post the invariant follows   *)
(* its frames: only what left the composer is at the relay, and only what  *)
(* reached somebody is answered with sent.                                 *)

UpFrame == [is : {"create", "invite"}, to : SUBSET Guests]
           \cup [is : {"respond"}, accept : BOOLEAN] \cup [is : {"leave", "post"}]
DownFrame == [is : {"snapshot", "created", "invited"}, members : SUBSET people]
             \cup [is : {"left"}, who : people] \cup [is : {"ask", "sent", "failed"}]

ChatTyped ==
    /\ roster \subseteq people /\ relayLoaded \in BOOLEAN /\ linked \subseteq people
    /\ up \in [people -> Seq(UpFrame)] /\ down \in [people -> Seq(DownFrame)]
    /\ shown \in [people -> SUBSET people]

\* The app that shows s will show R when it has read the frames q: the last list
\* of members among them, or else s, without those who left behind it.
Lists(f) == f.is \in {"snapshot", "created", "invited"}
LeftAfter(q, k, x) == \E j \in (k + 1)..Len(q) : q[j].is = "left" /\ q[j].who = x
LastList(q, k) ==
    /\ k # 0 => Lists(q[k])
    /\ \A j \in (k + 1)..Len(q) : ~Lists(q[j])
WillShow(q, s, R) ==
    \E k \in 0..Len(q) :
        /\ LastList(q, k)
        /\ \A x \in people : x \in R <=> x \in (IF k = 0 THEN s ELSE q[k].members) /\ ~LeftAfter(q, k, x)

HasFrame(q, is) == \E i \in 1..Len(q) : q[i].is = is

\* A member who was told since the relay has its groups, and is not leaving, will show them.
RosterInv ==
    /\ ~relayLoaded => greeted = {}
    /\ \A p \in roster : p \in linked \cap greeted /\ relayLoaded /\ ~HasFrame(up[p], "leave") =>
          WillShow(down[p], shown[p], roster)

\* Whoever was told that the message was sent may say so, and nobody is told
\* of a message before it left the composer.
Begun == post.status \notin {"none", "encrypting"}
PostInv ==
    /\ post \in [by : people, keys : SUBSET people, status : {"none", "encrypting", "sending", "sent", "failed"}]
    /\ \A p \in people : HasFrame(up[p], "post") => post.by = p /\ Begun
    /\ \A p \in people : HasFrame(down[p], "sent") => Begun /\ handed \ {post.by} # {}
    /\ post.status = "sent" => handed \ {post.by} # {}

ChatInv == ChatTyped /\ RosterInv /\ PostInv

\* The frames by their kind.
LEMMA FrameKinds ==
    /\ \A f \in UpFrame : f.is \in {"create", "invite", "respond", "leave", "post"}
    /\ \A f \in DownFrame :
          /\ f.is \in {"snapshot", "created", "invited", "left", "ask", "sent", "failed"}
          /\ Lists(f) => f.members \subseteq people
          /\ f.is = "left" => f.who \in people
  BY DEF UpFrame, DownFrame, Lists

\* What an app shows when nothing is queued for it.
LEMMA ReadAll ==
    ASSUME NEW s \in SUBSET people, NEW R \in SUBSET people, WillShow(<<>>, s, R)
    PROVE  s = R
  <1>1. Len(<<>>) = 0 /\ 0..0 = {0} /\ (0 + 1)..0 = {}
    OBVIOUS
  <1>2. \A x \in people : x \in R <=> x \in s
    BY <1>1 DEF WillShow, LeftAfter
  <1>3. QED
    BY <1>2

\* A list behind the others is what counts.
LEMMA ListBehind ==
    ASSUME NEW q \in Seq(DownFrame), NEW f \in DownFrame, Lists(f), NEW s
    PROVE  WillShow(Append(q, f), s, f.members)
  <1> DEFINE n == Len(q) + 1
             a == Append(q, f)
  <1>1. n \in Nat /\ n # 0 /\ Len(a) = n /\ a[n] = f /\ n \in 0..Len(a) /\ (n + 1)..Len(a) = {}
    OBVIOUS
  <1> HIDE DEF n, a
  <1>2. LastList(a, n) /\ \A x : ~LeftAfter(a, n, x)
    BY <1>1 DEF LastList, LeftAfter
  <1>3. QED
    BY <1>1, <1>2 DEF WillShow, a

\* What is no list comes behind: only a departure takes somebody away.
LEMMA OtherBehind ==
    ASSUME NEW q \in Seq(DownFrame), NEW f \in DownFrame, ~Lists(f), NEW s, NEW R, NEW S,
           WillShow(q, s, R),
           \A x \in people : x \in S <=> x \in R /\ ~(f.is = "left" /\ f.who = x)
    PROVE  WillShow(Append(q, f), s, S)
  <1> DEFINE n == Len(q)
             a == Append(q, f)
  <1>1. n \in Nat /\ Len(a) = n + 1 /\ a[n + 1] = f /\ \A j \in 1..n : a[j] = q[j]
    OBVIOUS
  <1>2. PICK k \in 0..n :
          /\ LastList(q, k)
          /\ \A x \in people : x \in R <=> x \in (IF k = 0 THEN s ELSE q[k].members) /\ ~LeftAfter(q, k, x)
    BY DEF WillShow
  <1> HIDE DEF n, a
  <1>3. k \in 0..(n + 1) /\ (k # 0 => a[k] = q[k])
    BY <1>1
  <1>4. \A j \in (k + 1)..(n + 1) : j = n + 1 \/ (j \in (k + 1)..n /\ j \in 1..n)
    BY <1>1
  <1>5. n + 1 \in (k + 1)..(n + 1) /\ \A j \in (k + 1)..n : j \in (k + 1)..(n + 1) /\ j \in 1..n
    BY <1>1
  <1>6. LastList(a, k)
    BY <1>1, <1>2, <1>3, <1>4 DEF LastList, n
  <1>7. \A x : LeftAfter(a, k, x) <=> LeftAfter(q, k, x) \/ (f.is = "left" /\ f.who = x)
    BY <1>1, <1>4, <1>5 DEF LeftAfter, n
  <1>8. \A x \in people : x \in S <=> x \in (IF k = 0 THEN s ELSE a[k].members) /\ ~LeftAfter(a, k, x)
    BY <1>2, <1>3, <1>7
  <1>9. QED
    BY <1>1, <1>3, <1>6, <1>8 DEF WillShow, a

\* Where one frame less is before it.
LEMMA LeftShift ==
    ASSUME NEW q, NEW t, NEW k, NEW n, Len(q) = n, Len(t) = n - 1,
           \A j \in (k - 1 + 1)..(n - 1) : j + 1 \in (k + 1)..n /\ t[j] = q[j + 1],
           \A j \in (k + 1)..n : j - 1 \in (k - 1 + 1)..(n - 1) /\ t[j - 1] = q[j]
    PROVE  \A x : LeftAfter(t, k - 1, x) <=> LeftAfter(q, k, x)
  <1> TAKE x
  <1>1. ASSUME LeftAfter(t, k - 1, x) PROVE LeftAfter(q, k, x)
    <2>1. PICK j \in (k - 1 + 1)..(n - 1) : t[j].is = "left" /\ t[j].who = x
      BY <1>1 DEF LeftAfter
    <2>2. j + 1 \in (k + 1)..n /\ t[j] = q[j + 1]
      OBVIOUS
    <2>3. QED
      BY <2>1, <2>2 DEF LeftAfter
  <1>2. ASSUME LeftAfter(q, k, x) PROVE LeftAfter(t, k - 1, x)
    <2>1. PICK j \in (k + 1)..n : q[j].is = "left" /\ q[j].who = x
      BY <1>2 DEF LeftAfter
    <2>2. j - 1 \in (k - 1 + 1)..(n - 1) /\ t[j - 1] = q[j]
      OBVIOUS
    <2>3. QED
      BY <2>1, <2>2 DEF LeftAfter
  <1>3. QED
    BY <1>1, <1>2

\* The app reads the oldest frame.
LEMMA ReadList ==
    ASSUME NEW q \in Seq(DownFrame), q # <<>>, Lists(Head(q)), NEW s, NEW R, WillShow(q, s, R)
    PROVE  WillShow(Tail(q), Head(q).members, R)
  <1> DEFINE n == Len(q)
             t == Tail(q)
  <1>1. n \in Nat /\ n >= 1 /\ Len(t) = n - 1 /\ Head(q) = q[1] /\ \A j \in 1..(n - 1) : t[j] = q[j + 1]
    OBVIOUS
  <1>2. PICK k \in 0..n :
          /\ LastList(q, k)
          /\ \A x \in people : x \in R <=> x \in (IF k = 0 THEN s ELSE q[k].members) /\ ~LeftAfter(q, k, x)
    BY DEF WillShow
  <1>3. k # 0
    BY <1>1, <1>2 DEF LastList
  <1> HIDE DEF n, t
  <1>4. k \in Nat /\ k - 1 \in 0..(n - 1) /\ (k - 1 # 0 => t[k - 1] = q[k]) /\ (k - 1 = 0 => k = 1)
    BY <1>1, <1>3
  <1>5. /\ \A j \in (k - 1 + 1)..(n - 1) : j + 1 \in (k + 1)..n /\ t[j] = q[j + 1]
        /\ \A j \in (k + 1)..n : j - 1 \in (k - 1 + 1)..(n - 1) /\ t[j - 1] = q[j]
    BY <1>1, <1>3
  <1>6. LastList(t, k - 1)
    BY <1>1, <1>2, <1>4, <1>5 DEF LastList, n
  <1>7. \A x : LeftAfter(t, k - 1, x) <=> LeftAfter(q, k, x)
    BY <1>1, <1>5, LeftShift DEF n, t
  <1>8. \A x \in people : x \in R <=>
          x \in (IF k - 1 = 0 THEN Head(q).members ELSE t[k - 1].members) /\ ~LeftAfter(t, k - 1, x)
    BY <1>1, <1>2, <1>3, <1>4, <1>7
  <1>9. QED
    BY <1>1, <1>4, <1>6, <1>8 DEF WillShow, t

\* A frame that is no list only takes away who left.
LEMMA ReadOther ==
    ASSUME NEW q \in Seq(DownFrame), q # <<>>, ~Lists(Head(q)), NEW s, NEW R, WillShow(q, s, R), NEW u,
           \A x \in people : x \in u <=> x \in s /\ ~(Head(q).is = "left" /\ Head(q).who = x)
    PROVE  WillShow(Tail(q), u, R)
  <1> DEFINE n == Len(q)
             t == Tail(q)
  <1>1. n \in Nat /\ n >= 1 /\ Len(t) = n - 1 /\ Head(q) = q[1] /\ \A j \in 1..(n - 1) : t[j] = q[j + 1]
    OBVIOUS
  <1>2. PICK k \in 0..n :
          /\ LastList(q, k)
          /\ \A x \in people : x \in R <=> x \in (IF k = 0 THEN s ELSE q[k].members) /\ ~LeftAfter(q, k, x)
    BY DEF WillShow
  <1> HIDE DEF n, t
  <1>3. CASE k = 0
    <2>1. /\ \A j \in 1..(n - 1) : j + 1 \in 1..n /\ t[j] = q[j + 1]
          /\ \A j \in 1..n : j = 1 \/ (j - 1 \in 1..(n - 1) /\ t[j - 1] = q[j])
          /\ 1 \in 1..n /\ 0 \in 0..(n - 1) /\ 0 + 1 = 1
      BY <1>1
    <2>2. LastList(t, 0)
      BY <1>1, <1>2, <1>3, <2>1 DEF LastList, n
    <2>3. \A x : LeftAfter(q, 0, x) <=> LeftAfter(t, 0, x) \/ (Head(q).is = "left" /\ Head(q).who = x)
      <3> TAKE x
      <3>1. ASSUME LeftAfter(q, 0, x) PROVE LeftAfter(t, 0, x) \/ (Head(q).is = "left" /\ Head(q).who = x)
        <4>1. PICK j \in 1..n : q[j].is = "left" /\ q[j].who = x
          BY <3>1, <2>1 DEF LeftAfter, n
        <4>2. CASE j = 1
          BY <1>1, <4>1, <4>2
        <4>3. CASE j # 1
          <5>1. j - 1 \in 1..(n - 1) /\ t[j - 1] = q[j]
            BY <2>1, <4>3
          <5>2. QED
            BY <1>1, <2>1, <4>1, <5>1 DEF LeftAfter
        <4>4. QED
          BY <4>2, <4>3
      <3>2. ASSUME LeftAfter(t, 0, x) PROVE LeftAfter(q, 0, x)
        <4>1. PICK j \in 1..(n - 1) : t[j].is = "left" /\ t[j].who = x
          BY <1>1, <2>1, <3>2 DEF LeftAfter
        <4>2. QED
          BY <2>1, <4>1 DEF LeftAfter, n
      <3>3. ASSUME Head(q).is = "left" /\ Head(q).who = x PROVE LeftAfter(q, 0, x)
        BY <1>1, <2>1, <3>3 DEF LeftAfter, n
      <3>4. QED
        BY <3>1, <3>2, <3>3
    <2>4. \A x \in people : x \in R <=> x \in u /\ ~LeftAfter(t, 0, x)
      BY <1>2, <1>3, <2>3
    <2>5. QED
      BY <1>1, <2>1, <2>2, <2>4 DEF WillShow, t
  <1>4. CASE k # 0
    <2>1. k # 1
      BY <1>1, <1>2, <1>4 DEF LastList
    <2>2. k - 1 \in 0..(n - 1) /\ k - 1 # 0 /\ t[k - 1] = q[k]
      BY <1>1, <1>4, <2>1
    <2>3. /\ \A j \in (k - 1 + 1)..(n - 1) : j + 1 \in (k + 1)..n /\ t[j] = q[j + 1]
          /\ \A j \in (k + 1)..n : j - 1 \in (k - 1 + 1)..(n - 1) /\ t[j - 1] = q[j]
      BY <1>1, <1>4
    <2>4. LastList(t, k - 1)
      BY <1>1, <1>2, <1>4, <2>2, <2>3 DEF LastList, n
    <2>5. \A x : LeftAfter(t, k - 1, x) <=> LeftAfter(q, k, x)
      BY <1>1, <2>3, LeftShift DEF n, t
    <2>6. \A x \in people : x \in R <=>
            x \in (IF k - 1 = 0 THEN u ELSE t[k - 1].members) /\ ~LeftAfter(t, k - 1, x)
      BY <1>2, <1>4, <2>2, <2>5
    <2>7. QED
      BY <1>1, <2>2, <2>4, <2>6 DEF WillShow, t
  <1>5. QED
    BY <1>3, <1>4
-----------------------------------------------------------------------------
(* What is in a queue after a frame is put behind it, or taken from it.    *)

\* The kinds of frames behind one more, and without the oldest.
LEMMA AppendFrames ==
    ASSUME NEW T, NEW q \in Seq(T), NEW f
    PROVE  \A is : HasFrame(Append(q, f), is) <=> HasFrame(q, is) \/ f.is = is
  <1> DEFINE n == Len(q)
             a == Append(q, f)
  <1>1. n \in Nat /\ Len(a) = n + 1 /\ a[n + 1] = f /\ \A j \in 1..n : a[j] = q[j]
    OBVIOUS
  <1>2. n + 1 \in 1..(n + 1) /\ (\A j \in 1..n : j \in 1..(n + 1)) /\ \A j \in 1..(n + 1) : j = n + 1 \/ j \in 1..n
    BY <1>1
  <1> HIDE DEF a
  <1>3. \A is : HasFrame(a, is) <=> HasFrame(q, is) \/ f.is = is
    BY <1>1, <1>2 DEF HasFrame
  <1>4. QED
    BY <1>3 DEF a

LEMMA TailFrames ==
    ASSUME NEW T, NEW q \in Seq(T), q # <<>>
    PROVE  \A is : HasFrame(q, is) <=> HasFrame(Tail(q), is) \/ Head(q).is = is
  <1> DEFINE n == Len(q)
             t == Tail(q)
  <1>1. n \in Nat /\ n >= 1 /\ Len(t) = n - 1 /\ Head(q) = q[1] /\ \A j \in 1..(n - 1) : t[j] = q[j + 1]
    OBVIOUS
  <1>2. /\ 1 \in 1..n
        /\ \A j \in 1..(n - 1) : j + 1 \in 1..n /\ t[j] = q[j + 1]
        /\ \A j \in 1..n : j = 1 \/ (j - 1 \in 1..(n - 1) /\ t[j - 1] = q[j])
    BY <1>1
  <1> HIDE DEF t
  <1>3. ASSUME NEW is, HasFrame(q, is) PROVE HasFrame(t, is) \/ Head(q).is = is
    <2>1. PICK j \in 1..n : q[j].is = is
      BY <1>3 DEF HasFrame
    <2>2. QED
      BY <1>1, <1>2, <2>1 DEF HasFrame
  <1>4. ASSUME NEW is, HasFrame(t, is) PROVE HasFrame(q, is)
    <2>1. PICK j \in 1..(n - 1) : t[j].is = is
      BY <1>1, <1>4 DEF HasFrame
    <2>2. QED
      BY <1>2, <2>1 DEF HasFrame
  <1>5. ASSUME NEW is, Head(q).is = is PROVE HasFrame(q, is)
    BY <1>1, <1>2, <1>5 DEF HasFrame
  <1>6. QED
    BY <1>3, <1>4, <1>5 DEF t

\* An empty queue has none.
LEMMA NoFrames == \A is : ~HasFrame(<<>>, is)
  BY DEF HasFrame

\* What a user's frame, the relay's taking it, and its telling others do to the queues.
LEMMA SendsEffect ==
    ASSUME ChatTyped, NEW p \in people, NEW f \in UpFrame, Sends(p, f)
    PROVE  /\ up' \in [people -> Seq(UpFrame)]
           /\ \A q \in people : \A is :
                HasFrame(up'[q], is) <=> HasFrame(up[q], is) \/ (q = p /\ p \in linked /\ f.is = is)
  <1>1. up \in [people -> Seq(UpFrame)] /\ up[p] \in Seq(UpFrame)
    BY DEF ChatTyped
  <1>2. CASE p \notin linked
    BY <1>1, <1>2 DEF Sends
  <1>3. CASE p \in linked
    <2>1. up' = [up EXCEPT ![p] = Append(up[p], f)] /\ Append(up[p], f) \in Seq(UpFrame)
      BY <1>1, <1>3 DEF Sends
    <2>2. \A is : HasFrame(Append(up[p], f), is) <=> HasFrame(up[p], is) \/ f.is = is
      BY <1>1, AppendFrames
    <2>3. up'[p] = Append(up[p], f) /\ \A q \in people : q # p => up'[q] = up[q]
      BY <1>1, <2>1
    <2>4. QED
      BY <1>1, <1>3, <2>1, <2>2, <2>3
  <1>4. QED
    BY <1>2, <1>3

LEMMA TakeEffect ==
    ASSUME ChatTyped, NEW p \in people, up[p] # <<>>, TakeFrame(p)
    PROVE  /\ up' \in [people -> Seq(UpFrame)] /\ Head(up[p]) \in UpFrame
           /\ \A q \in people : \A is :
                HasFrame(up[q], is) <=> HasFrame(up'[q], is) \/ (q = p /\ Head(up[p]).is = is)
  <1>1. up \in [people -> Seq(UpFrame)] /\ up[p] \in Seq(UpFrame)
    BY DEF ChatTyped
  <1>2. up' = [up EXCEPT ![p] = Tail(up[p])] /\ Tail(up[p]) \in Seq(UpFrame) /\ Head(up[p]) \in UpFrame
    BY <1>1 DEF TakeFrame
  <1>3. \A is : HasFrame(up[p], is) <=> HasFrame(Tail(up[p]), is) \/ Head(up[p]).is = is
    BY <1>1, TailFrames
  <1>4. up'[p] = Tail(up[p]) /\ \A q \in people : q # p => up'[q] = up[q]
    BY <1>1, <1>2
  <1>5. QED
    BY <1>1, <1>2, <1>3, <1>4

LEMMA TellEffect ==
    ASSUME NEW d \in [people -> Seq(DownFrame)], NEW to, NEW f \in DownFrame
    PROVE  /\ Tell(d, to, f) \in [people -> Seq(DownFrame)]
           /\ \A q \in people : Tell(d, to, f)[q] = IF q \in to \cap linked THEN Append(d[q], f) ELSE d[q]
           /\ \A q \in people : \A is :
                HasFrame(Tell(d, to, f)[q], is) <=> HasFrame(d[q], is) \/ (q \in to \cap linked /\ f.is = is)
  <1>1. \A q \in people : d[q] \in Seq(DownFrame) /\ Append(d[q], f) \in Seq(DownFrame)
    OBVIOUS
  <1>2. \A q \in people : Tell(d, to, f)[q] = IF q \in to \cap linked THEN Append(d[q], f) ELSE d[q]
    BY DEF Tell
  <1>3. \A q \in people : \A is : HasFrame(Append(d[q], f), is) <=> HasFrame(d[q], is) \/ f.is = is
    BY <1>1, AppendFrames
  <1>4. Tell(d, to, f) \in [people -> Seq(DownFrame)]
    BY <1>1 DEF Tell
  <1>5. QED
    BY <1>2, <1>3, <1>4

LEMMA TellOther ==
    ASSUME NEW d \in [people -> Seq(DownFrame)], NEW to, NEW f \in DownFrame, NEW e, e = Tell(d, to, f)
    PROVE  /\ e \in [people -> Seq(DownFrame)]
           /\ \A q \in people : e[q] = IF q \in to \cap linked THEN Append(d[q], f) ELSE d[q]
           /\ f.is # "sent" => \A q \in people : HasFrame(e[q], "sent") => HasFrame(d[q], "sent")
  <1>1. \A q \in people : \A is :
          HasFrame(Tell(d, to, f)[q], is) <=> HasFrame(d[q], is) \/ (q \in to \cap linked /\ f.is = is)
    BY TellEffect
  <1>2. \A q \in people : HasFrame(e[q], "sent") <=> HasFrame(d[q], "sent") \/ (q \in to \cap linked /\ f.is = "sent")
    BY <1>1
  <1>3. QED
    BY <1>2, TellEffect

\* What an app's reading an event does to its queue.
LEMMA EventEffect ==
    ASSUME ChatTyped, NEW p \in people, NEW is, Event(p, is)
    PROVE  /\ down' \in [people -> Seq(DownFrame)] /\ down[p] \in Seq(DownFrame) /\ down[p] # <<>>
           /\ Head(down[p]) \in DownFrame /\ Head(down[p]).is \in is
           /\ down'[p] = Tail(down[p]) /\ \A q \in people : q # p => down'[q] = down[q]
           /\ \A q \in people : \A x : HasFrame(down'[q], x) => HasFrame(down[q], x)
           /\ HasFrame(down[p], Head(down[p]).is)
  <1>1. down \in [people -> Seq(DownFrame)] /\ down[p] \in Seq(DownFrame) /\ down[p] # <<>>
        /\ Head(down[p]).is \in is
    BY DEF ChatTyped, Event
  <1>2. down' = [down EXCEPT ![p] = Tail(down[p])] /\ Tail(down[p]) \in Seq(DownFrame) /\ Head(down[p]) \in DownFrame
    BY <1>1 DEF Event
  <1>3. \A x : HasFrame(down[p], x) <=> HasFrame(Tail(down[p]), x) \/ Head(down[p]).is = x
    BY <1>1, TailFrames
  <1>4. down'[p] = Tail(down[p]) /\ \A q \in people : q # p => down'[q] = down[q]
    BY <1>1, <1>2
  <1>5. QED
    BY <1>1, <1>2, <1>3, <1>4

\* What a closed connection does to the queues and to the post.
LEMMA DropEffect ==
    ASSUME ChatTyped, PostInv, NEW gone \in SUBSET people, Drop(gone), UNCHANGED handed
    PROVE  /\ linked' \subseteq linked /\ up' \in [people -> Seq(UpFrame)] /\ down' \in [people -> Seq(DownFrame)]
           /\ \A p \in people \cap linked' : up'[p] = up[p] /\ down'[p] = down[p]
           /\ PostInv'
  <1>1. up \in [people -> Seq(UpFrame)] /\ down \in [people -> Seq(DownFrame)]
    BY DEF ChatTyped
  <1>2. /\ up' = [p \in people |-> IF p \in gone THEN <<>> ELSE up[p]]
        /\ down' = [p \in people |-> IF p \in gone THEN <<>> ELSE down[p]]
        /\ linked' = linked \ gone
    BY DEF Drop, Empty
  <1>3. up' \in [people -> Seq(UpFrame)] /\ down' \in [people -> Seq(DownFrame)]
    BY <1>1, <1>2
  <1>4. /\ \A p \in people : \A is : HasFrame(up'[p], is) => HasFrame(up[p], is)
        /\ \A p \in people : \A is : HasFrame(down'[p], is) => HasFrame(down[p], is)
    BY <1>2, NoFrames
  <1>5. \/ post' = post
        \/ post.status = "sending" /\ post' = [post EXCEPT !.status = "failed"]
    BY DEF Drop, Interrupt
  <1>6. /\ post' \in [by : people, keys : SUBSET people, status : {"none", "encrypting", "sending", "sent", "failed"}]
        /\ post'.by = post.by /\ (Begun => Begun') /\ (post'.status = "sent" => post.status = "sent")
    BY <1>5 DEF PostInv, Begun
  <1>7. handed' = handed
    OBVIOUS
  <1>8. ASSUME NEW p \in people, HasFrame(up'[p], "post") PROVE post'.by = p /\ Begun'
    <2>1. HasFrame(up[p], "post")
      BY <1>4, <1>8
    <2>2. post.by = p /\ Begun
      BY <2>1 DEF PostInv
    <2>3. QED
      BY <1>6, <2>2
  <1>9. ASSUME NEW p \in people, HasFrame(down'[p], "sent") PROVE Begun' /\ handed' \ {post'.by} # {}
    <2>1. HasFrame(down[p], "sent")
      BY <1>4, <1>9
    <2>2. Begun /\ handed \ {post.by} # {}
      BY <2>1 DEF PostInv
    <2>3. QED
      BY <1>6, <1>7, <2>2
  <1>10. post'.status = "sent" => handed' \ {post'.by} # {}
    BY <1>6, <1>7 DEF PostInv
  <1>11. PostInv'
    BY <1>6, <1>8, <1>9, <1>10 DEF PostInv
  <1>12. \A p \in people \cap linked' : up'[p] = up[p] /\ down'[p] = down[p]
    BY <1>1, <1>2
  <1>13. QED
    BY <1>2, <1>3, <1>11, <1>12
-----------------------------------------------------------------------------
(* The actions.                                                            *)

\* Nobody's list changes, and nobody who is not leaving hears anything.
LEMMA RosterQuiet ==
    ASSUME ChatTyped, RosterInv, UNCHANGED <<roster, relayLoaded, greeted>>, linked' \subseteq linked,
           \A p \in people \cap linked' :
              /\ HasFrame(up[p], "leave") => HasFrame(up'[p], "leave")
              /\ HasFrame(up'[p], "leave") \/ (down'[p] = down[p] /\ shown'[p] = shown[p])
    PROVE  RosterInv'
  <1>1. ASSUME NEW p \in roster', p \in linked' \cap greeted', relayLoaded', ~HasFrame(up'[p], "leave")
        PROVE  WillShow(down'[p], shown'[p], roster')
    BY <1>1 DEF RosterInv, ChatTyped
  <1>2. QED
    BY <1>1 DEF RosterInv

\* The post is as it was, and no frame about it is new.
LEMMA PostQuiet ==
    ASSUME PostInv, UNCHANGED <<post, handed>>,
           \A p \in people : HasFrame(up'[p], "post") => HasFrame(up[p], "post"),
           \A p \in people : HasFrame(down'[p], "sent") => HasFrame(down[p], "sent")
    PROVE  PostInv'
  BY DEF PostInv, Begun

\* Connections end.
LEMMA BreaksKept ==
    ASSUME ChatInv, RelayDown \/ \E p \in people : CutOff(p) \/ LeaveApp(p)
    PROVE  ChatInv'
  <1>1. ChatTyped /\ RosterInv /\ PostInv
    BY DEF ChatInv
  <1>2. ASSUME NEW p \in people, CutOff(p) PROVE ChatInv'
    <2>1. Drop({p}) /\ UNCHANGED <<roster, relayLoaded, greeted, shown, handed>>
      BY <1>2 DEF CutOff, apps
    <2>2. /\ linked' \subseteq linked /\ up' \in [people -> Seq(UpFrame)] /\ down' \in [people -> Seq(DownFrame)]
          /\ \A q \in people \cap linked' : up'[q] = up[q] /\ down'[q] = down[q]
          /\ PostInv'
      BY <1>1, <2>1, DropEffect
    <2>3. ChatTyped'
      BY <1>1, <2>1, <2>2 DEF ChatTyped
    <2>4. RosterInv'
      BY <1>1, <2>1, <2>2, RosterQuiet
    <2>5. QED
      BY <2>2, <2>3, <2>4 DEF ChatInv
  <1>3. ASSUME NEW p \in people, LeaveApp(p) PROVE ChatInv'
    <2>1. Drop({p}) /\ UNCHANGED <<roster, relayLoaded, greeted, handed>> /\ shown' = [shown EXCEPT ![p] = {}]
          /\ linked' = linked \ {p}
      BY <1>3 DEF LeaveApp, Drop
    <2>2. /\ linked' \subseteq linked /\ up' \in [people -> Seq(UpFrame)] /\ down' \in [people -> Seq(DownFrame)]
          /\ \A q \in people \cap linked' : up'[q] = up[q] /\ down'[q] = down[q]
          /\ PostInv'
      BY <1>1, <2>1, DropEffect
    <2>3. shown' \in [people -> SUBSET people] /\ \A q \in people \cap linked' : shown'[q] = shown[q]
      BY <1>1, <2>1 DEF ChatTyped
    <2>4. ChatTyped'
      BY <1>1, <2>1, <2>2, <2>3 DEF ChatTyped
    <2>5. RosterInv'
      BY <1>1, <2>1, <2>2, <2>3, RosterQuiet
    <2>6. QED
      BY <2>2, <2>4, <2>5 DEF ChatInv
  <1>4. CASE RelayDown
    <2>1. Drop(people) /\ UNCHANGED <<roster, shown, handed>> /\ relayLoaded' = FALSE /\ greeted' = {}
      BY <1>4 DEF RelayDown, apps
    <2>2. /\ linked' \subseteq linked /\ up' \in [people -> Seq(UpFrame)] /\ down' \in [people -> Seq(DownFrame)]
          /\ PostInv'
      BY <1>1, <2>1, DropEffect
    <2>3. FALSE \in BOOLEAN
      OBVIOUS
    <2>4. ChatTyped'
      BY <1>1, <2>1, <2>2, <2>3 DEF ChatTyped
    <2>5. RosterInv'
      BY <2>1 DEF RosterInv
    <2>6. QED
      BY <2>2, <2>4, <2>5 DEF ChatInv
  <1>5. QED
    BY <1>2, <1>3, <1>4

\* A user connects and is sent the groups of the moment.
LEMMA BackOnKept == ASSUME ChatInv, NEW p \in people, BackOn(p) PROVE ChatInv'
  <1> DEFINE m == IF p \in Known THEN Known ELSE {}
             f == [is |-> "snapshot", members |-> m]
  <1>1. ChatTyped /\ RosterInv /\ PostInv /\ UNCHANGED <<roster, relayLoaded, up, shown, post, handed>>
    BY DEF ChatInv, BackOn, apps
  <1>2. m \subseteq people
    BY <1>1 DEF Known, ChatTyped
  <1>3. f \in DownFrame /\ Lists(f) /\ f.members = m /\ f.is = "snapshot"
    BY <1>2 DEF DownFrame, Lists
  <1>4. down' = [down EXCEPT ![p] = <<f>>] /\ p \notin linked
    BY DEF BackOn
  <1>5. linked' = linked \cup {p}
    BY DEF BackOn
  <1>6. /\ relayLoaded => greeted' = greeted \cup {p}
        /\ ~relayLoaded => greeted' = greeted \ {p}
    BY DEF BackOn
  <1>7. relayLoaded /\ p \in roster => m = roster
    BY DEF Known
  <1> HIDE DEF m, f
  <1>8. <<>> \in Seq(DownFrame) /\ <<f>> \in Seq(DownFrame) /\ <<f>> = Append(<<>>, f)
    BY <1>3
  <1>9. /\ down' \in [people -> Seq(DownFrame)] /\ down'[p] = Append(<<>>, f)
        /\ \A q \in people : q # p => down'[q] = down[q]
    BY <1>1, <1>4, <1>8 DEF ChatTyped
  <1>10. ChatTyped'
    BY <1>1, <1>5, <1>9 DEF ChatTyped
  <1>11. \A is : HasFrame(down'[p], is) <=> f.is = is
    <2>1. \A is : HasFrame(Append(<<>>, f), is) <=> HasFrame(<<>>, is) \/ f.is = is
      BY <1>8, AppendFrames
    <2>2. QED
      BY <1>9, <2>1, NoFrames
  <1>12. PostInv'
    BY <1>1, <1>3, <1>9, <1>11, PostQuiet
  <1>13. RosterInv'
    <2>1. ~relayLoaded' => greeted' = {}
      BY <1>1, <1>6 DEF RosterInv
    <2>2. ASSUME NEW q \in roster', q \in linked' \cap greeted', relayLoaded', ~HasFrame(up'[q], "leave")
          PROVE  WillShow(down'[q], shown'[q], roster')
      <3>1. CASE q = p
        BY <1>1, <1>3, <1>7, <1>8, <1>9, <2>2, <3>1, ListBehind
      <3>2. CASE q # p
        BY <1>1, <1>5, <1>6, <1>9, <2>2, <3>2 DEF RosterInv, ChatTyped
      <3>3. QED
        BY <3>1, <3>2
    <2>3. QED
      BY <2>1, <2>2 DEF RosterInv
  <1>14. QED
    BY <1>10, <1>12, <1>13 DEF ChatInv

\* The relay has its groups again; nobody who is connected counts as told.
LEMMA LoadsKept == ASSUME ChatInv, RelayLoads PROVE ChatInv'
  <1>1. /\ ~relayLoaded /\ relayLoaded' = TRUE /\ TRUE \in BOOLEAN
        /\ UNCHANGED <<roster, greeted, linked, up, down, shown, post, handed>>
    BY DEF RelayLoads, apps
  <1>2. greeted' = {}
    BY <1>1 DEF ChatInv, RosterInv
  <1>3. RosterInv'
    BY <1>2 DEF RosterInv
  <1>4. ChatTyped' /\ PostInv'
    BY <1>1 DEF ChatInv, ChatTyped, PostInv, Begun
  <1>5. QED
    BY <1>3, <1>4 DEF ChatInv

\* A user's act sends one frame to the relay, which is no post.
LEMMA ActKept ==
    ASSUME ChatInv, NEW p \in people, NEW f \in UpFrame, f.is # "post", Sends(p, f),
           UNCHANGED <<relayGroup, linked, down, post, handed>>,
           shown' = shown \/ (p \in linked /\ f.is = "leave" /\ shown' = [shown EXCEPT ![p] = {}])
    PROVE  ChatInv'
  <1>1. ChatTyped /\ RosterInv /\ PostInv /\ UNCHANGED <<roster, relayLoaded, greeted, linked, down, post, handed>>
    BY DEF ChatInv, relayGroup
  <1>2. /\ up' \in [people -> Seq(UpFrame)]
        /\ \A q \in people : \A is :
             HasFrame(up'[q], is) <=> HasFrame(up[q], is) \/ (q = p /\ p \in linked /\ f.is = is)
    BY <1>1, SendsEffect
  <1>3. shown' \in [people -> SUBSET people] /\ \A q \in people : q # p => shown'[q] = shown[q]
    BY <1>1 DEF ChatTyped
  <1>4. ChatTyped'
    BY <1>1, <1>2, <1>3 DEF ChatTyped
  <1>5. \A q \in people : HasFrame(up'[q], "leave") \/ shown'[q] = shown[q]
    BY <1>2, <1>3
  <1>6. RosterInv'
    BY <1>1, <1>2, <1>5, RosterQuiet
  <1>7. PostInv'
    BY <1>1, <1>2, PostQuiet
  <1>8. QED
    BY <1>4, <1>6, <1>7 DEF ChatInv

\* The user's acts that leave the post alone.
LEMMA ActsKept ==
    ASSUME ChatInv,
           \/ \E to \in SUBSET Guests : CreateGroup(to)
           \/ \E p \in people : \/ LeaveGroup(p)
                                \/ \E q \in Guests : AddMember(p, q)
                                \/ \E accept \in BOOLEAN : RespondToInvite(p, accept)
    PROVE  ChatInv'
  <1>1. ASSUME NEW to \in SUBSET Guests, CreateGroup(to) PROVE ChatInv'
    <2> DEFINE f == [is |-> "create", to |-> to]
    <2>1. f \in UpFrame /\ f.is = "create" /\ Owner \in people
      BY DEF UpFrame, people
    <2>2. Sends(Owner, f) /\ UNCHANGED <<relayGroup, linked, down, post, handed, shown>>
      BY <1>1 DEF CreateGroup, apps
    <2> HIDE DEF f
    <2>3. QED
      BY <2>1, <2>2, ActKept
  <1>2. ASSUME NEW p \in people, LeaveGroup(p) PROVE ChatInv'
    <2> DEFINE f == [is |-> "leave"]
    <2>1. f \in UpFrame /\ f.is = "leave"
      BY DEF UpFrame
    <2>2. /\ Sends(p, f) /\ UNCHANGED <<relayGroup, linked, down, post, handed>>
          /\ p \in linked /\ shown' = [shown EXCEPT ![p] = {}]
      BY <1>2 DEF LeaveGroup
    <2> HIDE DEF f
    <2>3. QED
      BY <2>1, <2>2, ActKept
  <1>3. ASSUME NEW p \in people, NEW q \in Guests, AddMember(p, q) PROVE ChatInv'
    <2> DEFINE f == [is |-> "invite", to |-> {q}]
    <2>1. f \in UpFrame /\ f.is = "invite"
      BY DEF UpFrame
    <2>2. Sends(p, f) /\ UNCHANGED <<relayGroup, linked, down, post, handed, shown>>
      BY <1>3 DEF AddMember, apps
    <2> HIDE DEF f
    <2>3. QED
      BY <2>1, <2>2, ActKept
  <1>4. ASSUME NEW p \in people, NEW accept \in BOOLEAN, RespondToInvite(p, accept) PROVE ChatInv'
    <2> DEFINE f == [is |-> "respond", accept |-> accept]
    <2>1. f \in UpFrame /\ f.is = "respond"
      BY DEF UpFrame
    <2>2. Sends(p, f) /\ UNCHANGED <<relayGroup, linked, down, post, handed, shown>>
      BY <1>4 DEF RespondToInvite
    <2> HIDE DEF f
    <2>3. QED
      BY <2>1, <2>2, ActKept
  <1>5. QED
    BY <1>1, <1>2, <1>3, <1>4

\* The post is written, and goes out or fails.
LEMMA EncryptKept == ASSUME ChatInv, NEW p \in people, Encrypt(p) PROVE ChatInv'
  <1>1. /\ ChatTyped /\ RosterInv /\ PostInv /\ post.status = "none"
        /\ UNCHANGED <<roster, relayLoaded, greeted, linked, up, down, shown, handed>>
    BY DEF ChatInv, Encrypt, relayGroup, apps
  <1>2. PICK ks \in SUBSET (shown[p] \ {p}) : post' = [by |-> p, keys |-> ks, status |-> "encrypting"]
    BY DEF Encrypt
  <1>3. ks \subseteq people
    BY <1>1 DEF ChatTyped
  <1>4. ~Begun
    BY <1>1 DEF Begun
  <1>5. PostInv'
    BY <1>1, <1>2, <1>3, <1>4 DEF PostInv
  <1>6. ChatTyped' /\ RosterInv'
    BY <1>1, RosterQuiet DEF ChatTyped
  <1>7. QED
    BY <1>5, <1>6 DEF ChatInv

LEMMA SendPostKept == ASSUME ChatInv, SendPost PROVE ChatInv'
  <1> DEFINE p == post.by
             f == [is |-> "post"]
             goes == post.keys # {} /\ p \in linked
  <1>1. /\ ChatTyped /\ RosterInv /\ PostInv /\ post.status = "encrypting"
        /\ UNCHANGED <<roster, relayLoaded, greeted, linked, down, shown, handed>>
    BY DEF ChatInv, SendPost, relayGroup, apps
  <1>2. post' = [post EXCEPT !.status = IF goes THEN "sending" ELSE "failed"] /\ p \in people
    BY <1>1 DEF SendPost, PostInv
  <1>3. /\ post' \in [by : people, keys : SUBSET people, status : {"none", "encrypting", "sending", "sent", "failed"}]
        /\ post'.by = p /\ post'.status \in {"sending", "failed"} /\ Begun'
    BY <1>1, <1>2 DEF PostInv, Begun
  <1>4. f \in UpFrame /\ f.is = "post"
    BY DEF UpFrame
  <1>5. goes => Sends(p, f)
    BY DEF SendPost, Sends
  <1>6. ~goes => up' = up
    BY DEF SendPost
  <1> HIDE DEF f, goes
  <1>7. /\ up' \in [people -> Seq(UpFrame)]
        /\ \A q \in people : \A is : HasFrame(up'[q], is) => HasFrame(up[q], is) \/ (q = p /\ is = "post")
        /\ \A q \in people : \A is : HasFrame(up[q], is) => HasFrame(up'[q], is)
    <2>1. CASE goes
      BY <1>1, <1>2, <1>4, <1>5, <2>1, SendsEffect
    <2>2. CASE ~goes
      BY <1>1, <1>6, <2>2 DEF ChatTyped
    <2>3. QED
      BY <2>1, <2>2
  <1>8. ~Begun
    BY <1>1 DEF Begun
  <1>9. PostInv'
    BY <1>1, <1>3, <1>7, <1>8 DEF PostInv
  <1>10. ChatTyped'
    BY <1>1, <1>7 DEF ChatTyped
  <1>11. RosterInv'
    BY <1>1, <1>7, RosterQuiet
  <1>12. QED
    BY <1>9, <1>10, <1>11 DEF ChatInv

\* The relay takes a frame that is no departure and tells some an event that is no list.
LEMMA RelayTells ==
    ASSUME ChatTyped, RosterInv, NEW p \in people, up[p] # <<>>, TakeFrame(p), Head(up[p]).is # "leave",
           UNCHANGED <<roster, relayLoaded, greeted, linked, shown>>,
           NEW to, NEW f \in DownFrame, f.is \in {"ask", "sent", "failed"}, down' = Tell(down, to, f)
    PROVE  ChatTyped' /\ RosterInv'
  <1>1. down \in [people -> Seq(DownFrame)] /\ roster \subseteq people
    BY DEF ChatTyped
  <1>2. /\ up' \in [people -> Seq(UpFrame)]
        /\ \A q \in people : HasFrame(up[q], "leave") => HasFrame(up'[q], "leave")
    BY TakeEffect
  <1>3. /\ down' \in [people -> Seq(DownFrame)]
        /\ \A q \in people : down'[q] = IF q \in to \cap linked THEN Append(down[q], f) ELSE down[q]
    BY <1>1, TellEffect
  <1>4. ~Lists(f) /\ f.is # "left"
    BY DEF Lists
  <1>5. ChatTyped'
    BY <1>2, <1>3 DEF ChatTyped
  <1>6. ASSUME NEW q \in roster', q \in linked' \cap greeted', relayLoaded', ~HasFrame(up'[q], "leave")
        PROVE  WillShow(down'[q], shown'[q], roster')
    <2>1. q \in people /\ q \in roster /\ WillShow(down[q], shown[q], roster)
      BY <1>1, <1>2, <1>6 DEF RosterInv
    <2>2. WillShow(Append(down[q], f), shown[q], roster)
      BY <1>1, <1>4, <2>1, OtherBehind
    <2>3. QED
      BY <1>3, <2>1, <2>2
  <1>7. RosterInv'
    BY <1>6 DEF RosterInv
  <1>8. QED
    BY <1>5, <1>7

\* The relay takes a frame: one lemma for each kind.
LEMMA CreateKept == ASSUME ChatInv, NEW p \in people, GroupCreate(p) PROVE ChatInv'
  <1> DEFINE asked == Asked({p}, Head(up[p]).to)
             f == [is |-> "created", members |-> {p}]
             g == [is |-> "ask"]
             d == Tell(down, {p}, f)
  <1>1. /\ ChatTyped /\ RosterInv /\ PostInv /\ up[p] # <<>> /\ TakeFrame(p) /\ relayLoaded' = TRUE
        /\ roster' = {p} /\ down' = Tell(d, asked, g)
        /\ UNCHANGED <<linked, shown, post, handed>>
    BY DEF ChatInv, GroupCreate, Frames, apps
  <1>2. /\ f \in DownFrame /\ Lists(f) /\ f.members = {p} /\ f.is = "created"
        /\ g \in DownFrame /\ g.is = "ask" /\ p \notin asked
    BY DEF DownFrame, Lists, Asked
  <1>3. down \in [people -> Seq(DownFrame)] /\ down[p] \in Seq(DownFrame)
    BY <1>1 DEF ChatTyped
  <1> HIDE DEF asked, f, g
  <1>4. /\ d \in [people -> Seq(DownFrame)]
        /\ \A q \in people : d[q] = IF q \in {p} \cap linked THEN Append(down[q], f) ELSE down[q]
        /\ \A q \in people : HasFrame(d[q], "sent") => HasFrame(down[q], "sent")
    <2>1. d = Tell(down, {p}, f) /\ f.is # "sent"
      BY <1>2
    <2> HIDE DEF d
    <2>2. d \in [people -> Seq(DownFrame)]
      BY <1>2, <1>3, <2>1, TellOther
    <2>3. \A q \in people : d[q] = IF q \in {p} \cap linked THEN Append(down[q], f) ELSE down[q]
      BY <1>2, <1>3, <2>1, TellOther
    <2>4. \A q \in people : HasFrame(d[q], "sent") => HasFrame(down[q], "sent")
      BY <1>2, <1>3, <2>1, TellOther
    <2>5. QED
      BY <2>2, <2>3, <2>4
  <1> HIDE DEF d
  <1>5. /\ down' \in [people -> Seq(DownFrame)]
        /\ \A q \in people : down'[q] = IF q \in asked \cap linked THEN Append(d[q], g) ELSE d[q]
        /\ \A q \in people : HasFrame(down'[q], "sent") => HasFrame(d[q], "sent")
    BY <1>1, <1>2, <1>4, TellOther
  <1>6. /\ up' \in [people -> Seq(UpFrame)]
        /\ \A q \in people : \A is : HasFrame(up'[q], is) => HasFrame(up[q], is)
    BY <1>1, TakeEffect
  <1>7. ChatTyped'
    BY <1>1, <1>5, <1>6 DEF ChatTyped
  <1>8. PostInv'
    BY <1>1, <1>4, <1>5, <1>6, PostQuiet
  <1>9. p \in linked => down'[p] = Append(down[p], f)
    BY <1>2, <1>4, <1>5
  <1>10. p \in linked => WillShow(down'[p], shown'[p], roster')
    BY <1>1, <1>2, <1>3, <1>9, ListBehind
  <1>11. RosterInv'
    BY <1>1, <1>10 DEF RosterInv
  <1>12. QED
    BY <1>7, <1>8, <1>11 DEF ChatInv

LEMMA InviteKept == ASSUME ChatInv, NEW p \in people, GroupInvite(p) PROVE ChatInv'
  <1> DEFINE asked == IF p \in Known THEN Asked(Known, Head(up[p]).to) ELSE {}
             g == [is |-> "ask"]
  <1>1. /\ ChatTyped /\ RosterInv /\ PostInv /\ up[p] # <<>> /\ TakeFrame(p) /\ Head(up[p]).is = "invite"
        /\ down' = Tell(down, asked, g)
        /\ UNCHANGED <<roster, relayLoaded, greeted, linked, shown, post, handed>>
    BY DEF ChatInv, GroupInvite, Frames, apps
  <1>2. g \in DownFrame /\ g.is = "ask"
    BY DEF DownFrame
  <1> HIDE DEF asked, g
  <1>3. \A q \in people : HasFrame(down'[q], "sent") => HasFrame(down[q], "sent")
    BY <1>1, <1>2, TellOther DEF ChatTyped
  <1>4. \A q \in people : HasFrame(up'[q], "post") => HasFrame(up[q], "post")
    BY <1>1, TakeEffect
  <1>5. PostInv'
    BY <1>1, <1>3, <1>4, PostQuiet
  <1>6. ChatTyped' /\ RosterInv'
    BY <1>1, <1>2, RelayTells
  <1>7. QED
    BY <1>5, <1>6 DEF ChatInv

LEMMA RespondKept == ASSUME ChatInv, NEW p \in people, GroupInviteRespond(p) PROVE ChatInv'
  <1> DEFINE joins == p \in invited /\ Head(up[p]).accept /\ Known # {}
             R == roster \cup {p}
             f == [is |-> "invited", members |-> R]
  <1>1. /\ ChatTyped /\ RosterInv /\ PostInv /\ up[p] # <<>> /\ TakeFrame(p) /\ Head(up[p]).is = "respond"
        /\ roster' = IF joins THEN R ELSE roster
        /\ down' = IF joins THEN Tell(down, R, f) ELSE down
        /\ UNCHANGED <<relayLoaded, greeted, linked, shown, post, handed>>
    BY DEF ChatInv, GroupInviteRespond, Frames, apps, News
  <1>2. R \subseteq people
    BY <1>1 DEF ChatTyped
  <1>3. f \in DownFrame /\ Lists(f) /\ f.members = R /\ f.is = "invited"
    BY <1>2 DEF DownFrame, Lists
  <1>4. /\ up' \in [people -> Seq(UpFrame)]
        /\ \A q \in people : HasFrame(up[q], "leave") => HasFrame(up'[q], "leave")
        /\ \A q \in people : HasFrame(up'[q], "post") => HasFrame(up[q], "post")
    BY <1>1, TakeEffect
  <1>5. joins => relayLoaded
    BY DEF Known
  <1> HIDE DEF joins, R, f
  <1>6. CASE joins
    <2>1. /\ down' \in [people -> Seq(DownFrame)]
          /\ \A q \in people : down'[q] = IF q \in R \cap linked THEN Append(down[q], f) ELSE down[q]
          /\ \A q \in people : HasFrame(down'[q], "sent") => HasFrame(down[q], "sent")
      <3>1. down \in [people -> Seq(DownFrame)] /\ down' = Tell(down, R, f) /\ f.is # "sent"
        BY <1>1, <1>3, <1>6 DEF ChatTyped
      <3>2. down' \in [people -> Seq(DownFrame)]
        BY <1>3, <3>1, TellOther
      <3>3. \A q \in people : down'[q] = IF q \in R \cap linked THEN Append(down[q], f) ELSE down[q]
        BY <1>3, <3>1, TellOther
      <3>4. \A q \in people : HasFrame(down'[q], "sent") => HasFrame(down[q], "sent")
        BY <1>3, <3>1, TellOther
      <3>5. QED
        BY <3>2, <3>3, <3>4
    <2>2. PostInv'
      BY <1>1, <1>4, <2>1, PostQuiet
    <2>3. ChatTyped'
      BY <1>1, <1>2, <1>4, <1>6, <2>1 DEF ChatTyped
    <2>4. ASSUME NEW q \in roster', q \in linked' \cap greeted', relayLoaded', ~HasFrame(up'[q], "leave")
          PROVE  WillShow(down'[q], shown'[q], roster')
      <3>1. q \in R /\ q \in people /\ q \in linked /\ down[q] \in Seq(DownFrame)
        BY <1>1, <1>2, <1>6, <2>4 DEF ChatTyped
      <3>2. WillShow(Append(down[q], f), shown[q], R)
        BY <1>3, <3>1, ListBehind
      <3>3. QED
        BY <1>1, <1>6, <2>1, <3>1, <3>2
    <2>5. RosterInv'
      BY <1>1, <1>5, <1>6, <2>4 DEF RosterInv
    <2>6. QED
      BY <2>2, <2>3, <2>5 DEF ChatInv
  <1>7. CASE ~joins
    <2>1. UNCHANGED <<roster, down>>
      BY <1>1, <1>7
    <2>2. ChatTyped'
      BY <1>1, <1>4, <2>1 DEF ChatTyped
    <2>3. RosterInv'
      BY <1>1, <1>4, <2>1, RosterQuiet
    <2>4. PostInv'
      BY <1>1, <1>4, <2>1, PostQuiet
    <2>5. QED
      BY <2>2, <2>3, <2>4 DEF ChatInv
  <1>8. QED
    BY <1>6, <1>7

LEMMA LeaveKept == ASSUME ChatInv, NEW p \in people, GroupLeave(p) PROVE ChatInv'
  <1> DEFINE to == Known \ {p}
             f == [is |-> "left", who |-> p]
  <1>1. /\ ChatTyped /\ RosterInv /\ PostInv /\ up[p] # <<>> /\ TakeFrame(p) /\ Head(up[p]).is = "leave"
        /\ roster' = IF relayLoaded THEN roster \ {p} ELSE roster
        /\ down' = Tell(down, to, f)
        /\ UNCHANGED <<relayLoaded, greeted, linked, shown, post, handed>>
    BY DEF ChatInv, GroupLeave, Frames, apps
  <1>2. f \in DownFrame /\ ~Lists(f) /\ f.is = "left" /\ f.who = p
    BY DEF DownFrame, Lists
  <1>3. relayLoaded => to = roster \ {p}
    BY DEF Known
  <1> HIDE DEF to, f
  <1>4. /\ up' \in [people -> Seq(UpFrame)]
        /\ \A q \in people : HasFrame(up'[q], "post") => HasFrame(up[q], "post")
        /\ \A q \in people : q # p /\ HasFrame(up[q], "leave") => HasFrame(up'[q], "leave")
    BY <1>1, TakeEffect
  <1>5. /\ down' \in [people -> Seq(DownFrame)]
        /\ \A q \in people : down'[q] = IF q \in to \cap linked THEN Append(down[q], f) ELSE down[q]
        /\ \A q \in people : HasFrame(down'[q], "sent") => HasFrame(down[q], "sent")
    <2>1. down \in [people -> Seq(DownFrame)] /\ down' = Tell(down, to, f) /\ f.is # "sent"
      BY <1>1, <1>2 DEF ChatTyped
    <2>2. down' \in [people -> Seq(DownFrame)]
      BY <1>2, <2>1, TellOther
    <2>3. \A q \in people : down'[q] = IF q \in to \cap linked THEN Append(down[q], f) ELSE down[q]
      BY <1>2, <2>1, TellOther
    <2>4. \A q \in people : HasFrame(down'[q], "sent") => HasFrame(down[q], "sent")
      BY <1>2, <2>1, TellOther
    <2>5. QED
      BY <2>2, <2>3, <2>4
  <1>6. PostInv'
    BY <1>1, <1>4, <1>5, PostQuiet
  <1>7. ChatTyped'
    BY <1>1, <1>4, <1>5 DEF ChatTyped
  <1>8. ASSUME NEW q \in roster', q \in linked' \cap greeted', relayLoaded', ~HasFrame(up'[q], "leave")
        PROVE  WillShow(down'[q], shown'[q], roster')
    <2>1. q \in roster /\ q # p /\ q \in people /\ q \in to \cap linked /\ roster' = roster \ {p}
      BY <1>1, <1>3, <1>8 DEF ChatTyped
    <2>2. WillShow(down[q], shown[q], roster) /\ down[q] \in Seq(DownFrame)
      BY <1>1, <1>4, <1>8, <2>1 DEF RosterInv, ChatTyped
    <2>3. \A x \in people : x \in roster' <=> x \in roster /\ ~(f.is = "left" /\ f.who = x)
      BY <1>2, <2>1
    <2>4. WillShow(Append(down[q], f), shown[q], roster')
      BY <1>2, <2>2, <2>3, OtherBehind
    <2>5. QED
      BY <1>1, <1>5, <2>1, <2>4
  <1>9. RosterInv'
    BY <1>1, <1>8 DEF RosterInv
  <1>10. QED
    BY <1>6, <1>7, <1>9 DEF ChatInv

LEMMA PostKept == ASSUME ChatInv, NEW p \in people, GroupPost(p) PROVE ChatInv'
  <1> DEFINE to == IF p \in Known THEN Reaches(p) ELSE {}
             f == [is |-> IF to # {} THEN "sent" ELSE "failed"]
  <1>1. /\ ChatTyped /\ RosterInv /\ PostInv /\ up[p] # <<>> /\ TakeFrame(p) /\ Head(up[p]).is = "post"
        /\ handed' = handed \cup (to \cap linked)
        /\ down' = Tell(down, {p}, f)
        /\ UNCHANGED <<roster, relayLoaded, greeted, linked, shown, post>>
    BY DEF ChatInv, GroupPost, Frames, apps, relayGroup
  <1>2. /\ f \in DownFrame /\ f.is \in {"sent", "failed"}
        /\ f.is = "sent" => to # {}
    BY DEF DownFrame
  <1>3. to \subseteq linked \ {p}
    BY DEF Reaches
  <1> HIDE DEF to, f
  <1>4. /\ \A q \in people : HasFrame(up'[q], "post") => HasFrame(up[q], "post")
        /\ HasFrame(up[p], "post")
    BY <1>1, TakeEffect
  <1>5. post.by = p /\ Begun /\ UNCHANGED Begun
    BY <1>1, <1>4 DEF PostInv, Begun
  <1>6. f.is # "sent" => \A q \in people : HasFrame(down'[q], "sent") => HasFrame(down[q], "sent")
    BY <1>1, <1>2, TellOther DEF ChatTyped
  <1>7. /\ f.is = "sent" => handed' \ {p} # {}
        /\ handed \ {p} # {} => handed' \ {p} # {}
    BY <1>1, <1>2, <1>3
  <1>8. PostInv'
    BY <1>1, <1>4, <1>5, <1>6, <1>7 DEF PostInv
  <1>9. ChatTyped' /\ RosterInv'
    BY <1>1, <1>2, RelayTells
  <1>10. QED
    BY <1>8, <1>9 DEF ChatInv

\* An app reads an event.
LEMMA EventRoster ==
    ASSUME ChatTyped, RosterInv, NEW p \in people, NEW is, Event(p, is),
           NEW u \in SUBSET people, shown' = [shown EXCEPT ![p] = u],
           WillShow(down[p], shown[p], roster) => WillShow(Tail(down[p]), u, roster)
    PROVE  ChatTyped' /\ RosterInv'
  <1>1. /\ down' \in [people -> Seq(DownFrame)]
        /\ down'[p] = Tail(down[p]) /\ \A q \in people : q # p => down'[q] = down[q]
    BY EventEffect
  <1>2. UNCHANGED <<roster, relayLoaded, greeted, linked, up>>
    BY DEF Event, relayGroup
  <1>3. /\ shown' \in [people -> SUBSET people]
        /\ shown'[p] = u /\ \A q \in people : q # p => shown'[q] = shown[q]
    BY DEF ChatTyped
  <1>4. ChatTyped'
    BY <1>1, <1>2, <1>3 DEF ChatTyped
  <1>5. ASSUME NEW q \in roster', q \in linked' \cap greeted', relayLoaded', ~HasFrame(up'[q], "leave")
        PROVE  WillShow(down'[q], shown'[q], roster')
    <2>1. q \in people /\ WillShow(down[q], shown[q], roster)
      BY <1>2, <1>5 DEF RosterInv, ChatTyped
    <2>2. CASE q = p
      BY <1>1, <1>2, <1>3, <2>1, <2>2
    <2>3. CASE q # p
      BY <1>1, <1>2, <1>3, <2>1, <2>3
    <2>4. QED
      BY <2>2, <2>3
  <1>6. RosterInv'
    BY <1>2, <1>5 DEF RosterInv
  <1>7. QED
    BY <1>4, <1>6

\* Only an answer changes the post.
LEMMA EventPost ==
    ASSUME ChatTyped, PostInv, NEW p \in people, NEW is, Event(p, is), UNCHANGED post
    PROVE  PostInv'
  <1>1. \A q \in people : HasFrame(down'[q], "sent") => HasFrame(down[q], "sent")
    BY EventEffect
  <1>2. UNCHANGED <<up, handed>>
    BY DEF Event
  <1>3. QED
    BY <1>1, <1>2, PostQuiet

\* An app reads an event: one lemma for each kind.
LEMMA MembersKept == ASSUME ChatInv, NEW p \in people, OnMembers(p) PROVE ChatInv'
  <1> DEFINE f == Head(down[p])
             is == {"snapshot", "created", "invited"}
  <1>1. /\ ChatTyped /\ RosterInv /\ PostInv /\ Event(p, is) /\ UNCHANGED post
        /\ shown' = [shown EXCEPT ![p] = f.members]
    BY DEF ChatInv, OnMembers
  <1>2. down[p] \in Seq(DownFrame) /\ down[p] # <<>> /\ f \in DownFrame /\ f.is \in is
    BY <1>1, EventEffect
  <1>3. Lists(f) /\ f.members \subseteq people
    BY <1>2, FrameKinds DEF Lists
  <1>4. WillShow(down[p], shown[p], roster) => WillShow(Tail(down[p]), f.members, roster)
    BY <1>2, <1>3, ReadList
  <1> HIDE DEF f, is
  <1>5. ChatTyped' /\ RosterInv'
    BY <1>1, <1>3, <1>4, EventRoster
  <1>6. PostInv'
    BY <1>1, EventPost
  <1>7. QED
    BY <1>5, <1>6 DEF ChatInv

LEMMA AskKept == ASSUME ChatInv, NEW p \in people, OnInviteRequest(p) PROVE ChatInv'
  <1> DEFINE f == Head(down[p])
             is == {"ask"}
  <1>1. ChatTyped /\ RosterInv /\ PostInv /\ Event(p, is) /\ UNCHANGED <<shown, post>>
    BY DEF ChatInv, OnInviteRequest
  <1>2. down[p] \in Seq(DownFrame) /\ down[p] # <<>> /\ f \in DownFrame /\ f.is \in is
    BY <1>1, EventEffect
  <1>3. ~Lists(f) /\ f.is # "left" /\ shown[p] \in SUBSET people /\ shown' = [shown EXCEPT ![p] = shown[p]]
    BY <1>1, <1>2 DEF Lists, ChatTyped
  <1>4. WillShow(down[p], shown[p], roster) => WillShow(Tail(down[p]), shown[p], roster)
    BY <1>2, <1>3, ReadOther
  <1> HIDE DEF f, is
  <1>5. ChatTyped' /\ RosterInv'
    BY <1>1, <1>3, <1>4, EventRoster
  <1>6. PostInv'
    BY <1>1, EventPost
  <1>7. QED
    BY <1>5, <1>6 DEF ChatInv

LEMMA LeftKept == ASSUME ChatInv, NEW p \in people, OnMemberLeft(p) PROVE ChatInv'
  <1> DEFINE f == Head(down[p])
             is == {"left"}
             u == shown[p] \ {f.who}
  <1>1. /\ ChatTyped /\ RosterInv /\ PostInv /\ Event(p, is) /\ UNCHANGED post
        /\ shown' = [shown EXCEPT ![p] = u]
    BY DEF ChatInv, OnMemberLeft
  <1>2. down[p] \in Seq(DownFrame) /\ down[p] # <<>> /\ f \in DownFrame /\ f.is \in is
    BY <1>1, EventEffect
  <1>3. ~Lists(f) /\ f.is = "left" /\ u \in SUBSET people
    BY <1>1, <1>2 DEF Lists, ChatTyped
  <1>4. \A x \in people : x \in u <=> x \in shown[p] /\ ~(f.is = "left" /\ f.who = x)
    BY <1>3
  <1> HIDE DEF u
  <1>5. WillShow(down[p], shown[p], roster) => WillShow(Tail(down[p]), u, roster)
    BY <1>2, <1>3, <1>4, ReadOther
  <1> HIDE DEF f, is
  <1>6. ChatTyped' /\ RosterInv'
    BY <1>1, <1>3, <1>5, EventRoster
  <1>7. PostInv'
    BY <1>1, EventPost
  <1>8. QED
    BY <1>6, <1>7 DEF ChatInv

LEMMA AnswerKept == ASSUME ChatInv, NEW p \in people, OnAnswer(p) PROVE ChatInv'
  <1> DEFINE f == Head(down[p])
             is == {"sent", "failed"}
  <1>1. /\ ChatTyped /\ RosterInv /\ PostInv /\ Event(p, is) /\ UNCHANGED <<shown, up, handed>>
        /\ post' = [post EXCEPT !.status = f.is]
    BY DEF ChatInv, OnAnswer, apps, Event
  <1>2. /\ down[p] \in Seq(DownFrame) /\ down[p] # <<>> /\ f \in DownFrame /\ f.is \in is
        /\ HasFrame(down[p], f.is)
        /\ \A q \in people : HasFrame(down'[q], "sent") => HasFrame(down[q], "sent")
    BY <1>1, EventEffect
  <1>3. ~Lists(f) /\ f.is # "left" /\ shown[p] \in SUBSET people /\ shown' = [shown EXCEPT ![p] = shown[p]]
    BY <1>1, <1>2 DEF Lists, ChatTyped
  <1>4. WillShow(down[p], shown[p], roster) => WillShow(Tail(down[p]), shown[p], roster)
    BY <1>2, <1>3, ReadOther
  <1> HIDE DEF f
  <1>5. /\ post' \in [by : people, keys : SUBSET people, status : {"none", "encrypting", "sending", "sent", "failed"}]
        /\ post'.by = post.by /\ post'.status = f.is /\ Begun'
    BY <1>1, <1>2 DEF PostInv, Begun
  <1>6. f.is = "sent" => handed \ {post.by} # {}
    BY <1>1, <1>2 DEF PostInv
  <1>7. PostInv'
    BY <1>1, <1>2, <1>5, <1>6 DEF PostInv
  <1> HIDE DEF is
  <1>8. ChatTyped' /\ RosterInv'
    BY <1>1, <1>3, <1>4, EventRoster
  <1>9. QED
    BY <1>7, <1>8 DEF ChatInv

\* The invariant holds at the start, and every step keeps it.
LEMMA ChatInit == GroupChatInit => ChatInv
  <1> SUFFICES ASSUME GroupChatInit PROVE ChatInv
    OBVIOUS
  <1>1. /\ roster = {} /\ linked = people /\ TRUE \in BOOLEAN /\ relayLoaded = TRUE /\ greeted = people
        /\ up = [p \in people |-> <<>>] /\ down = [p \in people |-> <<>>] /\ shown = [p \in people |-> {}]
        /\ post = [by |-> Owner, keys |-> {}, status |-> "none"]
    BY DEF GroupChatInit, NoPost
  <1>2. <<>> \in Seq(UpFrame) /\ <<>> \in Seq(DownFrame) /\ Owner \in people
    BY DEF people
  <1>3. ChatTyped
    BY <1>1, <1>2 DEF ChatTyped
  <1>4. RosterInv
    BY <1>1 DEF RosterInv
  <1>5. PostInv
    BY <1>1, <1>2, NoFrames DEF PostInv
  <1>6. QED
    BY <1>3, <1>4, <1>5 DEF ChatInv

LEMMA ChatStill == ASSUME ChatInv, UNCHANGED groupChatVars PROVE ChatInv'
  <1>1. UNCHANGED <<roster, relayLoaded, linked, greeted, up, down, shown, post, handed>>
    BY DEF groupChatVars
  <1>2. QED
    BY <1>1 DEF ChatInv, ChatTyped, RosterInv, PostInv, Begun

LEMMA ChatStep == ChatInv /\ [GroupChatNext]_groupChatVars => ChatInv'
  <1> SUFFICES ASSUME ChatInv, [GroupChatNext]_groupChatVars PROVE ChatInv'
    OBVIOUS
  <1>1. CASE UNCHANGED groupChatVars
    BY <1>1, ChatStill
  <1>2. CASE GroupChatNext
    BY <1>2, BreaksKept, BackOnKept, LoadsKept, ActsKept, EncryptKept, SendPostKept, CreateKept, InviteKept,
       RespondKept, LeaveKept, PostKept, MembersKept, AskKept, LeftKept, AnswerKept DEF GroupChatNext
  <1>3. QED
    BY <1>1, <1>2

\* A member whose connection is quiet, and was made since the groups were loaded, shows
\* the members the relay counts, whatever joins, departures, cuts and restarts crossed.
THEOREM RostersCatchUp == GroupChatSpec => []RosterCaughtUp
  <1>1. ChatInv => RosterCaughtUp
    <2> SUFFICES ASSUME ChatInv, NEW p \in roster, UpToDate(p) PROVE shown[p] = roster
      BY DEF RosterCaughtUp
    <2>1. p \in people /\ roster \subseteq people /\ shown[p] \subseteq people
      BY DEF ChatInv, ChatTyped
    <2>2. p \in linked \cap greeted /\ relayLoaded /\ up[p] = <<>> /\ down[p] = <<>>
      BY DEF UpToDate
    <2>3. WillShow(<<>>, shown[p], roster)
      BY <2>2, NoFrames DEF ChatInv, RosterInv
    <2>4. QED
      BY <2>1, <2>3, ReadAll
  <1>2. QED
    BY <1>1, ChatInit, ChatStep, PTL DEF GroupChatSpec

\* A bubble of the group says sent only if somebody else was sent the message.
THEOREM SentPostsReached == GroupChatSpec => []SentReachedMember
  <1>1. ChatInv => SentReachedMember
    BY DEF ChatInv, PostInv, SentReachedMember
  <1>2. QED
    BY <1>1, ChatInit, ChatStep, PTL DEF GroupChatSpec

-----------------------------------------------------------------------------
(* The screens of a call. ScreenFollowsCall is about settled screens; in   *)
(* between, the invariant says where the screens of the call are and which *)
(* of them have not seen its phase yet (Shape). A commit is a fold of the  *)
(* reactions over the mounted screens: only the last call screen moves the *)
(* stack, so the fold ends with its reaction on what the others left.      *)

Phases == {"idle", "ringing-out", "ringing-in", "connecting", "active", "ended"}
CallRoutes == {"incoming", "call"}
Scr == {e \in [route : {"splash", "home", "chat"} \cup CallRoutes,
               kind  : CallKinds \cup {"none"},
               seen  : Phases \cup {"nothing"}] :
           e.route \in CallRoutes <=> e.kind # "none"}
Stacks == Seq(Scr) \ {<<>>}

ScreensTyped ==
    /\ phase \in [CallKinds -> Phases]
    /\ stack \in Stacks
    /\ leaving \in Seq(Scr) /\ Len(leaving) <= 1
    /\ undisturbed \in [CallKinds -> BOOLEAN]

\* Screens of no call, up to the n-th.
Quiet(s, n) == \A i \in 1..n : s[i].kind = "none"

\* While only the call k itself moves the screens there is no other call, and no
\* call screen below the top.  The one on top is the call's, and right for its phase
\* except for a screen to answer it on that has not seen yet that it is over.  A screen
\* just removed is the one it was answered on, or the one that has shown its end.
Shape(k) ==
    LET n == Len(stack)
    IN  /\ phase[OtherKind(k)] = "idle"
        /\ Quiet(stack, n - 1)
        /\ \/ stack[n].kind = "none" /\ phase[k] \in {"idle", "ended"}
           \/ n > 1 /\ Is(stack[n], "call", k)
                /\ phase[k] \in {"ringing-out", "connecting", "active", "ended"}
           \/ n > 1 /\ Is(stack[n], "incoming", k) /\ leaving = <<>>
                /\ \/ phase[k] = "ringing-in"
                   \/ phase[k] \in {"idle", "ended"} /\ stack[n].seen # phase[k]
        /\ leaving # <<>> =>
              \/ Is(leaving[1], "incoming", k) /\ phase[k] = "connecting"
              \/ Is(leaving[1], "call", k) /\ phase[k] = "idle"

ScreensInv == ScreensTyped /\ \A k \in CallKinds : undisturbed[k] => Shape(k)

\* A fold of the reactions ends with that of the last screen, on what the others leave.
LEMMA FoldReact ==
    ASSUME NEW q \in Seq(Scr), q # <<>>, NEW S, NEW r \in S,
           \A x \in S : \A i \in 1..Len(q) : React(x, q[i]) \in S
    PROVE  \E x \in S : FoldLeft(React, r, q) = React(x, q[Len(q)])
  <1> DEFINE n == Len(q)
             it == CHOOSE it : it = [s \in SUBSET (DOMAIN q) |->
                        IF s = {} THEN r ELSE React(it[s \ {Max(s)}], q[Max(s)])]
             g == [p \in S \X (1..n) |-> React(p[1], q[p[2]])]
  <1>1. n \in Nat /\ n > 0 /\ DOMAIN q = 1..n
    OBVIOUS
  <1>2. FoldLeft(React, r, q) = it[DOMAIN q]
    BY Zenon DEF FoldLeft, MapThenFoldSet
  <1> HIDE DEF n
  <1>3. \A x \in S : \A i \in 1..n : g[<<x, i>>] = React(x, q[i]) /\ g[<<x, i>>] \in S
    BY DEF n
  <1> HIDE DEF g
  <1>4. PICK f \in [SUBSET (1..n) -> S] : IsFold(f, n, r, g)
    BY <1>1, <1>3, FoldExists DEF HasFold
  <1>5. f = [s \in SUBSET (DOMAIN q) |-> IF s = {} THEN r ELSE React(f[s \ {Max(s)}], q[Max(s)])]
    <2>1. ASSUME NEW s \in SUBSET (1..n)
          PROVE  f[s] = IF s = {} THEN r ELSE React(f[s \ {Max(s)}], q[Max(s)])
      <3>1. CASE s = {}
        BY <1>4, <3>1 DEF IsFold
      <3>2. CASE s # {}
        <4>1. f[s] = g[<<f[s \ {Max(s)}], Max(s)>>]
          BY <1>4, <3>2 DEF IsFold
        <4>2. Max(s) \in 1..n /\ f[s \ {Max(s)}] \in S
          BY <1>1, <1>4, <3>2, MaxInside
        <4>3. QED
          BY <1>3, <3>2, <4>1, <4>2
      <3>3. QED
        BY <3>1, <3>2
    <2>2. QED
      BY <1>1, <1>4, <2>1
  <1>6. it = [s \in SUBSET (DOMAIN q) |-> IF s = {} THEN r ELSE React(it[s \ {Max(s)}], q[Max(s)])]
    BY <1>5
  <1> HIDE DEF it
  <1>7. it[{}] \in S
    BY <1>6
  <1>8. ASSUME NEW k \in Nat, k < n
        PROVE  it[1..(k + 1)] = React(it[1..k], q[k + 1]) /\ k + 1 \in 1..n
    <2> DEFINE s == 1..(k + 1)
    <2>1. s \in SUBSET (DOMAIN q) /\ s # {} /\ Max(s) = k + 1 /\ s \ {k + 1} = 1..k /\ k + 1 \in 1..n
      BY <1>1, <1>8, UpTo
    <2> HIDE DEF s
    <2>2. it[s] = React(it[s \ {Max(s)}], q[Max(s)])
      BY <1>6, <2>1
    <2>3. it[s] = React(it[1..k], q[k + 1])
      BY <2>1, <2>2
    <2>4. QED
      BY <2>1, <2>3 DEF s
  <1>9. n - 1 \in Nat /\ n - 1 < n /\ (n - 1) + 1 = n
    BY <1>1
  <1>10. it[1..(n - 1)] \in S
    <2>1. \A k \in Nat : k < n - 1 /\ it[1..k] \in S => it[1..(k + 1)] \in S
      <3>1. SUFFICES ASSUME NEW k \in Nat, k < n - 1, it[1..k] \in S PROVE it[1..(k + 1)] \in S
        OBVIOUS
      <3>2. k < n
        BY <1>1, <3>1
      <3>3. it[1..(k + 1)] = React(it[1..k], q[k + 1]) /\ k + 1 \in 1..n
        BY <1>8, <3>2
      <3>4. React(it[1..k], q[k + 1]) \in S
        BY <3>1, <3>3 DEF n
      <3>5. QED
        BY <3>3, <3>4
    <2>2. QED
      BY <1>7, <1>9, <2>1, FoldIn
  <1>11. it[1..n] = React(it[1..(n - 1)], q[n])
    <2>1. it[1..((n - 1) + 1)] = React(it[1..(n - 1)], q[(n - 1) + 1])
      BY <1>8, <1>9
    <2>2. QED
      BY <1>9, <2>1
  <1>12. QED
    BY <1>1, <1>2, <1>10, <1>11 DEF n

\* What the router makes of a stack.
LEMMA Going ==
    ASSUME NEW s \in Stacks
    PROVE  /\ Popped(s) \in Stacks
           /\ Len(s) > 1 => Len(Popped(s)) = Len(s) - 1
           /\ Len(s) = 1 => Popped(s) = s
           /\ \A i \in 1..Len(Popped(s)) : i \in 1..Len(s) /\ Popped(s)[i] = s[i]
           /\ Last(s) = s[Len(s)] /\ Last(s) \in Scr /\ Len(s) \in Nat /\ Len(s) > 0
           /\ Front(s) \in Seq(Scr) /\ Len(Front(s)) = Len(s) - 1
           /\ \A i \in 1..(Len(s) - 1) : Front(s)[i] = s[i]
  <1> DEFINE n == Len(s)
  <1>1. s \in Seq(Scr) /\ n \in Nat /\ n > 0 /\ s[n] \in Scr
    BY DEF Stacks
  <1>2. /\ Front(s) \in Seq(Scr) /\ Len(Front(s)) = n - 1
        /\ \A i \in 1..(n - 1) : Front(s)[i] = s[i]
    <2>1. \A i \in 1..(n - 1) : s[i] \in Scr
      BY <1>1
    <2>2. /\ SubSeq(s, 1, n - 1) \in Seq(Scr)
          /\ Len(SubSeq(s, 1, n - 1)) = IF 1 <= n - 1 THEN (n - 1) - 1 + 1 ELSE 0
          /\ \A i \in 1..((n - 1) - 1 + 1) : SubSeq(s, 1, n - 1)[i] = s[1 + i - 1]
      BY <1>1, <2>1, SubSeqProperties
    <2> DEFINE f == SubSeq(s, 1, n - 1)
    <2> HIDE DEF f, n
    <2>3. f \in Seq(Scr) /\ Len(f) = n - 1 /\ \A i \in 1..(n - 1) : f[i] = s[i]
      BY <1>1, <2>2 DEF f
    <2>4. QED
      BY <2>3 DEF f, n, Front
  <1>3. Last(s) = s[n]
    BY DEF Last
  <1>4. CASE n > 1
    <2>1. Popped(s) = Front(s)
      BY <1>4 DEF Popped
    <2>2. Front(s) # <<>>
      BY <1>1, <1>2, <1>4
    <2>3. QED
      BY <1>1, <1>2, <1>3, <1>4, <2>1, <2>2 DEF Stacks
  <1>5. CASE ~(n > 1)
    BY <1>1, <1>2, <1>3, <1>5 DEF Popped
  <1>6. QED
    BY <1>4, <1>5

LEMMA Coming ==
    ASSUME NEW s \in Stacks, NEW e \in Scr
    PROVE  /\ Stacked(s, e) \in Stacks /\ Len(Stacked(s, e)) = Len(s) + 1
           /\ Stacked(s, e)[Len(s) + 1] = e /\ \A i \in 1..Len(s) : Stacked(s, e)[i] = s[i]
           /\ Replaced(s, e) \in Stacks /\ Len(Replaced(s, e)) = Len(s)
           /\ Replaced(s, e)[Len(s)] = e /\ \A i \in 1..(Len(s) - 1) : Replaced(s, e)[i] = s[i]
  <1> DEFINE n == Len(s)
             f == Front(s)
  <1>1. s \in Seq(Scr) /\ n \in Nat /\ n > 0
    BY DEF Stacks
  <1>2. /\ Stacked(s, e) \in Stacks /\ Len(Stacked(s, e)) = n + 1
        /\ Stacked(s, e)[n + 1] = e /\ \A i \in 1..n : Stacked(s, e)[i] = s[i]
    BY <1>1 DEF Stacked, Stacks
  <1>3. f \in Seq(Scr) /\ Len(f) = n - 1 /\ \A i \in 1..(n - 1) : f[i] = s[i]
    BY Going
  <1>4. Replaced(s, e) = Append(f, e)
    BY DEF Replaced
  <1> HIDE DEF f, n
  <1>5. /\ Append(f, e) \in Stacks /\ Len(Append(f, e)) = n
        /\ Append(f, e)[n] = e /\ \A i \in 1..(n - 1) : Append(f, e)[i] = f[i]
    BY <1>1, <1>3 DEF Stacks
  <1>6. QED
    BY <1>2, <1>3, <1>4, <1>5 DEF n

\* A stack, and a screen that was just removed from it or none.
LEMMA Joined ==
    ASSUME NEW s \in Stacks, NEW l \in Seq(Scr), Len(l) <= 1
    PROVE  /\ s \o l \in Seq(Scr) /\ s \o l # <<>>
           /\ \A i \in 1..Len(s) : (s \o l)[i] = s[i]
           /\ \/ l = <<>> /\ Len(s \o l) = Len(s)
              \/ l # <<>> /\ Len(s \o l) = Len(s) + 1 /\ (s \o l)[Len(s) + 1] = l[1]
  <1>1. s \in Seq(Scr) /\ Len(s) \in Nat /\ Len(s) > 0 /\ Len(l) \in Nat
    BY DEF Stacks
  <1>2. /\ s \o l \in Seq(Scr) /\ Len(s \o l) = Len(s) + Len(l)
        /\ \A i \in 1..Len(s) : (s \o l)[i] = s[i]
        /\ \A i \in 1..Len(l) : (s \o l)[Len(s) + i] = l[i]
    BY <1>1, ConcatProperties
  <1>3. CASE Len(l) = 0
    <2>1. l = <<>>
      BY <1>3
    <2>2. QED
      BY <1>1, <1>2, <1>3, <2>1
  <1>4. CASE Len(l) = 1
    <2>1. l # <<>> /\ 1 \in 1..Len(l)
      BY <1>4
    <2>2. QED
      BY <1>1, <1>2, <1>4, <2>1
  <1>5. QED
    BY <1>1, <1>3, <1>4


\* What the effects of a screen make of a stack.
LEMMA ReactIs ==
    ASSUME phase \in [CallKinds -> Phases], NEW x \in Stacks, NEW e \in Scr
    PROVE  /\ React(x, e) \in Stacks
           /\ e.kind = "none" => React(x, e) = x
           /\ e.route = "incoming" /\ phase[e.kind] \in {"ringing-in", "connecting"} => React(x, e) = x
           /\ e.route = "incoming" /\ phase[e.kind] \in {"idle", "ended"} /\ e.seen # phase[e.kind]
                => React(x, e) = Popped(x)
           /\ e.route = "call" /\ phase[e.kind] \notin {"idle", "ringing-in"} => React(x, e) = x
           /\ e.kind # "none" /\ phase[e.kind] # "ringing-in" => React(x, e) \in {x, Popped(x)}
  <1> DEFINE answer == Screen("incoming", e.kind)
  <1>1. /\ e.kind # "none" => phase[e.kind] \in Phases /\ answer \in Scr
        /\ e.kind = "none" <=> e.route \notin CallRoutes
        /\ e.route \in {"splash", "home", "chat", "incoming", "call"}
    BY DEF Scr, Screen, CallRoutes, CallKinds, Phases
  <1>2. Popped(x) \in Stacks
    BY Going
  <1>3. e.kind # "none" => Replaced(x, answer) \in Stacks
    BY <1>1, Coming
  <1>4. CASE e.route = "incoming"
    <2>1. Reaction(e) = IF Dismisses(phase[e.kind]) THEN "back" ELSE "stay"
      BY <1>4 DEF Reaction
    <2>2. React(x, e) = IF Stale(e) /\ Dismisses(phase[e.kind]) THEN Popped(x) ELSE x
      BY <2>1 DEF React
    <2>3. Stale(e) <=> e.seen # phase[e.kind]
      BY <1>4 DEF Stale
    <2>4. QED
      BY <1>1, <1>2, <1>4, <2>2, <2>3 DEF Dismisses, CallRoutes
  <1>5. CASE e.route = "call"
    <2>1. Reaction(e) = IF phase[e.kind] = "idle" THEN "back"
                        ELSE IF phase[e.kind] = "ringing-in" THEN "answer" ELSE "stay"
      BY <1>5 DEF Reaction
    <2>2. React(x, e) = IF Stale(e) /\ phase[e.kind] = "idle" THEN Popped(x)
                        ELSE IF Stale(e) /\ phase[e.kind] = "ringing-in" THEN Replaced(x, answer)
                        ELSE x
      BY <2>1 DEF React
    <2>3. QED
      BY <1>1, <1>2, <1>3, <1>5, <2>2 DEF CallRoutes
  <1>6. CASE e.route \notin CallRoutes
    <2>1. ~Stale(e)
      BY <1>6 DEF Stale, CallRoutes
    <2>2. React(x, e) = x
      BY <2>1 DEF React
    <2>3. QED
      BY <1>6, <2>2 DEF CallRoutes
  <1>7. QED
    BY <1>4, <1>5, <1>6 DEF CallRoutes

\* The screens with what they have seen brought up to date.
Updated == [i \in DOMAIN stack |->
               IF Stale(stack[i]) THEN [stack[i] EXCEPT !.seen = phase[stack[i].kind]]
               ELSE stack[i]]

LEMMA UpdatedIs ==
    ASSUME ScreensTyped
    PROVE  /\ Updated \in Stacks /\ Len(Updated) = Len(stack)
           /\ \A i \in 1..Len(stack) : /\ Updated[i].kind = stack[i].kind
                                       /\ Updated[i].route = stack[i].route
           /\ stack \o leaving \in Seq(Scr) /\ stack \o leaving # <<>>
  <1>1. /\ stack \in Seq(Scr) /\ Len(stack) \in Nat /\ Len(stack) > 0 /\ leaving \in Seq(Scr)
        /\ DOMAIN stack = 1..Len(stack) /\ \A i \in 1..Len(stack) : stack[i] \in Scr
    BY DEF ScreensTyped, Stacks
  <1>2. ASSUME NEW e \in Scr, Stale(e)
        PROVE  LET u == [e EXCEPT !.seen = phase[e.kind]]
               IN  u \in Scr /\ u.kind = e.kind /\ u.route = e.route
    <2>1. phase[e.kind] \in Phases
      BY <1>2 DEF Stale, Scr, CallRoutes, ScreensTyped
    <2>2. QED
      BY <2>1 DEF Scr
  <1>3. \A i \in 1..Len(stack) : /\ Updated[i] \in Scr /\ Updated[i].kind = stack[i].kind
                                 /\ Updated[i].route = stack[i].route
    BY <1>1, <1>2 DEF Updated
  <1>4. Updated \in Seq(Scr) /\ Len(Updated) = Len(stack)
    BY <1>1, <1>3 DEF Updated
  <1>5. Updated # <<>>
    BY <1>1, <1>4
  <1>6. stack \o leaving \in Seq(Scr) /\ stack \o leaving # <<>>
    BY Joined DEF ScreensTyped
  <1>7. QED
    BY <1>3, <1>4, <1>5, <1>6 DEF Stacks

LEMMA EffectsTyped ==
    ASSUME ScreensTyped, Effects
    PROVE  ScreensTyped'
  <1> DEFINE q == stack \o leaving
  <1>1. stack' = FoldLeft(React, Updated, q) /\ leaving' = <<>> /\ UNCHANGED <<phase, undisturbed>>
    BY Zenon DEF Effects, Updated
  <1>2. q \in Seq(Scr) /\ q # <<>> /\ Updated \in Stacks
    BY UpdatedIs
  <1> HIDE DEF q
  <1>3. \A x \in Stacks : \A i \in 1..Len(q) : React(x, q[i]) \in Stacks
    BY <1>2, ReactIs DEF ScreensTyped
  <1>4. PICK x \in Stacks : FoldLeft(React, Updated, q) = React(x, q[Len(q)])
    BY <1>2, <1>3, FoldReact
  <1>5. Len(q) \in 1..Len(q)
    BY <1>2
  <1>6. stack' \in Stacks
    BY <1>1, <1>3, <1>4, <1>5
  <1>7. QED
    BY <1>1, <1>6 DEF ScreensTyped

\* A commit while only the call k moves the screens: nothing happens, or the screen
\* to answer it on goes, or with the call screen that has shown the end whatever is
\* on top then.
LEMMA EffectsShape ==
    ASSUME ScreensTyped, Effects, NEW k \in CallKinds, Shape(k)
    PROVE  Shape(k)'
  <1> DEFINE q == stack \o leaving
             n == Len(stack)
             Over == phase[k] \in {"idle", "ended"}
             NoCallLeft(x) == x \in Stacks /\ Quiet(x, Len(x))
  <1>1. stack' = FoldLeft(React, Updated, q) /\ leaving' = <<>> /\ UNCHANGED <<phase, undisturbed>>
    BY Zenon DEF Effects, Updated
  <1>2. /\ q \in Seq(Scr) /\ q # <<>> /\ Updated \in Stacks /\ Len(Updated) = n
        /\ \A i \in 1..n : Updated[i].kind = stack[i].kind /\ Updated[i].route = stack[i].route
    BY UpdatedIs
  <1>3. /\ stack \in Seq(Scr) /\ n \in Nat /\ n > 0 /\ leaving \in Seq(Scr) /\ stack[n] \in Scr
        /\ phase \in [CallKinds -> Phases] /\ Len(leaving) \in Nat /\ Len(leaving) <= 1
    BY DEF ScreensTyped, Stacks
  <1>4. \/ leaving = <<>> /\ Len(q) = n /\ \A i \in 1..n : q[i] = stack[i]
        \/ /\ leaving # <<>> /\ Len(q) = n + 1 /\ q[n + 1] = leaving[1]
           /\ \A i \in 1..n : q[i] = stack[i]
    <2>1. stack \in Stacks
      BY DEF ScreensTyped
    <2>2. QED
      BY <1>3, <2>1, Joined
  <1>5. /\ phase[OtherKind(k)] = "idle"
        /\ Quiet(stack, n - 1)
        /\ \/ stack[n].kind = "none" /\ phase[k] \in {"idle", "ended"}
           \/ n > 1 /\ Is(stack[n], "call", k)
                /\ phase[k] \in {"ringing-out", "connecting", "active", "ended"}
           \/ n > 1 /\ Is(stack[n], "incoming", k) /\ leaving = <<>>
                /\ \/ phase[k] = "ringing-in"
                   \/ phase[k] \in {"idle", "ended"} /\ stack[n].seen # phase[k]
        /\ leaving # <<>> =>
              \/ Is(leaving[1], "incoming", k) /\ phase[k] = "connecting"
              \/ Is(leaving[1], "call", k) /\ phase[k] = "idle"
    BY DEF Shape
  <1> HIDE DEF q, n
  <1>6. Quiet(Updated, n - 1)
    BY <1>2, <1>3, <1>5 DEF Quiet
  <1>7. \A i \in 1..Len(q) : q[i] \in Scr
    BY <1>2
  <1>8. \A i \in 1..Len(q) : i \in 1..(n - 1) \/ i = n \/ (i = n + 1 /\ leaving # <<>>)
    BY <1>3, <1>4
  <1>9. Len(q) \in 1..Len(q)
    BY <1>2
  <1>a. ASSUME NEW i \in 1..Len(q)
        PROVE  \/ q[i].kind = "none"
               \/ i = n /\ q[i] = stack[n] /\ stack[n].kind = k
               \/ i = n + 1 /\ q[i] = leaving[1] /\ leaving # <<>> /\ leaving[1].kind = k
    <2>1. CASE i \in 1..(n - 1)
      <3>1. i \in 1..n
        BY <1>3, <2>1
      <3>2. QED
        BY <1>4, <1>5, <2>1, <3>1 DEF Quiet
    <2>2. CASE i = n
      BY <1>3, <1>4, <1>5, <2>2 DEF Is
    <2>3. CASE i = n + 1 /\ leaving # <<>>
      BY <1>4, <1>5, <2>3 DEF Is
    <2>4. QED
      BY <1>8, <2>1, <2>2, <2>3
  <1>b. ASSUME Over, NoCallLeft(stack') PROVE Shape(k)'
    <2> DEFINE m == Len(stack')
    <2>1. m \in Nat /\ m > 0
      BY <1>b DEF Stacks
    <2>2. Quiet(stack', m - 1) /\ stack'[m].kind = "none"
      BY <1>b, <2>1 DEF Quiet
    <2>3. QED
      BY <1>1, <1>5, <1>b, <2>2 DEF Shape
  <1>10. CASE \A i \in 1..Len(q) : React(Updated, q[i]) = Updated
    <2>2. stack' = Updated
      <3> DEFINE S == {Updated}
      <3>1. Updated \in S /\ \A x \in S : \A i \in 1..Len(q) : React(x, q[i]) \in S
        BY <1>10
      <3>2. \A x \in S : x = Updated
        OBVIOUS
      <3> HIDE DEF S
      <3>3. PICK x \in S : FoldLeft(React, Updated, q) = React(x, q[Len(q)])
        BY <1>2, <3>1, FoldReact
      <3>4. QED
        BY <1>1, <1>9, <3>1, <3>2, <3>3
    <2>3. \/ Updated[n].kind = "none" /\ phase[k] \in {"idle", "ended"}
          \/ n > 1 /\ Is(Updated[n], "call", k)
               /\ phase[k] \in {"ringing-out", "connecting", "active", "ended"}
          \/ n > 1 /\ Is(Updated[n], "incoming", k) /\ phase[k] = "ringing-in"
      <3>1. n \in 1..n
        BY <1>3
      <3>2. ASSUME n > 1, stack[n].route = "incoming", stack[n].kind = k, leaving = <<>>,
                   phase[k] \in {"idle", "ended"}, stack[n].seen # phase[k]
            PROVE  FALSE
        <4>1. React(Updated, stack[n]) = Popped(Updated)
          BY <1>2, <1>3, <3>2, ReactIs
        <4>2. q[n] = stack[n] /\ n \in 1..Len(q)
          BY <1>3, <1>4, <3>2
        <4>3. Popped(Updated) = Updated
          BY <1>10, <4>1, <4>2
        <4>4. Len(Popped(Updated)) = n - 1
          BY <1>2, <3>2, Going
        <4>5. QED
          BY <1>2, <1>3, <4>3, <4>4
      <3>3. QED
        BY <1>2, <1>5, <3>1, <3>2 DEF Is
    <2>4. Shape(k)'
      BY <1>1, <1>2, <1>5, <1>6, <2>2, <2>3 DEF Shape
    <2>5. QED
      BY <2>4
  <1>11. CASE Over /\ stack[n].kind = "none"
    <2>1. NoCallLeft(Updated)
      <3>1. \A i \in 1..n : i \in 1..(n - 1) \/ i = n
        BY <1>3
      <3>2. QED
        BY <1>2, <1>3, <1>6, <1>11, <3>1 DEF Quiet
    <2> DEFINE S == {x \in Stacks : NoCallLeft(x)}
    <2>2. \A x \in S : Popped(x) \in S
      BY Going DEF Quiet
    <2>3. ASSUME NEW x \in S, NEW i \in 1..Len(q) PROVE React(x, q[i]) \in S
      <3>1. x \in Stacks /\ q[i] \in Scr
        BY <1>7
      <3>2. CASE q[i].kind = "none"
        BY <1>3, <3>1, <3>2, ReactIs
      <3>3. CASE q[i].kind = k
        <4>1. k # "none" /\ phase[q[i].kind] # "ringing-in"
          BY <1>11, <3>3 DEF CallKinds
        <4>2. React(x, q[i]) \in {x, Popped(x)}
          BY <1>3, <3>1, <3>3, <4>1, ReactIs
        <4>3. QED
          BY <2>2, <4>2
      <3>4. QED
        BY <1>a, <3>2, <3>3
    <2>4. Updated \in S
      BY <1>2, <2>1
    <2> HIDE DEF S
    <2>5. PICK x \in S : FoldLeft(React, Updated, q) = React(x, q[Len(q)])
      BY <1>2, <2>3, <2>4, FoldReact
    <2>6. stack' \in S
      BY <1>1, <1>9, <2>3, <2>5
    <2>7. NoCallLeft(stack')
      BY <2>6 DEF S
    <2>8. QED
      BY <1>b, <1>11, <2>7
  <1>12. CASE Over /\ stack[n].kind # "none" /\ stack[n].route = "incoming"
    <2> DEFINE S == {x \in Stacks : x = Updated \/ NoCallLeft(x)}
    <2>1. leaving = <<>> /\ n > 1 /\ stack[n].kind = k /\ stack[n].seen # phase[k]
      BY <1>5, <1>12 DEF Is
    <2>2. Len(q) = n /\ q[n] = stack[n]
      BY <1>3, <1>4, <2>1
    <2>3. ASSUME NEW x \in S PROVE React(x, stack[n]) = Popped(x) /\ NoCallLeft(Popped(x))
      <3>1. React(x, stack[n]) = Popped(x)
        BY <1>3, <1>12, <2>1, ReactIs
      <3>2. CASE NoCallLeft(x)
        BY <3>1, <3>2, Going DEF Quiet
      <3>3. CASE x = Updated
        <4>1. /\ Popped(x) \in Stacks /\ Len(Popped(x)) = n - 1
              /\ \A i \in 1..Len(Popped(x)) : Popped(x)[i] = Updated[i]
          BY <1>2, <2>1, <3>3, Going
        <4>2. QED
          BY <1>6, <3>1, <4>1 DEF Quiet
      <3>4. QED
        BY <3>2, <3>3
    <2>4. ASSUME NEW x \in S, NEW i \in 1..Len(q) PROVE React(x, q[i]) \in S
      <3>1. x \in Stacks /\ q[i] \in Scr
        BY <1>7
      <3>2. CASE q[i].kind = "none"
        BY <1>3, <3>1, <3>2, ReactIs
      <3>3. CASE q[i].kind # "none"
        <4>1. q[i] = stack[n]
          BY <1>a, <2>1, <3>3
        <4>2. QED
          BY <2>3, <4>1
      <3>4. QED
        BY <3>2, <3>3
    <2>5. Updated \in S
      BY <1>2
    <2> HIDE DEF S
    <2>6. PICK x \in S : FoldLeft(React, Updated, q) = React(x, q[Len(q)])
      BY <1>2, <2>4, <2>5, FoldReact
    <2>7. NoCallLeft(stack')
      BY <1>1, <2>2, <2>3, <2>6
    <2>8. QED
      BY <1>b, <1>12, <2>7
  <1>13. CASE ~Over \/ (stack[n].kind # "none" /\ stack[n].route # "incoming")
    <2>1. ASSUME NEW i \in 1..Len(q) PROVE React(Updated, q[i]) = Updated
      <3>1. q[i] \in Scr
        BY <1>7
      <3>2. CASE q[i].kind = "none"
        BY <1>2, <1>3, <3>1, <3>2, ReactIs
      <3>3. CASE q[i] = stack[n] /\ stack[n].kind = k
        <4>1. k # "none"
          BY DEF CallKinds
        <4>2. \/ q[i].route = "call" /\ phase[k] \in {"ringing-out", "connecting", "active", "ended"}
              \/ q[i].route = "incoming" /\ phase[k] = "ringing-in"
          BY <1>5, <1>13, <3>3, <4>1 DEF Is
        <4>3. QED
          BY <1>2, <1>3, <3>1, <3>3, <4>2, ReactIs
      <3>4. CASE q[i] = leaving[1] /\ leaving # <<>> /\ leaving[1].kind = k
        <4>1. \/ q[i].route = "incoming" /\ phase[k] = "connecting"
              \/ q[i].route = "call" /\ phase[k] = "idle"
          BY <1>5, <3>4 DEF Is
        <4>2. phase[k] # "idle"
          BY <1>5, <1>13, <3>4 DEF Is
        <4>3. QED
          BY <1>2, <1>3, <3>1, <3>4, <4>1, <4>2, ReactIs
      <3>5. QED
        BY <1>a, <3>2, <3>3, <3>4
    <2>2. QED
      BY <1>10, <2>1
  <1>14. QED
    BY <1>11, <1>12, <1>13


\* What the invariant says of a settled stack.
LEMMA SettledShape ==
    ASSUME ScreensTyped, Settled, NEW k \in CallKinds, Shape(k)
    PROVE  /\ leaving = <<>>
           /\ \A i \in 1..Len(stack) : stack[i].kind # "none" =>
                  i = Len(stack) /\ stack[i].kind = k /\ i > 1
           /\ \/ Top.kind = "none" /\ phase[k] \in {"idle", "ended"}
              \/ Is(Top, "call", k) /\ phase[k] \in {"ringing-out", "connecting", "active", "ended"}
              \/ Is(Top, "incoming", k) /\ phase[k] = "ringing-in" /\ Top.seen = "ringing-in"
           /\ Top = stack[Len(stack)] /\ Top \in Scr /\ Len(stack) \in Nat /\ Len(stack) > 0
  <1> DEFINE n == Len(stack)
  <1>1. /\ Top = stack[n] /\ Top \in Scr /\ n \in Nat /\ n > 0
        /\ DOMAIN stack = 1..n
    BY Going DEF ScreensTyped, Top, Stacks
  <1>2. leaving = <<>> /\ \A i \in 1..n : ~Stale(stack[i])
    BY <1>1 DEF Settled
  <1>3. /\ Quiet(stack, n - 1)
        /\ \/ stack[n].kind = "none" /\ phase[k] \in {"idle", "ended"}
           \/ n > 1 /\ Is(stack[n], "call", k)
                /\ phase[k] \in {"ringing-out", "connecting", "active", "ended"}
           \/ n > 1 /\ Is(stack[n], "incoming", k)
                /\ \/ phase[k] = "ringing-in"
                   \/ phase[k] \in {"idle", "ended"} /\ stack[n].seen # phase[k]
    BY DEF Shape
  <1> HIDE DEF n
  <1>4. \A i \in 1..n : i \in 1..(n - 1) \/ i = n
    BY <1>1
  <1>5. \A i \in 1..n : stack[i].kind # "none" => i = n /\ stack[i].kind = k /\ i > 1
    BY <1>1, <1>3, <1>4 DEF Quiet, Is
  <1>6. n \in 1..n
    BY <1>1
  <1>7. Is(stack[n], "incoming", k) => stack[n].seen = phase[k]
    BY <1>2, <1>6 DEF Stale, Is
  <1>8. QED
    BY <1>1, <1>2, <1>3, <1>5, <1>7 DEF n

\* Shapes that steps lead to.
LEMMA ShapeOfQuiet ==
    ASSUME NEW k \in CallKinds, stack' \in Stacks, leaving' = <<>>, phase'[OtherKind(k)] = "idle",
           phase'[k] \in {"idle", "ended"}, \A i \in 1..Len(stack') : stack'[i].kind = "none"
    PROVE  Shape(k)'
  <1> DEFINE m == Len(stack')
  <1>1. m \in Nat /\ m > 0
    BY DEF Stacks
  <1>2. Quiet(stack', m - 1) /\ stack'[m].kind = "none"
    BY <1>1 DEF Quiet
  <1>3. QED
    BY <1>2 DEF Shape

LEMMA BeginsKeeps ==
    ASSUME ScreensInv, NEW c \in CallKinds, NEW p, NEW e \in Scr, Begins(c, p, e),
           \/ p = "ringing-out" /\ Is(e, "call", c)
           \/ p = "ringing-in" /\ Is(e, "incoming", c)
    PROVE  ScreensInv'
  <1> DEFINE n == Len(stack)
  <1>1. /\ Settled /\ phase' = [phase EXCEPT ![c] = p] /\ stack' = Stacked(stack, e)
        /\ undisturbed' = [undisturbed EXCEPT ![c] = AloneOnStack(c), ![OtherKind(c)] = FALSE]
        /\ leaving' = leaving
    BY DEF Begins
  <1>2. ScreensTyped /\ stack \in Stacks /\ n \in Nat /\ n > 0 /\ leaving = <<>>
    BY <1>1, Going DEF ScreensInv, ScreensTyped, Settled
  <1>3. /\ stack' \in Stacks /\ Len(stack') = n + 1 /\ stack'[n + 1] = e
        /\ \A i \in 1..n : stack'[i] = stack[i]
    BY <1>1, <1>2, Coming
  <1>4. ScreensTyped'
    <2>1. p \in Phases /\ AloneOnStack(c) \in BOOLEAN /\ OtherKind(c) \in CallKinds
      BY DEF Phases, AloneOnStack, OtherKind, CallKinds
    <2>2. QED
      BY <1>1, <1>2, <1>3, <2>1 DEF ScreensTyped
  <1>5. ASSUME NEW k \in CallKinds, undisturbed'[k] PROVE Shape(k)'
    <2>1. k = c /\ AloneOnStack(c)
      BY <1>1, <1>2, <1>5 DEF ScreensTyped, OtherKind, CallKinds
    <2>2. \A i \in 1..n : stack[i].route \in {"home", "chat"} /\ stack[i] \in Scr
      BY <1>2, <2>1 DEF AloneOnStack, Stacks
    <2>3. Quiet(stack', n)
      BY <1>3, <2>2 DEF Quiet, Scr, CallRoutes
    <2>4. phase'[OtherKind(k)] = "idle" /\ phase'[k] = p
      BY <1>1, <1>2, <2>1 DEF AloneOnStack, ScreensTyped, OtherKind, CallKinds
    <2>5. leaving' = <<>> /\ n + 1 > 1 /\ (n + 1) - 1 = n
      BY <1>1, <1>2
    <2>6. QED
      BY <1>3, <2>1, <2>3, <2>4, <2>5 DEF Shape, Is
  <1>6. QED
    BY <1>4, <1>5 DEF ScreensInv

\* A change of phase that moves no screen.
LEMMA BecomesKeeps ==
    ASSUME ScreensInv, NEW c \in CallKinds, NEW p \in Phases, Becomes(c, p),
           UNCHANGED <<stack, leaving>>,
           phase[c] # "idle",
           \/ p \in {"connecting", "active", "ended"}
                /\ phase[c] \in {"ringing-out", "connecting", "active"}
           \/ p \in {"idle", "ended"} /\ phase[c] = "ringing-in"
           \/ p = "idle" /\ ~\E i \in DOMAIN stack : Is(stack[i], "call", c)
    PROVE  ScreensInv'
  <1> DEFINE n == Len(stack)
  <1>1. Settled /\ phase' = [phase EXCEPT ![c] = p] /\ UNCHANGED <<stack, leaving, undisturbed>>
    BY DEF Becomes
  <1>2. ScreensTyped /\ DOMAIN stack = 1..n /\ n \in Nat /\ n > 0
    BY DEF ScreensInv, ScreensTyped, Stacks
  <1>3. ScreensTyped'
    BY <1>1, <1>2 DEF ScreensTyped
  <1>4. ASSUME NEW k \in CallKinds, undisturbed'[k] PROVE Shape(k)'
    <2>1. Shape(k) /\ phase[OtherKind(k)] = "idle"
      BY <1>1, <1>4 DEF ScreensInv, Shape
    <2>2. c = k
      BY <2>1 DEF OtherKind, CallKinds
    <2>3. phase'[k] = p /\ phase'[OtherKind(k)] = "idle"
      BY <1>1, <1>2, <2>1, <2>2 DEF ScreensTyped, OtherKind, CallKinds
    <2>4. /\ leaving = <<>> /\ Top = stack[n]
          /\ \A i \in 1..n : stack[i].kind # "none" => i = n /\ stack[i].kind = k /\ i > 1
          /\ \/ Top.kind = "none" /\ phase[k] \in {"idle", "ended"}
             \/ Is(Top, "call", k) /\ phase[k] \in {"ringing-out", "connecting", "active", "ended"}
             \/ Is(Top, "incoming", k) /\ phase[k] = "ringing-in" /\ Top.seen = "ringing-in"
      BY <1>1, <1>2, <2>1, SettledShape
    <2>5. Quiet(stack, n - 1)
      BY <2>1 DEF Shape
    <2>6. n \in 1..n /\ k # "none"
      BY <1>2 DEF CallKinds
    <2>7. \/ stack[n].kind = "none" /\ p \in {"idle", "ended"}
          \/ n > 1 /\ Is(stack[n], "call", k) /\ p \in {"ringing-out", "connecting", "active", "ended"}
          \/ n > 1 /\ Is(stack[n], "incoming", k) /\ p \in {"idle", "ended"} /\ stack[n].seen # p
      <3>1. CASE Top.kind = "none"
        <4>1. phase[k] \in {"idle", "ended"}
          BY <2>4, <2>6, <3>1 DEF Is
        <4>2. p \in {"idle", "ended"}
          BY <2>2, <4>1
        <4>3. QED
          BY <2>4, <3>1, <4>2
      <3>2. CASE Is(Top, "call", k)
        BY <1>2, <2>2, <2>4, <2>6, <3>2 DEF Is
      <3>3. CASE Is(Top, "incoming", k)
        BY <2>2, <2>4, <2>6, <3>3 DEF Is
      <3>4. QED
        BY <2>4, <3>1, <3>2, <3>3
    <2>8. QED
      BY <1>1, <2>3, <2>4, <2>5, <2>7 DEF Shape
  <1>5. QED
    BY <1>3, <1>4 DEF ScreensInv

\* At most one screen has just been removed.
LEMMA OneRemoved ==
    ASSUME NEW t \in Scr, NEW l, l = <<>> \/ l = <<t>>
    PROVE  l \in Seq(Scr) /\ Len(l) <= 1 /\ (l # <<>> => l[1] = t)
  <1>1. CASE l = <<>>
    BY <1>1
  <1>2. CASE l = <<t>>
    BY <1>2
  <1>3. QED
    BY <1>1, <1>2

LEMMA AcceptKeeps ==
    ASSUME ScreensInv, NEW c \in CallKinds, Accept(c)
    PROVE  ScreensInv'
  <1> DEFINE n == Len(stack)
             e == Screen("call", c)
  <1>1. /\ Settled /\ phase' = [phase EXCEPT ![c] = "connecting"] /\ undisturbed' = undisturbed
        /\ Is(Top, "incoming", c) /\ phase[c] = "ringing-in"
        /\ stack' = Replaced(stack, e) /\ leaving' \in {<<>>, <<Last(stack)>>}
    BY DEF Accept, Becomes, Removed
  <1>2. /\ ScreensTyped /\ stack \in Stacks /\ n \in Nat /\ n > 0 /\ Top = stack[n]
        /\ Top = Last(stack) /\ Top \in Scr
    BY Going DEF ScreensInv, ScreensTyped, Top
  <1>3. e \in Scr /\ Is(e, "call", c)
    BY DEF Screen, Scr, CallRoutes, CallKinds, Is
  <1> HIDE DEF e
  <1>4. /\ stack' \in Stacks /\ Len(stack') = n /\ stack'[n] = e
        /\ \A i \in 1..(n - 1) : stack'[i] = stack[i]
    BY <1>1, <1>2, <1>3, Coming
  <1>5. leaving' \in Seq(Scr) /\ Len(leaving') <= 1 /\ (leaving' # <<>> => leaving'[1] = Top)
    <2>1. leaving' = <<>> \/ leaving' = <<Top>>
      BY <1>1, <1>2
    <2>2. QED
      BY <1>2, <2>1, OneRemoved
  <1>6. ScreensTyped'
    BY <1>1, <1>2, <1>4, <1>5 DEF ScreensTyped, Phases
  <1>7. ASSUME NEW k \in CallKinds, undisturbed'[k] PROVE Shape(k)'
    <2>1. Shape(k) /\ phase[OtherKind(k)] = "idle"
      BY <1>1, <1>7 DEF ScreensInv, Shape
    <2>2. c = k
      BY <1>1, <2>1 DEF OtherKind, CallKinds
    <2>3. phase'[k] = "connecting" /\ phase'[OtherKind(k)] = "idle"
      BY <1>1, <1>2, <2>1, <2>2 DEF ScreensTyped, OtherKind, CallKinds
    <2>4. n > 1
      <3>1. n \in 1..n /\ stack[n].kind # "none"
        BY <1>1, <1>2 DEF Is, CallKinds
      <3>2. QED
        BY <1>1, <1>2, <2>1, <3>1, SettledShape
    <2>5. Quiet(stack', n - 1)
      BY <1>4, <2>1 DEF Shape, Quiet
    <2>6. leaving' # <<>> => Is(leaving'[1], "incoming", k)
      BY <1>1, <1>5, <2>2
    <2>7. QED
      BY <1>3, <1>4, <2>2, <2>3, <2>4, <2>5, <2>6 DEF Shape
  <1>8. QED
    BY <1>6, <1>7 DEF ScreensInv

LEMMA EndShownKeeps ==
    ASSUME ScreensInv, NEW c \in CallKinds, EndShown(c)
    PROVE  ScreensInv'
  <1> DEFINE n == Len(stack)
  <1>1. /\ Settled /\ phase' = [phase EXCEPT ![c] = "idle"] /\ undisturbed' = undisturbed
        /\ stack' = Popped(stack) /\ leaving' \in {<<>>, <<Last(stack)>>}
    BY DEF EndShown, Becomes, Removed
  <1>2. PICK j \in DOMAIN stack : Is(stack[j], "call", c)
    BY DEF EndShown
  <1>3. /\ ScreensTyped /\ stack \in Stacks /\ n \in Nat /\ n > 0 /\ Top = stack[n]
        /\ Top = Last(stack) /\ Top \in Scr /\ DOMAIN stack = 1..n
    <2>1. ScreensTyped /\ stack \in Stacks
      BY DEF ScreensInv, ScreensTyped
    <2>2. DOMAIN stack = 1..n
      BY <2>1 DEF Stacks
    <2>3. QED
      BY <2>1, <2>2, Going DEF Top
  <1>4. /\ stack' \in Stacks /\ (n > 1 => Len(stack') = n - 1)
        /\ \A i \in 1..Len(stack') : i \in 1..n /\ stack'[i] = stack[i]
    BY <1>1, <1>3, Going
  <1>5. leaving' \in Seq(Scr) /\ Len(leaving') <= 1 /\ (leaving' # <<>> => leaving'[1] = Top)
    <2>1. leaving' = <<>> \/ leaving' = <<Top>>
      BY <1>1, <1>3
    <2>2. QED
      BY <1>3, <2>1, OneRemoved
  <1>6. ScreensTyped'
    BY <1>1, <1>3, <1>4, <1>5 DEF ScreensTyped, Phases
  <1>7. ASSUME NEW k \in CallKinds, undisturbed'[k] PROVE Shape(k)'
    <2>1. Shape(k) /\ phase[OtherKind(k)] = "idle"
      BY <1>1, <1>7 DEF ScreensInv, Shape
    <2>2. \A i \in 1..n : stack[i].kind # "none" => i = n /\ stack[i].kind = k /\ i > 1
      BY <1>1, <1>3, <2>1, SettledShape
    <2>3. j = n /\ c = k /\ n > 1 /\ Is(Top, "call", k)
      <3>1. j \in 1..n /\ stack[j].kind = c /\ stack[j].route = "call" /\ c # "none"
        BY <1>2, <1>3 DEF Is, CallKinds
      <3>2. j = n /\ c = k /\ n > 1
        BY <2>2, <3>1
      <3>3. QED
        BY <1>3, <3>1, <3>2 DEF Is
    <2>4. phase'[k] = "idle" /\ phase'[OtherKind(k)] = "idle"
      BY <1>1, <1>3, <2>1, <2>3 DEF ScreensTyped, OtherKind, CallKinds
    <2>5. \A i \in 1..Len(stack') : stack'[i].kind = "none"
      <3>1. SUFFICES ASSUME NEW i \in 1..Len(stack') PROVE stack'[i].kind = "none"
        OBVIOUS
      <3>2. i \in 1..n /\ stack'[i] = stack[i] /\ Len(stack') = n - 1
        BY <1>4, <2>3
      <3>3. i \in 1..(n - 1) /\ n \in Nat
        BY <1>3, <3>2, Zenon
      <3>4. i # n
        BY <3>3
      <3>5. QED
        BY <2>2, <3>2, <3>4
    <2> DEFINE m == Len(stack')
    <2>6. m \in Nat /\ m > 0
      BY <1>4 DEF Stacks
    <2>7. Quiet(stack', m - 1) /\ stack'[m].kind = "none"
      BY <2>5, <2>6 DEF Quiet
    <2>8. leaving' # <<>> => Is(leaving'[1], "call", k)
      BY <1>5, <2>3
    <2>9. QED
      BY <2>4, <2>7, <2>8 DEF Shape
  <1>8. QED
    BY <1>6, <1>7 DEF ScreensInv


\* What the user does that leaves the screens of no call as they are.
LEMMA OpenChatKeeps ==
    ASSUME ScreensInv, OpenChat
    PROVE  ScreensInv'
  <1> DEFINE n == Len(stack)
             e == Plain("chat")
  <1>1. /\ Settled /\ Top.route = "home" /\ stack' = Stacked(stack, e)
        /\ undisturbed' = [k \in CallKinds |-> undisturbed[k] /\ k \notin {}]
        /\ UNCHANGED <<phase, leaving>>
    BY DEF OpenChat, Touch
  <1>2. ScreensTyped /\ stack \in Stacks /\ n \in Nat /\ n > 0
    BY Going DEF ScreensInv, ScreensTyped
  <1>3. e \in Scr /\ e.kind = "none"
    BY DEF Plain, Scr, CallRoutes, CallKinds
  <1> HIDE DEF e
  <1>4. /\ stack' \in Stacks /\ Len(stack') = n + 1 /\ stack'[n + 1] = e
        /\ \A i \in 1..n : stack'[i] = stack[i]
    BY <1>1, <1>2, <1>3, Coming
  <1>5. ScreensTyped' /\ \A k \in CallKinds : undisturbed'[k] => undisturbed[k]
    BY <1>1, <1>2, <1>4 DEF ScreensTyped
  <1>6. ASSUME NEW k \in CallKinds, undisturbed'[k] PROVE Shape(k)'
    <2>1. Shape(k) /\ phase[OtherKind(k)] = "idle"
      BY <1>5, <1>6 DEF ScreensInv, Shape
    <2>2. /\ leaving = <<>> /\ Top = stack[n] /\ Top \in Scr
          /\ \A i \in 1..n : stack[i].kind # "none" => i = n
          /\ \/ Top.kind = "none" /\ phase[k] \in {"idle", "ended"}
             \/ Is(Top, "call", k)
             \/ Is(Top, "incoming", k)
      BY <1>1, <1>2, <2>1, SettledShape
    <2>3. Top.kind = "none" /\ phase[k] \in {"idle", "ended"}
      BY <1>1, <2>2 DEF Is
    <2>4. \A i \in 1..Len(stack') : stack'[i].kind = "none"
      <3>1. SUFFICES ASSUME NEW i \in 1..Len(stack') PROVE stack'[i].kind = "none"
        OBVIOUS
      <3>2. CASE i = n + 1
        BY <1>3, <1>4, <3>2
      <3>3. CASE i \in 1..n
        BY <1>4, <2>2, <2>3, <3>3
      <3>4. QED
        BY <1>2, <1>4, <3>1, <3>2, <3>3
    <2>5. QED
      BY <1>1, <1>4, <2>1, <2>2, <2>3, <2>4, ShapeOfQuiet
  <1>7. QED
    BY <1>5, <1>6 DEF ScreensInv

LEMMA BackKeeps ==
    ASSUME ScreensInv, Back
    PROVE  ScreensInv'
  <1> DEFINE n == Len(stack)
  <1>1. /\ Settled /\ n > 1 /\ stack' = Popped(stack)
        /\ undisturbed' = [k \in CallKinds |-> undisturbed[k] /\ k \notin {Top.kind}]
        /\ UNCHANGED <<phase, leaving>>
    BY DEF Back, Touch
  <1>2. ScreensTyped /\ stack \in Stacks /\ n \in Nat
    BY Going DEF ScreensInv, ScreensTyped
  <1>3. /\ stack' \in Stacks
        /\ \A i \in 1..Len(stack') : i \in 1..n /\ stack'[i] = stack[i]
    BY <1>1, <1>2, Going
  <1>4. ScreensTyped' /\ \A k \in CallKinds : undisturbed'[k] => undisturbed[k] /\ k # Top.kind
    BY <1>1, <1>2, <1>3 DEF ScreensTyped
  <1>5. ASSUME NEW k \in CallKinds, undisturbed'[k] PROVE Shape(k)'
    <2>1. Shape(k) /\ phase[OtherKind(k)] = "idle" /\ k # Top.kind
      BY <1>4, <1>5 DEF ScreensInv, Shape
    <2>2. /\ leaving = <<>> /\ Top = stack[n]
          /\ \A i \in 1..n : stack[i].kind # "none" => i = n
          /\ \/ Top.kind = "none" /\ phase[k] \in {"idle", "ended"}
             \/ Is(Top, "call", k)
             \/ Is(Top, "incoming", k)
      BY <1>1, <1>2, <2>1, SettledShape
    <2>3. Top.kind = "none" /\ phase[k] \in {"idle", "ended"}
      BY <2>1, <2>2 DEF Is
    <2>4. \A i \in 1..Len(stack') : stack'[i].kind = "none"
      BY <1>3, <2>2, <2>3
    <2>5. QED
      BY <1>1, <1>3, <2>1, <2>2, <2>3, <2>4, ShapeOfQuiet
  <1>6. QED
    BY <1>4, <1>5 DEF ScreensInv

\* What moves the screens for every call keeps only their types.
LEMMA TouchKeeps ==
    ASSUME ScreensInv, NEW s \in Stacks, Touch(s, CallKinds)
    PROVE  ScreensInv'
  <1>1. /\ stack' = s /\ UNCHANGED <<phase, leaving>>
        /\ undisturbed' = [k \in CallKinds |-> undisturbed[k] /\ k \notin CallKinds]
    BY DEF Touch
  <1>2. ScreensTyped'
    BY <1>1 DEF ScreensInv, ScreensTyped
  <1>3. \A k \in CallKinds : ~undisturbed'[k]
    BY <1>1
  <1>4. QED
    BY <1>2, <1>3 DEF ScreensInv

LEMMA CallPushedKeeps ==
    ASSUME ScreensInv, CallPushed
    PROVE  ScreensInv'
  <1>1. /\ UNCHANGED <<phase, stack, leaving>>
        /\ undisturbed' = [k \in CallKinds |-> undisturbed[k] /\ k \notin {}]
    BY DEF CallPushed, Touch
  <1>2. ScreensTyped' /\ \A k \in CallKinds : undisturbed'[k] => undisturbed[k]
    BY <1>1 DEF ScreensInv, ScreensTyped
  <1>3. QED
    BY <1>1, <1>2 DEF ScreensInv, Shape

LEMMA ScreensMade ==
    /\ \A k \in CallKinds : Screen("call", k) \in Scr /\ Screen("incoming", k) \in Scr
    /\ Plain("home") \in Scr /\ Plain("splash") \in Scr /\ <<Plain("splash")>> \in Stacks
  <1>1. \A k \in CallKinds : Screen("call", k) \in Scr /\ Screen("incoming", k) \in Scr
    BY DEF Screen, Scr, CallRoutes, CallKinds
  <1>2. Plain("home") \in Scr /\ Plain("splash") \in Scr
    BY DEF Plain, Scr, CallRoutes, CallKinds
  <1>3. ASSUME NEW e \in Scr PROVE <<e>> \in Stacks
    BY DEF Stacks
  <1>4. QED
    BY <1>1, <1>2, <1>3

LEMMA UserKeeps ==
    ASSUME ScreensInv,
           \/ NotificationPress \/ CallNotificationTap \/ SplashEnds \/ Remount
           \/ \E k \in CallKinds : BannerTap(k)
    PROVE  ScreensInv'
  <1>1. stack \in Stacks
    BY DEF ScreensInv, ScreensTyped
  <1>2. \A k \in CallKinds : /\ Stacked(stack, Screen("call", k)) \in Stacks
                             /\ Stacked(stack, Screen("incoming", k)) \in Stacks
    BY <1>1, Coming, ScreensMade
  <1>3. Replaced(stack, Plain("home")) \in Stacks
    BY <1>1, Coming, ScreensMade
  <1>4. CASE NotificationPress \/ CallNotificationTap
    <2>1. Touch(Stacked(stack, Screen("incoming", "direct")), CallKinds)
      BY <1>4 DEF NotificationPress, CallNotificationTap
    <2>2. QED
      BY <1>2, <2>1, TouchKeeps DEF CallKinds
  <1>5. CASE SplashEnds
    BY <1>3, <1>5, TouchKeeps DEF SplashEnds
  <1>6. CASE Remount
    <2>1. \A s \in Stacks, k \in CallKinds : CaughtUp(s, k) \in Stacks
      BY Coming, ScreensMade DEF CaughtUp
    <2> DEFINE s == CaughtUp(CaughtUp(<<Plain("splash")>>, "direct"), "group")
    <2>2. s \in Stacks
      BY <2>1, ScreensMade DEF CallKinds
    <2>3. Touch(s, CallKinds)
      BY <1>6 DEF Remount
    <2> HIDE DEF s
    <2>4. QED
      BY <2>2, <2>3, TouchKeeps
  <1>7. ASSUME NEW k \in CallKinds, BannerTap(k) PROVE ScreensInv'
    BY <1>2, <1>7, TouchKeeps DEF BannerTap
  <1>8. QED
    BY <1>4, <1>5, <1>6, <1>7

LEMMA CallMovesKeep ==
    ASSUME ScreensInv, NEW k \in CallKinds,
           \/ Place(k) \/ Rings(k) \/ Accept(k) \/ Decline(k) \/ CallerGone(k)
           \/ Connected(k) \/ Ends(k) \/ EndShown(k) \/ EndCleared(k)
           \/ CallAnswered
    PROVE  ScreensInv'
  <1> USE DEF Phases
  <1>1. CASE Place(k)
    <2>1. Begins(k, "ringing-out", Screen("call", k)) /\ Is(Screen("call", k), "call", k)
      BY <1>1 DEF Place, Is, Screen
    <2>2. QED
      BY <2>1, ScreensMade, BeginsKeeps
  <1>2. CASE Rings(k)
    <2>1. Begins(k, "ringing-in", Screen("incoming", k)) /\ Is(Screen("incoming", k), "incoming", k)
      BY <1>2 DEF Rings, Is, Screen
    <2>2. QED
      BY <2>1, ScreensMade, BeginsKeeps
  <1>3. CASE Accept(k)
    BY <1>3, AcceptKeeps
  <1>4. CASE Decline(k)
    <2>1. Becomes(k, "idle") /\ UNCHANGED <<stack, leaving>> /\ phase[k] = "ringing-in"
      BY <1>4 DEF Decline
    <2>2. QED
      BY <2>1, BecomesKeeps
  <1>5. CASE CallerGone(k)
    <2> DEFINE p == IF k = "direct" THEN "ended" ELSE "idle"
    <2>1. /\ Becomes(k, p) /\ UNCHANGED <<stack, leaving>> /\ phase[k] = "ringing-in"
          /\ p \in {"idle", "ended"} /\ p \in Phases
      BY <1>5 DEF CallerGone
    <2> HIDE DEF p
    <2>2. QED
      BY <2>1, BecomesKeeps
  <1>6. CASE CallAnswered
    <2>1. /\ Becomes("direct", "connecting") /\ UNCHANGED <<stack, leaving>>
          /\ phase["direct"] = "ringing-out" /\ "direct" \in CallKinds
      BY <1>6 DEF CallAnswered, CallKinds
    <2>2. QED
      BY <2>1, BecomesKeeps
  <1>7. CASE Connected(k)
    <2>1. /\ Becomes(k, "active") /\ UNCHANGED <<stack, leaving>>
          /\ phase[k] \in {"ringing-out", "connecting"}
      BY <1>7 DEF Connected
    <2>2. QED
      BY <2>1, BecomesKeeps
  <1>8. CASE Ends(k)
    <2>1. /\ Becomes(k, "ended") /\ UNCHANGED <<stack, leaving>>
          /\ phase[k] \in {"ringing-out", "connecting", "active"}
      BY <1>8 DEF Ends, Ongoing
    <2>2. QED
      BY <2>1, BecomesKeeps
  <1>9. CASE EndShown(k)
    BY <1>9, EndShownKeeps
  <1>10. CASE EndCleared(k)
    <2>1. /\ Becomes(k, "idle") /\ UNCHANGED <<stack, leaving>> /\ phase[k] = "ended"
          /\ ~\E i \in DOMAIN stack : Is(stack[i], "call", k)
      BY <1>10 DEF EndCleared
    <2>2. QED
      BY <2>1, BecomesKeeps
  <1>11. QED
    BY <1>1, <1>2, <1>3, <1>4, <1>5, <1>6, <1>7, <1>8, <1>9, <1>10

LEMMA ScreensBegin == ScreensInit => ScreensInv
  <1>1. SUFFICES ASSUME ScreensInit PROVE ScreensInv
    OBVIOUS
  <1>2. /\ phase = [k \in CallKinds |-> "idle"] /\ stack = <<Plain("splash")>> /\ leaving = <<>>
        /\ undisturbed = [k \in CallKinds |-> TRUE]
    BY <1>1 DEF ScreensInit
  <1>3. stack \in Stacks /\ Len(stack) = 1 /\ stack[1].kind = "none"
    BY <1>2, ScreensMade DEF Plain
  <1>4. leaving \in Seq(Scr) /\ Len(leaving) <= 1
    BY <1>2
  <1>5. ScreensTyped
    BY <1>2, <1>3, <1>4 DEF ScreensTyped, Phases
  <1>6. ASSUME NEW k \in CallKinds PROVE Shape(k)
    <2>1. phase[k] = "idle" /\ phase[OtherKind(k)] = "idle"
      BY <1>2 DEF OtherKind, CallKinds
    <2>2. Quiet(stack, 1 - 1)
      BY DEF Quiet
    <2>3. QED
      BY <1>2, <1>3, <2>1, <2>2 DEF Shape
  <1>7. QED
    BY <1>5, <1>6 DEF ScreensInv

LEMMA EffectsKeep ==
    ASSUME ScreensInv, Effects
    PROVE  ScreensInv'
  <1>1. ScreensTyped'
    BY EffectsTyped DEF ScreensInv
  <1>2. undisturbed' = undisturbed
    BY DEF Effects
  <1>3. ASSUME NEW k \in CallKinds, undisturbed'[k] PROVE Shape(k)'
    BY <1>2, <1>3, EffectsShape DEF ScreensInv
  <1>4. QED
    BY <1>1, <1>3 DEF ScreensInv

LEMMA ScreensKeep ==
    ASSUME ScreensInv, [ScreensNext]_callScreenVars
    PROVE  ScreensInv'
  <1>1. CASE UNCHANGED callScreenVars
    BY <1>1 DEF callScreenVars, ScreensInv, ScreensTyped, Shape
  <1>2. CASE ScreensNext
    <2>1. CASE Effects
      BY <2>1, EffectsKeep
    <2>2. CASE OpenChat
      BY <2>2, OpenChatKeeps
    <2>3. CASE Back
      BY <2>3, BackKeeps
    <2>4. CASE CallPushed
      BY <2>4, CallPushedKeeps
    <2>5. CASE NotificationPress \/ CallNotificationTap \/ SplashEnds \/ Remount
      BY <2>5, UserKeeps
    <2>6. CASE CallAnswered
      BY <2>6, CallMovesKeep DEF CallKinds
    <2>7. ASSUME NEW k \in CallKinds,
                 \/ Place(k) \/ Rings(k) \/ Accept(k) \/ Decline(k) \/ CallerGone(k)
                 \/ Connected(k) \/ Ends(k) \/ EndShown(k) \/ EndCleared(k) \/ BannerTap(k)
          PROVE  ScreensInv'
      BY <2>7, CallMovesKeep, UserKeeps
    <2>8. QED
      BY <1>2, <2>1, <2>2, <2>3, <2>4, <2>5, <2>6, <2>7 DEF ScreensNext
  <1>3. QED
    BY <1>1, <1>2

\* A settled stack of this form shows the user the call.
LEMMA ScreensShow == ScreensInv => ScreenFollowsCall
  <1>1. SUFFICES ASSUME ScreensInv, NEW k \in CallKinds, Settled, undisturbed[k]
                 PROVE  /\ ScreenOf(phase[k]) # "none" => Is(Top, ScreenOf(phase[k]), k)
                        /\ phase[k] = "idle" => \A i \in DOMAIN stack : stack[i].kind # k
    BY DEF ScreenFollowsCall
  <1>2. ScreensTyped /\ Shape(k) /\ DOMAIN stack = 1..Len(stack) /\ k # "none"
    BY <1>1 DEF ScreensInv, ScreensTyped, Stacks, CallKinds
  <1>3. /\ \A i \in 1..Len(stack) : stack[i].kind # "none" => i = Len(stack)
        /\ \/ Top.kind = "none" /\ phase[k] \in {"idle", "ended"}
           \/ Is(Top, "call", k) /\ phase[k] \in {"ringing-out", "connecting", "active", "ended"}
           \/ Is(Top, "incoming", k) /\ phase[k] = "ringing-in"
        /\ Top = stack[Len(stack)]
    BY <1>1, <1>2, SettledShape
  <1>4. ScreenOf(phase[k]) # "none" => Is(Top, ScreenOf(phase[k]), k)
    BY <1>3 DEF ScreenOf
  <1>5. phase[k] = "idle" => \A i \in DOMAIN stack : stack[i].kind # k
    BY <1>2, <1>3 DEF Is
  <1>6. QED
    BY <1>4, <1>5

\* While nothing but a call itself has moved the screens, the user sees the screen to
\* answer it on, then the call screen, and in the end none of them: the effects of the
\* call screens and the navigation of _layout.tsx never pop or keep the wrong one.
THEOREM ScreensFollow == ScreensSpec => []ScreenFollowsCall
  <1>1. ScreensInit => ScreensInv
    BY ScreensBegin
  <1>2. ScreensInv /\ [ScreensNext]_callScreenVars => ScreensInv'
    BY ScreensKeep
  <1>3. QED
    BY <1>1, <1>2, ScreensShow, PTL DEF ScreensSpec

-----------------------------------------------------------------------------
(* The history of a chat. What is shown leaves out only what is older than *)
(* the first message shown. That is no invariant by itself: what a query   *)
(* has read and nobody has applied yet must leave out only what is older   *)
(* too (ReadIsRecent, PageIsNext), while messages arrive, are marked and   *)
(* cleared behind it; and a patch that writes back an old row must not     *)
(* bring back a message, or change the time of one (PatchesKnown, Dated).  *)
(*                                                                         *)
(* First, sets in order: what InOrder and Newest make of a finite set.     *)

\* In a strict order of a finite set the members have the ranks 0, 1, 2 and so on.
StrictOrder(S, R) ==
    /\ \A x \in S : <<x, x>> \notin R
    /\ \A x, y \in S : x # y => <<x, y>> \in R \/ <<y, x>> \in R
    /\ \A x, y, z \in S : <<x, y>> \in R /\ <<y, z>> \in R => <<x, z>> \in R

LEMMA Ranks ==
    ASSUME NEW S, IsFiniteSet(S), NEW R, StrictOrder(S, R)
    PROVE  LET Rank(m) == Cardinality({x \in S : <<x, m>> \in R})
           IN  /\ Cardinality(S) \in Nat
               /\ \A i \in 1..Cardinality(S) : \E m \in S : Rank(m) = i - 1
               /\ \A m, o \in S : Rank(m) = Rank(o) => m = o
               /\ \A m \in S : Rank(m) + 1 \in 1..Cardinality(S)
  <1> DEFINE Below(m) == {x \in S : <<x, m>> \in R}
             Rank(m) == Cardinality(Below(m))
             n == Cardinality(S)
             f == [m \in S |-> Rank(m) + 1]
  <1> USE DEF StrictOrder
  <1>1. n \in Nat
    BY FS_CardinalityType
  <1>2. ASSUME NEW m \in S
        PROVE  /\ IsFiniteSet(Below(m)) /\ Rank(m) \in Nat /\ Rank(m) < n
    <2>1. Below(m) \in SUBSET S /\ m \notin Below(m)
      OBVIOUS
    <2>2. /\ IsFiniteSet(Below(m)) /\ Rank(m) <= n /\ (n = Rank(m) => S = Below(m))
      BY <2>1, FS_Subset
    <2>3. Rank(m) \in Nat
      BY <2>2, FS_CardinalityType
    <2> HIDE DEF Rank
    <2>4. QED
      BY <1>1, <2>1, <2>2, <2>3
  <1>3. ASSUME NEW m \in S, NEW o \in S, <<m, o>> \in R
        PROVE  Rank(m) < Rank(o)
    <2>1. Below(m) \in SUBSET Below(o) /\ m \in Below(o) /\ m \notin Below(m)
      BY <1>3
    <2>2. IsFiniteSet(Below(o))
      BY <1>2
    <2>3. Rank(m) <= Rank(o) /\ (Rank(o) = Rank(m) => Below(o) = Below(m))
      BY <2>1, <2>2, FS_Subset
    <2>4. Rank(m) # Rank(o)
      BY <2>1, <2>3
    <2>5. Rank(m) \in Nat /\ Rank(o) \in Nat
      BY <1>2
    <2> HIDE DEF Rank
    <2>6. QED
      BY <2>3, <2>4, <2>5
  <1>a. \A m \in S : Rank(m) \in Nat /\ Rank(m) < n
    BY <1>2
  <1> HIDE DEF Rank, n
  <1>4. \A m, o \in S : Rank(m) = Rank(o) => m = o
    <2>1. SUFFICES ASSUME NEW m \in S, NEW o \in S, Rank(m) = Rank(o), m # o PROVE FALSE
      OBVIOUS
    <2>2. Rank(m) < Rank(o) \/ Rank(o) < Rank(m)
      BY <1>3, <2>1
    <2>3. Rank(m) \in Nat /\ Rank(o) \in Nat
      BY <1>a
    <2>4. QED
      BY <2>1, <2>2, <2>3
  <1>5. \A m \in S : Rank(m) + 1 \in 1..n
    <2>1. SUFFICES ASSUME NEW m \in S PROVE Rank(m) + 1 \in 1..n
      OBVIOUS
    <2>2. Rank(m) \in Nat /\ Rank(m) < n
      BY <1>a
    <2>3. QED
      BY <1>1, <2>2
  <1>6. f \in Injection(S, 1..n)
    BY <1>4, <1>5, <1>a DEF Injection, IsInjective
  <1>7. IsFiniteSet(1..n) /\ Cardinality(1..n) = n
    BY <1>1, FS_Interval
  <1>8. f \in Surjection(S, 1..n)
    BY <1>6, <1>7, FS_Injection DEF n
  <1>9. \A i \in 1..n : \E m \in S : Rank(m) = i - 1
    <2>1. SUFFICES ASSUME NEW i \in 1..n PROVE \E m \in S : Rank(m) = i - 1
      OBVIOUS
    <2>2. PICK m \in S : f[m] = i
      BY <1>8 DEF Surjection
    <2>3. Rank(m) + 1 = i /\ Rank(m) \in Nat
      BY <1>a, <2>2
    <2>4. QED
      BY <2>3
  <1>10. QED
    BY <1>1, <1>4, <1>5, <1>9 DEF Rank, n

\* A sequence that has at every place the member with the rank for it.
AtItsRank(S, n, Rank, q) ==
    /\ q = [i \in 1..n |-> q[i]]
    /\ \A i \in 1..n : (\E m \in S : Rank[m] = i - 1) => q[i] \in S /\ Rank[q[i]] = i - 1

LEMMA Ordered ==
    ASSUME NEW S, IsFiniteSet(S), NEW R, StrictOrder(S, R),
           NEW Rank, \A m \in S : Rank[m] = Cardinality({x \in S : <<x, m>> \in R}),
           NEW q, AtItsRank(S, Cardinality(S), Rank, q)
    PROVE  q \in Seq(S) /\ ToSet(q) = S
  <1> DEFINE n == Cardinality(S)
             Ranked(m) == Cardinality({x \in S : <<x, m>> \in R})
  <1>1. /\ n \in Nat
        /\ \A i \in 1..n : \E m \in S : Ranked(m) = i - 1
        /\ \A m, o \in S : Ranked(m) = Ranked(o) => m = o
        /\ \A m \in S : Ranked(m) + 1 \in 1..n
    BY Ranks
  <1>2. \A m \in S : Ranked(m) \in Nat
    <2>1. SUFFICES ASSUME NEW m \in S PROVE Ranked(m) \in Nat
      OBVIOUS
    <2>2. IsFiniteSet({x \in S : <<x, m>> \in R})
      BY FS_Subset
    <2>3. QED
      BY <2>2, FS_CardinalityType
  <1>3. \A m \in S : Rank[m] = Ranked(m)
    OBVIOUS
  <1> HIDE DEF n, Ranked
  <1>a. AtItsRank(S, n, Rank, q)
    BY DEF n
  <1>4. \A i \in 1..n : q[i] \in S /\ Rank[q[i]] = i - 1
    <2>1. SUFFICES ASSUME NEW i \in 1..n PROVE q[i] \in S /\ Rank[q[i]] = i - 1
      OBVIOUS
    <2>2. PICK m \in S : Ranked(m) = i - 1
      BY <1>1
    <2>3. Rank[m] = i - 1
      BY <1>3, <2>2
    <2>4. QED
      BY <1>a, <2>3 DEF AtItsRank
  <1>5. q \in Seq(S) /\ DOMAIN q = 1..n
    <2>1. q = [i \in 1..n |-> q[i]]
      BY <1>a DEF AtItsRank
    <2>2. q \in [1..n -> S] /\ DOMAIN q = 1..n
      BY <1>4, <2>1
    <2>3. QED
      BY <1>1, <2>2
  <1>6. ASSUME NEW m \in S PROVE m \in ToSet(q)
    <2> DEFINE i == Rank[m] + 1
    <2>1. i \in 1..n /\ Rank[m] \in Nat
      BY <1>1, <1>2, <1>3
    <2>2. Rank[q[i]] = i - 1 /\ q[i] \in S
      BY <1>4, <2>1
    <2>3. Rank[q[i]] = Rank[m]
      BY <2>1, <2>2
    <2>4. q[i] = m
      BY <1>1, <1>3, <2>2, <2>3
    <2>5. QED
      BY <1>5, <2>1, <2>4 DEF ToSet
  <1>7. \A i \in DOMAIN q : q[i] \in S
    BY <1>4, <1>5
  <1>8. ToSet(q) \subseteq S
    BY <1>7 DEF ToSet
  <1>9. QED
    BY <1>5, <1>6, <1>8

\* A message as it is stored and shown.
HistoryRow == [id : Nat, at : Nat, marks : SUBSET Authors]

\* No two with the same id.
Unique(S) == \A x, y \in S : x.id = y.id => x = y

\* The orders of the two queries, and of what is merged.
LEMMA InOrderBefore ==
    ASSUME NEW S \in SUBSET HistoryRow, IsFiniteSet(S), Unique(S)
    PROVE  InOrder(S, Before) \in Seq(S) /\ ToSet(InOrder(S, Before)) = S
  <1> DEFINE R == {p \in S \X S : Before(p[1], p[2])}
             Rank == [m \in S |-> Cardinality({x \in S : Before(x, m)})]
             q == InOrder(S, Before)
             n == Cardinality(S)
  <1>1. StrictOrder(S, R)
    <2>1. \A x, y \in S : <<x, y>> \in R <=> Before(x, y)
      OBVIOUS
    <2>2. \A x \in S : x.at \in Nat /\ x.id \in Nat
      BY DEF HistoryRow
    <2> HIDE DEF R
    <2>3. QED
      BY <2>1, <2>2 DEF Before, Unique, StrictOrder
  <1>2. \A m \in S : Rank[m] = Cardinality({x \in S : <<x, m>> \in R})
    <2>1. ASSUME NEW m \in S PROVE {x \in S : Before(x, m)} = {x \in S : <<x, m>> \in R}
      BY <2>1
    <2>2. QED
      BY <2>1
  <1>3. q = [i \in 1..n |-> CHOOSE m \in S : Cardinality({x \in S : Before(x, m)}) = i - 1]
    BY Zenon DEF InOrder
  <1>4. q = [i \in 1..n |-> q[i]]
    BY <1>3
  <1>5. \A i \in 1..n : q[i] = CHOOSE m \in S : Cardinality({x \in S : Before(x, m)}) = i - 1
    BY <1>3
  <1> HIDE DEF q, n
  <1>6. ASSUME NEW i \in 1..n, \E m \in S : Rank[m] = i - 1
        PROVE  q[i] \in S /\ Rank[q[i]] = i - 1
    <2>1. \E m \in S : Cardinality({x \in S : Before(x, m)}) = i - 1
      BY <1>6
    <2>2. q[i] \in S /\ Cardinality({x \in S : Before(x, q[i])}) = i - 1
      BY <1>5, <1>6, <2>1
    <2>3. QED
      BY <2>2
  <1> HIDE DEF R, Rank
  <1>7. AtItsRank(S, Cardinality(S), Rank, q)
    BY <1>4, <1>6 DEF AtItsRank, n
  <1>8. q \in Seq(S) /\ ToSet(q) = S
    BY <1>1, <1>2, <1>7, Ordered
  <1>9. QED
    BY <1>8 DEF q

LEMMA InOrderReversed ==
    ASSUME NEW S \in SUBSET HistoryRow, IsFiniteSet(S), Unique(S)
    PROVE  InOrder(S, Reversed) \in Seq(S) /\ ToSet(InOrder(S, Reversed)) = S
  <1> DEFINE R == {p \in S \X S : Reversed(p[1], p[2])}
             Rank == [m \in S |-> Cardinality({x \in S : Reversed(x, m)})]
             q == InOrder(S, Reversed)
             n == Cardinality(S)
  <1>1. StrictOrder(S, R)
    <2>1. \A x, y \in S : <<x, y>> \in R <=> Reversed(x, y)
      OBVIOUS
    <2>2. \A x \in S : x.at \in Nat /\ x.id \in Nat
      BY DEF HistoryRow
    <2> HIDE DEF R
    <2>3. QED
      BY <2>1, <2>2 DEF Reversed, Unique, StrictOrder
  <1>2. \A m \in S : Rank[m] = Cardinality({x \in S : <<x, m>> \in R})
    <2>1. ASSUME NEW m \in S PROVE {x \in S : Reversed(x, m)} = {x \in S : <<x, m>> \in R}
      BY <2>1
    <2>2. QED
      BY <2>1
  <1>3. q = [i \in 1..n |-> CHOOSE m \in S : Cardinality({x \in S : Reversed(x, m)}) = i - 1]
    BY Zenon DEF InOrder
  <1>4. q = [i \in 1..n |-> q[i]]
    BY <1>3
  <1>5. \A i \in 1..n : q[i] = CHOOSE m \in S : Cardinality({x \in S : Reversed(x, m)}) = i - 1
    BY <1>3
  <1> HIDE DEF q, n
  <1>6. ASSUME NEW i \in 1..n, \E m \in S : Rank[m] = i - 1
        PROVE  q[i] \in S /\ Rank[q[i]] = i - 1
    <2>1. \E m \in S : Cardinality({x \in S : Reversed(x, m)}) = i - 1
      BY <1>6
    <2>2. q[i] \in S /\ Cardinality({x \in S : Reversed(x, q[i])}) = i - 1
      BY <1>5, <1>6, <2>1
    <2>3. QED
      BY <2>2
  <1> HIDE DEF R, Rank
  <1>7. AtItsRank(S, Cardinality(S), Rank, q)
    BY <1>4, <1>6 DEF AtItsRank, n
  <1>8. q \in Seq(S) /\ ToSet(q) = S
    BY <1>1, <1>2, <1>7, Ordered
  <1>9. QED
    BY <1>8 DEF q

LEMMA InOrderEarlier ==
    ASSUME NEW S \in SUBSET [m : HistoryRow, place : Nat], IsFiniteSet(S),
           \A x, y \in S : x.place = y.place => x = y
    PROVE  InOrder(S, Earlier) \in Seq(S) /\ ToSet(InOrder(S, Earlier)) = S
  <1> DEFINE R == {p \in S \X S : Earlier(p[1], p[2])}
             Rank == [m \in S |-> Cardinality({x \in S : Earlier(x, m)})]
             q == InOrder(S, Earlier)
             n == Cardinality(S)
  <1>1. StrictOrder(S, R)
    <2>1. \A x, y \in S : <<x, y>> \in R <=> Earlier(x, y)
      OBVIOUS
    <2>2. \A x \in S : x.m.at \in Nat /\ x.place \in Nat
      BY DEF HistoryRow
    <2> HIDE DEF R
    <2>3. QED
      BY <2>1, <2>2 DEF Earlier, StrictOrder
  <1>2. \A m \in S : Rank[m] = Cardinality({x \in S : <<x, m>> \in R})
    <2>1. ASSUME NEW m \in S PROVE {x \in S : Earlier(x, m)} = {x \in S : <<x, m>> \in R}
      BY <2>1
    <2>2. QED
      BY <2>1
  <1>3. q = [i \in 1..n |-> CHOOSE m \in S : Cardinality({x \in S : Earlier(x, m)}) = i - 1]
    BY Zenon DEF InOrder
  <1>4. q = [i \in 1..n |-> q[i]]
    BY <1>3
  <1>5. \A i \in 1..n : q[i] = CHOOSE m \in S : Cardinality({x \in S : Earlier(x, m)}) = i - 1
    BY <1>3
  <1> HIDE DEF q, n
  <1>6. ASSUME NEW i \in 1..n, \E m \in S : Rank[m] = i - 1
        PROVE  q[i] \in S /\ Rank[q[i]] = i - 1
    <2>1. \E m \in S : Cardinality({x \in S : Earlier(x, m)}) = i - 1
      BY <1>6
    <2>2. q[i] \in S /\ Cardinality({x \in S : Earlier(x, q[i])}) = i - 1
      BY <1>5, <1>6, <2>1
    <2>3. QED
      BY <2>2
  <1> HIDE DEF R, Rank
  <1>7. AtItsRank(S, Cardinality(S), Rank, q)
    BY <1>4, <1>6 DEF AtItsRank, n
  <1>8. q \in Seq(S) /\ ToSet(q) = S
    BY <1>1, <1>2, <1>7, Ordered
  <1>9. QED
    BY <1>8 DEF q

\* A page: the newest n of some messages.
LEMMA NewestAre ==
    ASSUME NEW S \in SUBSET HistoryRow, IsFiniteSet(S), NEW n \in Nat \ {0}
    PROVE  /\ Newest(S, n) \in SUBSET S /\ IsFiniteSet(Newest(S, n))
           /\ \A m \in S \ Newest(S, n), r \in Newest(S, n) : m.id # r.id => Before(m, r)
           /\ S # {} => Newest(S, n) # {}
           /\ Cardinality(S) <= n => Newest(S, n) = S
  <1> DEFINE Later(m) == {x \in S : Before(m, x)}
             Count(m) == Cardinality(Later(m))
  <1>1. \A x \in S : x.at \in Nat /\ x.id \in Nat
    BY DEF HistoryRow
  <1>2. ASSUME NEW m \in S
        PROVE  /\ Later(m) \in SUBSET S /\ m \notin Later(m)
               /\ IsFiniteSet(Later(m)) /\ Count(m) \in Nat /\ Count(m) < Cardinality(S)
    <2>1. Later(m) \in SUBSET S /\ m \notin Later(m)
      BY <1>1 DEF Before
    <2>2. /\ IsFiniteSet(Later(m)) /\ Count(m) <= Cardinality(S)
          /\ Cardinality(S) = Count(m) => S = Later(m)
      BY <2>1, FS_Subset
    <2>3. Count(m) \in Nat /\ Cardinality(S) \in Nat
      BY <2>2, FS_CardinalityType
    <2>4. Count(m) # Cardinality(S)
      BY <2>1, <2>2
    <2> HIDE DEF Count
    <2>5. Count(m) < Cardinality(S)
      BY <2>2, <2>3, <2>4
    <2>6. QED
      BY <2>1, <2>2, <2>3, <2>5
  <1>3. ASSUME NEW m \in S, NEW o \in S, Before(m, o)
        PROVE  Count(o) < Count(m)
    <2>1. Later(o) \in SUBSET Later(m) /\ o \in Later(m) /\ o \notin Later(o)
      BY <1>1, <1>2, <1>3 DEF Before
    <2>2. IsFiniteSet(Later(m)) /\ Count(m) \in Nat /\ Count(o) \in Nat
      BY <1>2
    <2>3. Count(o) <= Count(m) /\ (Count(m) = Count(o) => Later(m) = Later(o))
      BY <2>1, <2>2, FS_Subset
    <2>4. Count(m) # Count(o)
      BY <2>1, <2>3
    <2> HIDE DEF Count
    <2>5. QED
      BY <2>2, <2>3, <2>4
  <1>4. Newest(S, n) = {m \in S : Count(m) < n}
    BY DEF Newest
  <1>5. \A m \in S : Count(m) \in Nat /\ Count(m) < Cardinality(S)
    BY <1>2
  <1>a. Cardinality(S) \in Nat
    BY FS_CardinalityType
  <1> HIDE DEF Count
  <1>6. Newest(S, n) \in SUBSET S /\ IsFiniteSet(Newest(S, n))
    BY <1>4, FS_Subset
  <1>7. ASSUME NEW m \in S \ Newest(S, n), NEW r \in Newest(S, n), m.id # r.id
        PROVE  Before(m, r)
    <2>1. m \in S /\ r \in S /\ Count(r) < n /\ ~(Count(m) < n)
      BY <1>4
    <2>2. Before(m, r) \/ Before(r, m)
      BY <1>1, <1>7, <2>1 DEF Before
    <2>3. ~(Count(m) < Count(r))
      BY <1>5, <2>1
    <2>4. QED
      BY <1>3, <2>1, <2>2, <2>3
  <1>8. ASSUME S # {} PROVE Newest(S, n) # {}
    <2> DEFINE T == {Count(m) : m \in S}
    <2>1. T \subseteq Nat /\ T # {}
      BY <1>5, <1>8
    <2> HIDE DEF T
    <2>2. PICK t \in T : \A y \in T : ~(y < t)
      BY <2>1, LeastNatural
    <2>3. PICK m \in S : t = Count(m)
      BY <2>2 DEF T
    <2>4. \A x \in S : ~(Count(x) < Count(m))
      BY <2>2, <2>3 DEF T
    <2>5. Later(m) = {}
      BY <1>3, <2>4
    <2>6. Count(m) = 0
      BY <2>5, FS_EmptySet DEF Count
    <2>7. QED
      BY <1>4, <2>6
  <1>9. ASSUME Cardinality(S) <= n PROVE Newest(S, n) = S
    <2>1. \A m \in S : Count(m) < n
      BY <1>5, <1>9, <1>a
    <2>2. QED
      BY <1>4, <2>1
  <1>10. QED
    BY <1>6, <1>7, <1>8, <1>9

\* What is read at the start: whatever is left out is older than all of it.
LEMMA RecentAre ==
    ASSUME rows \in SUBSET HistoryRow, IsFiniteSet(rows), NEW P
    PROVE  /\ Recent(P) \in SUBSET rows /\ IsFiniteSet(Recent(P))
           /\ \A m \in rows \ Recent(P), r \in Recent(P) : m.id # r.id => Before(m, r)
           /\ rows # {} => Recent(P) # {}
  <1> DEFINE recent == Newest(rows, PageSize)
             marked == {m \in rows : m.id \in P}
             more == recent \cup {m \in rows : \E p \in marked : m.at >= p.at}
  <1>1. /\ recent \in SUBSET rows
        /\ \A m \in rows \ recent, r \in recent : m.id # r.id => Before(m, r)
        /\ rows # {} => recent # {}
    BY NewestAre, HistoryAssumption
  <1>2. Recent(P) = IF marked \subseteq recent THEN recent ELSE more
    BY Zenon DEF Recent
  <1> HIDE DEF recent, marked
  <1>3. marked \subseteq rows /\ \A x \in rows : x.at \in Nat /\ x.id \in Nat
    BY DEF HistoryRow, marked
  <1>4. more \in SUBSET rows /\ (rows # {} => more # {})
    BY <1>1
  <1>5. ASSUME NEW m \in rows \ more, NEW r \in more, m.id # r.id
        PROVE  Before(m, r)
    <2>1. CASE r \in recent
      BY <1>1, <1>5, <2>1
    <2>2. CASE r \notin recent
      <3>1. PICK p \in marked : r.at >= p.at
        BY <1>5, <2>2
      <3>2. ~(m.at >= p.at)
        BY <1>5, <3>1
      <3>3. m \in rows /\ r \in rows /\ p \in rows
        BY <1>3, <1>4, <1>5, <3>1
      <3>4. QED
        BY <1>3, <3>1, <3>2, <3>3 DEF Before
    <2>3. QED
      BY <2>1, <2>2
  <1> HIDE DEF more
  <1>6. Recent(P) \in SUBSET rows
    BY <1>1, <1>2, <1>4
  <1>7. IsFiniteSet(Recent(P))
    BY <1>6, FS_Subset
  <1>8. QED
    BY <1>1, <1>2, <1>4, <1>5, <1>6, <1>7

\* What the merge at the start makes of what was read and what was there already.
LEMMA SortedByTimeIs ==
    ASSUME NEW read \in Seq(HistoryRow), NEW mem \in Seq(HistoryRow)
    PROVE  /\ SortedByTime(read, mem) \in Seq(HistoryRow)
           /\ ToSet(SortedByTime(read, mem)) =
                  ToSet(read) \cup {m \in ToSet(mem) : m.id \notin Ids(ToSet(read))}
  <1> DEFINE readIds == Ids(ToSet(read))
             J == {j \in DOMAIN mem : mem[j].id \notin readIds}
             A == {[m |-> read[i], place |-> i] : i \in DOMAIN read}
             B == {[m |-> mem[i], place |-> Len(read) + i] : i \in J}
             E == A \cup B
             q == InOrder(E, Earlier)
             t == [i \in DOMAIN q |-> q[i].m]
  <1>1. SortedByTime(read, mem) = t
    BY Zenon DEF SortedByTime
  <1>2. /\ Len(read) \in Nat /\ Len(mem) \in Nat
        /\ DOMAIN read = 1..Len(read) /\ DOMAIN mem = 1..Len(mem)
        /\ \A i \in 1..Len(read) : read[i] \in HistoryRow
        /\ \A i \in 1..Len(mem) : mem[i] \in HistoryRow
    OBVIOUS
  <1> HIDE DEF readIds
  <1>3. E \in SUBSET [m : HistoryRow, place : Nat]
    <2>1. A \in SUBSET [m : HistoryRow, place : Nat]
      BY <1>2
    <2>2. B \in SUBSET [m : HistoryRow, place : Nat]
      BY <1>2
    <2>3. QED
      BY <2>1, <2>2
  <1>4. \A x, y \in E : x.place = y.place => x = y
    <2>1. \A x \in A : x.place \in 1..Len(read) /\ x = [m |-> read[x.place], place |-> x.place]
      BY <1>2
    <2>2. \A x \in B : /\ x.place - Len(read) \in 1..Len(mem)
                       /\ x = [m |-> mem[x.place - Len(read)], place |-> x.place]
      BY <1>2
    <2> HIDE DEF A, B
    <2>3. QED
      BY <1>2, <1>3, <2>1, <2>2
  <1>5. IsFiniteSet(E)
    <2>1. IsFiniteSet(DOMAIN read) /\ IsFiniteSet(J)
      <3>1. IsFiniteSet(1..Len(read)) /\ IsFiniteSet(1..Len(mem))
        BY <1>2, FS_Interval
      <3>2. J \in SUBSET (1..Len(mem))
        BY <1>2
      <3>3. QED
        BY <1>2, <3>1, <3>2, FS_Subset
    <2> DEFINE f == [i \in DOMAIN read |-> [m |-> read[i], place |-> i]]
               g == [i \in J |-> [m |-> mem[i], place |-> Len(read) + i]]
    <2>2. f \in Surjection(DOMAIN read, A) /\ g \in Surjection(J, B)
      BY DEF Surjection
    <2> HIDE DEF A, B, J, f, g
    <2>3. IsFiniteSet(A) /\ IsFiniteSet(B)
      BY <2>1, <2>2, FS_Surjection
    <2>4. QED
      BY <2>3, FS_Union
  <1> HIDE DEF E
  <1>6. q \in Seq(E) /\ ToSet(q) = E
    BY <1>3, <1>4, <1>5, InOrderEarlier
  <1> HIDE DEF q
  <1>7. t \in Seq(HistoryRow) /\ DOMAIN t = DOMAIN q
    <2>1. \A i \in 1..Len(q) : q[i] \in E /\ q[i].m \in HistoryRow
      BY <1>3, <1>6
    <2>2. Len(q) \in Nat /\ DOMAIN q = 1..Len(q)
      BY <1>6
    <2>3. QED
      BY <2>1, <2>2
  <1>8. ToSet(t) = {x.m : x \in E}
    <2>1. E = {q[i] : i \in DOMAIN q}
      BY <1>6 DEF ToSet
    <2>2. ToSet(t) = {t[i] : i \in DOMAIN t} /\ \A i \in DOMAIN q : t[i] = q[i].m
      BY DEF ToSet
    <2> HIDE DEF t
    <2>3. \A i \in DOMAIN q : q[i] \in E /\ t[i] \in {x.m : x \in E}
      BY <2>1, <2>2
    <2>4. \A x \in E : x.m \in ToSet(t)
      BY <1>7, <2>1, <2>2
    <2>5. QED
      BY <1>7, <2>2, <2>3, <2>4
  <1>9. {x.m : x \in A} = ToSet(read)
    <2>1. \A x \in A : x.m \in ToSet(read)
      BY DEF ToSet
    <2>2. ASSUME NEW i \in DOMAIN read PROVE read[i] \in {x.m : x \in A}
      <3>1. [m |-> read[i], place |-> i] \in A /\ [m |-> read[i], place |-> i].m = read[i]
        OBVIOUS
      <3>2. QED
        BY <3>1
    <2>3. QED
      BY <2>1, <2>2 DEF ToSet
  <1>10. {x.m : x \in B} = {m \in ToSet(mem) : m.id \notin readIds}
    <2>1. \A x \in B : x.m \in ToSet(mem) /\ x.m.id \notin readIds
      BY DEF ToSet
    <2>2. ASSUME NEW i \in DOMAIN mem, mem[i].id \notin readIds PROVE mem[i] \in {x.m : x \in B}
      <3>1. i \in J
        BY <2>2
      <3>2. /\ [m |-> mem[i], place |-> Len(read) + i] \in B
            /\ [m |-> mem[i], place |-> Len(read) + i].m = mem[i]
        BY <3>1
      <3>3. QED
        BY <3>2
    <2>3. QED
      BY <2>1, <2>2 DEF ToSet
  <1>11. {x.m : x \in E} = {x.m : x \in A} \cup {x.m : x \in B}
    BY DEF E
  <1>12. QED
    BY <1>1, <1>7, <1>8, <1>9, <1>10, <1>11 DEF readIds

\* A message that is stored, was not cleared and is not in memory.
Missing(m) == m.id \notin cleared /\ m.id \notin Ids(InMemory)
Behind(m, S) == \A x \in S : Before(m, x)

HistoryTyped ==
    /\ rows \in SUBSET HistoryRow /\ IsFiniteSet(rows) /\ Unique(rows)
    /\ thread \in Seq(HistoryRow)
    /\ hydrating \in [step : {"pins", "rows", "merge", "done"}, pins : SUBSET Nat,
                      rows : Seq(HistoryRow), more : BOOLEAN]
    /\ page \in [rows : SUBSET HistoryRow, more : BOOLEAN, under : BOOLEAN]
    /\ IsFiniteSet(page.rows) /\ Unique(page.rows)
    /\ patches \in SUBSET [row : HistoryRow, by : Authors]
    /\ hasEarlier \in BOOLEAN /\ arrivals \in Nat
    /\ storedPins \in SUBSET Nat /\ pins \in [set : BOOLEAN, ids : SUBSET Nat]

\* A message keeps its time in every copy, and a new one gets an id of its own.
Copies == rows \cup InMemory \cup ToSet(hydrating.rows) \cup page.rows \cup {p.row : p \in patches}
Dated == \A x, y \in Copies : x.id <= arrivals /\ (x.id = y.id => x.at = y.at)

\* A patch does not bring back a message that is neither stored nor cleared.
PatchesKnown == \A p \in patches : p.row.id \in cleared \/ p.row.id \in Ids(rows)

Loaded == hydrating.step = "done"
EarlierWhenLoaded == hasEarlier \/ page.under => Loaded

\* What has been read and is not merged yet leaves out only what is older.
ReadIsRecent ==
    hydrating.step = "merge" =>
        \A m \in rows : Missing(m) =>
            \/ m.id \in Ids(ToSet(hydrating.rows))
            \/ hydrating.more /\ ToSet(hydrating.rows) # {} /\ Behind(m, ToSet(hydrating.rows))

\* What is shown leaves out only what is older than the first of it, and can be had:
\* the first of it is one that was read, unless one has strayed above it.
ShownIsRecent ==
    Loaded /\ ~strayed => \A m \in rows : Missing(m) =>
        thread # <<>> /\ Before(m, Head(thread)) /\ (hasEarlier \/ page.under)

\* A page that has been read and is not shown leaves out only what is older.
PageIsNext ==
    page.under /\ ~strayed => \A m \in rows : Missing(m) =>
        hasEarlier /\ (m.id \in Ids(page.rows) \/ (page.more /\ Behind(m, page.rows)))

HistoryInv ==
    /\ HistoryTyped /\ Dated /\ PatchesKnown /\ EarlierWhenLoaded
    /\ ReadIsRecent /\ ShownIsRecent /\ PageIsNext

\* Before depends on the id and the time alone.
LEMMA SameBefore ==
    ASSUME NEW m, NEW o, NEW x, m.id = o.id, m.at = o.at
    PROVE  (Before(m, x) <=> Before(o, x)) /\ (Before(x, m) <=> Before(x, o))
  BY DEF Before

\* What is in memory, and the first of it.
LEMMA MemoryIs ==
    ASSUME NEW t \in Seq(HistoryRow)
    PROVE  /\ ToSet(t) \in SUBSET HistoryRow /\ (t = <<>> <=> ToSet(t) = {})
           /\ t # <<>> => Head(t) = t[1] /\ Head(t) \in ToSet(t)
           /\ \A x \in ToSet(t) : x.id \in Nat /\ x.at \in Nat /\ x.id \in Ids(ToSet(t))
  <1>1. /\ Len(t) \in Nat /\ DOMAIN t = 1..Len(t) /\ \A i \in 1..Len(t) : t[i] \in HistoryRow
    OBVIOUS
  <1>2. ToSet(t) \in SUBSET HistoryRow
    BY <1>1 DEF ToSet
  <1>3. t # <<>> => Head(t) = t[1] /\ 1 \in DOMAIN t
    BY <1>1
  <1>4. t # <<>> => Head(t) \in ToSet(t)
    BY <1>3 DEF ToSet
  <1>5. t = <<>> => ToSet(t) = {}
    BY DEF ToSet
  <1>6. \A x \in ToSet(t) : x.id \in Nat /\ x.at \in Nat /\ x.id \in Ids(ToSet(t))
    BY <1>2 DEF HistoryRow, Ids
  <1>7. QED
    BY <1>2, <1>3, <1>4, <1>5, <1>6

\* What a change of a stored message does to the rows.
LEMMA PutIs ==
    ASSUME rows \in SUBSET HistoryRow, IsFiniteSet(rows), Unique(rows), NEW m \in HistoryRow
    PROVE  /\ Put(m) \in SUBSET HistoryRow /\ IsFiniteSet(Put(m)) /\ Unique(Put(m))
           /\ m \in Put(m) /\ \A x \in Put(m) : x = m \/ x \in rows
           /\ Ids(Put(m)) = Ids(rows) \cup {m.id}
  <1> DEFINE R == {x \in rows : x.id # m.id}
  <1>1. Put(m) = R \cup {m}
    BY DEF Put
  <1>2. IsFiniteSet(R)
    BY FS_Subset
  <1>3. IsFiniteSet(Put(m))
    BY <1>1, <1>2, FS_AddElement
  <1>4. Unique(Put(m))
    BY <1>1 DEF Unique
  <1>5. Ids(Put(m)) = Ids(rows) \cup {m.id}
    BY <1>1 DEF Ids
  <1>6. QED
    BY <1>1, <1>3, <1>4, <1>5

LEMMA HistoryBegins == HistoryInit => HistoryInv
  <1>1. SUFFICES ASSUME HistoryInit PROVE HistoryInv
    OBVIOUS
  <1>2. rows = {} /\ thread = <<>> /\ patches = {} /\ hasEarlier = FALSE /\ arrivals = 0
        /\ hydrating = [step |-> "pins", pins |-> {}, rows |-> <<>>, more |-> FALSE]
        /\ page = [rows |-> {}, more |-> FALSE, under |-> FALSE]
        /\ storedPins = {} /\ pins = [set |-> FALSE, ids |-> {}]
    BY <1>1 DEF HistoryInit, Started, NoPage, NoPins
  <1>3. HistoryTyped
    <2>1. page.rows = {} /\ rows = {} /\ IsFiniteSet(page.rows) /\ IsFiniteSet(rows)
      BY <1>2, FS_EmptySet
    <2>2. Unique(rows) /\ Unique(page.rows)
      BY <2>1 DEF Unique
    <2>a. rows \in SUBSET HistoryRow /\ patches \in SUBSET [row : HistoryRow, by : Authors]
      BY <1>2
    <2>3. thread \in Seq(HistoryRow) /\ arrivals \in Nat /\ storedPins \in SUBSET Nat
      BY <1>2
    <2>b. hasEarlier \in BOOLEAN
      BY <1>2
    <2>4. hydrating \in [step : {"pins", "rows", "merge", "done"}, pins : SUBSET Nat,
                         rows : Seq(HistoryRow), more : BOOLEAN]
      BY <1>2
    <2>5. /\ page \in [rows : SUBSET HistoryRow, more : BOOLEAN, under : BOOLEAN]
          /\ pins \in [set : BOOLEAN, ids : SUBSET Nat]
      BY <1>2
    <2>6. QED
      BY <2>1, <2>2, <2>3, <2>4, <2>5, <2>a, <2>b DEF HistoryTyped
  <1>4. InMemory = {} /\ ToSet(hydrating.rows) = {}
    BY <1>2 DEF InMemory, ToSet
  <1>5. Copies = {}
    BY <1>2, <1>4 DEF Copies
  <1>6. Dated /\ PatchesKnown /\ EarlierWhenLoaded /\ ReadIsRecent /\ ShownIsRecent /\ PageIsNext
    BY <1>2, <1>5 DEF Dated, PatchesKnown, EarlierWhenLoaded, ReadIsRecent,
       ShownIsRecent, PageIsNext, Loaded
  <1>7. QED
    BY <1>3, <1>6 DEF HistoryInv

\* The invariant, for what a step leaves as it is: what of the rows is missing afterwards
\* was missing before, with the same id and time.
LEMMA RestKeeps ==
    ASSUME HistoryInv, HistoryTyped', Dated', PatchesKnown',
           Loaded' = Loaded, hydrating'.step = "merge" => UNCHANGED hydrating,
           Ids(InMemory') = Ids(InMemory),
           \A x \in InMemory' : \E y \in InMemory : x.id = y.id /\ x.at = y.at,
           thread # <<>> => /\ thread' # <<>> /\ Head(thread').id = Head(thread).id
                            /\ Head(thread').at = Head(thread).at,
           \A m \in rows' : Missing(m)' => \E o \in rows : Missing(o) /\ m.id = o.id /\ m.at = o.at,
           UNCHANGED <<page, hasEarlier, strayed>>
    PROVE  HistoryInv'
  <1>1. EarlierWhenLoaded'
    BY DEF HistoryInv, EarlierWhenLoaded
  <1>2. ASSUME NEW m \in rows', Missing(m)', hydrating'.step = "merge"
        PROVE  \/ m.id \in Ids(ToSet(hydrating.rows))
               \/ hydrating.more /\ ToSet(hydrating.rows) # {} /\ Behind(m, ToSet(hydrating.rows))
    <2>1. PICK o \in rows : Missing(o) /\ m.id = o.id /\ m.at = o.at
      BY <1>2
    <2>2. \/ o.id \in Ids(ToSet(hydrating.rows))
          \/ hydrating.more /\ ToSet(hydrating.rows) # {} /\ Behind(o, ToSet(hydrating.rows))
      BY <1>2, <2>1 DEF HistoryInv, ReadIsRecent
    <2>3. Behind(o, ToSet(hydrating.rows)) => Behind(m, ToSet(hydrating.rows))
      BY <2>1 DEF Behind, Before
    <2>4. QED
      BY <2>1, <2>2, <2>3
  <1>3. ASSUME NEW m \in rows', Missing(m)', Loaded', ~strayed'
        PROVE  thread' # <<>> /\ Before(m, Head(thread')) /\ (hasEarlier \/ page.under)
    <2>1. PICK o \in rows : Missing(o) /\ m.id = o.id /\ m.at = o.at
      BY <1>3
    <2>2. thread # <<>> /\ Before(o, Head(thread)) /\ (hasEarlier \/ page.under)
      BY <1>3, <2>1 DEF HistoryInv, ShownIsRecent
    <2>3. QED
      BY <2>1, <2>2 DEF Before
  <1>4. ASSUME NEW m \in rows', Missing(m)', page.under, ~strayed'
        PROVE  hasEarlier /\ (m.id \in Ids(page.rows) \/ (page.more /\ Behind(m, page.rows)))
    <2>1. PICK o \in rows : Missing(o) /\ m.id = o.id /\ m.at = o.at
      BY <1>4
    <2>2. hasEarlier /\ (o.id \in Ids(page.rows) \/ (page.more /\ Behind(o, page.rows)))
      BY <1>4, <2>1 DEF HistoryInv, PageIsNext
    <2>3. Behind(o, page.rows) => Behind(m, page.rows)
      BY <2>1 DEF Behind, Before
    <2>4. QED
      BY <2>1, <2>2, <2>3
  <1>5. ReadIsRecent'
    BY <1>2 DEF ReadIsRecent
  <1>6. ShownIsRecent'
    BY <1>3 DEF ShownIsRecent
  <1>7. PageIsNext'
    BY <1>4 DEF PageIsNext
  <1>8. QED
    BY <1>1, <1>5, <1>6, <1>7 DEF HistoryInv

\* Copies made of others keep Dated.
LEMMA DatedKeeps ==
    ASSUME Dated, arrivals' = arrivals,
           \A x \in Copies' : \E y \in Copies : x.id = y.id /\ x.at = y.at
    PROVE  Dated'
  <1>1. SUFFICES ASSUME NEW x \in Copies', NEW y \in Copies'
                 PROVE  x.id <= arrivals' /\ (x.id = y.id => x.at = y.at)
    BY DEF Dated
  <1>2. PICK a \in Copies : x.id = a.id /\ x.at = a.at
    OBVIOUS
  <1>3. PICK b \in Copies : y.id = b.id /\ y.at = b.at
    OBVIOUS
  <1>4. a.id <= arrivals /\ (a.id = b.id => a.at = b.at)
    BY DEF Dated
  <1>5. QED
    BY <1>2, <1>3, <1>4

LEMMA PinStepsKeep ==
    ASSUME HistoryInv, LoadPins \/ \E m \in InMemory : TogglePin(m)
    PROVE  HistoryInv'
  <1>1. /\ UNCHANGED <<rows, thread, page, patches, cleared, strayed, arrivals, hasEarlier>>
        /\ HistoryTyped
    BY DEF LoadPins, TogglePin, HistoryInv
  <1>2. /\ hydrating'.rows = hydrating.rows /\ (hydrating'.step = "done" <=> hydrating.step = "done")
        /\ (hydrating'.step = "merge" => UNCHANGED hydrating)
        /\ hydrating' \in [step : {"pins", "rows", "merge", "done"}, pins : SUBSET Nat,
                           rows : Seq(HistoryRow), more : BOOLEAN]
        /\ pins' \in [set : BOOLEAN, ids : SUBSET Nat] /\ storedPins' \in SUBSET Nat
    <2>1. CASE LoadPins
      BY <1>1, <2>1 DEF LoadPins, HistoryTyped
    <2>2. ASSUME NEW m \in InMemory, TogglePin(m)
          PROVE  /\ UNCHANGED hydrating
                 /\ pins' \in [set : BOOLEAN, ids : SUBSET Nat] /\ storedPins' \in SUBSET Nat
      <3>1. m.id \in Nat
        BY <1>1, MemoryIs DEF HistoryTyped, InMemory
      <3>2. QED
        BY <1>1, <2>2, <3>1 DEF TogglePin, HistoryTyped
    <2>3. QED
      BY <1>1, <2>1, <2>2 DEF HistoryTyped
  <1>3. HistoryTyped'
    BY <1>1, <1>2 DEF HistoryTyped
  <1>4. InMemory' = InMemory /\ Copies' = Copies
    BY <1>1, <1>2 DEF InMemory, Copies
  <1>5. Dated'
    BY <1>1, <1>4, DatedKeeps DEF HistoryInv
  <1>6. PatchesKnown' /\ Loaded' = Loaded
    BY <1>1, <1>2 DEF HistoryInv, PatchesKnown, Loaded
  <1>7. \A m \in rows' : Missing(m)' => \E o \in rows : Missing(o) /\ m.id = o.id /\ m.at = o.at
    BY <1>1, <1>4 DEF Missing
  <1>8. QED
    BY <1>1, <1>2, <1>3, <1>4, <1>5, <1>6, <1>7, RestKeeps

\* The marks change no id and no time.
LEMMA MarkedIs ==
    ASSUME NEW m \in HistoryRow, NEW p \in Authors
    PROVE  Marked(m, p) \in HistoryRow /\ Marked(m, p).id = m.id /\ Marked(m, p).at = m.at
  BY DEF Marked, HistoryRow

LEMMA MarkShownKeeps ==
    ASSUME HistoryInv, NEW m \in InMemory, NEW p \in Authors, MarkShown(m, p)
    PROVE  HistoryInv'
  <1> DEFINE w == Marked(m, p)
  <1>1. /\ thread' = [i \in 1..Len(thread) |-> IF thread[i] = m THEN w ELSE thread[i]]
        /\ rows' = Put(w)
        /\ UNCHANGED <<storedPins, hasEarlier, pins, hydrating, page, patches, cleared, strayed, arrivals>>
        /\ HistoryTyped
    BY DEF MarkShown, HistoryInv
  <1>2. /\ m \in HistoryRow /\ w \in HistoryRow /\ w.id = m.id /\ w.at = m.at
        /\ m.id \in Ids(InMemory)
    BY <1>1, MemoryIs, MarkedIs DEF HistoryTyped, InMemory
  <1> HIDE DEF w
  <1>3. /\ rows' \in SUBSET HistoryRow /\ IsFiniteSet(rows') /\ Unique(rows')
        /\ \A x \in rows' : x = w \/ x \in rows
        /\ Ids(rows') = Ids(rows) \cup {w.id}
    BY <1>1, <1>2, PutIs DEF HistoryTyped
  <1>4. /\ thread \in Seq(HistoryRow) /\ Len(thread) \in Nat /\ DOMAIN thread = 1..Len(thread)
        /\ \A i \in 1..Len(thread) : thread[i] \in HistoryRow
    BY <1>1 DEF HistoryTyped
  <1>5. /\ thread' \in Seq(HistoryRow) /\ Len(thread') = Len(thread)
        /\ \A i \in 1..Len(thread) : thread'[i].id = thread[i].id /\ thread'[i].at = thread[i].at
    BY <1>1, <1>2, <1>4
  <1>6. DOMAIN thread' = 1..Len(thread)
    BY <1>1
  <1>7. \A x \in InMemory' : \E y \in InMemory : x.id = y.id /\ x.at = y.at
    BY <1>4, <1>5, <1>6 DEF InMemory, ToSet
  <1>8. \A y \in InMemory : \E x \in InMemory' : x.id = y.id
    BY <1>4, <1>5, <1>6 DEF InMemory, ToSet
  <1>9. Ids(InMemory') = Ids(InMemory)
    BY <1>7, <1>8 DEF Ids
  <1>10. thread # <<>> => /\ thread' # <<>> /\ Head(thread').id = Head(thread).id
                          /\ Head(thread').at = Head(thread).at
    BY <1>4, <1>5
  <1>11. HistoryTyped'
    BY <1>1, <1>3, <1>5 DEF HistoryTyped
  <1>12. Dated'
    <2>1. \A x \in Copies' : \E y \in Copies : x.id = y.id /\ x.at = y.at
      BY <1>1, <1>2, <1>3, <1>7 DEF Copies
    <2>2. QED
      BY <1>1, <2>1, DatedKeeps DEF HistoryInv
  <1>13. PatchesKnown'
    BY <1>1, <1>3 DEF HistoryInv, PatchesKnown
  <1>14. ASSUME NEW x \in rows', Missing(x)'
         PROVE  \E o \in rows : Missing(o) /\ x.id = o.id /\ x.at = o.at
    <2>1. x.id \notin cleared /\ x.id \notin Ids(InMemory)
      BY <1>1, <1>9, <1>14 DEF Missing
    <2>2. x # w
      BY <1>2, <2>1
    <2>3. QED
      BY <1>3, <2>1, <2>2 DEF Missing
  <1>15. Loaded' = Loaded
    BY <1>1 DEF Loaded
  <1>16. QED
    BY <1>1, <1>7, <1>9, <1>10, <1>11, <1>12, <1>13, <1>14, <1>15, RestKeeps

LEMMA MarkStoredKeeps ==
    ASSUME HistoryInv, NEW m \in rows, NEW p \in Authors, MarkStored(m, p)
    PROVE  HistoryInv'
  <1> DEFINE w == [row |-> m, by |-> p]
  <1>1. /\ patches' = patches \cup {w}
        /\ UNCHANGED <<rows, storedPins, thread, hasEarlier, pins, hydrating, page, cleared, strayed, arrivals>>
        /\ HistoryTyped
    BY DEF MarkStored, HistoryInv
  <1>2. w \in [row : HistoryRow, by : Authors] /\ w.row = m
    BY <1>1 DEF HistoryTyped
  <1> HIDE DEF w
  <1>3. HistoryTyped'
    BY <1>1, <1>2 DEF HistoryTyped
  <1>4. InMemory' = InMemory /\ Loaded' = Loaded
    BY <1>1 DEF InMemory, Loaded
  <1>5. Dated'
    <2>1. Copies' \subseteq Copies
      BY <1>1, <1>2, <1>4 DEF Copies
    <2>2. QED
      BY <1>1, <2>1, DatedKeeps DEF HistoryInv
  <1>6. PatchesKnown'
    <2>1. m.id \in Ids(rows)
      BY DEF Ids
    <2>2. QED
      BY <1>1, <1>2, <2>1 DEF HistoryInv, PatchesKnown
  <1>7. \A x \in rows' : Missing(x)' => \E o \in rows : Missing(o) /\ x.id = o.id /\ x.at = o.at
    BY <1>1, <1>4 DEF Missing
  <1>8. QED
    BY <1>1, <1>3, <1>4, <1>5, <1>6, <1>7, RestKeeps

LEMMA SavePatchKeeps ==
    ASSUME HistoryInv, NEW patch \in patches, SavePatch(patch)
    PROVE  HistoryInv'
  <1> DEFINE w == Marked(patch.row, patch.by)
  <1>1. /\ patches' = patches \ {patch} /\ rows' = Put(w)
        /\ UNCHANGED <<storedPins, thread, hasEarlier, pins, hydrating, page, cleared, strayed, arrivals>>
        /\ HistoryTyped
    BY DEF SavePatch, HistoryInv
  <1>2. w \in HistoryRow /\ w.id = patch.row.id /\ w.at = patch.row.at
    BY <1>1, MarkedIs DEF HistoryTyped
  <1> HIDE DEF w
  <1>3. /\ rows' \in SUBSET HistoryRow /\ IsFiniteSet(rows') /\ Unique(rows')
        /\ \A x \in rows' : x = w \/ x \in rows
        /\ Ids(rows') = Ids(rows) \cup {w.id}
    BY <1>1, <1>2, PutIs DEF HistoryTyped
  <1>4. HistoryTyped'
    BY <1>1, <1>3 DEF HistoryTyped
  <1>5. InMemory' = InMemory /\ Loaded' = Loaded
    BY <1>1 DEF InMemory, Loaded
  <1>6. Dated'
    <2>1. patch.row \in Copies
      BY DEF Copies
    <2>2. \A x \in Copies' : x = w \/ x \in Copies
      BY <1>1, <1>3, <1>5 DEF Copies
    <2>3. QED
      BY <1>1, <1>2, <2>1, <2>2, DatedKeeps DEF HistoryInv
  <1>7. PatchesKnown'
    BY <1>1, <1>3 DEF HistoryInv, PatchesKnown
  <1>8. ASSUME NEW x \in rows', Missing(x)'
        PROVE  \E o \in rows : Missing(o) /\ x.id = o.id /\ x.at = o.at
    <2>1. x.id \notin cleared /\ x.id \notin Ids(InMemory)
      BY <1>1, <1>5, <1>8 DEF Missing
    <2>2. CASE x \in rows
      BY <2>1, <2>2 DEF Missing
    <2>3. CASE x = w
      <3>1. patch.row.id \in Ids(rows)
        BY <1>2, <2>1, <2>3 DEF HistoryInv, PatchesKnown
      <3>2. PICK o \in rows : o.id = patch.row.id
        BY <3>1 DEF Ids
      <3>3. o \in Copies /\ patch.row \in Copies
        BY DEF Copies
      <3>4. o.at = patch.row.at
        BY <3>2, <3>3 DEF HistoryInv, Dated
      <3>5. QED
        BY <1>2, <2>1, <2>3, <3>2, <3>4 DEF Missing
    <2>4. QED
      BY <1>3, <2>2, <2>3
  <1>9. QED
    BY <1>1, <1>4, <1>5, <1>6, <1>7, <1>8, RestKeeps

\* A message that arrives is in memory as well as stored, and comes last in both.
LEMMA ArrivalKeeps ==
    ASSUME HistoryInv, NEW t \in Times, MessageArrives(t)
    PROVE  HistoryInv'
  <1> DEFINE m == [id |-> arrivals + 1, at |-> t, marks |-> {}]
  <1>1. /\ arrivals' = arrivals + 1 /\ thread' = Append(thread, m) /\ rows' = Put(m)
        /\ UNCHANGED <<storedPins, hasEarlier, pins, hydrating, page, patches, cleared, strayed>>
        /\ HistoryTyped /\ arrivals \in Nat
    BY DEF MessageArrives, HistoryInv, HistoryTyped
  <1>2. m \in HistoryRow /\ m.id = arrivals + 1 /\ m.at = t /\ t \in Nat
    BY <1>1, HistoryAssumption DEF HistoryRow
  <1> HIDE DEF m
  <1>3. /\ rows' \in SUBSET HistoryRow /\ IsFiniteSet(rows') /\ Unique(rows')
        /\ \A x \in rows' : x = m \/ x \in rows
        /\ Ids(rows') = Ids(rows) \cup {m.id}
    BY <1>1, <1>2, PutIs DEF HistoryTyped
  <1>4. /\ thread \in Seq(HistoryRow) /\ Len(thread) \in Nat /\ DOMAIN thread = 1..Len(thread)
    BY <1>1 DEF HistoryTyped
  <1>5. /\ thread' \in Seq(HistoryRow) /\ thread' # <<>> /\ DOMAIN thread' = 1..(Len(thread) + 1)
        /\ \A i \in 1..Len(thread) : thread'[i] = thread[i]
        /\ thread'[Len(thread) + 1] = m
        /\ thread # <<>> => Head(thread') = Head(thread)
    BY <1>1, <1>2, <1>4
  <1>6. InMemory' = InMemory \cup {m}
    <2>1. \A x \in InMemory' : x \in InMemory \/ x = m
      <3>1. \A i \in 1..(Len(thread) + 1) : i \in 1..Len(thread) \/ i = Len(thread) + 1
        BY <1>4
      <3>2. QED
        BY <1>4, <1>5, <3>1 DEF InMemory, ToSet
    <2>2. m \in InMemory'
      <3>1. Len(thread) + 1 \in 1..(Len(thread) + 1)
        BY <1>4
      <3>2. QED
        BY <1>5, <3>1 DEF InMemory, ToSet
    <2>3. \A x \in InMemory : x \in InMemory'
      <3>1. \A i \in 1..Len(thread) : i \in 1..(Len(thread) + 1)
        BY <1>4
      <3>2. QED
        BY <1>4, <1>5, <3>1 DEF InMemory, ToSet
    <2>4. QED
      BY <2>1, <2>2, <2>3
  <1>7. Ids(InMemory') = Ids(InMemory) \cup {m.id}
    BY <1>6 DEF Ids
  <1>8. ASSUME NEW x \in rows', Missing(x)' PROVE x \in rows /\ Missing(x) /\ x # m
    BY <1>1, <1>3, <1>7, <1>8 DEF Missing
  <1>9. HistoryTyped'
    BY <1>1, <1>3, <1>5 DEF HistoryTyped
  <1>10. Dated'
    <2>1. \A x \in Copies' : x = m \/ x \in Copies
      BY <1>1, <1>3, <1>6 DEF Copies
    <2>2. \A x \in Copies : x.id <= arrivals /\ x.id \in Nat /\ \A y \in Copies : x.id = y.id => x.at = y.at
      <3>1. Copies \subseteq HistoryRow
        <4>1. InMemory \subseteq HistoryRow /\ ToSet(hydrating.rows) \subseteq HistoryRow
          BY <1>1, MemoryIs DEF HistoryTyped, InMemory
        <4>2. rows \subseteq HistoryRow /\ page.rows \subseteq HistoryRow
              /\ {p.row : p \in patches} \subseteq HistoryRow
          BY <1>1 DEF HistoryTyped
        <4>3. QED
          BY <4>1, <4>2 DEF Copies
      <3>2. QED
        BY <3>1 DEF HistoryInv, Dated, HistoryRow
    <2>3. SUFFICES ASSUME NEW x \in Copies', NEW y \in Copies'
                   PROVE  x.id <= arrivals' /\ (x.id = y.id => x.at = y.at)
      BY DEF Dated
    <2>4. QED
      BY <1>1, <1>2, <2>1, <2>2
  <1>11. PatchesKnown'
    BY <1>1, <1>3 DEF HistoryInv, PatchesKnown
  <1>12. EarlierWhenLoaded'
    BY <1>1 DEF HistoryInv, EarlierWhenLoaded, Loaded
  <1>13. ReadIsRecent'
    BY <1>1, <1>8 DEF HistoryInv, ReadIsRecent, Behind
  <1>14. ShownIsRecent'
    <2>1. SUFFICES ASSUME Loaded', ~strayed', NEW x \in rows', Missing(x)'
                   PROVE  thread' # <<>> /\ Before(x, Head(thread')) /\ (hasEarlier' \/ page'.under)
      BY DEF ShownIsRecent
    <2>2. thread # <<>> /\ Before(x, Head(thread)) /\ (hasEarlier \/ page.under)
      BY <1>1, <1>8, <2>1 DEF HistoryInv, ShownIsRecent, Loaded
    <2>3. QED
      BY <1>1, <1>5, <2>2
  <1>15. PageIsNext'
    BY <1>1, <1>8 DEF HistoryInv, PageIsNext, Behind
  <1>16. QED
    BY <1>9, <1>10, <1>11, <1>12, <1>13, <1>14, <1>15 DEF HistoryInv

\* After clearing a chat nothing of it counts any more.
LEMMA ClearKeeps ==
    ASSUME HistoryInv, ClearChat
    PROVE  HistoryInv'
  <1>1. /\ thread' = <<>> /\ pins' = [set |-> TRUE, ids |-> {}] /\ hasEarlier' = FALSE
        /\ rows' = {} /\ storedPins' = {} /\ cleared' = cleared \cup Ids(rows)
        /\ UNCHANGED <<hydrating, page, patches, arrivals>> /\ HistoryTyped
    BY DEF ClearChat, HistoryInv
  <1>2. HistoryTyped'
    <2>1. /\ rows' \in SUBSET HistoryRow /\ IsFiniteSet(rows') /\ Unique(rows')
      BY <1>1, FS_EmptySet DEF Unique
    <2>2. thread' \in Seq(HistoryRow) /\ storedPins' \in SUBSET Nat
      BY <1>1
    <2>3. pins' \in [set : BOOLEAN, ids : SUBSET Nat] /\ hasEarlier' \in BOOLEAN
      BY <1>1
    <2>4. QED
      BY <1>1, <2>1, <2>2, <2>3 DEF HistoryTyped
  <1>3. InMemory' = {}
    BY <1>1 DEF InMemory, ToSet
  <1>4. Dated'
    <2>1. Copies' \subseteq Copies
      BY <1>1, <1>3 DEF Copies
    <2>2. QED
      BY <1>1, <2>1, DatedKeeps DEF HistoryInv
  <1>5. PatchesKnown'
    BY <1>1 DEF HistoryInv, PatchesKnown
  <1>6. EarlierWhenLoaded'
    BY <1>1 DEF HistoryInv, EarlierWhenLoaded, Loaded
  <1>7. ReadIsRecent' /\ ShownIsRecent' /\ PageIsNext'
    BY <1>1 DEF ReadIsRecent, ShownIsRecent, PageIsNext
  <1>8. QED
    BY <1>2, <1>4, <1>5, <1>6, <1>7 DEF HistoryInv

LEMMA RelaunchKeeps ==
    ASSUME HistoryInv, Relaunch
    PROVE  HistoryInv'
  <1>1. /\ thread' = <<>> /\ pins' = [set |-> FALSE, ids |-> {}] /\ hasEarlier' = FALSE
        /\ hydrating' = [step |-> "pins", pins |-> {}, rows |-> <<>>, more |-> FALSE]
        /\ page' = [rows |-> {}, more |-> FALSE, under |-> FALSE] /\ patches' = {}
        /\ UNCHANGED <<rows, storedPins, cleared, arrivals>> /\ HistoryTyped
    BY DEF Relaunch, HistoryInv, NoPins, Started, NoPage
  <1>2. HistoryTyped'
    <2>1. thread' \in Seq(HistoryRow) /\ patches' \in SUBSET [row : HistoryRow, by : Authors]
      BY <1>1
    <2>2. hydrating' \in [step : {"pins", "rows", "merge", "done"}, pins : SUBSET Nat,
                          rows : Seq(HistoryRow), more : BOOLEAN]
      BY <1>1
    <2>3. pins' \in [set : BOOLEAN, ids : SUBSET Nat] /\ hasEarlier' \in BOOLEAN
      BY <1>1
    <2>4. page' \in [rows : SUBSET HistoryRow, more : BOOLEAN, under : BOOLEAN] /\ page'.rows = {}
      BY <1>1
    <2>5. IsFiniteSet(page'.rows) /\ Unique(page'.rows)
      BY <2>4, FS_EmptySet DEF Unique
    <2>6. QED
      BY <1>1, <2>1, <2>2, <2>3, <2>4, <2>5 DEF HistoryTyped
  <1>3. InMemory' = {} /\ ToSet(hydrating'.rows) = {}
    BY <1>1 DEF InMemory, ToSet
  <1>4. Dated'
    <2>1. Copies' \subseteq Copies
      BY <1>1, <1>3 DEF Copies
    <2>2. QED
      BY <1>1, <2>1, DatedKeeps DEF HistoryInv
  <1>5. PatchesKnown' /\ EarlierWhenLoaded' /\ ReadIsRecent' /\ ShownIsRecent' /\ PageIsNext'
    BY <1>1 DEF PatchesKnown, EarlierWhenLoaded, Loaded, ReadIsRecent, ShownIsRecent, PageIsNext
  <1>6. QED
    BY <1>2, <1>4, <1>5 DEF HistoryInv

\* The start: what the query reads, and the merge of it with what is in memory.
LEMMA LoadRecentKeeps ==
    ASSUME HistoryInv, LoadRecent
    PROVE  HistoryInv'
  <1> DEFINE recent == Recent(hydrating.pins)
  <1>1. HistoryTyped /\ hydrating.step = "rows"
        /\ UNCHANGED <<rows, storedPins, thread, hasEarlier, pins, page, patches, cleared, strayed, arrivals>>
    BY DEF LoadRecent, HistoryInv
  <1>2. PICK read \in {InOrder(recent, Before), InOrder(recent, Reversed)} :
            hydrating' = [hydrating EXCEPT !.step = "merge", !.rows = read, !.more = rows # recent]
    BY DEF LoadRecent
  <1>3. /\ recent \in SUBSET rows /\ IsFiniteSet(recent)
        /\ \A m \in rows \ recent, r \in recent : m.id # r.id => Before(m, r)
        /\ rows # {} => recent # {}
    BY <1>1, RecentAre DEF HistoryTyped
  <1> HIDE DEF recent
  <1>4. recent \in SUBSET HistoryRow /\ Unique(recent)
    BY <1>1, <1>3 DEF HistoryTyped, Unique
  <1>5. read \in Seq(recent) /\ ToSet(read) = recent
    BY <1>2, <1>3, <1>4, InOrderBefore, InOrderReversed
  <1>6. read \in Seq(HistoryRow)
    <2>1. Len(read) \in Nat /\ read = [i \in 1..Len(read) |-> read[i]]
          /\ \A i \in 1..Len(read) : read[i] \in recent
      BY <1>5
    <2>2. \A i \in 1..Len(read) : read[i] \in HistoryRow
      BY <1>4, <2>1
    <2>3. QED
      BY <2>1, <2>2
  <1>7. /\ hydrating' \in [step : {"pins", "rows", "merge", "done"}, pins : SUBSET Nat,
                           rows : Seq(HistoryRow), more : BOOLEAN]
        /\ hydrating'.step = "merge" /\ hydrating'.rows = read /\ hydrating'.more = (rows # recent)
    <2>1. (rows # recent) \in BOOLEAN
      OBVIOUS
    <2>2. QED
      BY <1>1, <1>2, <1>6, <2>1 DEF HistoryTyped
  <1>8. HistoryTyped'
    BY <1>1, <1>7 DEF HistoryTyped
  <1>9. InMemory' = InMemory
    BY <1>1 DEF InMemory
  <1>10. Dated'
    <2>1. Copies' \subseteq Copies
      BY <1>1, <1>3, <1>5, <1>7, <1>9 DEF Copies
    <2>2. QED
      BY <1>1, <2>1, DatedKeeps DEF HistoryInv
  <1>11. PatchesKnown' /\ EarlierWhenLoaded' /\ ShownIsRecent' /\ PageIsNext'
    BY <1>1, <1>7 DEF HistoryInv, PatchesKnown, EarlierWhenLoaded, Loaded, ShownIsRecent, PageIsNext
  <1>12. ReadIsRecent'
    <2>1. SUFFICES ASSUME NEW m \in rows, m.id \notin Ids(recent)
                   PROVE  rows # recent /\ recent # {} /\ Behind(m, recent)
      BY <1>1, <1>5, <1>7 DEF ReadIsRecent, Behind
    <2>2. m \notin recent /\ \A r \in recent : m.id # r.id
      BY <2>1 DEF Ids
    <2>3. QED
      BY <1>3, <2>2 DEF Behind
  <1>13. QED
    BY <1>8, <1>10, <1>11, <1>12 DEF HistoryInv

LEMMA MergeKeeps ==
    ASSUME HistoryInv, MergeHistory
    PROVE  HistoryInv'
  <1> DEFINE R == ToSet(hydrating.rows)
  <1>1. /\ HistoryTyped /\ hydrating.step = "merge" /\ hasEarlier' = hydrating.more
        /\ thread' = SortedByTime(hydrating.rows, thread)
        /\ pins' = IF pins.set THEN pins ELSE [set |-> TRUE, ids |-> hydrating.pins]
        /\ hydrating' = [step |-> "done", pins |-> {}, rows |-> <<>>, more |-> FALSE]
        /\ strayed' = (hydrating.more /\ Head(thread').id \notin Ids(ToSet(hydrating.rows)))
        /\ UNCHANGED <<rows, storedPins, page, patches, cleared, arrivals>>
    BY DEF MergeHistory, HistoryInv, Started
  <1>2. /\ thread' \in Seq(HistoryRow)
        /\ InMemory' = R \cup {m \in InMemory : m.id \notin Ids(R)}
    BY <1>1, SortedByTimeIs DEF HistoryTyped, InMemory
  <1>3. HistoryTyped'
    <2>1. hydrating' \in [step : {"pins", "rows", "merge", "done"}, pins : SUBSET Nat,
                          rows : Seq(HistoryRow), more : BOOLEAN]
      BY <1>1
    <2>2. hasEarlier' \in BOOLEAN /\ pins' \in [set : BOOLEAN, ids : SUBSET Nat]
      BY <1>1 DEF HistoryTyped
    <2>3. QED
      BY <1>1, <1>2, <2>1, <2>2 DEF HistoryTyped
  <1>4. ToSet(hydrating'.rows) = {}
    BY <1>1 DEF ToSet
  <1> HIDE DEF R
  <1>5. Dated'
    <2>1. Copies' \subseteq Copies
      BY <1>1, <1>2, <1>4 DEF Copies, R
    <2>2. QED
      BY <1>1, <2>1, DatedKeeps DEF HistoryInv
  <1>6. PatchesKnown'
    BY <1>1 DEF HistoryInv, PatchesKnown
  <1>7. ~page.under
    BY <1>1 DEF HistoryInv, EarlierWhenLoaded, Loaded
  <1>8. EarlierWhenLoaded' /\ ReadIsRecent' /\ PageIsNext'
    BY <1>1, <1>7 DEF EarlierWhenLoaded, ReadIsRecent, PageIsNext, Loaded
  <1>9. Ids(InMemory') = Ids(R) \cup Ids(InMemory)
    BY <1>2 DEF Ids
  <1>10. ShownIsRecent'
    <2>1. SUFFICES ASSUME NEW m \in rows, m.id \notin cleared, m.id \notin Ids(R), m.id \notin Ids(InMemory),
                          hydrating.more => Head(thread').id \in Ids(R)
                   PROVE  thread' # <<>> /\ Before(m, Head(thread')) /\ hydrating.more
      BY <1>1, <1>9 DEF ShownIsRecent, Missing, R
    <2>2. hydrating.more /\ R # {} /\ Behind(m, R)
      BY <1>1, <2>1 DEF HistoryInv, ReadIsRecent, Missing, R
    <2>3. thread' # <<>> /\ Head(thread') \in InMemory'
      BY <1>2, <2>2, MemoryIs DEF InMemory
    <2>4. Head(thread') \in R
      <3>1. Head(thread').id \in Ids(R)
        BY <2>1, <2>2
      <3>2. QED
        BY <1>2, <2>3, <3>1
    <2>5. QED
      BY <2>2, <2>3, <2>4 DEF Behind
  <1>11. QED
    BY <1>3, <1>5, <1>6, <1>8, <1>10 DEF HistoryInv

\* A page of older messages: what the query reads, and what is shown of it.
LEMMA LoadEarlierKeeps ==
    ASSUME HistoryInv, LoadEarlier
    PROVE  HistoryInv'
  <1> DEFINE older == {m \in rows : Older(m, Head(thread))}
             read == Newest(older, PageSize)
  <1>1. /\ HistoryTyped /\ ~page.under /\ hasEarlier /\ thread # <<>>
        /\ page' = [rows |-> read, more |-> Cardinality(older) > PageSize, under |-> TRUE]
        /\ UNCHANGED <<rows, storedPins, thread, hasEarlier, pins, hydrating, patches, cleared, strayed, arrivals>>
    BY DEF LoadEarlier, HistoryInv
  <1>2. older \in SUBSET rows /\ IsFiniteSet(older) /\ older \in SUBSET HistoryRow
    <2>1. older \in SUBSET rows
      OBVIOUS
    <2>2. QED
      BY <1>1, <2>1, FS_Subset DEF HistoryTyped
  <1>3. Cardinality(older) \in Nat /\ PageSize \in Nat \ {0}
    BY <1>2, FS_CardinalityType, HistoryAssumption
  <1>4. \A m \in rows : m \in older <=> Before(m, Head(thread))
    BY DEF Older
  <1> HIDE DEF older
  <1>5. /\ read \in SUBSET older /\ IsFiniteSet(read)
        /\ \A m \in older \ read, r \in read : m.id # r.id => Before(m, r)
        /\ Cardinality(older) <= PageSize => read = older
    BY <1>2, <1>3, NewestAre
  <1> HIDE DEF read
  <1>6. page'.rows = read /\ page'.under /\ page'.more = (Cardinality(older) > PageSize)
    BY <1>1
  <1>7. HistoryTyped'
    <2>1. page' \in [rows : SUBSET HistoryRow, more : BOOLEAN, under : BOOLEAN]
      BY <1>1, <1>2, <1>5
    <2>2. Unique(read)
      BY <1>1, <1>2, <1>5 DEF HistoryTyped, Unique
    <2>3. QED
      BY <1>1, <1>5, <1>6, <2>1, <2>2 DEF HistoryTyped
  <1>8. InMemory' = InMemory /\ Loaded
    BY <1>1 DEF InMemory, HistoryInv, EarlierWhenLoaded
  <1>9. Dated'
    <2>1. Copies' \subseteq Copies
      BY <1>1, <1>2, <1>5, <1>6, <1>8 DEF Copies
    <2>2. QED
      BY <1>1, <2>1, DatedKeeps DEF HistoryInv
  <1>10. PatchesKnown' /\ EarlierWhenLoaded' /\ ReadIsRecent'
    BY <1>1, <1>8 DEF HistoryInv, PatchesKnown, EarlierWhenLoaded, Loaded, ReadIsRecent
  <1>11. ShownIsRecent'
    BY <1>1, <1>6, <1>8 DEF HistoryInv, ShownIsRecent, Missing, Loaded
  <1>12. PageIsNext'
    <2>1. SUFFICES ASSUME ~strayed, NEW m \in rows, Missing(m), m.id \notin Ids(read)
                   PROVE  Cardinality(older) > PageSize /\ Behind(m, read)
      BY <1>1, <1>6, <1>8 DEF PageIsNext, Missing, Behind
    <2>2. m \in older
      BY <1>4, <1>8, <2>1 DEF HistoryInv, ShownIsRecent
    <2>3. m \notin read /\ \A r \in read : m.id # r.id
      BY <2>1 DEF Ids
    <2>4. Behind(m, read)
      BY <1>5, <2>2, <2>3 DEF Behind
    <2>5. ~(Cardinality(older) <= PageSize)
      BY <1>5, <2>2, <2>3
    <2>6. QED
      BY <1>3, <2>4, <2>5
  <1>13. QED
    BY <1>7, <1>9, <1>10, <1>11, <1>12 DEF HistoryInv

LEMMA EarlierShownKeeps ==
    ASSUME HistoryInv, EarlierShown
    PROVE  HistoryInv'
  <1> DEFINE added == {m \in page.rows : m.id \notin Ids(InMemory)}
             q == InOrder(added, Before)
  <1>1. /\ HistoryTyped /\ page.under /\ thread' = q \o thread /\ hasEarlier' = page.more
        /\ page' = [rows |-> {}, more |-> FALSE, under |-> FALSE]
        /\ UNCHANGED <<rows, storedPins, pins, hydrating, patches, cleared, strayed, arrivals>>
    BY DEF EarlierShown, HistoryInv, NoPage
  <1>2. added \in SUBSET page.rows /\ added \in SUBSET HistoryRow /\ Unique(added)
    BY <1>1 DEF HistoryTyped, Unique
  <1>3. IsFiniteSet(added)
    BY <1>1, <1>2, FS_Subset DEF HistoryTyped
  <1>4. q \in Seq(added) /\ ToSet(q) = added
    BY <1>2, <1>3, InOrderBefore
  <1>5. Ids(added) \cup Ids(InMemory) = Ids(page.rows) \cup Ids(InMemory)
    BY DEF Ids
  <1> HIDE DEF added, q
  <1>6. q \in Seq(HistoryRow)
    <2>1. Len(q) \in Nat /\ q = [i \in 1..Len(q) |-> q[i]] /\ \A i \in 1..Len(q) : q[i] \in added
      BY <1>4
    <2>2. \A i \in 1..Len(q) : q[i] \in HistoryRow
      BY <1>2, <2>1
    <2>3. QED
      BY <2>1, <2>2
  <1>7. /\ thread \in Seq(HistoryRow) /\ Len(thread) \in Nat /\ Len(q) \in Nat
        /\ DOMAIN thread = 1..Len(thread) /\ DOMAIN q = 1..Len(q)
    BY <1>1, <1>6 DEF HistoryTyped
  <1>8. /\ thread' \in Seq(HistoryRow) /\ Len(thread') = Len(q) + Len(thread)
        /\ \A i \in 1..Len(q) : thread'[i] = q[i]
        /\ \A i \in 1..Len(thread) : thread'[Len(q) + i] = thread[i]
    BY <1>1, <1>6, <1>7, ConcatProperties
  <1>9. DOMAIN thread' = 1..(Len(q) + Len(thread))
    BY <1>8
  <1>10. InMemory' = added \cup InMemory
    <2>1. ASSUME NEW i \in 1..(Len(q) + Len(thread)) PROVE thread'[i] \in added \cup InMemory
      <3>1. CASE i \in 1..Len(q)
        BY <1>4, <1>7, <1>8, <3>1 DEF ToSet
      <3>2. CASE i \notin 1..Len(q)
        <4>1. i - Len(q) \in 1..Len(thread) /\ Len(q) + (i - Len(q)) = i
          BY <1>7, <3>2
        <4>2. thread'[i] = thread[i - Len(q)]
          BY <1>8, <4>1
        <4>3. QED
          BY <1>7, <4>1, <4>2 DEF InMemory, ToSet
      <3>3. QED
        BY <3>1, <3>2
    <2>2. \A x \in added : x \in InMemory'
      <3>1. \A i \in 1..Len(q) : i \in DOMAIN thread'
        BY <1>7, <1>9
      <3>2. QED
        BY <1>4, <1>7, <1>8, <3>1 DEF InMemory, ToSet
    <2>3. \A x \in InMemory : x \in InMemory'
      <3>1. \A i \in 1..Len(thread) : Len(q) + i \in DOMAIN thread'
        BY <1>7, <1>9
      <3>2. QED
        BY <1>7, <1>8, <3>1 DEF InMemory, ToSet
    <2>4. \A x \in InMemory' : x \in added \cup InMemory
      BY <1>9, <2>1 DEF InMemory, ToSet
    <2>5. QED
      BY <2>2, <2>3, <2>4
  <1>11. HistoryTyped'
    <2>1. page' \in [rows : SUBSET HistoryRow, more : BOOLEAN, under : BOOLEAN] /\ page'.rows = {}
      BY <1>1
    <2>2. IsFiniteSet(page'.rows) /\ Unique(page'.rows)
      BY <2>1, FS_EmptySet DEF Unique
    <2>3. hasEarlier' \in BOOLEAN
      BY <1>1 DEF HistoryTyped
    <2>4. QED
      BY <1>1, <1>8, <2>1, <2>2, <2>3 DEF HistoryTyped
  <1>12. Dated'
    <2>1. Copies' \subseteq Copies
      BY <1>1, <1>2, <1>10 DEF Copies
    <2>2. QED
      BY <1>1, <2>1, DatedKeeps DEF HistoryInv
  <1>13. Loaded /\ Loaded'
    BY <1>1 DEF HistoryInv, EarlierWhenLoaded, Loaded
  <1>14. /\ PatchesKnown' /\ EarlierWhenLoaded' /\ ReadIsRecent' /\ PageIsNext'
    BY <1>1, <1>13 DEF HistoryInv, PatchesKnown, EarlierWhenLoaded, ReadIsRecent,
       PageIsNext, Loaded
  <1>15. ShownIsRecent'
    <2>1. SUFFICES ASSUME ~strayed, NEW m \in rows, Missing(m)'
                   PROVE  thread' # <<>> /\ Before(m, Head(thread')) /\ page.more
      BY <1>1 DEF ShownIsRecent
    <2>2. m.id \notin Ids(page.rows) /\ Missing(m)
      <3>1. Ids(InMemory') = Ids(added) \cup Ids(InMemory)
        BY <1>10 DEF Ids
      <3>2. QED
        BY <1>1, <1>5, <2>1, <3>1 DEF Missing
    <2>3. page.more /\ Behind(m, page.rows)
      BY <1>1, <2>1, <2>2 DEF HistoryInv, PageIsNext
    <2>4. thread # <<>> /\ Before(m, Head(thread))
      BY <1>13, <2>1, <2>2 DEF HistoryInv, ShownIsRecent
    <2>5. CASE q = <<>>
      <3>1. thread' = thread
        BY <1>1, <1>7, <2>5
      <3>2. QED
        BY <2>3, <2>4, <3>1
    <2>6. CASE q # <<>>
      <3>1. 1 \in 1..Len(q)
        BY <1>6, <2>6
      <3>2. thread'[1] = q[1] /\ q[1] \in added
        BY <1>4, <1>8, <3>1
      <3>3. thread' # <<>> /\ Head(thread') = thread'[1]
        BY <1>7, <1>8, <3>1
      <3>4. QED
        BY <1>2, <2>3, <3>2, <3>3 DEF Behind
    <2>7. QED
      BY <2>5, <2>6
  <1>16. QED
    BY <1>11, <1>12, <1>14, <1>15 DEF HistoryInv

LEMMA EarlierFailsKeeps ==
    ASSUME HistoryInv, EarlierFails
    PROVE  HistoryInv'
  <1>1. /\ HistoryTyped /\ page.under /\ page' = [rows |-> {}, more |-> FALSE, under |-> FALSE]
        /\ UNCHANGED <<rows, storedPins, thread, hasEarlier, pins, hydrating, patches, cleared, strayed, arrivals>>
    BY DEF EarlierFails, HistoryInv, NoPage
  <1>2. HistoryTyped'
    <2>1. page' \in [rows : SUBSET HistoryRow, more : BOOLEAN, under : BOOLEAN] /\ page'.rows = {}
      BY <1>1
    <2>2. IsFiniteSet(page'.rows) /\ Unique(page'.rows)
      BY <2>1, FS_EmptySet DEF Unique
    <2>3. QED
      BY <1>1, <2>1, <2>2 DEF HistoryTyped
  <1>3. InMemory' = InMemory /\ Loaded' = Loaded
    BY <1>1 DEF InMemory, Loaded
  <1>4. Dated'
    <2>1. Copies' \subseteq Copies
      BY <1>1, <1>3 DEF Copies
    <2>2. QED
      BY <1>1, <2>1, DatedKeeps DEF HistoryInv
  <1>5. PatchesKnown' /\ EarlierWhenLoaded' /\ PageIsNext'
    BY <1>1, <1>3 DEF HistoryInv, PatchesKnown, EarlierWhenLoaded, PageIsNext
  <1>6. ReadIsRecent'
    BY <1>1, <1>3 DEF HistoryInv, ReadIsRecent, Missing, Behind
  <1>7. ShownIsRecent'
    <2>1. SUFFICES ASSUME Loaded, ~strayed, NEW m \in rows, Missing(m)
                   PROVE  thread # <<>> /\ Before(m, Head(thread)) /\ hasEarlier
      BY <1>1, <1>3 DEF ShownIsRecent, Missing
    <2>2. QED
      BY <1>1, <2>1 DEF HistoryInv, ShownIsRecent, PageIsNext
  <1>8. QED
    BY <1>2, <1>4, <1>5, <1>6, <1>7 DEF HistoryInv

LEMMA HistoryKeeps ==
    ASSUME HistoryInv, [HistoryNext]_historyVars
    PROVE  HistoryInv'
  <1>1. CASE UNCHANGED historyVars
    <2>1. UNCHANGED <<rows, storedPins, thread, hasEarlier, pins, hydrating, page, patches, cleared, strayed, arrivals>>
      BY <1>1 DEF historyVars
    <2>2. InMemory' = InMemory /\ Copies' = Copies /\ Loaded' = Loaded
      BY <2>1 DEF InMemory, Copies, Loaded
    <2>3. HistoryTyped' /\ Dated' /\ PatchesKnown'
      BY <2>1, <2>2 DEF HistoryInv, HistoryTyped, Dated, PatchesKnown
    <2>4. \A m \in rows' : Missing(m)' => \E o \in rows : Missing(o) /\ m.id = o.id /\ m.at = o.at
      BY <2>1, <2>2 DEF Missing
    <2>5. QED
      BY <2>1, <2>2, <2>3, <2>4, RestKeeps
  <1>2. CASE HistoryNext
    <2>1. CASE LoadPins \/ \E m \in InMemory : TogglePin(m)
      BY <2>1, PinStepsKeep
    <2>2. CASE LoadRecent \/ MergeHistory
      BY <2>2, LoadRecentKeeps, MergeKeeps
    <2>3. CASE LoadEarlier \/ EarlierShown \/ EarlierFails
      BY <2>3, LoadEarlierKeeps, EarlierShownKeeps, EarlierFailsKeeps
    <2>4. CASE ClearChat \/ Relaunch
      BY <2>4, ClearKeeps, RelaunchKeeps
    <2>5. CASE \E t \in Times : MessageArrives(t)
      BY <2>5, ArrivalKeeps
    <2>6. CASE \E m \in InMemory : \E p \in Authors : MarkShown(m, p)
      BY <2>6, MarkShownKeeps
    <2>7. CASE \E m \in rows, p \in Authors : MarkStored(m, p)
      BY <2>7, MarkStoredKeeps
    <2>8. CASE \E patch \in patches : SavePatch(patch)
      BY <2>8, SavePatchKeeps
    <2>9. QED
      BY <1>2, <2>1, <2>2, <2>3, <2>4, <2>5, <2>6, <2>7, <2>8 DEF HistoryNext
  <1>3. QED
    BY <1>1, <1>2

LEMMA NothingBetween == HistoryInv => NoGap
  <1>1. SUFFICES ASSUME HistoryInv, Loaded, ~strayed
                 PROVE  /\ thread # <<>> => \A m \in Standing : m.at > Head(thread).at => m.id \in Ids(InMemory)
                        /\ Ids(Standing) \subseteq Ids(InMemory) \/ hasEarlier \/ page.under
    BY DEF NoGap, Loaded
  <1>2. ASSUME NEW m \in Standing, m.id \notin Ids(InMemory)
        PROVE  thread # <<>> /\ Before(m, Head(thread)) /\ (hasEarlier \/ page.under)
    BY <1>1, <1>2 DEF HistoryInv, ShownIsRecent, Standing, Missing
  <1>3. ASSUME thread # <<>>, NEW m \in Standing, m.at > Head(thread).at PROVE m.id \in Ids(InMemory)
    <2>1. SUFFICES ASSUME m.id \notin Ids(InMemory) PROVE FALSE
      OBVIOUS
    <2>2. Before(m, Head(thread))
      BY <1>2, <2>1
    <2>3. m.at \in Nat /\ Head(thread).at \in Nat
      <3>1. Head(thread) \in HistoryRow
        BY <1>1, <1>3, MemoryIs DEF HistoryInv, HistoryTyped
      <3>2. m \in HistoryRow
        BY <1>1 DEF Standing, HistoryInv, HistoryTyped
      <3>3. QED
        BY <3>1, <3>2 DEF HistoryRow
    <2>4. QED
      BY <1>3, <2>2, <2>3 DEF Before
  <1>4. CASE Ids(Standing) \subseteq Ids(InMemory)
    BY <1>3, <1>4
  <1>5. CASE ~(Ids(Standing) \subseteq Ids(InMemory))
    <2>1. PICK m \in Standing : m.id \notin Ids(InMemory)
      BY <1>5 DEF Ids
    <2>2. hasEarlier \/ page.under
      BY <1>2, <2>1
    <2>3. QED
      BY <1>3, <2>2
  <1>6. QED
    BY <1>4, <1>5

\* What is shown of a chat is an end of it without a gap, and the rest can be had, for any
\* number of messages, pages, times and starts: the pages of loadRecentThreads and
\* loadEarlierMessages and the merge of hydrateFromLocal skip nothing, unless that merge
\* puts a message which came during the start above the page that was read.
THEOREM HistoryWhole == HistorySpec => []NoGap
  <1>1. HistoryInit => HistoryInv
    BY HistoryBegins
  <1>2. HistoryInv /\ [HistoryNext]_historyVars => HistoryInv'
    BY HistoryKeeps
  <1>3. QED
    BY <1>1, <1>2, NothingBetween, PTL DEF HistorySpec
=============================================================================
