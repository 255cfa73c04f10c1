------------------------------ MODULE VideoPick ------------------------------
(***************************************************************************)
(* How a video becomes a message: pickVideoBase64 of lib/media.ts.  The    *)
(* user picks and trims it, it is compressed while it is over the cap, and *)
(* read.  Every step is a native call that may fail, and the libraries do  *)
(* not agree on how to name a file: the trimmer gives and takes the path   *)
(* of its platform, the file system module takes URIs only.                *)
(***************************************************************************)
EXTENDS Integers, Sequences

CONSTANTS
    MaxBytes,    \* MAX_VIDEO_FILE_BYTES
    MaxSeconds,  \* MAX_VIDEO_DURATION_SECONDS
    TopBytes     \* bound: the largest file

ASSUME VideoAssumption ==
    MaxBytes \in Nat /\ MaxSeconds \in Nat /\ TopBytes \in Nat

VARIABLES
    native,   \* how the trimmer of this platform names a file: "bare" or "uri"
    stage,    \* what pickVideoBase64 waits for
    video,    \* the file it works on: its size, its name, whether it is there
    known,    \* currentBytes: the size it takes the file to have
    seconds,  \* the duration the trimmer reported, rounded
    tries,    \* compression passes run
    broke,    \* history: a native call threw, or wrote no file
    verdict   \* PickVideoResult

videoVars == <<native, stage, video, known, seconds, tries, broke, verdict>>

Unpicked == [bytes |-> 0, name |-> "bare", there |-> FALSE]

VideoInit ==
    /\ native \in {"bare", "uri"}
    /\ stage = "permission" /\ video = Unpicked /\ known = 0 /\ seconds = 0
    /\ tries = 0 /\ broke = FALSE /\ verdict = "none"

\* A Bad... operator is the same operator with a mistake in it, and no action uses it.
BadToFileUri(f) == f

\* toFileUri gives a bare path its scheme and leaves a URI alone.
ToFileUri(f) == [f EXCEPT !.name = "uri"]

\* getInfoAsync(f).exists, of the file system module
Exists(f) == f.there /\ f.name = "uri"

\* What the base64 text takes, counted back into bytes: 3/4 of its length, which is
\* padded to whole groups of four.
WireBytes(n) == 3 * ((n + 2) \div 3)

Done(v) == stage' = "done" /\ verdict' = v

\* A native call throws, and pickVideoBase64 catches it.
Throws == Done("failed") /\ broke' = TRUE /\ UNCHANGED <<native, video, known, seconds, tries>>

-----------------------------------------------------------------------------
AskToPick ==
    /\ stage = "permission"
    /\ \/ stage' = "picking" /\ UNCHANGED <<native, video, known, seconds, tries, broke, verdict>>
       \/ Done("permission_denied") /\ UNCHANGED <<native, video, known, seconds, tries, broke>>
       \/ Throws

Pick ==
    /\ stage = "picking"
    /\ \/ stage' = "trimming" /\ UNCHANGED <<native, video, known, seconds, tries, broke, verdict>>
       \/ Done("canceled") /\ UNCHANGED <<native, video, known, seconds, tries, broke>>
       \/ Throws

\* showVideoTrimEditor settles once, on the first of its three events; an error of the
\* editor counts as a cancellation.  The editor names the file its own way.
Trim ==
    /\ stage = "trimming"
    /\ \/ \E n \in 1 .. TopBytes, s \in 1 .. MaxSeconds + 1, there \in BOOLEAN :
            /\ video' = [bytes |-> n, name |-> native, there |-> there]
            /\ seconds' = s /\ broke' = ~there /\ stage' = "checking"
            /\ UNCHANGED <<native, known, tries, verdict>>
       \/ Done("canceled") /\ UNCHANGED <<native, video, known, seconds, tries, broke>>
       \/ Throws

\* The cap that the end of compressIfNeeded leaves to its caller.
AfterCompression(bytes) == IF bytes > MaxBytes THEN "too_large" ELSE "reading"

\* What compressIfNeeded returns: the video by its URI, and the size it takes it to have.
Compressed(f, bytes) ==
    /\ video' = ToFileUri(f) /\ known' = bytes
    /\ IF AfterCompression(bytes) = "reading"
       THEN stage' = "reading" /\ UNCHANGED verdict
       ELSE Done("too_large")

\* The start of processTrimmedVideo, up to the first pass.
Measure ==
    /\ stage = "checking"
    /\ CASE seconds > MaxSeconds -> Done("too_long") /\ UNCHANGED <<video, known>>
         [] seconds <= MaxSeconds /\ ~Exists(ToFileUri(video)) ->
              Done("failed") /\ UNCHANGED <<video, known>>
         [] seconds <= MaxSeconds /\ Exists(ToFileUri(video)) /\ video.bytes <= MaxBytes ->
              Compressed(video, video.bytes)
         [] OTHER -> stage' = "compressing" /\ known' = video.bytes /\ UNCHANGED <<video, verdict>>
    /\ UNCHANGED <<native, seconds, tries, broke>>

\* A file that is not there counts as large as the one before.
SizeOf(f, before) == IF Exists(ToFileUri(f)) THEN f.bytes ELSE before

\* A pass that returns: small enough, or the input of the next pass, or the last one.
Compress ==
    /\ stage = "compressing" /\ video.there /\ video.name = native
    /\ \E n \in 1 .. TopBytes, there \in BOOLEAN :
         LET out   == [bytes |-> n, name |-> native, there |-> there]
             bytes == SizeOf(out, known)
         IN /\ broke' = (broke \/ ~there)
            /\ IF bytes <= MaxBytes \/ tries = 1
               THEN Compressed(out, bytes)
               ELSE video' = out /\ known' = bytes /\ UNCHANGED <<stage, verdict>>
    /\ tries' = tries + 1
    /\ UNCHANGED <<native, seconds>>

\* A pass that throws ends the loop.  It does on a file it cannot find by that name.
CompressThrows ==
    /\ stage = "compressing"
    /\ Compressed(video, known)
    /\ broke' = (broke \/ (video.there => video.name = native))
    /\ UNCHANGED <<native, seconds, tries>>

Read ==
    /\ stage = "reading"
    /\ \/ /\ Exists(video)
          /\ Done(IF WireBytes(video.bytes) > MaxBytes THEN "too_large" ELSE "ok")
          /\ UNCHANGED <<native, video, known, seconds, tries, broke>>
       \/ ~Exists(video) /\ Done("failed") /\ UNCHANGED <<native, video, known, seconds, tries, broke>>
       \/ Throws

VideoNext == AskToPick \/ Pick \/ Trim \/ Measure \/ Compress \/ CompressThrows \/ Read
VideoSpec == VideoInit /\ [][VideoNext]_videoVars

-----------------------------------------------------------------------------
(* What is checked.                                                        *)

\* What the user is told of a video is so, on either platform and whichever native call
\* fails: what is sent fits both caps once it is encoded; "failed" means that a call
\* failed; "too large" means that the video really is, and that every pass was run on it
\* or one of them failed.
VideoVerdict ==
    /\ verdict = "ok" => video.there /\ WireBytes(video.bytes) <= MaxBytes /\ seconds <= MaxSeconds
    /\ verdict = "failed" => broke
    /\ verdict = "too_large" =>
         \/ broke
         \/ WireBytes(video.bytes) > MaxBytes /\ (video.bytes > MaxBytes => tries = 2)

\* Doc: media.ts:230-232, a clip that fits is not compressed, and it is sent.  The two
\* largest sizes under the cap are refused, for the padding of their text.
DocFitsIsSent == verdict = "too_large" => broke \/ video.bytes > MaxBytes
=============================================================================
