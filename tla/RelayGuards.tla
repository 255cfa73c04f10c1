----------------------------- MODULE RelayGuards -----------------------------
(***************************************************************************)
(* What the relay lets one socket send before any handler runs: the frame  *)
(* sizes, the sliding windows of events, messages and bytes, the time to   *)
(* authenticate and the heartbeat of server/src/index.ts.                  *)
(*                                                                         *)
(* Everything up to the handler is one step, but for the token, which is   *)
(* looked up.  A socket told to close still delivers what it had received. *)
(***************************************************************************)
EXTENDS Integers, SequencesExt

CONSTANTS EventLimit, AbuseFactor,  \* MAX_EVENTS_PER_WINDOW, ABUSE_CLOSE_FACTOR
          SendLimit, ByteLimit,     \* MAX_SENDS_PER_WINDOW, MAX_SEND_BYTES_PER_BYTE_WINDOW
          RateWindow, ByteWindow,   \* RATE_WINDOW_MS, BYTE_WINDOW_MS
          SmallFrame, Sizes,        \* MAX_UNAUTH_FRAME_BYTES, and the sizes of frames
          MaxMissedPongs,
          MaxClock, MaxFrames       \* bounds: Date.now(), frames received

ASSUME GuardsAssumption ==
    /\ {EventLimit, AbuseFactor, SendLimit, ByteLimit, RateWindow, ByteWindow, SmallFrame,
        MaxMissedPongs, MaxClock, MaxFrames} \subseteq Nat
    /\ Sizes \subseteq Nat

VARIABLES
    wire,        \* the socket: "open", "closing" or "closed"
    user,        \* userId is set
    authTimer, verifying,
    instant,
    eventStamps, sendStamps, sendBytes,
    missedPongs,
    asked,       \* pings the client has not answered
    silent,      \* history: heartbeats since the client's last pong came in
    handled,     \* history: the messages given to handleMessageSend of late
    frames

windows == <<eventStamps, sendStamps, sendBytes>>
guardVars == <<wire, user, authTimer, verifying, instant, windows, missedPongs, asked, silent, handled, frames>>

GuardsInit ==
    /\ wire = "open" /\ user = FALSE /\ authTimer = TRUE /\ verifying = FALSE
    /\ instant = 0
    /\ eventStamps = <<>> /\ sendStamps = <<>> /\ sendBytes = <<>>
    /\ missedPongs = 0 /\ asked = 0 /\ silent = 0
    /\ handled = <<>> /\ frames = 0

Closing == wire' = IF wire = "open" THEN "closing" ELSE wire

\* pruneWindow and its like: what is older than the window goes.
\* A Bad... operator is the same operator with a mistake in it, and no action uses it.
BadPrune(stamps, window) == IF stamps # <<>> /\ instant - Head(stamps).at > window THEN <<>> ELSE stamps
Prune(stamps, window) == SelectSeq(stamps, LAMBDA s : instant - s.at <= window)

Bytes(stamps) == FoldLeft(LAMBDA sum, s : sum + s.bytes, 0, stamps)

\* ping and pong are exempt, so heartbeats always work; auth is too
BadLimited(kind) == kind \notin {"ping", "auth"}
Limited(kind) == kind \notin {"ping", "pong", "auth"}

Fits(bytes) ==
    /\ Len(Prune(sendStamps, RateWindow)) < SendLimit
    /\ Bytes(Prune(sendBytes, ByteWindow)) + bytes <= ByteLimit

\* a frame too large before login, or one that is no event
Rejected(kind, bytes) == (~user /\ bytes > SmallFrame) \/ kind = "malformed"

\* past the limits: pong, auth, and what needs a user
Dispatch(kind, bytes) ==
    /\ missedPongs' = IF kind = "pong" THEN 0 ELSE missedPongs
    /\ verifying' = (verifying \/ kind = "auth")
    /\ handled' = IF kind = "message:send" /\ user
                  THEN Append(handled, [at |-> instant, bytes |-> bytes]) ELSE handled
    /\ UNCHANGED wire

Answered(kind) ==
    /\ asked' = IF kind = "pong" THEN asked - 1 ELSE asked
    /\ silent' = IF kind = "pong" THEN 0 ELSE silent

FrameKinds == {"malformed", "ping", "pong", "auth", "message:send", "typing"}

OnMessage(kind, bytes) ==
    LET stamps == Append(Prune(eventStamps, RateWindow), [at |-> instant])
        over == Limited(kind) /\ Len(stamps) > EventLimit
        measured == Limited(kind) /\ ~over /\ kind = "message:send"
        goes == ~over /\ (measured => Fits(bytes))
        entry == [at |-> instant, bytes |-> bytes]
        Kept(old, window) ==
            IF ~measured THEN old
            ELSE IF goes THEN Append(Prune(old, window), entry) ELSE Prune(old, window)
    IN
    /\ wire # "closed" /\ frames < MaxFrames /\ frames' = frames + 1
    /\ kind = "pong" => asked > 0
    /\ Answered(kind)
    /\ IF Rejected(kind, bytes)
         THEN /\ IF kind = "malformed" /\ (user \/ bytes <= SmallFrame) THEN UNCHANGED wire ELSE Closing
              /\ UNCHANGED <<windows, missedPongs, verifying, handled>>
         ELSE /\ eventStamps' = IF Limited(kind) THEN stamps ELSE eventStamps
              /\ sendStamps' = Kept(sendStamps, RateWindow)
              /\ sendBytes' = Kept(sendBytes, ByteWindow)
              /\ IF goes THEN Dispatch(kind, bytes)
                 ELSE /\ IF Len(stamps) > EventLimit * AbuseFactor THEN Closing ELSE UNCHANGED wire
                      /\ UNCHANGED <<missedPongs, verifying, handled>>
    /\ UNCHANGED <<user, authTimer, instant>>

\* verifyUserToken
Verified(ok) ==
    /\ verifying /\ verifying' = FALSE
    /\ IF ok THEN user' = TRUE /\ authTimer' = FALSE /\ UNCHANGED wire
             ELSE Closing /\ UNCHANGED <<user, authTimer>>
    /\ UNCHANGED <<instant, windows, missedPongs, asked, silent, handled, frames>>

AuthTimeout ==
    /\ authTimer /\ authTimer' = FALSE
    /\ IF user THEN UNCHANGED wire ELSE Closing
    /\ UNCHANGED <<user, verifying, instant, windows, missedPongs, asked, silent, handled, frames>>

\* every HEARTBEAT_INTERVAL_MS, for each socket that is not closed yet
Heartbeat ==
    /\ wire # "closed"
    /\ IF missedPongs >= MaxMissedPongs
         THEN wire' = "closed" /\ UNCHANGED <<missedPongs, asked, silent>>
         ELSE /\ missedPongs' = missedPongs + 1 /\ silent' = silent + 1
              /\ asked' = IF wire = "open" THEN asked + 1 ELSE asked
              /\ UNCHANGED wire
    /\ UNCHANGED <<user, authTimer, verifying, instant, windows, handled, frames>>

Closed ==
    /\ wire = "closing" /\ wire' = "closed" /\ authTimer' = FALSE
    /\ UNCHANGED <<user, verifying, instant, windows, missedPongs, asked, silent, handled, frames>>

ClockTicks ==
    /\ instant < MaxClock /\ instant' = instant + 1
    /\ handled' = SelectSeq(handled, LAMBDA h : instant + 1 - h.at <= RateWindow + ByteWindow)
    /\ UNCHANGED <<wire, user, authTimer, verifying, windows, missedPongs, asked, silent, frames>>

GuardsNext ==
    \/ \E kind \in FrameKinds, bytes \in Sizes : OnMessage(kind, bytes)
    \/ \E ok \in BOOLEAN : Verified(ok)
    \/ AuthTimeout \/ Heartbeat \/ Closed \/ ClockTicks

GuardsSpec == GuardsInit /\ [][GuardsNext]_guardVars
-----------------------------------------------------------------------------
(* Properties                                                              *)

Burst(i, window) == SelectSeq(handled, LAMBDA h : h.at \in handled[i].at .. handled[i].at + window)

\* Whenever one starts to count, no more messages reach handleMessageSend than
\* the limit within a window's time, nor more bytes: the windows slide, with no
\* seam between two of them (pruneWindow and the checks around it).
WindowHolds ==
    \A i \in DOMAIN handled :
        /\ Len(Burst(i, RateWindow)) <= SendLimit
        /\ Bytes(Burst(i, ByteWindow)) <= ByteLimit

\* The heartbeat ends only a socket whose client has let as many heartbeats
\* pass without a pong, however fast it sends and however the relay answers
\* that (missedPongs and the exemption from the rate limits).
AnswererStays == [][wire = "open" /\ wire' = "closed" => silent >= MaxMissedPongs]_wire
=============================================================================
