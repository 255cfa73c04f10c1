----------------------------- MODULE CallScreens -----------------------------
(***************************************************************************)
(* Which screen the phone shows while a call rings, runs and ends.  The    *)
(* two call stores keep a phase each; app/_layout.tsx turns their changes  *)
(* into navigation, the four call screens navigate in effects of their     *)
(* own, and the user, the banners and the notifications navigate as well.  *)
(*                                                                         *)
(* A screen is a route with the kind of call it is for.  A screen that is  *)
(* mounted remembers the phase its effects have seen; the effects of one   *)
(* change all run before the next event.                                   *)
(***************************************************************************)
EXTENDS Integers, Sequences, SequencesExt

CONSTANTS
    MaxCalls,    \* bound: calls placed and received
    MaxTouches,  \* bound: what the user does beside the calls
    MaxDepth     \* bound: screens the user stacks

ASSUME ScreensAssumption ==
    MaxCalls \in Nat /\ MaxTouches \in Nat /\ MaxDepth \in Nat

CallKinds == {"direct", "group"}

VARIABLES
    phase,        \* callStore and groupCallStore: phase of each kind of call
    stack,        \* the mounted screens, the one on top last
    leaving,      \* screens just removed whose effects may still run
    notified,     \* the full-screen call notification is shown; nothing removes it
    undisturbed,  \* history: nothing but this call has moved the screens since it began
    callsBegun, touches

callScreenVars == <<phase, stack, leaving, notified, undisturbed, callsBegun, touches>>

OtherKind(k) == IF k = "direct" THEN "group" ELSE "direct"

Screen(r, k) == [route |-> r, kind |-> k, seen |-> "nothing"]
Plain(r)     == [route |-> r, kind |-> "none", seen |-> "nothing"]

Is(e, r, k) == e.route = r /\ e.kind = k
Top == Last(stack)

\* router.push, router.back (which does nothing on the last screen), router.replace
Stacked(s, e)  == Append(s, e)
Popped(s)      == IF Len(s) > 1 THEN Front(s) ELSE s
Replaced(s, e) == Append(Front(s), e)

Ongoing(k) == phase[k] \in {"ringing-out", "connecting", "active"}

Stale(e) == e.route \in {"incoming", "call"} /\ e.seen # phase[e.kind]
Settled  == leaving = <<>> /\ \A i \in DOMAIN stack : ~Stale(stack[i])

ScreensInit ==
    /\ phase = [k \in CallKinds |-> "idle"]
    /\ stack = <<Plain("splash")>>
    /\ leaving = <<>> /\ notified = FALSE
    /\ undisturbed = [k \in CallKinds |-> TRUE]
    /\ callsBegun = 0 /\ touches = 0

-----------------------------------------------------------------------------
(* The effects of the call screens.                                        *)

\* A Bad... operator is the same operator with a mistake in it, and no action uses it.
BadDismisses(p) == p # "ringing-in"

\* incoming-call and incoming-group-call leave unless it rings or was just accepted.
Dismisses(p) == p \notin {"ringing-in", "connecting"}

\* What the effects of a screen do when they see that there is another phase now.
Reaction(e) ==
    CASE e.route = "incoming" /\ Dismisses(phase[e.kind])   -> "back"
      [] e.route = "call" /\ phase[e.kind] = "idle"         -> "back"
      [] e.route = "call" /\ phase[e.kind] = "ringing-in"   -> "answer"
      [] OTHER                                              -> "stay"

React(s, e) ==
    CASE Stale(e) /\ Reaction(e) = "back"   -> Popped(s)
      [] Stale(e) /\ Reaction(e) = "answer" -> Replaced(s, Screen("incoming", e.kind))
      [] OTHER                              -> s

\* One commit: the screens mounted at the change, from the bottom up; each acts on
\* whatever screen is on top by then.
Effects ==
    LET seen == [i \in DOMAIN stack |->
                    IF Stale(stack[i]) THEN [stack[i] EXCEPT !.seen = phase[stack[i].kind]]
                    ELSE stack[i]]
    IN /\ ~Settled
       /\ stack' = FoldLeft(React, seen, stack \o leaving)
       /\ leaving' = <<>>
       /\ UNCHANGED <<phase, notified, undisturbed, callsBegun, touches>>

\* A screen that the event itself removed is unmounted before or after its effects
\* have seen the change.
Removed(s) == leaving' \in {<<>>, <<Last(s)>>}

-----------------------------------------------------------------------------
(* Calls, as the stores move them and the subscriber of _layout follows.   *)

\* No other call, no splash and no other call screen: nothing else moves the screens.
AloneOnStack(k) ==
    /\ phase[OtherKind(k)] = "idle"
    /\ \A i \in DOMAIN stack : stack[i].route \in {"home", "chat"}

Begins(k, p, e) ==
    /\ Settled /\ callsBegun < MaxCalls /\ phase[k] = "idle"
    /\ k = "group" => phase["direct"] = "idle"
    /\ phase' = [phase EXCEPT ![k] = p]
    /\ stack' = Stacked(stack, e)
    /\ undisturbed' = [undisturbed EXCEPT ![k] = AloneOnStack(k), ![OtherKind(k)] = FALSE]
    /\ callsBegun' = callsBegun + 1
    /\ UNCHANGED <<leaving, notified, touches>>

Place(k) == Top.route \in {"home", "chat"} /\ Begins(k, "ringing-out", Screen("call", k))
Rings(k) == Begins(k, "ringing-in", Screen("incoming", k))

Becomes(k, p) ==
    /\ Settled
    /\ phase' = [phase EXCEPT ![k] = p]
    /\ UNCHANGED <<notified, undisturbed, callsBegun, touches>>

Accept(k) ==
    /\ Is(Top, "incoming", k) /\ phase[k] = "ringing-in"
    /\ Becomes(k, "connecting")
    /\ stack' = Replaced(stack, Screen("call", k))
    /\ Removed(stack)

Decline(k) ==
    /\ Is(Top, "incoming", k) /\ phase[k] = "ringing-in"
    /\ Becomes(k, "idle") /\ UNCHANGED <<stack, leaving>>

\* The caller hung up or gave up; or, for a group call, its caller left.
CallerGone(k) ==
    /\ phase[k] = "ringing-in"
    /\ Becomes(k, IF k = "direct" THEN "ended" ELSE "idle")
    /\ UNCHANGED <<stack, leaving>>

CallAnswered ==
    /\ phase["direct"] = "ringing-out"
    /\ Becomes("direct", "connecting") /\ UNCHANGED <<stack, leaving>>

\* A member of a group call that connects makes it active from any phase of it.
Connected(k) ==
    /\ phase[k] \in {"connecting"} \cup IF k = "group" THEN {"ringing-out"} ELSE {}
    /\ Becomes(k, "active") /\ UNCHANGED <<stack, leaving>>

Ends(k) ==
    /\ Ongoing(k)
    /\ Becomes(k, "ended") /\ UNCHANGED <<stack, leaving>>

\* The 1.6 s timer of a call screen that has seen the end: clearEnded, then back.
EndShown(k) ==
    /\ \E i \in DOMAIN stack : Is(stack[i], "call", k) /\ stack[i].seen = "ended"
    /\ Becomes(k, "idle")
    /\ stack' = Popped(stack)
    /\ Removed(stack)

\* The 2.5 s timer of the store, for an end that no screen has shown.
EndCleared(k) ==
    /\ phase[k] = "ended" /\ ~\E i \in DOMAIN stack : Is(stack[i], "call", k)
    /\ Becomes(k, "idle") /\ UNCHANGED <<stack, leaving>>

-----------------------------------------------------------------------------
(* The user and the system.                                                *)

Touch(s, left) ==
    /\ Settled /\ touches < MaxTouches /\ touches' = touches + 1
    /\ stack' = s
    /\ undisturbed' = [k \in CallKinds |-> undisturbed[k] /\ k \notin left]
    /\ UNCHANGED <<phase, leaving, callsBegun>>

OpenChat ==
    /\ Top.route = "home"
    /\ Touch(Stacked(stack, Plain("chat")), {}) /\ UNCHANGED notified

\* The minimize button of a call screen, and the back button of the phone.
Back ==
    /\ Len(stack) > 1
    /\ Touch(Popped(stack), {Top.kind}) /\ UNCHANGED notified

\* The banner is there while the call goes on and its screen is not on top.
BannerTap(k) ==
    /\ Ongoing(k) /\ ~Is(Top, "call", k) /\ Len(stack) < MaxDepth
    /\ Touch(Stacked(stack, Screen("call", k)), CallKinds) /\ UNCHANGED notified

\* The background task shows the call notification in full screen.
CallPushed ==
    /\ ~notified /\ notified' = TRUE
    /\ Touch(stack, {})

\* onPress pushes the screen whatever the call is by now.
NotificationPress ==
    /\ notified /\ Len(stack) < MaxDepth
    /\ Touch(Stacked(stack, Screen("incoming", "direct")), CallKinds) /\ UNCHANGED notified

\* A tap on the plain notification, which looks first.
CallNotificationTap ==
    /\ phase["direct"] = "ringing-in" /\ Len(stack) < MaxDepth
    /\ Touch(Stacked(stack, Screen("incoming", "direct")), CallKinds) /\ UNCHANGED notified

\* The splash timer replaces the screen on top, whatever it is by then.
SplashEnds ==
    /\ \E i \in DOMAIN stack : stack[i].route = "splash"
    /\ Touch(Replaced(stack, Plain("home")), CallKinds) /\ UNCHANGED notified

\* The layout mounts again with the stores as they are, and catches up with them.
CaughtUp(s, k) ==
    CASE phase[k] = "ringing-in" -> Stacked(s, Screen("incoming", k))
      [] Ongoing(k)              -> Stacked(s, Screen("call", k))
      [] OTHER                   -> s
Remount ==
    /\ Touch(CaughtUp(CaughtUp(<<Plain("splash")>>, "direct"), "group"), CallKinds)
    /\ UNCHANGED notified

ScreensNext ==
    \/ Effects \/ CallAnswered \/ OpenChat \/ Back
    \/ CallPushed \/ NotificationPress \/ CallNotificationTap \/ SplashEnds \/ Remount
    \/ \E k \in CallKinds :
         \/ Place(k) \/ Rings(k) \/ Accept(k) \/ Decline(k) \/ CallerGone(k)
         \/ Connected(k) \/ Ends(k) \/ EndShown(k) \/ EndCleared(k) \/ BannerTap(k)

ScreensSpec == ScreensInit /\ [][ScreensNext]_callScreenVars

-----------------------------------------------------------------------------
(* What is checked.                                                        *)

ScreenOf(p) ==
    CASE p = "ringing-in" -> "incoming"
      [] p \in {"ringing-out", "connecting", "active"} -> "call"
      [] OTHER -> "none"

\* While nothing but a call itself has moved the screens, the user sees it: the screen
\* to answer it on while it rings, the call screen while it runs, and once it is over no
\* screen of it stays behind, whatever order the navigation of _layout and the effects
\* of the screens run in.
ScreenFollowsCall ==
    \A k \in CallKinds : Settled /\ undisturbed[k] =>
        /\ ScreenOf(phase[k]) # "none" => Is(Top, ScreenOf(phase[k]), k)
        /\ phase[k] = "idle" => \A i \in DOMAIN stack : stack[i].kind # k

\* Doc: incoming-call.tsx:41-47, the screen that was answered on must not pop the call
\* screen off.  After a press on the notification there are two of them.
DocAcceptStays ==
    [][\A k \in CallKinds : ~(Effects /\ phase[k] = "active"
                          /\ Is(Top, "call", k) /\ ~Is(Last(stack'), "call", k))]_callScreenVars

\* Doc: _layout.tsx:86-89, an incoming or outgoing call always has its screen wherever
\* the user is.  The splash screen replaces it.
DocRingShown ==
    [][\A k \in CallKinds : SplashEnds => phase[k] # "ringing-in" \/ ~Is(Top, "incoming", k)]_callScreenVars

\* Doc: callNotifications.ts:78-83, the notification is done once the app is on screen.
DocBlankScreen == Settled => ~(Top.route = "incoming" /\ phase[Top.kind] # "ringing-in")
=============================================================================
