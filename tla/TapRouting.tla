----------------------------- MODULE TapRouting -----------------------------
(***************************************************************************)
(* Where a tapped notification takes the user: initNotificationRouting of  *)
(* app/src/lib/push.ts, notificationRoute.ts, the splash route             *)
(* app/app/index.tsx and the navigation of app/app/_layout.tsx.  The       *)
(* screens start at the splash, when the lock first shows them and each    *)
(* time it shows them again.  Only the screen on top is modelled, and      *)
(* whether the splash is still there below it.  What the router does with  *)
(* a call while the lock stands in place of the screens is not under src/: *)
(* it may do nothing, or wait (the step is then taken later).              *)
(***************************************************************************)
EXTENDS Integers

CONSTANT MaxMoves  \* bound: taps, sign-ins, sign-outs, locks

ASSUME TapAssumption == MaxMoves \in Nat

VARIABLES
    auth,         \* useAuthStore: initializing, signed out, without a profile, or signed in
    pendingRoute, \* pendingNotificationRoute
    top,          \* the screen on top, or the lock in place of all
    splash,       \* the splash is mounted, on top or below
    splashTimer,  \* its SPLASH_HOLD_MS timer
    publishing,   \* how many splashes wait for ensureDeviceKeyPublished
    target,       \* what the timer of a splash is about to push
    coldTap,      \* history: where the tap that launched the app should lead
    opened,       \* history: how often it has led there
    missed,       \* history: its screen was pushed while the lock hid the screens
    moves

tapVars == <<auth, pendingRoute, top, splash, splashTimer, publishing, target,
             coldTap, opened, missed, moves>>

\* routeForNotification, for each kind of notification
Taps == {"message", "session_request", "contact_request", "call"}
RouteFor(tap) ==
    CASE tap \in {"message", "session_request"} -> "chat"
      [] tap = "contact_request"                -> "contacts"
      [] OTHER                                  -> "none"

\* The mount effects of _layout.tsx; a tap that launched the app is kept, for
\* auth is not initialized yet.  AppLockGate shows no screen before it has the
\* settings.
TapInit ==
    /\ auth = "initializing"
    /\ coldTap \in {"none"} \cup {RouteFor(tap) : tap \in Taps}
    /\ pendingRoute = coldTap
    /\ top = "lock" /\ splash = FALSE /\ splashTimer = FALSE /\ publishing = 0 /\ target = "none"
    /\ opened = 0 /\ missed = FALSE /\ moves = 0

Move == moves < MaxMoves /\ moves' = moves + 1

\* router.replace and router.push
Locked == top = "lock"
Replace(screen) ==
    /\ top' = IF Locked THEN top ELSE screen
    /\ splash' = (splash /\ top # "splash")
Push(screen) ==
    /\ top' = IF Locked THEN top ELSE screen
    /\ UNCHANGED splash

\* A change of auth starts the timer of a mounted splash anew.
SplashEffect == splashTimer' = splash

\* initialize() is done; the splash's effect starts its timer anew.  A tap of
\* somebody who turns out to be signed out leads nowhere.
Initialized ==
    /\ auth = "initializing"
    /\ auth' \in {"out", "setup", "in"}
    /\ SplashEffect
    /\ coldTap' = IF auth' = "in" THEN coldTap ELSE "none"
    /\ UNCHANGED <<pendingRoute, top, splash, publishing, target, opened, missed, moves>>

SplashTimeout ==
    /\ splashTimer /\ splashTimer' = FALSE
    /\ CASE auth = "out"   -> Replace("onboarding")
         [] auth = "setup" -> Replace("finish-setup")
         [] OTHER          -> UNCHANGED <<top, splash>>
    /\ publishing' = IF auth = "in" THEN publishing + 1 ELSE publishing
    /\ UNCHANGED <<auth, pendingRoute, target, coldTap, opened, missed, moves>>

\* The chat list replaces what is on top, then the kept destination is pushed
\* over it.  A Bad... operator is the same operator with a mistake in it.
BadTake == pendingRoute
Take == "none"

Land ==
    /\ pendingRoute' = Take
    /\ target' = IF pendingRoute = "none" THEN target ELSE pendingRoute

Published ==
    /\ publishing > 0 /\ publishing' = publishing - 1
    /\ Replace("chats") /\ splashTimer' = (splashTimer /\ splash')
    /\ Land
    /\ UNCHANGED <<auth, coldTap, opened, missed, moves>>

PushTarget ==
    /\ target # "none" /\ target' = "none"
    /\ Push(target)
    /\ opened' = IF target = coldTap /\ ~Locked THEN opened + 1 ELSE opened
    /\ missed' = (missed \/ Locked)
    /\ UNCHANGED <<auth, pendingRoute, splashTimer, publishing, coldTap, moves>>

\* handleNavigationNotificationTap while the app runs
WarmTap(tap) ==
    /\ Move
    /\ RouteFor(tap) # "none"
    /\ IF auth = "in" THEN Push(RouteFor(tap)) ELSE UNCHANGED <<top, splash>>
    /\ pendingRoute' = IF auth = "initializing" THEN RouteFor(tap) ELSE pendingRoute
    /\ coldTap' = IF auth = "initializing" THEN RouteFor(tap) ELSE coldTap
    /\ UNCHANGED <<auth, splashTimer, publishing, target, opened, missed>>

\* login and finish-setup replace the screen themselves
SignIn ==
    /\ Move
    /\ top \in {"onboarding", "finish-setup"} /\ Replace("chats") /\ auth' = "in"
    /\ SplashEffect
    /\ UNCHANGED <<pendingRoute, publishing, target, coldTap, opened, missed>>

SignOut ==
    /\ Move
    /\ auth = "in" /\ top \notin {"splash", "lock"}
    /\ auth' = "out" /\ Replace("onboarding") /\ coldTap' = "none"
    /\ SplashEffect
    /\ UNCHANGED <<pendingRoute, publishing, target, opened, missed>>

\* AppLockGate puts the lock in place of the screens, which unmounts them ...
HiddenByLock ==
    /\ Move
    /\ ~Locked /\ top' = "lock" /\ splash' = FALSE /\ splashTimer' = FALSE
    /\ UNCHANGED <<auth, pendingRoute, publishing, target, coldTap, opened, missed>>

\* ... and shows them, from the first one on.
Unlocked ==
    /\ Locked /\ top' = "splash" /\ splash' = TRUE /\ splashTimer' = TRUE
    /\ UNCHANGED <<auth, pendingRoute, publishing, target, coldTap, opened, missed, moves>>

TapNext ==
    \/ Initialized \/ SplashTimeout \/ Published \/ PushTarget
    \/ SignIn \/ SignOut \/ HiddenByLock \/ Unlocked
    \/ \E tap \in Taps : WarmTap(tap)

TapSpec == TapInit /\ [][TapNext]_tapVars
-----------------------------------------------------------------------------
\* The tap that launched the app leads where it should exactly once: it has by
\* the time the splash of a signed-in user has done its work, unless the lock hid the
\* screens just then, and no later splash leads there again
\* (takePendingNotificationRoute).
LandingDone == ~Locked /\ ~splashTimer /\ publishing = 0 /\ target = "none"
ColdTapOnce ==
    /\ opened <= 1
    /\ coldTap # "none" /\ auth = "in" /\ LandingDone /\ ~missed => opened = 1

\* push.ts:220 the destination of a cold start "is kept and opened right after the
\* app lands on the chat list"
KeptUntilOpened == coldTap # "none" /\ auth = "in" /\ LandingDone => opened = 1

\* push.ts:220 if the app is already signed in and running, a tap opens straight away
WarmTapStays == [][publishing > 0 /\ top \in {"chat", "contacts"} => top' # "chats"]_top

\* push.ts:224 pendingNotificationRoute is opened right after that start's chat list
NothingStale == auth = "out" => pendingRoute = "none"
=============================================================================
