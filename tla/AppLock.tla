------------------------------- MODULE AppLock -------------------------------
(***************************************************************************)
(* The biometric lock around the whole app: components/AppLockGate.tsx and *)
(* lib/appLockLogic.ts, with the setting of settingsStore.ts, which is read *)
(* back some time after the app has started.                               *)
(*                                                                         *)
(* The prompt of the operating system takes its time, and the app may go   *)
(* to the background and come back while it is up.                         *)
(***************************************************************************)
EXTENDS Integers

CONSTANT MaxSwitches  \* bound: going to the background, and the setting changed

ASSUME AppLockAssumption == MaxSwitches \in Nat

VARIABLES
    saved,       \* the stored settings: biometricLock
    loaded,      \* the stored settings have been read
    mounted,     \* the gate has been rendered once
    unlocked,
    asking,      \* authenticating, and how far tryUnlock is: "no", "checking", "prompt"
    front,       \* AppState is active
    due,         \* the timer of the return to the foreground
    vouched,     \* history: the user has shown who they are since the app was last left
    switches

lockVars == <<saved, loaded, mounted, unlocked, asking, front, due, vouched, switches>>

\* What useSettingsStore says: the default until the stored settings are read.
Enabled == loaded /\ saved
Content == loaded /\ (~Enabled \/ unlocked)

\* A Bad... operator is the same operator with a mistake in it, and no action uses it.
BadStartsUnlocked(settingsLoaded, lockEnabled) == ~lockEnabled
StartsUnlocked(settingsLoaded, lockEnabled) == settingsLoaded /\ ~lockEnabled

ShouldLock(lockEnabled, authenticating) == lockEnabled /\ ~authenticating

LockInit ==
    /\ saved \in BOOLEAN
    /\ loaded = FALSE /\ mounted = FALSE /\ unlocked = FALSE /\ asking = "no"
    /\ front = TRUE /\ due = FALSE /\ vouched = FALSE /\ switches = 0

\* tryUnlock, once at a time
TryUnlock == asking' = IF asking = "no" THEN "checking" ELSE asking

\* The effect on [loaded, enabled], for their new values.
SettingsEffect(l, e) ==
    CASE StartsUnlocked(l, e)               -> unlocked' = TRUE /\ UNCHANGED asking
      [] l /\ ~StartsUnlocked(l, e) /\ ~unlocked -> TryUnlock /\ UNCHANGED unlocked
      [] OTHER                              -> UNCHANGED <<unlocked, asking>>

Mount ==
    /\ ~mounted /\ mounted' = TRUE
    /\ SettingsEffect(loaded, Enabled)
    /\ UNCHANGED <<saved, loaded, front, due, vouched, switches>>

\* onFinishHydration
Hydrate ==
    /\ ~loaded /\ loaded' = TRUE
    /\ IF mounted THEN SettingsEffect(TRUE, saved) ELSE UNCHANGED <<unlocked, asking>>
    /\ UNCHANGED <<saved, mounted, front, due, vouched, switches>>

\* hasHardwareAsync and isEnrolledAsync: without biometrics nobody is locked out
Check ==
    /\ asking = "checking"
    /\ \/ asking' = "prompt" /\ UNCHANGED <<unlocked, vouched>>
       \/ asking' = "no" /\ unlocked' = TRUE /\ vouched' = TRUE
    /\ UNCHANGED <<saved, loaded, mounted, front, due, switches>>

Authenticate ==
    /\ asking = "prompt" /\ asking' = "no"
    /\ \/ unlocked' = TRUE /\ vouched' = TRUE
       \/ UNCHANGED <<unlocked, vouched>>
    /\ UNCHANGED <<saved, loaded, mounted, front, due, switches>>

Switch == switches < MaxSwitches /\ switches' = switches + 1

GoToBackground ==
    /\ Switch
    /\ front /\ front' = FALSE
    /\ unlocked' = IF ShouldLock(Enabled, asking # "no") THEN FALSE ELSE unlocked
    /\ vouched' = IF asking = "no" THEN FALSE ELSE vouched
    /\ UNCHANGED <<saved, loaded, mounted, asking, due>>

ComeBack ==
    /\ ~front /\ front' = TRUE
    /\ due' = (due \/ (Enabled /\ asking = "no"))
    /\ UNCHANGED <<saved, loaded, mounted, unlocked, asking, vouched, switches>>

ReturnTimer ==
    /\ due /\ due' = FALSE
    /\ IF Enabled /\ ~unlocked THEN TryUnlock ELSE UNCHANGED asking
    /\ UNCHANGED <<saved, loaded, mounted, unlocked, front, vouched, switches>>

UnlockButton ==
    /\ front /\ loaded /\ mounted /\ ~Content
    /\ asking = "no" /\ TryUnlock
    /\ UNCHANGED <<saved, loaded, mounted, unlocked, front, due, vouched, switches>>

\* the switch of the privacy screen, by one who is using the app
ToggleLock ==
    /\ Switch
    /\ front /\ mounted /\ Content
    /\ saved' = ~saved /\ vouched' = TRUE
    /\ SettingsEffect(loaded, ~saved)
    /\ UNCHANGED <<loaded, mounted, front, due>>

LockNext ==
    \/ Mount \/ Hydrate \/ Check \/ Authenticate
    \/ GoToBackground \/ ComeBack \/ ReturnTimer \/ UnlockButton \/ ToggleLock

LockSpec == LockInit /\ [][LockNext]_lockVars
-----------------------------------------------------------------------------
\* With the lock on, the app in front shows its content only to one who has
\* unlocked it since it was last left: not while the settings load, not after
\* a prompt that failed, and not for a timer or a return that crossed a prompt
\* (AppLockGate's effects and its AppState listener).
ContentVouched == Content /\ saved /\ front => vouched
=============================================================================
