------------------------------- MODULE Signup -------------------------------
(***************************************************************************)
(* From the signup form to a finished account: the screens of app/(auth),  *)
(* lib/account.ts, lib/username.ts, lib/authDeepLink.ts, signupStore.ts    *)
(* and the profile part of authStore.ts, with the users table and its      *)
(* unique usernames.                                                       *)
(*                                                                         *)
(* The username is chosen before there is an account and stored only after *)
(* the confirmation link has been opened, perhaps by an app started anew.  *)
(* Every call may fail, and a write may succeed and its answer be lost.    *)
(* Passwords and the checks of the other fields are left out.              *)
(***************************************************************************)
EXTENDS Integers, FiniteSets

CONSTANTS
    Names,        \* well-formed usernames people choose
    RandomNames,  \* what generateFriendlyUsername may return
    Attempts,     \* FINALIZE_ATTEMPTS
    MaxEdits, MaxTrouble  \* bounds: edits of the field; failures, restarts, new tokens, renames

ASSUME SignupAssumption == Attempts \in Nat \ {0} /\ MaxEdits \in Nat /\ MaxTrouble \in Nat

VARIABLES
    field,       \* the signup form: the name typed, availability, the debounce timer, lookups under way
    answered,    \* history: the name the last answer shown was about
    edits,
    submitting,  \* onSubmit: the name, and how far it is
    wizard,      \* signupStore.username
    metadata,    \* auth.users: the username kept with the unconfirmed account
    confirmed,   \* auth.users: email_confirmed_at
    taken,       \* users.username of everybody else
    row,         \* users.username of this account, Unset while there is no row
    signedIn, profile, needsSetup,  \* authStore: session, profile, needsProfileSetup
    screen, mount,                  \* the screen on top, and which mount of finish-setup it is
    effectDue,   \* the effect of finish-setup is to run
    setups,      \* finalizeAccountWithRetry calls under way
    refreshes,   \* the auth listener's refreshProfile calls under way
    entering,    \* login and reset-password wait for refreshProfile
    redirect,    \* handleAuthDeepLink has a session and is about to navigate
    picked,      \* history: the names the user submitted
    refused,     \* history: the names the database said were taken
    trouble

signupVars == <<field, answered, edits, submitting, wizard, metadata, confirmed, taken, row, signedIn, profile,
                needsSetup, screen, mount, effectDue, setups, refreshes, entering, redirect, picked, refused, trouble>>
form == <<field, answered, edits, submitting>>
store == <<signedIn, profile, needsSetup, refreshes>>
database == <<metadata, confirmed, taken, row>>
steps == <<setups, entering, redirect>>
history == <<picked, refused>>

Unset == "unset"
Malformed == "malformed"
EmptyForm == [name |-> Unset, shown |-> "idle", timer |-> FALSE, lookups |-> {}]
NoSubmit == [name |-> Unset, step |-> "none"]

SignupInit ==
    /\ field = EmptyForm /\ answered = Unset /\ edits = 0 /\ submitting = NoSubmit
    /\ wizard = Unset /\ metadata = Unset /\ confirmed = FALSE /\ taken = {} /\ row = Unset
    /\ signedIn = FALSE /\ profile = Unset /\ needsSetup = FALSE
    /\ screen = "signup" /\ mount = 0 /\ effectDue = FALSE
    /\ setups = {} /\ refreshes = 0 /\ entering = FALSE /\ redirect = FALSE
    /\ picked = {} /\ refused = {} /\ trouble = 0

Smooth == UNCHANGED trouble
Trouble == trouble < MaxTrouble /\ trouble' = trouble + 1

Show(next) == screen' = next /\ effectDue' = FALSE /\ UNCHANGED mount
ShowSetup == screen' = "finish-setup" /\ mount' = mount + 1 /\ effectDue' = TRUE
Stay == UNCHANGED <<screen, mount, effectDue>>
\* The session or the profile is another object: the effect of finish-setup runs again.
StayAndRerun == UNCHANGED <<screen, mount>> /\ effectDue' = (screen = "finish-setup")

\* A call fails, or it does not.
Call(fails) == IF fails THEN Trouble ELSE Smooth

\* username_taken; a failed lookup says "not taken".
IsUsernameTaken(name, own, fails) == ~fails /\ name \in taken \cup own
-----------------------------------------------------------------------------
\* The form.  An edit ends the previous effect: its timer is cleared, its
\* answer no longer welcome.
Type(name) ==
    /\ screen = "signup" /\ edits < MaxEdits /\ name # field.name
    /\ edits' = edits + 1
    /\ field' = [field EXCEPT !.name = name, !.timer = name \in Names,
                              !.shown = CASE name = Unset     -> "idle"
                                          [] name = Malformed -> "invalid"
                                          [] OTHER            -> "checking"]
    /\ Stay /\ Smooth
    /\ UNCHANGED <<answered, submitting, wizard, database, store, steps, history>>

Debounced(fails) ==
    /\ field.timer
    /\ field' = [field EXCEPT !.timer = FALSE,
                    !.lookups = @ \cup {[edit |-> edits, name |-> field.name,
                                         says |-> IsUsernameTaken(field.name, {row}, fails)]}]
    /\ Call(fails) /\ Stay
    /\ UNCHANGED <<answered, edits, submitting, wizard, database, store, steps, history>>

\* A Bad... operator is the same operator with a mistake in it, and no action uses it.
BadWelcome(lookup) == field.name # Unset
Welcome(lookup) == lookup.edit = edits

LookupAnswered(lookup) ==
    /\ lookup \in field.lookups
    /\ field' = [field EXCEPT !.lookups = @ \ {lookup},
                    !.shown = IF ~Welcome(lookup) THEN @ ELSE IF lookup.says THEN "taken" ELSE "available"]
    /\ answered' = IF Welcome(lookup) THEN lookup.name ELSE answered
    /\ Stay /\ Smooth
    /\ UNCHANGED <<edits, submitting, wizard, database, store, steps, history>>

Submit ==
    /\ screen = "signup" /\ submitting = NoSubmit /\ field.shown = "available"
    /\ submitting' = [name |-> field.name, step |-> "lookup"]
    /\ picked' = picked \cup {field.name}
    /\ Stay /\ Smooth
    /\ UNCHANGED <<field, answered, edits, wizard, database, store, steps, refused>>

SubmitLookup(fails) ==
    /\ submitting.step = "lookup"
    /\ IF IsUsernameTaken(submitting.name, {row}, fails)
       THEN submitting' = NoSubmit /\ field' = [field EXCEPT !.shown = "taken"]
       ELSE submitting' = [submitting EXCEPT !.step = "signUp"] /\ UNCHANGED field
    /\ Call(fails) /\ Stay
    /\ UNCHANGED <<answered, edits, wizard, database, store, steps, history>>

\* supabase.auth.signUp leaves an account that exists as it is.
SignUp(fails) ==
    /\ submitting.step = "signUp" /\ submitting' = NoSubmit
    /\ metadata' \in {IF metadata = Unset THEN submitting.name ELSE metadata} \cup (IF fails THEN {metadata} ELSE {})
    /\ IF fails THEN Stay /\ UNCHANGED wizard ELSE Show("verify-email") /\ wizard' = submitting.name
    /\ Call(fails)
    /\ UNCHANGED <<field, answered, edits, confirmed, taken, row, store, steps, history>>

GoBack ==
    /\ screen = "verify-email" /\ Show("signup") /\ Smooth
    /\ UNCHANGED <<form, wizard, database, store, steps, history>>
-----------------------------------------------------------------------------
\* The session: a confirmation link, a password, a new token.  The listener of
\* authStore asks for the profile each time.
NewSession == signedIn' = TRUE /\ refreshes' = refreshes + 1 /\ UNCHANGED <<profile, needsSetup>>

\* handleAuthDeepLink; verify-email leaves as soon as it sees the session.
LinkOpened ==
    /\ metadata # Unset /\ ~confirmed
    /\ confirmed' = TRUE /\ NewSession /\ redirect' = TRUE
    /\ IF screen = "verify-email" THEN ShowSetup ELSE StayAndRerun
    /\ Smooth
    /\ UNCHANGED <<form, wizard, metadata, taken, row, setups, entering, history>>

Redirect ==
    /\ redirect /\ redirect' = FALSE /\ ShowSetup /\ Smooth
    /\ UNCHANGED <<form, wizard, database, store, setups, entering, history>>

NewToken ==
    /\ signedIn /\ refreshes = 0 /\ NewSession /\ StayAndRerun /\ Trouble
    /\ UNCHANGED <<form, wizard, database, steps, history>>

\* login, and reset-password after its link: both wait for the profile.
LogIn ==
    /\ confirmed /\ screen = "onboarding" /\ ~entering
    /\ entering' = TRUE /\ NewSession /\ Stay /\ Trouble
    /\ UNCHANGED <<form, wizard, database, setups, redirect, history>>

GoToSignup ==
    /\ screen = "onboarding" /\ ~signedIn /\ ~confirmed /\ Show("signup") /\ Trouble
    /\ UNCHANGED <<form, wizard, database, store, steps, history>>

\* refreshProfile, read and stored in one step; a failure leaves everything as it was.
RefreshProfile(fails) ==
    /\ profile' = IF fails THEN profile ELSE row
    /\ needsSetup' = IF fails THEN needsSetup ELSE row = Unset
    /\ UNCHANGED signedIn
    /\ Call(fails)

Refreshed(fails) ==
    /\ refreshes > 0 /\ refreshes' = refreshes - 1
    /\ RefreshProfile(fails) /\ StayAndRerun
    /\ UNCHANGED <<form, wizard, database, steps, history>>

Enter(fails) ==
    /\ entering /\ entering' = FALSE
    /\ RefreshProfile(fails)
    /\ IF needsSetup' THEN ShowSetup ELSE Show("chats")
    /\ UNCHANGED <<form, wizard, database, refreshes, setups, redirect, history>>
-----------------------------------------------------------------------------
\* finish-setup.  While finalizeAccountWithRetry runs, this mount starts no other.
Finalizing == \E s \in setups : s.mount = mount /\ s.step = "ask"

BadPending == IF wizard # Unset THEN {wizard} ELSE RandomNames
Pending == IF wizard # Unset THEN {wizard} ELSE IF metadata # Unset THEN {metadata} ELSE RandomNames

FinishSetup ==
    /\ screen = "finish-setup" /\ effectDue
    /\ \/ ~signedIn /\ Show("onboarding") /\ UNCHANGED setups
       \/ /\ signedIn /\ profile = Unset /\ ~Finalizing
          /\ \E name \in Pending :
                setups' = setups \cup {[mount |-> mount, step |-> "ask", name |-> name, left |-> Attempts]}
          /\ effectDue' = FALSE /\ UNCHANGED <<screen, mount>>
       \/ /\ signedIn /\ profile = Unset /\ Finalizing
          /\ effectDue' = FALSE /\ UNCHANGED <<screen, mount, setups>>
       \/ signedIn /\ profile # Unset /\ Show("chats") /\ UNCHANGED setups
    /\ Smooth
    /\ UNCHANGED <<form, wizard, database, store, entering, redirect, history>>

\* The name of the next attempt: isUsernameCollision decides.
BadNextName(s, collision) == RandomNames
NextName(s, collision) == IF collision THEN RandomNames ELSE {s.name}

\* The last failure is thrown: an alert, and the onboarding screen.
Again(s, collision) ==
    IF s.left > 1
    THEN /\ \E name \in NextName(s, collision) :
              setups' = (setups \ {s}) \cup {[s EXCEPT !.name = name, !.left = @ - 1]}
         /\ Stay
    ELSE setups' = setups \ {s} /\ Show("onboarding")

\* finalizeAccount: the upsert on the account's id
Finalize(s) ==
    /\ s \in setups /\ s.step = "ask"
    /\ \/ /\ s.name \in taken
          /\ refused' = refused \cup {s.name} /\ UNCHANGED row
          /\ Again(s, TRUE) /\ Smooth
       \/ /\ s.name \notin taken /\ row' = s.name
          /\ setups' = (setups \ {s}) \cup {[s EXCEPT !.step = "refresh"]}
          /\ Stay /\ Smooth /\ UNCHANGED refused
       \/ /\ row' \in {row} \cup ({s.name} \ taken)
          /\ Again(s, FALSE) /\ Trouble /\ UNCHANGED refused
    /\ UNCHANGED <<form, wizard, metadata, confirmed, taken, store, entering, redirect, picked>>

SetupRefreshed(s, fails) ==
    /\ s \in setups /\ s.step = "refresh" /\ setups' = setups \ {s}
    /\ RefreshProfile(fails) /\ StayAndRerun
    /\ wizard' = Unset
    /\ UNCHANGED <<form, database, refreshes, entering, redirect, history>>
-----------------------------------------------------------------------------
\* changeUsername in Settings: the lookup leaves the own row out, the unique
\* constraint has the last word.
ChangeUsername(name, fails) ==
    /\ screen = "chats" /\ signedIn /\ name # profile /\ name \notin taken
    /\ row' \in {name} \cup (IF fails THEN {row} ELSE {})
    /\ row # Unset
    /\ profile' = IF fails \/ profile = Unset THEN profile ELSE name
    /\ picked' = picked \cup {name}
    /\ Stay /\ Trouble
    /\ UNCHANGED <<form, wizard, metadata, confirmed, taken, signedIn, needsSetup, refreshes, steps, refused>>

SomebodyTakes(name) ==
    /\ name \notin taken \cup {row} /\ taken' = taken \cup {name}
    /\ Stay /\ Smooth
    /\ UNCHANGED <<form, wizard, metadata, confirmed, row, store, steps, history>>

\* The app is killed and started: initialize() and the splash route.
Restart(fails) ==
    /\ trouble < MaxTrouble /\ trouble' = trouble + 1
    /\ field' = EmptyForm /\ answered' = Unset /\ submitting' = NoSubmit /\ wizard' = Unset
    /\ setups' = {} /\ refreshes' = 0 /\ entering' = FALSE /\ redirect' = FALSE
    /\ profile' = IF signedIn /\ ~fails THEN row ELSE Unset
    /\ needsSetup' = (signedIn /\ ~fails /\ row = Unset)
    /\ IF needsSetup' THEN ShowSetup ELSE Show(IF signedIn THEN "chats" ELSE "onboarding")
    /\ UNCHANGED <<edits, signedIn, database, history>>

SignupNext ==
    \/ Submit \/ GoBack \/ LinkOpened \/ Redirect \/ NewToken \/ LogIn \/ GoToSignup \/ FinishSetup
    \/ \E name \in Names \cup {Unset, Malformed} : Type(name)
    \/ \E lookup \in field.lookups : LookupAnswered(lookup)
    \/ \E s \in setups : Finalize(s)
    \/ \E name \in Names : SomebodyTakes(name) \/ \E fails \in BOOLEAN : ChangeUsername(name, fails)
    \/ \E fails \in BOOLEAN :
          \/ Debounced(fails) \/ SubmitLookup(fails) \/ SignUp(fails)
          \/ Refreshed(fails) \/ Enter(fails) \/ Restart(fails)
          \/ \E s \in setups : SetupRefreshed(s, fails)

SignupSpec == SignupInit /\ [][SignupNext]_signupVars
-----------------------------------------------------------------------------
\* "Available" is said of the name that stands in the field, never of one
\* typed before it (signup.tsx, the cancelled flag of the availability check).
AvailableIsTyped == field.shown = "available" => answered = field.name

\* The account carries a name its user picked, unless the database has refused
\* one of those: no failure, lost answer, restart or second finish-setup screen
\* replaces it by a random one (finalizeAccountWithRetry).
PickedNameKept == row \in picked \cup {Unset} \/ picked \cap refused # {}

\* Somebody on the finish-setup screen is never left there for good by a call
\* that failed: something is always under way that leads on from it
\* (finish-setup.tsx:104).
SetupMovesOn ==
    screen = "finish-setup" => effectDue \/ redirect \/ entering \/ refreshes > 0 \/ \E s \in setups : s.mount = mount
=============================================================================
