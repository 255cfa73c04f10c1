------------------------------- MODULE MCParts -------------------------------
(***************************************************************************)
(* The smaller parts of the app, side by side.  They share no state: a     *)
(* behaviour moves one of them, and leaves the others as they began.       *)
(***************************************************************************)
EXTENDS GroupChat, TapRouting, CallScreens, ChatScreen, VideoPick, Signup,
        LocalDb, HistoryPages, DeviceKeys

VARIABLE part  \* which of them this behaviour is about

messageParts == <<groupChatVars, historyVars, dbVars, deviceKeyVars>>
phoneParts == <<tapVars, callScreenVars, chatScreenVars, videoVars, signupVars>>

\* Where a part may begin in several ways, the others see it begin in one.
OneBeginning ==
    /\ part = "chat"   \/ (saved = FALSE /\ accepted = FALSE)
    /\ part = "taps"   \/ coldTap = "none"
    /\ part = "video"  \/ native = "bare"

PartsInit ==
    /\ part \in {"groups", "history", "db", "keys", "taps",
                 "screens", "chat", "video", "signup"}
    /\ GroupChatInit /\ HistoryInit /\ LocalDbInit /\ DeviceKeysInit
    /\ TapInit /\ ScreensInit /\ ChatScreenInit /\ VideoInit /\ SignupInit
    /\ OneBeginning

MessagePart ==
    /\ UNCHANGED <<part, phoneParts>>
    /\ \/ part = "groups"  /\ GroupChatNext  /\ UNCHANGED <<historyVars, dbVars, deviceKeyVars>>
       \/ part = "history" /\ HistoryNext    /\ UNCHANGED <<groupChatVars, dbVars, deviceKeyVars>>
       \/ part = "db"      /\ LocalDbNext    /\ UNCHANGED <<groupChatVars, historyVars, deviceKeyVars>>
       \/ part = "keys"    /\ DeviceKeysNext /\ UNCHANGED <<groupChatVars, historyVars, dbVars>>

PhonePart ==
    /\ UNCHANGED <<part, messageParts>>
    /\ \/ /\ part = "taps" /\ TapNext
          /\ UNCHANGED <<callScreenVars, chatScreenVars, videoVars, signupVars>>
       \/ /\ part = "screens" /\ ScreensNext
          /\ UNCHANGED <<tapVars, chatScreenVars, videoVars, signupVars>>
       \/ /\ part = "chat" /\ ChatScreenNext
          /\ UNCHANGED <<tapVars, callScreenVars, videoVars, signupVars>>
       \/ /\ part = "video" /\ VideoNext
          /\ UNCHANGED <<tapVars, callScreenVars, chatScreenVars, signupVars>>
       \/ /\ part = "signup" /\ SignupNext
          /\ UNCHANGED <<tapVars, callScreenVars, chatScreenVars, videoVars>>

PartsNext == MessagePart \/ PhonePart

PartsSpec == PartsInit /\ [][PartsNext]_<<part, messageParts, phoneParts>>
=============================================================================
