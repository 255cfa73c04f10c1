------------------------------- MODULE MCWaits -------------------------------
(***************************************************************************)
(* The two places where the app waits for the relay to come round: the     *)
(* user who asked for a chat, and the connection that was lost.  They      *)
(* share no state, so a behaviour moves one of them and leaves the other   *)
(* as it began.                                                            *)
(***************************************************************************)
EXTENDS ChatSessions, RelayLink

VARIABLE part  \* which of the two this behaviour is about

WaitsInit == part \in {"chat", "link"} /\ Init2 /\ LinkInit

WaitsNext ==
    /\ UNCHANGED part
    /\ \/ part = "chat" /\ ChatNext /\ UNCHANGED linkVars
       \/ part = "link" /\ LinkNext /\ UNCHANGED allVars

WaitsSpec == WaitsInit /\ [][WaitsNext]_<<part, allVars, linkVars>> /\ ChatFairness /\ LinkFairness
=============================================================================
