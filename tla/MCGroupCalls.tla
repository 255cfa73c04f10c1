---------------------------- MODULE MCGroupCalls ----------------------------
(* Group calls of three members, any of whom may call; the second device   *)
(* asks before it opens the microphone.                                    *)
EXTENDS GroupCalls
=============================================================================
