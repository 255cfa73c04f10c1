-------------------------- MODULE MCRelaySessions --------------------------
(* Instance of RelaySessions for TLC: users and sockets are interchangeable *)
(* in every safety property, so both sets are symmetric.                   *)
EXTENDS RelaySessions, TLC

Symmetry == Permutations(Users) \cup Permutations(Sockets)
=============================================================================
