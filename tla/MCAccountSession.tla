--------------------------- MODULE MCAccountSession ---------------------------
(* Two accounts that take turns on one phone; neither the accounts nor the *)
(* runs of the listener are told apart.                                    *)
EXTENDS AccountSession, TLC

Symmetry == Permutations(Handlers) \cup Permutations(Accounts)

\* Bound: no socket gets open, since no key and no push depends on the connection.
RelayOutOfReach == ~Ready("open")
=============================================================================
