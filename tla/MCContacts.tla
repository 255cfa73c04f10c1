----------------------------- MODULE MCContacts -----------------------------
(* Contacts with interchangeable users and calls. *)
EXTENDS Contacts

Symmetry == Permutations(Users) \cup Permutations(Calls)

=============================================================================
