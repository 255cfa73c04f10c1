------------------------------ MODULE MCCalls ------------------------------
(* Calls with interchangeable users. *)
EXTENDS Calls

Symmetry == Permutations(Users)

=============================================================================
