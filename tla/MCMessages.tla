----------------------------- MODULE MCMessages -----------------------------
(* Messages with one writer: its other user only reads, deletes and clears, *)
(* so the two are not interchangeable.                                      *)
EXTENDS Messages

ASSUME Cardinality(Writers) = 1

=============================================================================
