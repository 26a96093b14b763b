------------------------------ MODULE NoValue -------------------------------
(* What is not there: a column that is NULL, nobody, no job. *)
CONSTANT None
=============================================================================
