------------------------------- MODULE MCOMail ------------------------------
(* OMail on small instances. *)
EXTENDS OMail, TLC

Symmetry == Permutations(Requests) \cup Permutations(Users) \cup Permutations(Ids)
=============================================================================
