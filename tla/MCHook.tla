------------------------------- MODULE MCHook -------------------------------
(* Hook on small instances. *)
EXTENDS Hook, TLC

Symmetry == Permutations(Sessions) \cup Permutations(Codes)
=============================================================================
