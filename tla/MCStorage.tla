------------------------------ MODULE MCStorage -----------------------------
(* Storage on small instances. *)
EXTENDS Storage, TLC
\* No definition tells two paths or two handlers apart.
Symmetry == Permutations(Paths) \cup Permutations(Requests)
=============================================================================
