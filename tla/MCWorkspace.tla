---------------------------- MODULE MCWorkspace -----------------------------
(* Workspace on small instances. *)
EXTENDS Workspace, TLC

\* Names and uploads are interchangeable; the runs have no liveness property.
Symmetry == Permutations(Names) \cup Permutations(Uploads)
=============================================================================
