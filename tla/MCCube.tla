------------------------------- MODULE MCCube -------------------------------
(* Cube on small instances. *)
EXTENDS Cube
=============================================================================
