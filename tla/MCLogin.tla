------------------------------- MODULE MCLogin ------------------------------
(* Login on small instances. *)
EXTENDS Login
=============================================================================
