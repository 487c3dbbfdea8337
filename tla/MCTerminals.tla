---------------------------- MODULE MCTerminals -----------------------------
(* Terminals on small instances. *)
EXTENDS Terminals
=============================================================================
