----------------------------- MODULE MCOConnect -----------------------------
(* OConnect on small instances: the pages of one user. *)
EXTENDS OConnect, TLC

CONSTANTS p1, p2, u1

OnePage == p1 :> u1
TwoPages == p1 :> u1 @@ p2 :> u1
=============================================================================
